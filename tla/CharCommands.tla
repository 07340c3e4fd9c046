---------------------------- MODULE CharCommands ----------------------------
(***************************************************************************)
(* The character card command of dice/exts/ext_core.go (.pc new, rename,   *)
(* tag, load, save, untagall, del) and the edits of .st, for one user who  *)
(* sends messages in several groups.                                       *)
(*                                                                         *)
(* Every message is handled in a goroutine of its own, and a command is a  *)
(* sequence of calls of AttrsManager with nothing held between them: here  *)
(* each call is one step.  What happens inside a call is the subject of    *)
(* AttrsCache and BuntAttrs.  A card's attributes are one value, Blank     *)
(* when there are none.  The default card a user has in a group stands     *)
(* under the group's own name.  Player names and replies are left out: a   *)
(* name the command takes from the player is among all names.              *)
(***************************************************************************)
EXTENDS Integers, FiniteSets

CONSTANTS
  Handlers,     \* goroutines handling a message of the user
  Groups,
  Cards,        \* ids CharNew gives out
  Names,        \* names of cards
  Data,         \* attributes a card may hold
  Blank,        \* no attributes
  Objs,         \* AttributesItem objects
  Null, Absent, NoName,
  IoMayFail,    \* the store may return an error
  MaxCommands   \* bound on the commands of a behaviour

ASSUME BlankAssumption == Blank \notin Data /\ NoName \notin Names
ASSUME NullAssumption  == Null \notin Objs \cup Cards \cup Groups \cup Names
ASSUME BoundAssumption == MaxCommands \in Nat /\ IoMayFail \in BOOLEAN
\* There is always room for one object more than can be in use.
ASSUME ObjsAssumption  ==
  /\ IsFiniteSet(Cards) /\ IsFiniteSet(Groups) /\ IsFiniteSet(Handlers)
  /\ IsFiniteSet(Objs) => Cardinality(Objs) > Cardinality(Cards \cup Groups) + 2 * Cardinality(Handlers)

VARIABLES
  stored,   \* the card the store holds under each id
  bound,    \* the card each group is bound to
  cache,    \* AttrsManager.m
  heap,     \* the objects
  job,      \* what each handler is doing
  issued,   \* ids CharNew has given out
  ran,      \* commands begun
  clash     \* history: names given by commands that overlapped or met an error

vars == <<stored, bound, cache, heap, job, issued, ran, clash>>

Ids     == Cards \cup Groups
Values  == Data \cup {Blank}
Items   == [owned : BOOLEAN, name : Names \cup {NoName}, data : Values]
Objects == [id : Ids, owned : BOOLEAN, name : Names \cup {NoName}, data : Values, saved : BOOLEAN]

ASSUME ValuesAssumption == Null \notin Objects /\ Absent \notin Items

\* The steps of a command, each with the one that follows.  `tag` and `untag` are .pc tag with
\* and without a name, and so on.
After ==
  [new |-> "newPuts", newPuts |-> "newBind",
   rename |-> "renameCheck", renameBound |-> "renameCheck", renameCheck |-> "renameLoad", renameLoad |-> "renameSave",
   tag |-> "tagBind", untag |-> "untagUnbind", untagUnbind |-> "untagLoad",
   load |-> "loadCur", loadCur |-> "loadSrc", loadSrc |-> "loadClear", loadClear |-> "loadCopy", loadCopy |-> "loadSave",
   save |-> "saveNew", saveNew |-> "saveCur", saveCur |-> "saveObj", saveObj |-> "saveCopy", saveCopy |-> "saveSave",
   untagall |-> "unbindAll", untagallBound |-> "unbindAll", del |-> "delList", delList |-> "delete", st |-> "stStore"]

Steps == DOMAIN After \cup {After[s] : s \in DOMAIN After}

Named == {"new", "rename", "tag", "load", "save", "untagall", "del"}
Commands == Named \cup {"renameBound", "untag", "untagallBound", "st"}

\* name and other: the arguments; id: charId; cur, src: the objects the command keeps.
\* History: alone, no other command overlapped so far; blind, an error of the store was taken
\* for an answer; was, what the card to copy held when the command came to it.
Idle == [pc |-> "idle", g |-> Null, name |-> Null, other |-> Null, id |-> Null, cur |-> Null, src |-> Null,
         alone |-> TRUE, blind |-> FALSE, was |-> Blank]

TypeOK ==
  /\ stored \in [Ids -> Items \cup {Absent}]
  /\ bound \in [Groups -> Cards \cup {Null}]
  /\ cache \in [Ids -> Objs \cup {Null}]
  /\ heap \in [Objs -> Objects \cup {Null}]
  /\ job \in [Handlers -> [pc : Steps \cup {"idle"}, g : Groups \cup {Null}, name : Names \cup {Null},
                other : Names \cup {Null}, id : Ids \cup {Null}, cur : Objs \cup {Null}, src : Objs \cup {Null},
                alone : BOOLEAN, blind : BOOLEAN, was : Values]]
  /\ issued \subseteq Cards /\ ran \in 0..MaxCommands /\ clash \subseteq Names
  /\ \A id \in Ids : cache[id] # Null => heap[cache[id]] # Null /\ heap[cache[id]].id = id
-----------------------------------------------------------------------------
At(h, steps) == job[h].pc \in steps
Continue(h)  == job' = [job EXCEPT ![h].pc = After[@]]
Finish(h)    == job' = [job EXCEPT ![h] = Idle]

Bearers(n) == {c \in Cards : stored[c] # Absent /\ stored[c].owned /\ stored[c].name = n}

Free(o) == (\A id \in Ids : cache[id] # o) /\ (\A h \in Handlers : job[h].cur # o /\ job[h].src # o)
Fresh   == CHOOSE o \in Objs : Free(o)

MadeUp(id) == [id |-> id, owned |-> FALSE, name |-> NoName, data |-> Blank, saved |-> FALSE]

AsStored(id) == [id |-> id, owned |-> stored[id].owned, name |-> stored[id].name, data |-> stored[id].data, saved |-> TRUE]

\* What LoadById may return for id: the object, what it holds, and whether an error hid the card.
Loaded(id) ==
  IF cache[id] # Null THEN {[obj |-> cache[id], value |-> heap[cache[id]], err |-> FALSE]}
  ELSE {[obj |-> Fresh, err |-> err, value |-> IF err \/ stored[id] = Absent THEN MadeUp(id) ELSE AsStored(id)] :
          err \in {FALSE} \cup (IF stored[id] # Absent THEN {IoMayFail} ELSE {})}

\* The card bound in group g, or the default card there, also when the binding cannot be read.
Current(g) == IF bound[g] = Null THEN g ELSE bound[g]
CurrentRead(g) == {Current(g)} \cup (IF IoMayFail THEN {g} ELSE {})

NoteClash(h, n) == clash' = IF job[h].alone /\ ~job[h].blind THEN clash ELSE clash \cup {n}
-----------------------------------------------------------------------------
\* The store holds what earlier commands left: cards of different names, and bindings to them.
Init ==
  /\ stored \in [Ids -> [owned : {TRUE}, name : Names, data : Values]
                        \cup [owned : {FALSE}, name : {NoName}, data : Data] \cup {Absent}]
  /\ \A id \in Ids : stored[id] # Absent => (stored[id].owned <=> id \in Cards)
  /\ \A n \in Names : \A c, d \in Bearers(n) : c = d
  /\ issued = {c \in Cards : stored[c] # Absent}
  /\ bound \in [Groups -> issued \cup {Null}]
  /\ cache = [id \in Ids |-> Null]
  /\ heap = [o \in Objs |-> Null]
  /\ job = [h \in Handlers |-> Idle]
  /\ ran = 0 /\ clash = {}

\* A message arrives.
Begin(h, c, g, n, m) ==
  /\ At(h, {"idle"}) /\ ran < MaxCommands
  /\ (n # Null) <=> (c \in Named)
  /\ (m # Null) <=> (c \in {"rename", "renameBound"})
  /\ ran' = ran + 1
  /\ LET others == {i \in Handlers \ {h} : ~At(i, {"idle"})} IN
     job' = [i \in Handlers |->
               IF i = h THEN [Idle EXCEPT !.pc = c, !.g = g, !.name = n, !.other = m, !.alone = (others = {})]
               ELSE IF i \in others THEN [job[i] EXCEPT !.alone = FALSE] ELSE job[i]]
  /\ UNCHANGED <<stored, bound, cache, heap, issued, clash>>

\* A call returns an error, and lo.Must makes it a panic that ends the command.
CallFails(h) ==
  /\ IoMayFail
  /\ At(h, {"newPuts", "newBind", "tag", "tagBind", "untagUnbind", "load", "loadSave", "saveSave", "renameSave", "delete"})
  /\ Finish(h)
  /\ clash' = IF At(h, {"renameSave"}) THEN clash \cup {job[h].other} ELSE clash
  /\ UNCHANGED <<stored, bound, cache, heap, issued, ran>>

\* CharIdGetByName, or CharGetBindingId when no name is given; with no card the command ends,
\* also where it drops the error of the lookup.
Find(h) ==
  /\ At(h, {"rename", "tag", "load", "untagall", "del", "renameBound", "untag", "untagallBound"})
  /\ LET n == job[h].name
         found == IF n = Null THEN {bound[job[h].g]} \ {Null} ELSE Bearers(n)
     IN  \/ \E c \in found : job' = [job EXCEPT ![h].pc = After[@], ![h].id = c, ![h].name = Null]
         \/ found = {} /\ Finish(h)
         \/ IoMayFail /\ Finish(h)
  /\ UNCHANGED <<stored, bound, cache, heap, issued, ran, clash>>

\* Mutant: .pc rename does not look whether the new name is taken.
CheckNameNotOnRename(h) ==
  /\ At(h, {"new", "save", "renameCheck"})
  /\ \/ Bearers(job[h].name) # {} /\ ~At(h, {"renameCheck"}) /\ Finish(h)
     \/ Bearers(job[h].name) = {} /\ Continue(h)
     \/ At(h, {"renameCheck"}) /\ Continue(h)
  /\ UNCHANGED <<stored, bound, cache, heap, issued, ran, clash>>

\* CharCheckExists: a name already taken ends the command; an error reads as not taken.
CheckName(h) ==
  /\ At(h, {"new", "save", "renameCheck"})
  /\ LET n == IF At(h, {"renameCheck"}) THEN job[h].other ELSE job[h].name IN
     \/ Bearers(n) # {} /\ Finish(h)
     \/ Bearers(n) = {} /\ Continue(h)
     \/ IoMayFail /\ job' = [job EXCEPT ![h].pc = After[@], ![h].blind = TRUE]
  /\ UNCHANGED <<stored, bound, cache, heap, issued, ran, clash>>
-----------------------------------------------------------------------------
(* .pc new, .pc tag, .pc save, .pc load *)

\* CharNew
NewCard(h, c) ==
  /\ At(h, {"newPuts", "saveNew"}) /\ c \in Cards \ issued
  /\ LET card == [owned |-> TRUE, name |-> job[h].name, data |-> Blank] IN
     /\ stored' = [stored EXCEPT ![c] = card]
     /\ cache' = [cache EXCEPT ![c] = Fresh]
     /\ heap' = [heap EXCEPT ![Fresh] = [id |-> c, owned |-> TRUE, name |-> job[h].name, data |-> Blank, saved |-> TRUE]]
  /\ issued' = issued \cup {c}
  /\ job' = [job EXCEPT ![h].pc = After[@], ![h].id = c]
  /\ NoteClash(h, job[h].name)
  /\ UNCHANGED <<bound, ran>>

\* `newItem, _ := am.CharNew(...)`: with no card the command still loads the current one.
SaveNewFails(h) ==
  /\ At(h, {"saveNew"}) /\ IoMayFail
  /\ \E id \in CurrentRead(job[h].g) : \E l \in Loaded(id) :
       cache' = [cache EXCEPT ![id] = l.obj] /\ heap' = [heap EXCEPT ![l.obj] = l.value]
  /\ Finish(h)
  /\ UNCHANGED <<stored, bound, issued, ran, clash>>

\* Mutant: the group's id is bound in place of the card's.
BindGroup(h) ==
  /\ At(h, {"newBind", "tagBind"})
  /\ bound' = IF stored[job[h].id] = Absent THEN bound ELSE [bound EXCEPT ![job[h].g] = job[h].g]
  /\ Finish(h)
  /\ UNCHANGED <<stored, cache, heap, issued, ran, clash>>

\* CharBind; the store refuses a card that is no longer there.
BindCard(h) ==
  /\ At(h, {"newBind", "tagBind"})
  /\ bound' = IF stored[job[h].id] = Absent THEN bound ELSE [bound EXCEPT ![job[h].g] = job[h].id]
  /\ Finish(h)
  /\ UNCHANGED <<stored, cache, heap, issued, ran, clash>>

\* am.Load, in one step: the card .pc load fills, .pc save copies and .st edits.
LoadCurrent(h) ==
  /\ At(h, {"loadCur", "saveCur", "st"})
  /\ \E id \in CurrentRead(job[h].g) : \E l \in Loaded(id) :
       /\ cache' = [cache EXCEPT ![id] = l.obj]
       /\ heap' = [heap EXCEPT ![l.obj] = l.value]
       /\ job' = [job EXCEPT ![h].pc = After[@], ![h].cur = l.obj, ![h].was = l.value.data,
                               ![h].blind = @ \/ l.err \/ id # Current(job[h].g)]
  /\ UNCHANGED <<stored, bound, issued, ran, clash>>

\* am.LoadById(charId): the card .pc load copies.
LoadSource(h) ==
  /\ At(h, {"loadSrc"})
  /\ \E l \in Loaded(job[h].id) :
       /\ cache' = [cache EXCEPT ![job[h].id] = l.obj]
       /\ heap' = [heap EXCEPT ![l.obj] = l.value]
       /\ job' = [job EXCEPT ![h].pc = After[@], ![h].src = l.obj, ![h].blind = @ \/ l.err, ![h].was = l.value.data]
  /\ UNCHANGED <<stored, bound, issued, ran, clash>>

\* am.LoadById(newItem.ID): the card .pc save fills, from the current one.
LoadTarget(h) ==
  /\ At(h, {"saveObj"})
  /\ \E l \in Loaded(job[h].id) :
       /\ cache' = [cache EXCEPT ![job[h].id] = l.obj]
       /\ heap' = [heap EXCEPT ![l.obj] = l.value]
       /\ job' = [job EXCEPT ![h].pc = After[@], ![h].src = job[h].cur, ![h].cur = l.obj, ![h].blind = @ \/ l.err]
  /\ UNCHANGED <<stored, bound, issued, ran, clash>>

LoadClear(h) ==
  /\ At(h, {"loadClear"})
  /\ heap' = [heap EXCEPT ![job[h].cur].data = Blank, ![job[h].cur].saved = FALSE]
  /\ Continue(h)
  /\ UNCHANGED <<stored, bound, cache, issued, ran, clash>>

\* src.Range(cur.Store), which stores nothing when src is empty.
CopyAttributes(h) ==
  /\ At(h, {"loadCopy", "saveCopy"})
  /\ LET d == heap[job[h].src].data IN
     heap' = IF d = Blank THEN heap ELSE [heap EXCEPT ![job[h].cur].data = d, ![job[h].cur].saved = FALSE]
  /\ Continue(h)
  /\ UNCHANGED <<stored, bound, cache, issued, ran, clash>>

Put(o) ==
  /\ stored' = [stored EXCEPT ![heap[o].id] = [owned |-> heap[o].owned, name |-> heap[o].name, data |-> heap[o].data]]
  /\ heap' = [heap EXCEPT ![o].saved = TRUE]
  /\ cache' = [cache EXCEPT ![heap[o].id] = o]

\* Mutant: .pc load and .pc save save the card the attributes came from.
SaveSource(h) ==
  /\ At(h, {"loadSave", "saveSave", "renameSave"})
  /\ Put(IF At(h, {"renameSave"}) THEN job[h].cur ELSE job[h].src)
  /\ Finish(h)
  /\ UNCHANGED <<bound, issued, ran, clash>>

\* am.Save, the last call of load, save and rename.
SaveCard(h) ==
  /\ At(h, {"loadSave", "saveSave", "renameSave"})
  /\ Put(job[h].cur)
  /\ Finish(h)
  /\ UNCHANGED <<bound, issued, ran, clash>>
-----------------------------------------------------------------------------
(* .pc rename, .pc tag without a name, .pc untagall, .pc del, .st, the saver *)

\* am.LoadById(charId), and its Name is the new one at once, saved or not.
RenameLoad(h) ==
  /\ At(h, {"renameLoad"})
  /\ \E l \in Loaded(job[h].id) :
       /\ cache' = [cache EXCEPT ![job[h].id] = l.obj]
       /\ heap' = [heap EXCEPT ![l.obj] = [l.value EXCEPT !.name = job[h].other]]
       /\ job' = [job EXCEPT ![h].pc = After[@], ![h].cur = l.obj]
  /\ NoteClash(h, job[h].other)
  /\ UNCHANGED <<stored, bound, issued, ran>>

UnbindCard(h) ==
  /\ At(h, {"untagUnbind"})
  /\ bound' = [bound EXCEPT ![job[h].g] = Null]
  /\ Continue(h)
  /\ UNCHANGED <<stored, cache, heap, issued, ran, clash>>

\* am.LoadById(charId), for the name to show.
UntagLoad(h) ==
  /\ At(h, {"untagLoad"})
  /\ \E l \in Loaded(job[h].id) : cache' = [cache EXCEPT ![job[h].id] = l.obj] /\ heap' = [heap EXCEPT ![l.obj] = l.value]
  /\ Finish(h)
  /\ UNCHANGED <<stored, bound, issued, ran, clash>>

Unbound(id) == [g \in Groups |-> IF bound[g] = id THEN Null ELSE bound[g]]

\* CharUnbindAll; an error unbinds nothing.
UnbindAll(h) ==
  /\ At(h, {"unbindAll"})
  /\ bound' \in {Unbound(job[h].id)} \cup (IF IoMayFail THEN {bound} ELSE {})
  /\ Finish(h)
  /\ UNCHANGED <<stored, cache, heap, issued, ran, clash>>

\* Mutant: .pc del looks at the group it was sent in only.
DelListHere(h) ==
  /\ At(h, {"delList"})
  /\ IF bound[job[h].g] = job[h].id THEN Finish(h) ELSE Continue(h)
  /\ UNCHANGED <<stored, bound, cache, heap, issued, ran, clash>>

\* CharGetBindingGroupIdList: a bound card is not deleted; an error reads as not bound.
DelList(h) ==
  /\ At(h, {"delList"})
  /\ \/ IF \E g \in Groups : bound[g] = job[h].id THEN Finish(h) ELSE Continue(h)
     \/ IoMayFail /\ job' = [job EXCEPT ![h].pc = After[@], ![h].blind = TRUE]
  /\ UNCHANGED <<stored, bound, cache, heap, issued, ran, clash>>

\* CharDelete
DeleteCard(h) ==
  /\ At(h, {"delete"})
  /\ IF stored[job[h].id] = Absent THEN UNCHANGED <<stored, bound, cache>>
     ELSE /\ stored' = [stored EXCEPT ![job[h].id] = Absent]
          /\ bound' = Unbound(job[h].id)
          /\ cache' = [cache EXCEPT ![job[h].id] = Null]
  /\ Finish(h)
  /\ UNCHANGED <<heap, issued, ran, clash>>

StoreAttribute(h, d) ==
  /\ At(h, {"stStore"})
  /\ heap' = [heap EXCEPT ![job[h].cur].data = d, ![job[h].cur].saved = FALSE]
  /\ Finish(h)
  /\ UNCHANGED <<stored, bound, cache, issued, ran, clash>>

\* CheckForSave puts every card of the map that is not flagged saved.
Flush ==
  LET dirty == {id \in Ids : cache[id] # Null /\ ~heap[cache[id]].saved}
      card(o) == [owned |-> heap[o].owned, name |-> heap[o].name, data |-> heap[o].data]
  IN  /\ dirty # {}
      /\ stored' = [id \in Ids |-> IF id \in dirty THEN card(cache[id]) ELSE stored[id]]
      /\ heap' = [o \in Objs |-> IF \E id \in dirty : cache[id] = o THEN [heap[o] EXCEPT !.saved = TRUE] ELSE heap[o]]
      /\ UNCHANGED <<bound, cache, job, issued, ran, clash>>

Next ==
  \/ \E h \in Handlers :
       \/ \E c \in Commands, g \in Groups, n, m \in Names \cup {Null} : Begin(h, c, g, n, m)
       \/ CallFails(h) \/ Find(h) \/ CheckName(h)
       \/ \E c \in Cards : NewCard(h, c)
       \/ SaveNewFails(h) \/ BindCard(h) \/ LoadCurrent(h) \/ LoadSource(h) \/ LoadTarget(h)
       \/ LoadClear(h) \/ CopyAttributes(h) \/ SaveCard(h) \/ RenameLoad(h)
       \/ UnbindCard(h) \/ UntagLoad(h) \/ UnbindAll(h) \/ DelList(h) \/ DeleteCard(h)
       \/ \E d \in Data : StoreAttribute(h, d)
  \/ Flush

Spec == Init /\ [][Next]_vars
-----------------------------------------------------------------------------
\* Two cards of a user never bear one name (.pc new, save and rename look first, but hold
\* nothing), unless commands overlapped or the store failed while the name was given.
NamesUnique ==
  \A n \in Names \ clash : \A c, d \in Bearers(n) : c = d

\* .pc del does not take away a card that some group is bound to, unless another command
\* overlapped or the list of groups could not be read.
DelKeepsBound ==
  [][\A c \in Cards :
       stored[c] # Absent /\ stored'[c] = Absent /\ (\E g \in Groups : bound[g] = c)
       => \E h \in Handlers : At(h, {"delete"}) /\ job[h].id = c /\ (~job[h].alone \/ job[h].blind)]_vars

Undisturbed(h, step) == At(h, {step}) /\ job[h].alone /\ ~job[h].blind /\ SaveCard(h)

\* A .pc load nothing interfered with leaves the current card, in the store too, with the
\* attributes of the card it was told to load, which it leaves as they were.
Loads(h) ==
  LET target == heap[job[h].cur].id IN
  /\ stored'[target] # Absent /\ stored'[target].data = job[h].was
  /\ heap'[job[h].src].data = job[h].was

\* ... when that card is not the current one.
LoadLoads ==
  [][\A h \in Handlers :
       Undisturbed(h, "loadSave") /\ job[h].cur # job[h].src => Loads(h)]_vars

\* Help text of .pc load, "load a card [without binding it]" (ext_core.go:843), of any card.
LoadLoadsAny ==
  [][\A h \in Handlers : Undisturbed(h, "loadSave") => Loads(h)]_vars

\* A .pc save nothing interfered with leaves a new card under the name it was given, with the
\* attributes of the current one, which it leaves alone.
SaveCopies ==
  [][\A h \in Handlers :
       Undisturbed(h, "saveSave") =>
         /\ stored'[job[h].id] = [owned |-> TRUE, name |-> job[h].name, data |-> job[h].was]
         /\ heap'[job[h].src].data = job[h].was]_vars
=============================================================================
