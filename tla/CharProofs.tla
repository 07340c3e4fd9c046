----------------------------- MODULE CharProofs -----------------------------
(***************************************************************************)
(* Proofs about CharCommands, for every set of handlers, groups, cards,    *)
(* names and attributes.                                                   *)
(***************************************************************************)
EXTENDS CharCommands, FiniteSetTheorems, TLAPS

\* What each step of a command needs to have been found before.
NeedsId    == {"newBind", "renameCheck", "renameLoad", "renameSave", "tagBind", "untagUnbind", "untagLoad",
               "loadCur", "loadSrc", "loadClear", "loadCopy", "loadSave", "saveCur", "saveObj", "saveCopy", "saveSave",
               "unbindAll", "delList", "delete"}
NeedsName  == {"new", "newPuts", "save", "saveNew", "saveCur", "saveObj", "saveCopy", "saveSave"}
NeedsOther == {"rename", "renameBound", "renameCheck", "renameLoad", "renameSave"}
NeedsCur   == {"renameSave", "loadSrc", "loadClear", "loadCopy", "loadSave", "saveObj", "saveCopy", "saveSave", "stStore"}
NeedsSrc   == {"loadClear", "loadCopy", "loadSave", "saveCopy", "saveSave"}

JobOK(h) ==
  /\ At(h, {"idle"}) => job[h] = Idle
  /\ ~At(h, {"idle"}) => job[h].g \in Groups
  /\ At(h, NeedsId) => job[h].id \in Cards
  /\ At(h, NeedsName) => job[h].name \in Names
  /\ At(h, NeedsOther) => job[h].other \in Names
  /\ job[h].cur # Null <=> At(h, NeedsCur)
  /\ job[h].src # Null <=> At(h, NeedsSrc)
  /\ job[h].cur # Null => heap[job[h].cur] # Null
  /\ job[h].src # Null => heap[job[h].src] # Null

StepsOK == \A h \in Handlers : JobOK(h)

TypeInv == TypeOK /\ StepsOK

\* A command nothing overlapped so far is the only one there is.
Solo == \A h, i \in Handlers : job[h].alone /\ ~At(h, {"idle"}) /\ h # i => At(i, {"idle"})
-----------------------------------------------------------------------------
Bears(item, n) == item # Absent /\ item.owned /\ item.name = n

Refers(o) == (\E id \in Ids : cache[id] = o) \/ (\E h \in Handlers : job[h].cur = o \/ job[h].src = o)

\* The cards that bear name n, in the store or in an object somebody may yet save.
Claims(c, n) == Bears(stored[c], n) \/ \E o \in Objs : Refers(o) /\ heap[o].id = c /\ heap[o].owned /\ heap[o].name = n

OneClaim == \A n \in Names \ clash : \A c, d \in Cards : Claims(c, n) /\ Claims(d, n) => c = d

\* The store knows the name of a card in the map, unless that name is being given.
NamesStored ==
  \A id \in Ids : cache[id] # Null /\ heap[cache[id]].owned =>
    LET n == heap[cache[id]].name IN
    \/ n \in clash \/ Bears(stored[id], n)
    \/ \E h \in Handlers : At(h, {"renameSave"}) /\ job[h].cur = cache[id] /\ job[h].other = n

\* The name a command looked for is still free when it gives it.
NameFree ==
  \A h \in Handlers : job[h].alone /\ ~job[h].blind =>
    /\ At(h, {"newPuts", "saveNew"}) /\ job[h].name \notin clash => Bearers(job[h].name) = {}
    /\ At(h, {"renameLoad"}) /\ job[h].other \notin clash => Bearers(job[h].other) = {}

NamesInv == OneClaim /\ NamesStored /\ NameFree
-----------------------------------------------------------------------------
\* What a command knows of the cards it works on while nothing overlapped it.
Unbinds(h) == At(h, {"delete"}) /\ ~job[h].blind => \A g \in Groups : bound[g] # job[h].id

LoadKnows(h) ==
  LET j == job[h] IN
  j.cur # j.src =>
    /\ At(h, {"loadClear", "loadCopy", "loadSave"}) => heap[j.src].data = j.was
    /\ At(h, {"loadCopy"}) => heap[j.cur].data = Blank
    /\ At(h, {"loadSave"}) => heap[j.cur].data = j.was

New(o, h, d) == heap[o].id = job[h].id /\ heap[o].owned /\ heap[o].name = job[h].name /\ heap[o].data = d

SaveKnows(h) ==
  LET j == job[h] IN
  /\ At(h, {"saveCur", "saveObj"}) => cache[j.id] # Null /\ New(cache[j.id], h, Blank)
  /\ At(h, {"saveObj"}) => heap[j.cur].data = j.was
  /\ At(h, {"saveCopy", "saveSave"}) => heap[j.src].data = j.was
  /\ At(h, {"saveCopy"}) => New(j.cur, h, Blank)
  /\ At(h, {"saveSave"}) => New(j.cur, h, j.was)

Knows == \A h \in Handlers : job[h].alone => Unbinds(h) /\ LoadKnows(h) /\ SaveKnows(h)

IInv == TypeInv /\ Solo /\ NamesInv /\ Knows
-----------------------------------------------------------------------------
(***************************************************************************)
(* The steps of commands.                                                  *)
(***************************************************************************)
Jobs == [pc : Steps \cup {"idle"}, g : Groups \cup {Null}, name : Names \cup {Null},
         other : Names \cup {Null}, id : Ids \cup {Null}, cur : Objs \cup {Null}, src : Objs \cup {Null},
         alone : BOOLEAN, blind : BOOLEAN, was : Values]

LEMMA AfterIs ==
  /\ After["new"] = "newPuts" /\ After["newPuts"] = "newBind"
  /\ After["rename"] = "renameCheck" /\ After["renameBound"] = "renameCheck"
  /\ After["renameCheck"] = "renameLoad" /\ After["renameLoad"] = "renameSave"
  /\ After["tag"] = "tagBind" /\ After["untag"] = "untagUnbind" /\ After["untagUnbind"] = "untagLoad"
  /\ After["load"] = "loadCur" /\ After["loadCur"] = "loadSrc" /\ After["loadSrc"] = "loadClear"
  /\ After["loadClear"] = "loadCopy" /\ After["loadCopy"] = "loadSave"
  /\ After["save"] = "saveNew" /\ After["saveNew"] = "saveCur" /\ After["saveCur"] = "saveObj"
  /\ After["saveObj"] = "saveCopy" /\ After["saveCopy"] = "saveSave"
  /\ After["untagall"] = "unbindAll" /\ After["untagallBound"] = "unbindAll"
  /\ After["del"] = "delList" /\ After["delList"] = "delete" /\ After["st"] = "stStore"
  BY DEF After

LEMMA DomainAfter ==
  DOMAIN After =
    {"new", "newPuts", "rename", "renameBound", "renameCheck", "renameLoad", "tag", "untag", "untagUnbind",
     "load", "loadCur", "loadSrc", "loadClear", "loadCopy", "save", "saveNew", "saveCur", "saveObj", "saveCopy",
     "untagall", "untagallBound", "del", "delList", "st"}
  BY DEF After

LEMMA AfterInSteps == \A s \in DOMAIN After : After[s] \in Steps /\ s \in Steps
  BY DEF Steps

LEMMA IdleFacts ==
  /\ Idle \in Jobs
  /\ Idle.pc = "idle" /\ Idle.cur = Null /\ Idle.src = Null /\ Idle.alone = TRUE
  BY DEF Idle, Jobs, Values

\* With commands and the map as they are, an object is always left.
LEMMA Image ==
  ASSUME NEW S, IsFiniteSet(S), NEW f
  PROVE  IsFiniteSet({f[x] : x \in S}) /\ Cardinality({f[x] : x \in S}) <= Cardinality(S)
<1> DEFINE T == {f[x] : x \in S}
           g == [x \in S |-> f[x]]
<1>1. g \in Surjection(S, T)
  BY DEF Surjection
<1> HIDE DEF g
<1>2. QED
  BY <1>1, FS_Surjection

LEMMA FreshFree == ASSUME TypeOK PROVE Fresh \in Objs /\ Free(Fresh)
<1> DEFINE C == {cache[id] : id \in Ids}
           cur == [h \in Handlers |-> job[h].cur]
           src == [h \in Handlers |-> job[h].src]
           U == {cur[h] : h \in Handlers}
           S == {src[h] : h \in Handlers}
<1>1. IsFiniteSet(Ids) /\ IsFiniteSet(Handlers)
  BY ObjsAssumption, FS_Union DEF Ids
<1>2. IsFiniteSet(C) /\ Cardinality(C) <= Cardinality(Ids)
  BY <1>1, Image
<1>3. IsFiniteSet(U) /\ Cardinality(U) <= Cardinality(Handlers)
  <2> HIDE DEF cur
  <2> QED BY <1>1, Image
<1>4. IsFiniteSet(S) /\ Cardinality(S) <= Cardinality(Handlers)
  <2> HIDE DEF src
  <2> QED BY <1>1, Image
<1>5. \E o \in Objs : o \notin C \cup U \cup S
  <2> HIDE DEF C, U, S
  <2>1. IsFiniteSet(C \cup U) /\ IsFiniteSet(C \cup U \cup S)
    BY <1>2, <1>3, <1>4, FS_Union
  <2>2. Cardinality(C \cup U \cup S) <= Cardinality(Ids) + 2 * Cardinality(Handlers)
    <3>1. Cardinality(C \cup U) = Cardinality(C) + Cardinality(U) - Cardinality(C \cap U)
      BY <1>2, <1>3, FS_Union
    <3>2. Cardinality((C \cup U) \cup S) = Cardinality(C \cup U) + Cardinality(S) - Cardinality((C \cup U) \cap S)
      BY <2>1, <1>4, FS_Union
    <3>3. /\ Cardinality(C \cap U) \in Nat /\ Cardinality((C \cup U) \cap S) \in Nat
          /\ Cardinality(C) \in Nat /\ Cardinality(U) \in Nat /\ Cardinality(S) \in Nat
          /\ Cardinality(Ids) \in Nat /\ Cardinality(Handlers) \in Nat /\ Cardinality(C \cup U) \in Nat
      BY <1>1, <1>2, <1>3, <1>4, <2>1, FS_CardinalityType, FS_Intersection
    <3>4. QED
      BY <1>2, <1>3, <1>4, <3>1, <3>2, <3>3
  <2>3. SUFFICES ASSUME Objs \subseteq C \cup U \cup S PROVE FALSE
    OBVIOUS
  <2>4. IsFiniteSet(Objs) /\ Cardinality(Objs) <= Cardinality(C \cup U \cup S)
    BY <2>1, <2>3, FS_Subset
  <2>5. QED
    <3>1. Cardinality(Objs) > Cardinality(Ids) + 2 * Cardinality(Handlers)
      BY <2>4, ObjsAssumption DEF Ids
    <3>2. /\ Cardinality(Objs) \in Nat /\ Cardinality(Ids) \in Nat /\ Cardinality(Handlers) \in Nat
          /\ Cardinality(C \cup U \cup S) \in Nat
      BY <1>1, <2>1, <2>4, FS_CardinalityType
    <3>3. QED
      BY <2>2, <2>4, <3>1, <3>2
<1>6. \E o \in Objs : Free(o)
  <2>1. PICK o \in Objs : o \notin C \cup U \cup S
    BY <1>5
  <2>2. Free(o)
    BY <2>1 DEF Free
  <2>3. QED
    BY <2>2
<1>7. QED
  BY <1>6 DEF Fresh

\* What LoadById returns: the object in the map, or one nobody refers to yet.
LEMMA LoadedFacts ==
  ASSUME TypeOK, NEW id \in Ids, NEW l \in Loaded(id)
  PROVE  /\ l.obj \in Objs /\ l.value \in Objects /\ l.value.id = id /\ l.err \in BOOLEAN
         /\ \/ cache[id] # Null /\ l.obj = cache[id] /\ l.value = heap[l.obj] /\ ~l.err
            \/ /\ cache[id] = Null /\ Free(l.obj)
               /\ ~l.value.owned \/ (stored[id] # Absent /\ l.value = AsStored(id))
<1>1. CASE cache[id] # Null
  <2>1. l = [obj |-> cache[id], value |-> heap[cache[id]], err |-> FALSE]
    BY <1>1 DEF Loaded
  <2>2. QED
    BY <1>1, <2>1 DEF TypeOK
<1>2. CASE cache[id] = Null
  <2>1. PICK err \in BOOLEAN :
          l = [obj |-> Fresh, err |-> err, value |-> IF err \/ stored[id] = Absent THEN MadeUp(id) ELSE AsStored(id)]
    BY <1>2, BoundAssumption DEF Loaded
  <2>2. l.obj = Fresh /\ l.err = err
    BY <2>1
  <2>3. CASE err \/ stored[id] = Absent
    <3>1. l.value = MadeUp(id)
      BY <2>1, <2>3
    <3>2. MadeUp(id) \in Objects /\ ~MadeUp(id).owned /\ MadeUp(id).id = id
      BY DEF MadeUp, Objects, Values
    <3>3. QED
      BY <1>2, <2>2, <3>1, <3>2, FreshFree
  <2>4. CASE ~(err \/ stored[id] = Absent)
    <3>1. l.value = AsStored(id) /\ stored[id] # Absent
      BY <2>1, <2>4
    <3>2. AsStored(id) \in Objects /\ AsStored(id).id = id
      BY <3>1 DEF AsStored, Objects, TypeOK, Items
    <3>3. QED
      BY <1>2, <2>2, <3>1, <3>2, FreshFree
  <2>5. QED
    BY <2>3, <2>4
<1>3. QED
  BY <1>1, <1>2

Loads1(id, l) == cache' = [cache EXCEPT ![id] = l.obj] /\ heap' = [heap EXCEPT ![l.obj] = l.value]

LEMMA LoadKeeps ==
  ASSUME TypeOK, NEW id \in Ids, NEW l \in Loaded(id), Loads1(id, l)
  PROVE  /\ cache' \in [Ids -> Objs \cup {Null}] /\ cache'[id] = l.obj /\ l.obj # Null
         /\ heap' \in [Objs -> Objects \cup {Null}] /\ heap'[l.obj] = l.value /\ l.value # Null
         /\ \A o \in Objs : Refers(o) => heap'[o] = heap[o]
         /\ \A o \in Objs : heap[o] # Null => heap'[o] # Null
         /\ \A i \in Ids : cache'[i] # Null => heap'[cache'[i]] # Null /\ heap'[cache'[i]].id = i
<1> USE DEF Loads1
<1>1. l.obj \in Objs /\ l.value \in Objects /\ l.value.id = id /\ l.obj # Null /\ l.value # Null
  BY LoadedFacts, NullAssumption, ValuesAssumption
<1>2. cache' \in [Ids -> Objs \cup {Null}] /\ heap' \in [Objs -> Objects \cup {Null}]
  BY <1>1 DEF TypeOK
<1>3. \A o \in Objs : Refers(o) => heap'[o] = heap[o]
  BY <1>1, LoadedFacts DEF TypeOK, Free, Refers
<1>4. \A i \in Ids : cache'[i] # Null => heap'[cache'[i]] # Null /\ heap'[cache'[i]].id = i
  <2>1. \A i \in Ids \ {id} : cache'[i] = cache[i]
    BY DEF TypeOK
  <2>2. cache'[id] = l.obj /\ heap'[l.obj] = l.value
    BY <1>1 DEF TypeOK
  <2>3. \A i \in Ids \ {id} : cache[i] # Null => cache[i] \in Objs /\ heap'[cache[i]] = heap[cache[i]]
    BY <1>3 DEF TypeOK, Refers
  <2>4. QED
    BY <1>1, <2>1, <2>2, <2>3 DEF TypeOK
<1>5. QED
  BY <1>1, <1>2, <1>3, <1>4 DEF TypeOK
-----------------------------------------------------------------------------
(***************************************************************************)
(* Types.                                                                  *)
(***************************************************************************)
\* Handler h takes its next step, or is done; the others do not move.
Others(h) == /\ job' \in [Handlers -> Jobs]
             /\ \A i \in Handlers \ {h} : job'[i] = job[i]

LEMMA JobFacts == ASSUME TypeOK PROVE job \in [Handlers -> Jobs] /\ \A h \in Handlers : job[h] \in Jobs
  BY DEF TypeOK, Jobs

LEMMA Finished == ASSUME TypeOK, NEW h \in Handlers, Finish(h) PROVE Others(h) /\ job'[h] = Idle
  BY JobFacts, IdleFacts DEF Finish, Others

\* ... going on to pc with these in its job.
Stepped(h, pc, id, name, cur, src, blind, was) ==
  /\ Others(h)
  /\ job'[h].pc = pc /\ job'[h].g = job[h].g /\ job'[h].name = name /\ job'[h].other = job[h].other
  /\ job'[h].id = id /\ job'[h].cur = cur /\ job'[h].src = src
  /\ job'[h].alone = job[h].alone /\ job'[h].blind = blind /\ job'[h].was = was

\* Each way in which the steps of a command write their job.
LEMMA Continued ==
  ASSUME TypeOK, NEW h \in Handlers, job[h].pc \in DOMAIN After,
         job' = [job EXCEPT ![h].pc = After[@]]
  PROVE  Stepped(h, After[job[h].pc], job[h].id, job[h].name, job[h].cur, job[h].src, job[h].blind, job[h].was)
<1>1. job \in [Handlers -> Jobs] /\ job[h] \in Jobs /\ After[job[h].pc] \in Steps
  BY JobFacts, AfterInSteps
<1>2. Others(h)
  BY <1>1 DEF Jobs, Others
<1>3. QED
  BY <1>1, <1>2 DEF Jobs, Stepped

LEMMA FoundId ==
  ASSUME TypeOK, NEW h \in Handlers, job[h].pc \in DOMAIN After, NEW c \in Cards,
         job' = [job EXCEPT ![h].pc = After[@], ![h].id = c, ![h].name = Null]
  PROVE  Stepped(h, After[job[h].pc], c, Null, job[h].cur, job[h].src, job[h].blind, job[h].was)
<1>1. job \in [Handlers -> Jobs] /\ job[h] \in Jobs /\ After[job[h].pc] \in Steps
  BY JobFacts, AfterInSteps
<1>2. Others(h)
  BY <1>1 DEF Jobs, Others, Ids
<1>3. QED
  BY <1>1, <1>2 DEF Jobs, Stepped

LEMMA IssuedId ==
  ASSUME TypeOK, NEW h \in Handlers, job[h].pc \in DOMAIN After, NEW c \in Cards,
         job' = [job EXCEPT ![h].pc = After[@], ![h].id = c]
  PROVE  Stepped(h, After[job[h].pc], c, job[h].name, job[h].cur, job[h].src, job[h].blind, job[h].was)
<1>1. job \in [Handlers -> Jobs] /\ job[h] \in Jobs /\ After[job[h].pc] \in Steps
  BY JobFacts, AfterInSteps
<1>2. Others(h)
  BY <1>1 DEF Jobs, Others, Ids
<1>3. QED
  BY <1>1, <1>2 DEF Jobs, Stepped

LEMMA Blinded ==
  ASSUME TypeOK, NEW h \in Handlers, job[h].pc \in DOMAIN After,
         job' = [job EXCEPT ![h].pc = After[@], ![h].blind = TRUE]
  PROVE  Stepped(h, After[job[h].pc], job[h].id, job[h].name, job[h].cur, job[h].src, TRUE, job[h].was)
<1>1. job \in [Handlers -> Jobs] /\ job[h] \in Jobs /\ After[job[h].pc] \in Steps
  BY JobFacts, AfterInSteps
<1>2. Others(h)
  BY <1>1 DEF Jobs, Others
<1>3. QED
  BY <1>1, <1>2 DEF Jobs, Stepped

LEMMA CurrentLoaded ==
  ASSUME TypeOK, NEW h \in Handlers, job[h].pc \in DOMAIN After, NEW o \in Objs, NEW w \in Values, NEW b \in BOOLEAN,
         job' = [job EXCEPT ![h].pc = After[@], ![h].cur = o, ![h].was = w,
                             ![h].blind = @ \/ b]
  PROVE  Stepped(h, After[job[h].pc], job[h].id, job[h].name, o, job[h].src, (job[h].blind \/ b), w)
<1>1. job \in [Handlers -> Jobs] /\ job[h] \in Jobs /\ After[job[h].pc] \in Steps
  BY JobFacts, AfterInSteps
<1>2. Others(h)
  BY <1>1 DEF Jobs, Others
<1>3. QED
  BY <1>1, <1>2 DEF Jobs, Stepped

LEMMA SourceLoaded ==
  ASSUME TypeOK, NEW h \in Handlers, job[h].pc \in DOMAIN After, NEW o \in Objs, NEW w \in Values, NEW b \in BOOLEAN,
         job' = [job EXCEPT ![h].pc = After[@], ![h].src = o, ![h].blind = @ \/ b, ![h].was = w]
  PROVE  Stepped(h, After[job[h].pc], job[h].id, job[h].name, job[h].cur, o, (job[h].blind \/ b), w)
<1>1. job \in [Handlers -> Jobs] /\ job[h] \in Jobs /\ After[job[h].pc] \in Steps
  BY JobFacts, AfterInSteps
<1>2. Others(h)
  BY <1>1 DEF Jobs, Others
<1>3. QED
  BY <1>1, <1>2 DEF Jobs, Stepped

LEMMA TargetLoaded ==
  ASSUME TypeOK, NEW h \in Handlers, job[h].pc \in DOMAIN After, NEW o \in Objs, NEW b \in BOOLEAN,
         job' = [job EXCEPT ![h].pc = After[@], ![h].src = job[h].cur, ![h].cur = o, ![h].blind = @ \/ b]
  PROVE  Stepped(h, After[job[h].pc], job[h].id, job[h].name, o, job[h].cur, (job[h].blind \/ b), job[h].was)
<1>1. job \in [Handlers -> Jobs] /\ job[h] \in Jobs /\ After[job[h].pc] \in Steps
  BY JobFacts, AfterInSteps
<1>2. Others(h)
  BY <1>1 DEF Jobs, Others
<1>3. QED
  BY <1>1, <1>2 DEF Jobs, Stepped

LEMMA RenameLoaded ==
  ASSUME TypeOK, NEW h \in Handlers, job[h].pc \in DOMAIN After, NEW o \in Objs,
         job' = [job EXCEPT ![h].pc = After[@], ![h].cur = o]
  PROVE  Stepped(h, After[job[h].pc], job[h].id, job[h].name, o, job[h].src, job[h].blind, job[h].was)
<1>1. job \in [Handlers -> Jobs] /\ job[h] \in Jobs /\ After[job[h].pc] \in Steps
  BY JobFacts, AfterInSteps
<1>2. Others(h)
  BY <1>1 DEF Jobs, Others
<1>3. QED
  BY <1>1, <1>2 DEF Jobs, Stepped

\* What is left to show of a step of h.
LEMMA TypeInvStep ==
  ASSUME TypeInv, NEW h \in Handlers, Others(h), JobOK(h)',
         stored' \in [Ids -> Items \cup {Absent}], bound' \in [Groups -> Cards \cup {Null}],
         cache' \in [Ids -> Objs \cup {Null}], heap' \in [Objs -> Objects \cup {Null}],
         issued' \subseteq Cards, ran' \in 0..MaxCommands, clash' \subseteq Names,
         \A id \in Ids : cache'[id] # Null => heap'[cache'[id]] # Null /\ heap'[cache'[id]].id = id,
         \A o \in Objs : heap[o] # Null => heap'[o] # Null
  PROVE  TypeInv'
<1>1. TypeOK'
  BY DEF TypeOK, Others, Jobs
<1>2. ASSUME NEW i \in Handlers PROVE JobOK(i)'
  <2>1. CASE i = h
    BY <2>1
  <2>2. CASE i # h
    <3>1. job'[i] = job[i] /\ JobOK(i) /\ job[i].cur \in Objs \cup {Null} /\ job[i].src \in Objs \cup {Null}
      BY <2>2, JobFacts DEF Others, TypeInv, StepsOK, Jobs
    <3>2. QED
      BY <3>1 DEF JobOK, At
  <2>3. QED
    BY <2>1, <2>2
<1>3. QED
  BY <1>1, <1>2 DEF TypeInv, StepsOK

LEMMA DoneOK == ASSUME TypeOK, NEW h \in Handlers, Finish(h) PROVE Others(h) /\ JobOK(h)'
<1>1. Others(h) /\ job'[h] = Idle
  BY Finished
<1>2. QED
  BY <1>1, IdleFacts DEF JobOK, At, NeedsId, NeedsName, NeedsOther, NeedsCur, NeedsSrc

Needs == NeedsId \cup NeedsName \cup NeedsOther \cup NeedsCur \cup NeedsSrc

LEMMA InitTypeInv == Init => TypeInv
<1> SUFFICES ASSUME Init PROVE TypeInv
  OBVIOUS
<1>1. stored \in [Ids -> Items \cup {Absent}]
  BY DEF Init, Items, Values
<1>2. /\ bound \in [Groups -> Cards \cup {Null}] /\ issued \subseteq Cards /\ ran \in 0..MaxCommands /\ clash \subseteq Names
      /\ cache \in [Ids -> Objs \cup {Null}] /\ heap \in [Objs -> Objects \cup {Null}]
      /\ \A id \in Ids : cache[id] = Null
  BY BoundAssumption DEF Init
<1>3. job \in [Handlers -> Jobs] /\ \A h \in Handlers : job[h] = Idle
  BY IdleFacts DEF Init
<1>4. StepsOK
  BY <1>3, IdleFacts DEF StepsOK, JobOK, At, NeedsId, NeedsName, NeedsOther, NeedsCur, NeedsSrc
<1>5. QED
  BY <1>1, <1>2, <1>3, <1>4 DEF TypeInv, TypeOK, Jobs

LEMMA BeginTypeInv ==
  ASSUME TypeInv, NEW h \in Handlers, NEW c \in Commands, NEW g \in Groups, NEW n \in Names \cup {Null}, NEW m \in Names \cup {Null},
         Begin(h, c, g, n, m)
  PROVE  TypeInv'
<1> DEFINE new(a) == [Idle EXCEPT !.pc = c, !.g = g, !.name = n, !.other = m, !.alone = a]
<1>1. c \in Steps /\ c # "idle"
  BY DomainAfter, AfterInSteps DEF Commands, Named
<1>2. ASSUME NEW a \in BOOLEAN
      PROVE  /\ new(a) \in Jobs /\ new(a).pc = c /\ new(a).g = g /\ new(a).name = n /\ new(a).other = m
             /\ new(a).cur = Null /\ new(a).src = Null
  BY <1>1, IdleFacts DEF Idle, Jobs
<1>3. ASSUME NEW i \in Handlers PROVE LET j == [job[i] EXCEPT !.alone = FALSE] IN
        /\ j \in Jobs /\ j.pc = job[i].pc /\ j.g = job[i].g /\ j.name = job[i].name /\ j.other = job[i].other
        /\ j.id = job[i].id /\ j.cur = job[i].cur /\ j.src = job[i].src
  BY JobFacts DEF Jobs, TypeInv
<1>4. PICK a \in BOOLEAN, others \in SUBSET (Handlers \ {h}) :
        /\ \A i \in others : ~At(i, {"idle"})
        /\ job' = [i \in Handlers |-> IF i = h THEN new(a) ELSE IF i \in others THEN [job[i] EXCEPT !.alone = FALSE] ELSE job[i]]
  <2>1. DEFINE others == {i \in Handlers \ {h} : ~At(i, {"idle"})}
  <2>2. (others = {}) \in BOOLEAN /\ others \in SUBSET (Handlers \ {h})
    OBVIOUS
  <2>3. job' = [i \in Handlers |-> IF i = h THEN new(others = {}) ELSE IF i \in others THEN [job[i] EXCEPT !.alone = FALSE] ELSE job[i]]
    BY DEF Begin
  <2>4. QED
    BY <2>2, <2>3
<1>5. job' \in [Handlers -> Jobs]
  <2> HIDE DEF new
  <2> QED BY <1>2, <1>3, <1>4, JobFacts DEF TypeInv
<1>6. JobOK(h)'
  <2>1. /\ job'[h].pc = c /\ job'[h].g = g /\ job'[h].name = n /\ job'[h].other = m /\ job'[h].cur = Null /\ job'[h].src = Null
    <3> HIDE DEF new
    <3> QED BY <1>2, <1>4
  <2>2. c \notin NeedsId \cup NeedsCur \cup NeedsSrc
    BY DEF Commands, Named, NeedsId, NeedsCur, NeedsSrc
  <2>3. c \in NeedsName => n \in Names
    BY DEF Begin, Commands, Named, NeedsName
  <2>4. c \in NeedsOther => m \in Names
    BY DEF Begin, Commands, Named, NeedsOther
  <2>5. QED
    BY <1>1, <2>1, <2>2, <2>3, <2>4 DEF JobOK, At
<1>7. ASSUME NEW i \in Handlers \ {h} PROVE JobOK(i)'
  <2>1. heap' = heap /\ JobOK(i)
    BY DEF TypeInv, StepsOK, Begin
  <2>2. CASE job'[i] = job[i]
    BY <2>1, <2>2 DEF JobOK, At
  <2>3. CASE ~At(i, {"idle"}) /\ job'[i] = [job[i] EXCEPT !.alone = FALSE]
    <3> DEFINE j == [job[i] EXCEPT !.alone = FALSE]
    <3>1. /\ j.pc = job[i].pc /\ j.g = job[i].g /\ j.name = job[i].name /\ j.other = job[i].other
          /\ j.id = job[i].id /\ j.cur = job[i].cur /\ j.src = job[i].src
      BY <1>3
    <3> HIDE DEF j
    <3>2. job'[i] = j
      BY <2>3 DEF j
    <3>3. QED
      BY <2>1, <2>3, <3>1, <3>2 DEF JobOK, At
  <2>4. QED
    <3> HIDE DEF new
    <3> QED BY <1>4, <2>2, <2>3
<1>8. TypeOK'
  <2>1. UNCHANGED <<stored, bound, cache, heap, issued, clash>> /\ ran < MaxCommands /\ ran' = ran + 1
    BY DEF Begin
  <2>2. ran' \in 0..MaxCommands
    BY <2>1, BoundAssumption DEF TypeInv, TypeOK
  <2>3. QED
    BY <1>5, <2>1, <2>2 DEF TypeInv, TypeOK, Jobs
<1>9. QED
  BY <1>6, <1>7, <1>8 DEF TypeInv, StepsOK

\* A step of a command under way.
Moves(h) ==
  \/ CallFails(h) \/ Find(h) \/ CheckName(h) \/ \E c \in Cards : NewCard(h, c)
  \/ SaveNewFails(h) \/ BindCard(h) \/ LoadCurrent(h) \/ LoadSource(h) \/ LoadTarget(h)
  \/ LoadClear(h) \/ CopyAttributes(h) \/ SaveCard(h) \/ RenameLoad(h)
  \/ UnbindCard(h) \/ UntagLoad(h) \/ UnbindAll(h) \/ DelList(h) \/ DeleteCard(h)
  \/ \E d \in Data : StoreAttribute(h, d)

\* Steps that touch nothing but the job and the bindings.
LEMMA SmallStep ==
  ASSUME TypeInv, NEW h \in Handlers, Others(h), JobOK(h)', UNCHANGED <<stored, cache, heap, issued, ran>>,
         clash' \subseteq Names, bound' \in [Groups -> Cards \cup {Null}]
  PROVE  TypeInv'
  BY TypeInvStep DEF TypeInv, TypeOK

LEMMA CallFailsTypeInv == ASSUME TypeInv, NEW h \in Handlers, CallFails(h) PROVE TypeInv'
<1>1. Others(h) /\ JobOK(h)'
  BY DoneOK DEF CallFails, TypeInv
<1>2. clash' \subseteq Names /\ UNCHANGED <<stored, bound, cache, heap, issued, ran>>
  BY DEF CallFails, TypeInv, TypeOK, StepsOK, JobOK, At, NeedsOther
<1>3. QED
  BY <1>1, <1>2, SmallStep DEF TypeInv, TypeOK

LEMMA FindTypeInv == ASSUME TypeInv, NEW h \in Handlers, Find(h) PROVE TypeInv'
<1>1. UNCHANGED <<stored, bound, cache, heap, issued, ran, clash>>
      /\ At(h, {"rename", "tag", "load", "untagall", "del", "renameBound", "untag", "untagallBound"})
  BY DEF Find
<1>2. CASE Finish(h)
  BY <1>1, <1>2, DoneOK, SmallStep DEF TypeInv, TypeOK
<1>3. ASSUME NEW c \in Cards, job' = [job EXCEPT ![h].pc = After[@], ![h].id = c, ![h].name = Null] PROVE TypeInv'
  <2>1. Stepped(h, After[job[h].pc], c, Null, job[h].cur, job[h].src, job[h].blind, job[h].was)
    BY <1>1, <1>3, FoundId, DomainAfter DEF At, TypeInv
  <2>2. JobOK(h)'
    BY <1>1, <2>1, AfterIs, NullAssumption DEF Stepped, TypeInv, StepsOK, JobOK, At, NeedsId, NeedsName, NeedsOther, NeedsCur, NeedsSrc
  <2>3. QED
    BY <1>1, <2>1, <2>2, SmallStep DEF TypeInv, TypeOK, Stepped
<1>4. bound[job[h].g] \in Cards \cup {Null} /\ \A n : Bearers(n) \subseteq Cards
  BY <1>1 DEF TypeInv, TypeOK, StepsOK, JobOK, At, Bearers
<1>5. QED
  BY <1>2, <1>3, <1>4 DEF Find

LEMMA CheckNameTypeInv == ASSUME TypeInv, NEW h \in Handlers, CheckName(h) PROVE TypeInv'
<1>1. UNCHANGED <<stored, bound, cache, heap, issued, ran, clash>> /\ At(h, {"new", "save", "renameCheck"})
  BY DEF CheckName
<1>2. CASE Finish(h)
  BY <1>1, <1>2, DoneOK, SmallStep DEF TypeInv, TypeOK
<1>3. ASSUME NEW b, Stepped(h, After[job[h].pc], job[h].id, job[h].name, job[h].cur, job[h].src, b, job[h].was) PROVE TypeInv'
  <2>1. JobOK(h)'
    BY <1>1, <1>3, AfterIs DEF Stepped, TypeInv, StepsOK, JobOK, At, NeedsId, NeedsName, NeedsOther, NeedsCur, NeedsSrc
  <2>2. QED
    BY <1>1, <1>3, <2>1, SmallStep DEF TypeInv, TypeOK, Stepped
<1>4. QED
  BY <1>1, <1>2, <1>3, Continued, Blinded, DomainAfter DEF CheckName, Continue, At, TypeInv

LEMMA NewCardTypeInv == ASSUME TypeInv, NEW h \in Handlers, NEW c \in Cards, NewCard(h, c) PROVE TypeInv'
<1> DEFINE item == [owned |-> TRUE, name |-> job[h].name, data |-> Blank]
           object == [id |-> c, owned |-> TRUE, name |-> job[h].name, data |-> Blank, saved |-> TRUE]
<1>1. /\ At(h, {"newPuts", "saveNew"}) /\ job[h].name \in Names /\ c \in Ids
      /\ stored' = [stored EXCEPT ![c] = item] /\ cache' = [cache EXCEPT ![c] = Fresh] /\ heap' = [heap EXCEPT ![Fresh] = object]
      /\ issued' = issued \cup {c} /\ UNCHANGED <<bound, ran>>
      /\ Stepped(h, After[job[h].pc], c, job[h].name, job[h].cur, job[h].src, job[h].blind, job[h].was)
  BY IssuedId, DomainAfter DEF NewCard, At, TypeInv, StepsOK, JobOK, NeedsName, Ids
<1>2. item \in Items /\ object \in Objects /\ object # Null /\ object.id = c
  <2>1. item \in Items /\ object \in Objects /\ object.id = c
    BY <1>1 DEF Items, Objects, Values
  <2>2. QED
    BY <2>1, ValuesAssumption
<1>3. Fresh \in Objs /\ Free(Fresh) /\ Fresh # Null
  BY FreshFree, NullAssumption DEF TypeInv
<1> HIDE DEF item, object
<1>4. /\ stored' \in [Ids -> Items \cup {Absent}] /\ heap' \in [Objs -> Objects \cup {Null}]
      /\ cache' \in [Ids -> Objs \cup {Null}] /\ issued' \subseteq Cards /\ clash' \subseteq Names
  <2>1. clash' \subseteq Names
    BY <1>1 DEF TypeInv, TypeOK, NewCard, NoteClash
  <2>2. QED
    BY <1>1, <1>2, <1>3, <2>1 DEF TypeInv, TypeOK
<1>5. ASSUME NEW id \in Ids, cache'[id] # Null PROVE heap'[cache'[id]] # Null /\ heap'[cache'[id]].id = id
  <2>1. CASE id = c
    BY <1>1, <1>2, <1>3, <2>1 DEF TypeInv, TypeOK
  <2>2. CASE id # c
    <3>1. cache'[id] = cache[id] /\ cache[id] \in Objs \ {Fresh}
      BY <1>1, <1>3, <1>5, <2>2 DEF TypeInv, TypeOK, Free
    <3>2. heap'[cache[id]] = heap[cache[id]]
      BY <1>1, <3>1 DEF TypeInv, TypeOK
    <3>3. QED
      BY <1>5, <3>1, <3>2 DEF TypeInv, TypeOK
  <2>3. QED
    BY <2>1, <2>2
<1>6. \A o \in Objs : heap[o] # Null => heap'[o] # Null
  BY <1>1, <1>2, <1>3 DEF TypeInv, TypeOK
<1>7. JobOK(h)'
  <2>1. \A o \in {job[h].cur, job[h].src} \ {Null} : o \in Objs /\ heap[o] # Null
    BY JobFacts DEF TypeInv, StepsOK, JobOK, Jobs
  <2>2. QED
    BY <1>1, <1>6, <2>1, AfterIs DEF Stepped, TypeInv, StepsOK, JobOK, At, NeedsId, NeedsName, NeedsOther, NeedsCur, NeedsSrc
<1>8. QED
  BY <1>1, <1>4, <1>5, <1>6, <1>7, TypeInvStep DEF TypeInv, TypeOK, Stepped

\* A load leaves everything of its type, whatever else the step notes in the job.
LEMMA LoadTypeInv ==
  ASSUME TypeInv, NEW h \in Handlers, NEW id \in Ids, NEW l \in Loaded(id), Loads1(id, l), Others(h), JobOK(h)',
         UNCHANGED <<stored, bound, issued, ran, clash>>
  PROVE  TypeInv'
<1>1. /\ cache' \in [Ids -> Objs \cup {Null}] /\ heap' \in [Objs -> Objects \cup {Null}]
      /\ \A o \in Objs : heap[o] # Null => heap'[o] # Null
      /\ \A i \in Ids : cache'[i] # Null => heap'[cache'[i]] # Null /\ heap'[cache'[i]].id = i
  BY LoadKeeps DEF TypeInv
<1>2. QED
  BY <1>1, TypeInvStep DEF TypeInv, TypeOK

LEMMA CurrentIds == ASSUME TypeInv, NEW h \in Handlers, ~At(h, {"idle"}) PROVE CurrentRead(job[h].g) \subseteq Ids
  BY BoundAssumption DEF CurrentRead, Current, TypeInv, TypeOK, StepsOK, JobOK, Ids

LEMMA SaveNewFailsTypeInv == ASSUME TypeInv, NEW h \in Handlers, SaveNewFails(h) PROVE TypeInv'
<1>1. PICK id \in Ids : \E l \in Loaded(id) : Loads1(id, l)
  BY CurrentIds DEF SaveNewFails, Loads1, At
<1>2. QED
  BY <1>1, LoadTypeInv, DoneOK DEF SaveNewFails, TypeInv

LEMMA UntagLoadTypeInv == ASSUME TypeInv, NEW h \in Handlers, UntagLoad(h) PROVE TypeInv'
<1>1. job[h].id \in Ids
  BY DEF UntagLoad, At, TypeInv, StepsOK, JobOK, NeedsId, Ids
<1>2. PICK l \in Loaded(job[h].id) : Loads1(job[h].id, l)
  BY DEF UntagLoad, Loads1
<1>3. QED
  BY <1>1, <1>2, LoadTypeInv, DoneOK DEF UntagLoad, TypeInv

LEMMA BindCardTypeInv == ASSUME TypeInv, NEW h \in Handlers, BindCard(h) PROVE TypeInv'
<1>1. Others(h) /\ JobOK(h)'
  BY DoneOK DEF BindCard, TypeInv
<1>2. bound' \in [Groups -> Cards \cup {Null}]
  BY DEF BindCard, TypeInv, TypeOK, StepsOK, JobOK, At, NeedsId
<1>3. QED
  BY <1>1, <1>2, SmallStep DEF BindCard, TypeInv, TypeOK

LEMMA UnbindCardTypeInv == ASSUME TypeInv, NEW h \in Handlers, UnbindCard(h) PROVE TypeInv'
<1>1. /\ At(h, {"untagUnbind"}) /\ bound' = [bound EXCEPT ![job[h].g] = Null] /\ UNCHANGED <<stored, cache, heap, issued, ran, clash>>
      /\ Stepped(h, After[job[h].pc], job[h].id, job[h].name, job[h].cur, job[h].src, job[h].blind, job[h].was)
  BY Continued, DomainAfter DEF UnbindCard, Continue, At, TypeInv
<1>2. JobOK(h)'
  BY <1>1, AfterIs DEF Stepped, TypeInv, StepsOK, JobOK, At, NeedsId, NeedsName, NeedsOther, NeedsCur, NeedsSrc
<1>3. QED
  BY <1>1, <1>2, SmallStep DEF TypeInv, TypeOK, Stepped

LEMMA UnbindAllTypeInv == ASSUME TypeInv, NEW h \in Handlers, UnbindAll(h) PROVE TypeInv'
<1>1. Others(h) /\ JobOK(h)'
  BY DoneOK DEF UnbindAll, TypeInv
<1>2. bound' \in [Groups -> Cards \cup {Null}]
  BY DEF UnbindAll, Unbound, TypeInv, TypeOK
<1>3. QED
  BY <1>1, <1>2, SmallStep DEF UnbindAll, TypeInv, TypeOK

LEMMA DelListTypeInv == ASSUME TypeInv, NEW h \in Handlers, DelList(h) PROVE TypeInv'
<1>1. UNCHANGED <<stored, bound, cache, heap, issued, ran, clash>> /\ At(h, {"delList"})
  BY DEF DelList
<1>2. CASE Finish(h)
  BY <1>1, <1>2, DoneOK, SmallStep DEF TypeInv, TypeOK
<1>3. ASSUME NEW b, Stepped(h, After[job[h].pc], job[h].id, job[h].name, job[h].cur, job[h].src, b, job[h].was) PROVE TypeInv'
  <2>1. JobOK(h)'
    BY <1>1, <1>3, AfterIs DEF Stepped, TypeInv, StepsOK, JobOK, At, NeedsId, NeedsName, NeedsOther, NeedsCur, NeedsSrc
  <2>2. QED
    BY <1>1, <1>3, <2>1, SmallStep DEF TypeInv, TypeOK, Stepped
<1>4. QED
  BY <1>1, <1>2, <1>3, Continued, Blinded, DomainAfter DEF DelList, Continue, At, TypeInv

\* The loads that keep the object: what each leaves in the job.
LEMMA LoadCurrentJob ==
  ASSUME TypeInv, NEW h \in Handlers, LoadCurrent(h)
  PROVE  \E id \in Ids : \E l \in Loaded(id) :
           /\ Loads1(id, l)
           /\ Stepped(h, After[job[h].pc], job[h].id, job[h].name, l.obj, job[h].src,
                      job[h].blind \/ (l.err \/ id # Current(job[h].g)), l.value.data)
<1>1. At(h, {"loadCur", "saveCur", "st"}) /\ CurrentRead(job[h].g) \subseteq Ids
  BY CurrentIds DEF LoadCurrent, At
<1>2. PICK id \in Ids : \E l \in Loaded(id) :
        /\ Loads1(id, l)
        /\ job' = [job EXCEPT ![h].pc = After[@], ![h].cur = l.obj, ![h].was = l.value.data,
                              ![h].blind = @ \/ l.err \/ id # Current(job[h].g)]
  BY <1>1 DEF LoadCurrent, Loads1
<1>3. PICK l \in Loaded(id) :
        /\ Loads1(id, l)
        /\ job' = [job EXCEPT ![h].pc = After[@], ![h].cur = l.obj, ![h].was = l.value.data,
                              ![h].blind = @ \/ l.err \/ id # Current(job[h].g)]
  BY <1>2
<1> DEFINE b == (l.err \/ id # Current(job[h].g))
<1>4. l.obj \in Objs /\ l.value \in Objects /\ l.value.data \in Values /\ b \in BOOLEAN /\ job[h].pc \in DOMAIN After
  <2>1. l.obj \in Objs /\ l.value \in Objects /\ l.err \in BOOLEAN
    BY LoadedFacts DEF TypeInv
  <2>2. QED
    BY <1>1, <2>1, DomainAfter DEF Objects, At
<1>5. job' = [job EXCEPT ![h].pc = After[@], ![h].cur = l.obj, ![h].was = l.value.data, ![h].blind = @ \/ b]
  <2>1. job[h].blind \in BOOLEAN
    BY JobFacts DEF Jobs, TypeInv
  <2>2. (job[h].blind \/ l.err \/ id # Current(job[h].g)) = (job[h].blind \/ b)
    OBVIOUS
  <2>3. QED
    BY <1>3, <2>2
<1> HIDE DEF b
<1>6. Stepped(h, After[job[h].pc], job[h].id, job[h].name, l.obj, job[h].src, job[h].blind \/ b, l.value.data)
  BY <1>4, <1>5, CurrentLoaded DEF TypeInv
<1>7. QED
  BY <1>3, <1>6 DEF b

LEMMA LoadCurrentTypeInv == ASSUME TypeInv, NEW h \in Handlers, LoadCurrent(h) PROVE TypeInv'
<1>1. PICK id \in Ids : \E l \in Loaded(id) :
           /\ Loads1(id, l)
           /\ Stepped(h, After[job[h].pc], job[h].id, job[h].name, l.obj, job[h].src,
                      job[h].blind \/ (l.err \/ id # Current(job[h].g)), l.value.data)
  BY LoadCurrentJob
<1>2. PICK l \in Loaded(id) :
           /\ Loads1(id, l)
           /\ Stepped(h, After[job[h].pc], job[h].id, job[h].name, l.obj, job[h].src,
                      job[h].blind \/ (l.err \/ id # Current(job[h].g)), l.value.data)
  BY <1>1
<1>3. At(h, {"loadCur", "saveCur", "st"}) /\ l.obj # Null /\ heap'[l.obj] # Null
  BY <1>2, LoadKeeps DEF LoadCurrent, TypeInv
<1>4. JobOK(h)'
  BY <1>2, <1>3, AfterIs DEF Stepped, TypeInv, StepsOK, JobOK, At, NeedsId, NeedsName, NeedsOther, NeedsCur, NeedsSrc
<1>5. QED
  BY <1>2, <1>4, LoadTypeInv DEF Stepped, LoadCurrent

LEMMA LoadSourceJob ==
  ASSUME TypeInv, NEW h \in Handlers, LoadSource(h)
  PROVE  \E l \in Loaded(job[h].id) :
           /\ Loads1(job[h].id, l)
           /\ Stepped(h, "loadClear", job[h].id, job[h].name, job[h].cur, l.obj, job[h].blind \/ l.err, l.value.data)
<1>1. job[h].pc = "loadSrc" /\ job[h].id \in Ids
  BY DEF LoadSource, At, TypeInv, StepsOK, JobOK, NeedsId, Ids
<1>2. PICK l \in Loaded(job[h].id) :
        /\ Loads1(job[h].id, l)
        /\ job' = [job EXCEPT ![h].pc = After[@], ![h].src = l.obj, ![h].blind = @ \/ l.err, ![h].was = l.value.data]
  BY DEF LoadSource, Loads1
<1>3. l.obj \in Objs /\ l.value.data \in Values /\ l.err \in BOOLEAN /\ job[h].pc \in DOMAIN After
  <2>1. l.obj \in Objs /\ l.value \in Objects /\ l.err \in BOOLEAN
    BY <1>1, LoadedFacts DEF TypeInv
  <2>2. QED
    BY <1>1, <2>1, DomainAfter DEF Objects
<1>4. QED
  BY <1>1, <1>2, <1>3, SourceLoaded, AfterIs DEF TypeInv

LEMMA LoadSourceTypeInv == ASSUME TypeInv, NEW h \in Handlers, LoadSource(h) PROVE TypeInv'
<1>1. job[h].pc = "loadSrc" /\ job[h].id \in Ids /\ UNCHANGED <<stored, bound, issued, ran, clash>>
  BY DEF LoadSource, At, TypeInv, StepsOK, JobOK, NeedsId, Ids
<1>2. PICK l \in Loaded(job[h].id) :
           /\ Loads1(job[h].id, l)
           /\ Stepped(h, "loadClear", job[h].id, job[h].name, job[h].cur, l.obj, job[h].blind \/ l.err, l.value.data)
  BY LoadSourceJob
<1>3. l.obj # Null /\ heap'[l.obj] # Null /\ \A o \in Objs : heap[o] # Null => heap'[o] # Null
  BY <1>1, <1>2, LoadKeeps DEF TypeInv
<1>4. job[h].cur \in Objs /\ heap[job[h].cur] # Null
  BY <1>1, JobFacts DEF TypeInv, StepsOK, JobOK, At, NeedsCur, Jobs
<1>5. JobOK(h)'
  BY <1>1, <1>2, <1>3, <1>4 DEF Stepped, TypeInv, StepsOK, JobOK, At, NeedsId, NeedsName, NeedsOther, NeedsCur, NeedsSrc
<1>6. QED
  BY <1>1, <1>2, <1>5, LoadTypeInv DEF Stepped

LEMMA LoadTargetJob ==
  ASSUME TypeInv, NEW h \in Handlers, LoadTarget(h)
  PROVE  \E l \in Loaded(job[h].id) :
           /\ Loads1(job[h].id, l)
           /\ Stepped(h, "saveCopy", job[h].id, job[h].name, l.obj, job[h].cur, job[h].blind \/ l.err, job[h].was)
<1>1. job[h].pc = "saveObj" /\ job[h].id \in Ids
  BY DEF LoadTarget, At, TypeInv, StepsOK, JobOK, NeedsId, Ids
<1>2. PICK l \in Loaded(job[h].id) :
        /\ Loads1(job[h].id, l)
        /\ job' = [job EXCEPT ![h].pc = After[@], ![h].src = job[h].cur, ![h].cur = l.obj, ![h].blind = @ \/ l.err]
  BY DEF LoadTarget, Loads1
<1>3. l.obj \in Objs /\ l.err \in BOOLEAN /\ job[h].pc \in DOMAIN After
  BY <1>1, LoadedFacts, DomainAfter DEF TypeInv
<1>4. QED
  BY <1>1, <1>2, <1>3, TargetLoaded, AfterIs DEF TypeInv

LEMMA LoadTargetTypeInv == ASSUME TypeInv, NEW h \in Handlers, LoadTarget(h) PROVE TypeInv'
<1>1. job[h].pc = "saveObj" /\ job[h].id \in Ids /\ UNCHANGED <<stored, bound, issued, ran, clash>>
  BY DEF LoadTarget, At, TypeInv, StepsOK, JobOK, NeedsId, Ids
<1>2. PICK l \in Loaded(job[h].id) :
           /\ Loads1(job[h].id, l)
           /\ Stepped(h, "saveCopy", job[h].id, job[h].name, l.obj, job[h].cur, job[h].blind \/ l.err, job[h].was)
  BY LoadTargetJob
<1>3. l.obj # Null /\ heap'[l.obj] # Null /\ \A o \in Objs : heap[o] # Null => heap'[o] # Null
  BY <1>1, <1>2, LoadKeeps DEF TypeInv
<1>4. job[h].cur \in Objs /\ heap[job[h].cur] # Null /\ job[h].cur # Null
  BY <1>1, JobFacts DEF TypeInv, StepsOK, JobOK, At, NeedsCur, Jobs
<1>5. JobOK(h)'
  BY <1>1, <1>2, <1>3, <1>4 DEF Stepped, TypeInv, StepsOK, JobOK, At, NeedsId, NeedsName, NeedsOther, NeedsCur, NeedsSrc
<1>6. QED
  BY <1>1, <1>2, <1>5, LoadTypeInv DEF Stepped

LEMMA RenameLoadJob ==
  ASSUME TypeInv, NEW h \in Handlers, RenameLoad(h)
  PROVE  \E l \in Loaded(job[h].id) :
           /\ cache' = [cache EXCEPT ![job[h].id] = l.obj]
           /\ heap' = [heap EXCEPT ![l.obj] = [l.value EXCEPT !.name = job[h].other]]
           /\ Stepped(h, "renameSave", job[h].id, job[h].name, l.obj, job[h].src, job[h].blind, job[h].was)
<1>1. job[h].pc = "renameLoad" /\ job[h].id \in Ids
  BY DEF RenameLoad, At, TypeInv, StepsOK, JobOK, NeedsId, Ids
<1>2. PICK l \in Loaded(job[h].id) :
        /\ cache' = [cache EXCEPT ![job[h].id] = l.obj]
        /\ heap' = [heap EXCEPT ![l.obj] = [l.value EXCEPT !.name = job[h].other]]
        /\ job' = [job EXCEPT ![h].pc = After[@], ![h].cur = l.obj]
  BY DEF RenameLoad
<1>3. l.obj \in Objs /\ job[h].pc \in DOMAIN After
  BY <1>1, LoadedFacts, DomainAfter DEF TypeInv
<1>4. QED
  BY <1>1, <1>2, <1>3, RenameLoaded, AfterIs DEF TypeInv

\* What .pc rename leaves in the heap: the object of the card, with its new name.
Renamed(h, o) ==
  /\ o \in Objs /\ cache' = [cache EXCEPT ![job[h].id] = o] /\ cache' \in [Ids -> Objs \cup {Null}]
  /\ heap' \in [Objs -> Objects \cup {Null}] /\ heap'[o] # Null /\ o # Null
  /\ heap'[o].id = job[h].id /\ heap'[o].name = job[h].other
  /\ \A p \in Objs \ {o} : heap'[p] = heap[p]
  /\ Free(o) \/ cache[job[h].id] = o
  /\ Stepped(h, "renameSave", job[h].id, job[h].name, o, job[h].src, job[h].blind, job[h].was)

LEMMA RenameLoadFacts == ASSUME TypeInv, NEW h \in Handlers, RenameLoad(h) PROVE \E o \in Objs : Renamed(h, o)
<1>1. job[h].id \in Ids /\ job[h].other \in Names
  BY DEF RenameLoad, At, TypeInv, StepsOK, JobOK, NeedsId, NeedsOther, Ids
<1>2. PICK l \in Loaded(job[h].id) :
           /\ cache' = [cache EXCEPT ![job[h].id] = l.obj]
           /\ heap' = [heap EXCEPT ![l.obj] = [l.value EXCEPT !.name = job[h].other]]
           /\ Stepped(h, "renameSave", job[h].id, job[h].name, l.obj, job[h].src, job[h].blind, job[h].was)
  BY RenameLoadJob
<1>3. l.obj \in Objs /\ l.value \in Objects /\ l.value.id = job[h].id /\ l.obj # Null /\ (Free(l.obj) \/ cache[job[h].id] = l.obj)
  BY <1>1, LoadedFacts, NullAssumption DEF TypeInv
<1> DEFINE v == [l.value EXCEPT !.name = job[h].other]
<1>4. v \in Objects /\ v.id = job[h].id /\ v.name = job[h].other /\ v # Null
  <2>1. v \in Objects /\ v.id = job[h].id /\ v.name = job[h].other
    BY <1>1, <1>3 DEF Objects
  <2> HIDE DEF v
  <2>2. QED
    BY <2>1, ValuesAssumption
<1> HIDE DEF v
<1>5. heap' = [heap EXCEPT ![l.obj] = v]
  BY <1>2 DEF v
<1>6. cache' \in [Ids -> Objs \cup {Null}] /\ heap' \in [Objs -> Objects \cup {Null}]
  BY <1>2, <1>3, <1>4, <1>5 DEF TypeInv, TypeOK
<1>7. heap'[l.obj] = v /\ \A p \in Objs \ {l.obj} : heap'[p] = heap[p]
  BY <1>3, <1>5 DEF TypeInv, TypeOK
<1>8. Renamed(h, l.obj)
  BY <1>2, <1>3, <1>4, <1>6, <1>7 DEF Renamed
<1>9. QED
  BY <1>3, <1>8

LEMMA RenameLoadTypeInv == ASSUME TypeInv, NEW h \in Handlers, RenameLoad(h) PROVE TypeInv'
<1>1. job[h].pc = "renameLoad" /\ job[h].id \in Ids /\ job[h].other \in Names /\ UNCHANGED <<stored, bound, issued, ran>>
  BY DEF RenameLoad, At, TypeInv, StepsOK, JobOK, NeedsId, NeedsOther, Ids
<1>2. PICK o \in Objs : Renamed(h, o)
  BY RenameLoadFacts
<1>3. JobOK(h)'
  BY <1>1, <1>2 DEF Renamed, Stepped, TypeInv, StepsOK, JobOK, At, NeedsId, NeedsName, NeedsOther, NeedsCur, NeedsSrc
<1>4. clash' \subseteq Names
  BY <1>1 DEF RenameLoad, NoteClash, TypeInv, TypeOK
<1>5. ASSUME NEW i \in Ids, cache'[i] # Null PROVE heap'[cache'[i]] # Null /\ heap'[cache'[i]].id = i
  <2>1. CASE i = job[h].id
    BY <1>2, <2>1 DEF Renamed, TypeInv, TypeOK
  <2>2. CASE i # job[h].id
    <3>1. cache'[i] = cache[i] /\ cache[i] \in Objs /\ heap[cache[i]] # Null /\ heap[cache[i]].id = i
      BY <1>2, <1>5, <2>2 DEF Renamed, TypeInv, TypeOK
    <3>2. cache[i] # o
      BY <1>1, <1>2, <2>2, <3>1 DEF Renamed, Free, TypeInv, TypeOK
    <3>3. QED
      BY <1>2, <3>1, <3>2 DEF Renamed
  <2>3. QED
    BY <2>1, <2>2
<1>6. \A p \in Objs : heap[p] # Null => heap'[p] # Null
  BY <1>2 DEF Renamed
<1>7. QED
  BY <1>1, <1>2, <1>3, <1>4, <1>5, <1>6, TypeInvStep DEF Renamed, Stepped, TypeInv, TypeOK

\* An edit of the attributes of object o.
Edited(o, d) ==
  /\ heap' \in [Objs -> Objects \cup {Null}] /\ heap'[o] # Null
  /\ heap'[o].id = heap[o].id /\ heap'[o].owned = heap[o].owned /\ heap'[o].name = heap[o].name /\ heap'[o].data = d
  /\ \A p \in Objs \ {o} : heap'[p] = heap[p]

LEMMA EditFacts ==
  ASSUME TypeOK, NEW o \in Objs, heap[o] # Null, NEW d \in Values, heap' = [heap EXCEPT ![o].data = d, ![o].saved = FALSE]
  PROVE  Edited(o, d)
<1> DEFINE v == [heap[o] EXCEPT !.data = d, !.saved = FALSE]
<1>1. heap \in [Objs -> Objects \cup {Null}] /\ heap[o] \in Objects
  BY DEF TypeOK
<1>2. v \in Objects /\ v.id = heap[o].id /\ v.owned = heap[o].owned /\ v.name = heap[o].name /\ v.data = d
  BY <1>1 DEF Objects
<1>3. heap' = [heap EXCEPT ![o] = v]
  BY <1>1
<1> HIDE DEF v
<1>4. v # Null
  BY <1>2, ValuesAssumption
<1>5. QED
  BY <1>1, <1>2, <1>3, <1>4 DEF Edited

LEMMA EditTypeInv ==
  ASSUME TypeInv, NEW h \in Handlers, NEW o \in Objs, NEW d, Edited(o, d) \/ heap' = heap, Others(h), JobOK(h)',
         UNCHANGED <<stored, bound, cache, issued, ran, clash>>
  PROVE  TypeInv'
<1>1. CASE heap' = heap
  BY <1>1, SmallStep DEF TypeInv, TypeOK
<1>2. CASE Edited(o, d)
  <2>1. /\ \A p \in Objs : heap[p] # Null => heap'[p] # Null
        /\ \A p \in Objs : heap'[p].id = heap[p].id
    BY <1>2 DEF Edited
  <2>2. \A id \in Ids : cache'[id] # Null => heap'[cache'[id]] # Null /\ heap'[cache'[id]].id = id
    BY <2>1 DEF TypeInv, TypeOK
  <2>3. QED
    BY <1>2, <2>1, <2>2, TypeInvStep DEF Edited, TypeInv, TypeOK
<1>3. QED
  BY <1>1, <1>2

LEMMA CurFacts ==
  ASSUME TypeInv, NEW h \in Handlers
  PROVE  /\ At(h, NeedsCur) => job[h].cur \in Objs /\ heap[job[h].cur] \in Objects /\ heap[job[h].cur] # Null
         /\ At(h, NeedsSrc) => job[h].src \in Objs /\ heap[job[h].src] \in Objects /\ heap[job[h].src] # Null
  BY JobFacts DEF TypeInv, StepsOK, JobOK, TypeOK, Jobs

LEMMA LoadClearFacts ==
  ASSUME TypeInv, NEW h \in Handlers, LoadClear(h)
  PROVE  /\ job[h].pc = "loadClear" /\ job[h].cur \in Objs /\ Edited(job[h].cur, Blank)
         /\ Stepped(h, "loadCopy", job[h].id, job[h].name, job[h].cur, job[h].src, job[h].blind, job[h].was)
<1>1. job[h].pc = "loadClear" /\ At(h, NeedsCur)
  BY DEF LoadClear, At, NeedsCur
<1>2. job[h].cur \in Objs /\ Edited(job[h].cur, Blank)
  BY <1>1, CurFacts, EditFacts DEF LoadClear, TypeInv, Values
<1>3. QED
  BY <1>1, <1>2, Continued, DomainAfter, AfterIs DEF LoadClear, Continue, TypeInv

LEMMA CopyFacts ==
  ASSUME TypeInv, NEW h \in Handlers, CopyAttributes(h)
  PROVE  /\ At(h, {"loadCopy", "saveCopy"}) /\ job[h].cur \in Objs /\ job[h].src \in Objs
         /\ \/ heap[job[h].src].data = Blank /\ heap' = heap
            \/ Edited(job[h].cur, heap[job[h].src].data)
         /\ Stepped(h, After[job[h].pc], job[h].id, job[h].name, job[h].cur, job[h].src, job[h].blind, job[h].was)
<1>1. At(h, {"loadCopy", "saveCopy"}) /\ At(h, NeedsCur) /\ At(h, NeedsSrc)
  BY DEF CopyAttributes, At, NeedsCur, NeedsSrc
<1>2. /\ job[h].cur \in Objs /\ job[h].src \in Objs /\ heap[job[h].cur] # Null
      /\ heap[job[h].src].data \in Values
  BY <1>1, CurFacts DEF Objects
<1>3. \/ heap[job[h].src].data = Blank /\ heap' = heap
      \/ Edited(job[h].cur, heap[job[h].src].data)
  BY <1>2, EditFacts DEF CopyAttributes, TypeInv
<1>4. QED
  BY <1>1, <1>2, <1>3, Continued, DomainAfter DEF CopyAttributes, Continue, TypeInv, At

LEMMA StoreFacts ==
  ASSUME TypeInv, NEW h \in Handlers, NEW d \in Data, StoreAttribute(h, d)
  PROVE  job[h].pc = "stStore" /\ job[h].cur \in Objs /\ Edited(job[h].cur, d) /\ Finish(h)
<1>1. job[h].pc = "stStore" /\ At(h, NeedsCur)
  BY DEF StoreAttribute, At, NeedsCur
<1>2. job[h].cur \in Objs /\ Edited(job[h].cur, d)
  BY <1>1, CurFacts, EditFacts DEF StoreAttribute, TypeInv, Values
<1>3. QED
  BY <1>1, <1>2 DEF StoreAttribute

LEMMA EditsTypeInv ==
  ASSUME TypeInv, NEW h \in Handlers, LoadClear(h) \/ CopyAttributes(h) \/ \E d \in Data : StoreAttribute(h, d)
  PROVE  TypeInv'
<1> USE DEF JobOK, At, NeedsId, NeedsName, NeedsOther, NeedsCur, NeedsSrc, Stepped
<1>1. CASE LoadClear(h)
  <2>1. /\ job[h].pc = "loadClear" /\ job[h].cur \in Objs /\ Edited(job[h].cur, Blank)
        /\ Stepped(h, "loadCopy", job[h].id, job[h].name, job[h].cur, job[h].src, job[h].blind, job[h].was)
    BY <1>1, LoadClearFacts
  <2>2. job[h].src \in Objs /\ heap[job[h].src] # Null /\ heap[job[h].cur] # Null
    BY <2>1, CurFacts
  <2>3. heap'[job[h].src] # Null /\ heap'[job[h].cur] # Null
    BY <2>1, <2>2 DEF Edited
  <2>4. JobOK(h)'
    BY <2>1, <2>3 DEF TypeInv, StepsOK
  <2>5. QED
    BY <1>1, <2>1, <2>4, EditTypeInv DEF LoadClear
<1>2. CASE CopyAttributes(h)
  <2> DEFINE d == heap[job[h].src].data
  <2>1. /\ At(h, {"loadCopy", "saveCopy"}) /\ job[h].cur \in Objs /\ job[h].src \in Objs
        /\ heap' = heap \/ Edited(job[h].cur, d)
        /\ Stepped(h, After[job[h].pc], job[h].id, job[h].name, job[h].cur, job[h].src, job[h].blind, job[h].was)
    BY <1>2, CopyFacts
  <2>2. heap[job[h].src] # Null /\ heap[job[h].cur] # Null
    BY <2>1, CurFacts
  <2>3. heap'[job[h].src] # Null /\ heap'[job[h].cur] # Null
    BY <2>1, <2>2 DEF Edited
  <2>4. JobOK(h)'
    BY <2>1, <2>3, AfterIs DEF TypeInv, StepsOK
  <2> HIDE DEF d
  <2>5. QED
    BY <1>2, <2>1, <2>4, EditTypeInv DEF CopyAttributes
<1>3. ASSUME NEW d \in Data, StoreAttribute(h, d) PROVE TypeInv'
  <2>1. job[h].cur \in Objs /\ Edited(job[h].cur, d) /\ Finish(h)
    BY <1>3, StoreFacts
  <2>2. Others(h) /\ JobOK(h)'
    BY <2>1, DoneOK DEF TypeInv
  <2>3. QED
    BY <1>3, <2>1, <2>2, EditTypeInv DEF StoreAttribute
<1>4. QED
  BY <1>1, <1>2, <1>3

Card(o) == [owned |-> heap[o].owned, name |-> heap[o].name, data |-> heap[o].data]

\* What am.Save makes of the map and the store.
LEMMA PutFacts ==
  ASSUME TypeOK, NEW o \in Objs, heap[o] # Null, Put(o)
  PROVE  /\ Card(o) \in Items /\ Card(o) # Absent /\ heap[o].id \in Ids
         /\ stored' = [stored EXCEPT ![heap[o].id] = Card(o)] /\ stored' \in [Ids -> Items \cup {Absent}]
         /\ cache' = [cache EXCEPT ![heap[o].id] = o] /\ cache' \in [Ids -> Objs \cup {Null}]
         /\ heap' \in [Objs -> Objects \cup {Null}] /\ heap'[o] # Null
         /\ \A p \in Objs \ {o} : heap'[p] = heap[p]
         /\ \A p \in Objs : /\ heap'[p].id = heap[p].id /\ heap'[p].owned = heap[p].owned
                            /\ heap'[p].name = heap[p].name /\ heap'[p].data = heap[p].data
<1> DEFINE v == [heap[o] EXCEPT !.saved = TRUE]
<1>1. heap \in [Objs -> Objects \cup {Null}] /\ heap[o] \in Objects
  BY DEF TypeOK
<1>2. v \in Objects /\ v.id = heap[o].id /\ v.owned = heap[o].owned /\ v.name = heap[o].name /\ v.data = heap[o].data
  BY <1>1 DEF Objects
<1>3. heap' = [heap EXCEPT ![o] = v]
  BY <1>1 DEF Put
<1> HIDE DEF v
<1>4. v # Null
  BY <1>2, ValuesAssumption
<1>5. Card(o) \in Items /\ heap[o].id \in Ids
  BY <1>1 DEF Card, Items, Objects
<1>6. Card(o) # Absent
  BY <1>5, ValuesAssumption
<1>7. stored' = [stored EXCEPT ![heap[o].id] = Card(o)] /\ cache' = [cache EXCEPT ![heap[o].id] = o]
  BY DEF Put, Card
<1>8. heap' \in [Objs -> Objects \cup {Null}] /\ heap'[o] = v /\ \A p \in Objs \ {o} : heap'[p] = heap[p]
  BY <1>1, <1>2, <1>3
<1>9. QED
  BY <1>2, <1>4, <1>5, <1>6, <1>7, <1>8 DEF TypeOK

LEMMA SaveCardFacts ==
  ASSUME TypeInv, NEW h \in Handlers, SaveCard(h)
  PROVE  /\ At(h, {"loadSave", "saveSave", "renameSave"}) /\ job[h].cur \in Objs /\ heap[job[h].cur] # Null
         /\ Put(job[h].cur) /\ Finish(h) /\ UNCHANGED <<bound, issued, ran, clash>>
  BY CurFacts DEF SaveCard, At, NeedsCur

LEMMA SaveCardTypeInv == ASSUME TypeInv, NEW h \in Handlers, SaveCard(h) PROVE TypeInv'
<1> DEFINE o == job[h].cur
<1>1. o \in Objs /\ heap[o] # Null /\ Put(o) /\ Finish(h) /\ UNCHANGED <<bound, issued, ran, clash>>
  BY SaveCardFacts
<1> HIDE DEF o
<1>2. /\ stored' \in [Ids -> Items \cup {Absent}] /\ heap[o].id \in Ids
      /\ cache' = [cache EXCEPT ![heap[o].id] = o] /\ cache' \in [Ids -> Objs \cup {Null}]
      /\ heap' \in [Objs -> Objects \cup {Null}] /\ heap'[o] # Null
      /\ \A p \in Objs \ {o} : heap'[p] = heap[p]
      /\ \A p \in Objs : heap'[p].id = heap[p].id
  BY <1>1, PutFacts DEF TypeInv
<1>3. \A p \in Objs : heap[p] # Null => heap'[p] # Null
  BY <1>2
<1>4. \A i \in Ids : cache'[i] # Null => heap'[cache'[i]] # Null /\ heap'[cache'[i]].id = i
  BY <1>1, <1>2, <1>3 DEF TypeInv, TypeOK
<1>5. Others(h) /\ JobOK(h)'
  BY <1>1, DoneOK DEF TypeInv
<1>6. QED
  BY <1>1, <1>2, <1>3, <1>4, <1>5, TypeInvStep DEF TypeInv, TypeOK

LEMMA DeleteCardTypeInv == ASSUME TypeInv, NEW h \in Handlers, DeleteCard(h) PROVE TypeInv'
<1>1. job[h].id \in Ids /\ Finish(h) /\ UNCHANGED <<heap, issued, ran, clash>>
  BY DEF DeleteCard, At, TypeInv, StepsOK, JobOK, NeedsId, Ids
<1>2. Others(h) /\ JobOK(h)'
  BY <1>1, DoneOK DEF TypeInv
<1>3. /\ stored' \in [Ids -> Items \cup {Absent}] /\ bound' \in [Groups -> Cards \cup {Null}]
      /\ cache' \in [Ids -> Objs \cup {Null}] /\ \A i \in Ids : cache'[i] # Null => cache'[i] = cache[i]
  BY <1>1 DEF DeleteCard, Unbound, TypeInv, TypeOK
<1>4. QED
  BY <1>1, <1>2, <1>3, TypeInvStep DEF TypeInv, TypeOK

Dirty == {id \in Ids : cache[id] # Null /\ ~heap[cache[id]].saved}

\* What the saver makes of the store and the objects.
LEMMA FlushFacts ==
  ASSUME TypeInv, Flush
  PROVE  /\ UNCHANGED <<bound, cache, job, issued, ran, clash>>
         /\ stored' \in [Ids -> Items \cup {Absent}]
         /\ \A id \in Ids : \/ stored'[id] = stored[id]
                            \/ cache[id] # Null /\ stored'[id] = Card(cache[id]) /\ Card(cache[id]) # Absent
         /\ heap' \in [Objs -> Objects \cup {Null}]
         /\ \A p \in Objs : heap[p] # Null =>
              /\ heap'[p] # Null /\ heap'[p].id = heap[p].id /\ heap'[p].owned = heap[p].owned
              /\ heap'[p].name = heap[p].name /\ heap'[p].data = heap[p].data
         /\ \A p \in Objs : heap[p] = Null => heap'[p] = Null
<1> USE DEF TypeInv, TypeOK
<1>1. /\ stored' = [id \in Ids |-> IF id \in Dirty THEN Card(cache[id]) ELSE stored[id]]
      /\ heap' = [o \in Objs |-> IF \E id \in Dirty : cache[id] = o THEN [heap[o] EXCEPT !.saved = TRUE] ELSE heap[o]]
      /\ UNCHANGED <<bound, cache, job, issued, ran, clash>>
  BY DEF Flush, Dirty, Card
<1>2. \A id \in Dirty : cache[id] \in Objs /\ heap[cache[id]] \in Objects
  BY DEF Dirty
<1>3. \A id \in Dirty : Card(cache[id]) \in Items
  BY <1>2 DEF Card, Items, Objects
<1>4. \A id \in Dirty : Card(cache[id]) # Absent
  BY <1>3, ValuesAssumption
<1>5. ASSUME NEW p \in Objs, heap[p] \in Objects
      PROVE  LET v == [heap[p] EXCEPT !.saved = TRUE] IN
             v \in Objects /\ v.id = heap[p].id /\ v.owned = heap[p].owned /\ v.name = heap[p].name /\ v.data = heap[p].data
  BY <1>5 DEF Objects
<1>6. heap' \in [Objs -> Objects \cup {Null}]
  BY <1>1, <1>2, <1>5
<1>7. \A p \in Objs : heap[p] # Null =>
              /\ heap'[p].id = heap[p].id /\ heap'[p].owned = heap[p].owned
              /\ heap'[p].name = heap[p].name /\ heap'[p].data = heap[p].data
  BY <1>1, <1>5
<1>8. \A p \in Objs : heap[p] # Null => heap'[p] \in Objects
  BY <1>1, <1>5
<1>9. \A p \in Objs : heap[p] # Null => heap'[p] # Null
  BY <1>8, ValuesAssumption
<1>10. ASSUME NEW p \in Objs, heap[p] = Null PROVE heap'[p] = Null
  <2>1. \A id \in Dirty : cache[id] # p
    BY <1>10 DEF Dirty
  <2>2. QED
    BY <1>1, <1>10, <2>1
<1>11. stored' \in [Ids -> Items \cup {Absent}]
  BY <1>1, <1>3
<1>12. \A id \in Ids : \/ stored'[id] = stored[id]
                       \/ cache[id] # Null /\ stored'[id] = Card(cache[id]) /\ Card(cache[id]) # Absent
  BY <1>1, <1>4 DEF Dirty
<1>13. QED
  BY <1>1, <1>6, <1>7, <1>9, <1>10, <1>11, <1>12

LEMMA FlushTypeInv == ASSUME TypeInv, Flush PROVE TypeInv'
<1>1. /\ UNCHANGED <<bound, cache, job, issued, ran, clash>>
      /\ stored' \in [Ids -> Items \cup {Absent}]
      /\ heap' \in [Objs -> Objects \cup {Null}]
      /\ \A p \in Objs : heap[p] # Null => heap'[p] # Null /\ heap'[p].id = heap[p].id
  BY FlushFacts
<1>2. TypeOK'
  BY <1>1 DEF TypeInv, TypeOK
<1>3. ASSUME NEW h \in Handlers PROVE JobOK(h)'
  <2>1. job[h].cur \in Objs \cup {Null} /\ job[h].src \in Objs \cup {Null} /\ JobOK(h)
    BY JobFacts DEF Jobs, TypeInv, StepsOK
  <2>2. QED
    BY <1>1, <2>1 DEF JobOK, At
<1>4. QED
  BY <1>2, <1>3 DEF TypeInv, StepsOK

LEMMA MovesTypeInv == ASSUME TypeInv, NEW h \in Handlers, Moves(h) PROVE TypeInv'
  BY CallFailsTypeInv, FindTypeInv, CheckNameTypeInv, NewCardTypeInv, SaveNewFailsTypeInv, BindCardTypeInv,
     LoadCurrentTypeInv, LoadSourceTypeInv, LoadTargetTypeInv, EditsTypeInv, SaveCardTypeInv, RenameLoadTypeInv,
     UnbindCardTypeInv, UntagLoadTypeInv, UnbindAllTypeInv, DelListTypeInv, DeleteCardTypeInv DEF Moves

LEMMA NextCases ==
  ASSUME [Next]_vars
  PROVE  \/ \E h \in Handlers, c \in Commands, g \in Groups, n \in Names \cup {Null}, m \in Names \cup {Null} : Begin(h, c, g, n, m)
         \/ \E h \in Handlers : Moves(h)
         \/ Flush
         \/ UNCHANGED vars
  BY DEF Next, Moves

LEMMA NextTypeInv == TypeInv /\ [Next]_vars => TypeInv'
<1> SUFFICES ASSUME TypeInv, [Next]_vars PROVE TypeInv'
  OBVIOUS
<1>1. CASE UNCHANGED vars
  BY <1>1 DEF vars, TypeInv, TypeOK, StepsOK, JobOK, At
<1>2. QED
  BY <1>1, NextCases, BeginTypeInv, MovesTypeInv, FlushTypeInv

\* Everything the commands and the saver work on has its type, a card in the map stands under its
\* own id, and the step of a command tells what it knows: its card, its names, its objects.
THEOREM CommandsTypeOK == Spec => []TypeOK
<1>1. TypeInv => TypeOK
  BY DEF TypeInv
<1>2. QED
  BY <1>1, InitTypeInv, NextTypeInv, PTL DEF Spec
-----------------------------------------------------------------------------
(***************************************************************************)
(* Overlapping commands.                                                   *)
(***************************************************************************)
\* A step of h moves no other command; h is done, or goes on to the next step, as alone as before.
Took(h) ==
  /\ Others(h)
  /\ \/ job'[h] = Idle
     \/ job[h].pc \in DOMAIN After /\ job'[h].pc = After[job[h].pc] /\ job'[h].alone = job[h].alone

LEMMA MovesJob == ASSUME TypeInv, NEW h \in Handlers, Moves(h) PROVE ~At(h, {"idle"}) /\ Took(h)
<1>0. ~At(h, {"idle"})
  BY DEF Moves, CallFails, Find, CheckName, NewCard, SaveNewFails, BindCard, LoadCurrent, LoadSource, LoadTarget, LoadClear,
         CopyAttributes, SaveCard, RenameLoad, UnbindCard, UntagLoad, UnbindAll, DelList, DeleteCard, StoreAttribute, At
<1> SUFFICES Took(h)
  BY <1>0
<1>1. ASSUME Finish(h) PROVE Took(h)
  BY <1>1, Finished DEF TypeInv, Took
<1>2. ASSUME NEW id, NEW name, NEW cur, NEW src, NEW blind, NEW was, job[h].pc \in DOMAIN After,
             Stepped(h, After[job[h].pc], id, name, cur, src, blind, was)
      PROVE  Took(h)
  BY <1>2 DEF Stepped, Took
<1>3. CASE Find(h)
  <2>1. bound[job[h].g] \in Cards \cup {Null} /\ \A n : Bearers(n) \subseteq Cards
    BY <1>3 DEF Find, TypeInv, TypeOK, StepsOK, JobOK, At, Bearers
  <2>2. ASSUME NEW c \in Cards, job' = [job EXCEPT ![h].pc = After[@], ![h].id = c, ![h].name = Null] PROVE Took(h)
    BY <1>2, <1>3, <2>2, FoundId, DomainAfter DEF Find, At, TypeInv
  <2>3. QED
    <3>1. Finish(h) \/ \E c \in Cards : job' = [job EXCEPT ![h].pc = After[@], ![h].id = c, ![h].name = Null]
      BY <1>3, <2>1 DEF Find
    <3>2. QED
      BY <1>1, <2>2, <3>1
<1>4. CASE CheckName(h)
  BY <1>1, <1>2, <1>4, Continued, Blinded, DomainAfter DEF CheckName, Continue, At, TypeInv
<1>5. ASSUME NEW c \in Cards, NewCard(h, c) PROVE Took(h)
  BY <1>2, <1>5, IssuedId, DomainAfter DEF NewCard, At, TypeInv
<1>6. CASE LoadCurrent(h)
  BY <1>2, <1>6, LoadCurrentJob, AfterIs, DomainAfter DEF LoadCurrent, At, Stepped, Took
<1>7. CASE LoadSource(h)
  BY <1>2, <1>7, LoadSourceJob, AfterIs, DomainAfter DEF LoadSource, At, Stepped, Took
<1>8. CASE LoadTarget(h)
  BY <1>2, <1>8, LoadTargetJob, AfterIs, DomainAfter DEF LoadTarget, At, Stepped, Took
<1>9. CASE LoadClear(h)
  BY <1>2, <1>9, LoadClearFacts, AfterIs, DomainAfter DEF LoadClear, At, Stepped, Took
<1>10. CASE CopyAttributes(h)
  BY <1>2, <1>10, CopyFacts, AfterIs, DomainAfter DEF CopyAttributes, At, Stepped, Took
<1>11. CASE RenameLoad(h)
  BY <1>2, <1>11, RenameLoadJob, AfterIs, DomainAfter DEF RenameLoad, At, Stepped, Took
<1>12. CASE UnbindCard(h)
  BY <1>2, <1>12, Continued, DomainAfter DEF UnbindCard, Continue, At, TypeInv
<1>13. CASE DelList(h)
  BY <1>1, <1>2, <1>13, Continued, Blinded, DomainAfter DEF DelList, Continue, At, TypeInv
<1>14. CASE CallFails(h) \/ SaveNewFails(h) \/ BindCard(h) \/ SaveCard(h) \/ UntagLoad(h) \/ UnbindAll(h) \/ DeleteCard(h)
            \/ \E d \in Data : StoreAttribute(h, d)
  <2>1. Finish(h)
    BY <1>14 DEF CallFails, SaveNewFails, BindCard, SaveCard, UntagLoad, UnbindAll, DeleteCard, StoreAttribute
  <2>2. QED
    BY <1>1, <2>1
<1>15. QED
  BY <1>3, <1>4, <1>5, <1>6, <1>7, <1>8, <1>9, <1>10, <1>11, <1>12, <1>13, <1>14 DEF Moves

\* What the beginning of a command does to the commands there are.
LEMMA BeginJob ==
  ASSUME TypeInv, NEW h \in Handlers, NEW c \in Commands, NEW g \in Groups, NEW n \in Names \cup {Null}, NEW m \in Names \cup {Null},
         Begin(h, c, g, n, m)
  PROVE  /\ At(h, {"idle"}) /\ UNCHANGED <<stored, bound, cache, heap, issued, clash>>
         /\ job'[h].pc = c /\ c # "idle" /\ job'[h].cur = Null /\ job'[h].src = Null
         /\ job'[h].alone => \A i \in Handlers \ {h} : At(i, {"idle"})
         /\ \A i \in Handlers \ {h} :
              /\ job'[i].pc = job[i].pc /\ job'[i].other = job[i].other
              /\ job'[i].cur = job[i].cur /\ job'[i].src = job[i].src
              /\ job[i].pc # "idle" => job'[i].alone = FALSE
<1> DEFINE others == {i \in Handlers \ {h} : ~At(i, {"idle"})}
           a == (others = {})
           new == [Idle EXCEPT !.pc = c, !.g = g, !.name = n, !.other = m, !.alone = a]
<1>1. job' = [i \in Handlers |-> IF i = h THEN new ELSE IF i \in others THEN [job[i] EXCEPT !.alone = FALSE] ELSE job[i]]
  BY DEF Begin
<1>2. new.pc = c /\ new.alone = a /\ new.cur = Null /\ new.src = Null
  BY IdleFacts DEF Idle
<1>3. c # "idle"
  BY DEF Commands, Named
<1>4. ASSUME NEW i \in Handlers \ {h}
      PROVE  /\ job'[i].pc = job[i].pc /\ job'[i].other = job[i].other
             /\ job'[i].cur = job[i].cur /\ job'[i].src = job[i].src
             /\ job[i].pc # "idle" => job'[i].alone = FALSE
  <2> HIDE DEF new
  <2>1. CASE i \in others
    <3> DEFINE j == [job[i] EXCEPT !.alone = FALSE]
    <3>1. j.pc = job[i].pc /\ j.other = job[i].other /\ j.cur = job[i].cur /\ j.src = job[i].src /\ j.alone = FALSE
      BY JobFacts DEF TypeInv, Jobs
    <3>2. job'[i] = j
      BY <1>1, <2>1
    <3> HIDE DEF j
    <3>3. QED
      BY <3>1, <3>2
  <2>2. CASE i \notin others
    BY <1>1, <2>2 DEF At
  <2>3. QED
    BY <2>1, <2>2
<1>5. job'[h] = new
  BY <1>1
<1> HIDE DEF new
<1>6. QED
  BY <1>2, <1>3, <1>4, <1>5 DEF Begin

LEMMA BeginSolo ==
  ASSUME TypeInv, Solo, NEW h \in Handlers, NEW c \in Commands, NEW g \in Groups, NEW n \in Names \cup {Null}, NEW m \in Names \cup {Null},
         Begin(h, c, g, n, m)
  PROVE  Solo'
<1>1. SUFFICES ASSUME NEW a \in Handlers, NEW b \in Handlers, job'[a].alone, job'[a].pc # "idle", a # b PROVE job'[b].pc = "idle"
  BY DEF Solo, At
<1>2. a = h
  BY <1>1, BeginJob
<1>3. QED
  BY <1>1, <1>2, BeginJob DEF At

LEMMA MovesSolo == ASSUME TypeInv, Solo, NEW h \in Handlers, Moves(h) PROVE Solo'
<1>1. SUFFICES ASSUME NEW a \in Handlers, NEW b \in Handlers, job'[a].alone, job'[a].pc # "idle", a # b PROVE job'[b].pc = "idle"
  BY DEF Solo, At
<1>2. Others(h) /\ ~At(h, {"idle"}) /\ (job'[h] = Idle \/ job'[h].alone = job[h].alone)
  BY MovesJob DEF Took
<1>3. CASE a = h
  BY <1>1, <1>2, <1>3, IdleFacts DEF Solo, Others, At
<1>4. CASE a # h
  BY <1>1, <1>2, <1>4 DEF Solo, Others, At
<1>5. QED
  BY <1>3, <1>4

LEMMA NextSolo == TypeInv /\ Solo /\ [Next]_vars => Solo'
<1> SUFFICES ASSUME TypeInv, Solo, [Next]_vars PROVE Solo'
  OBVIOUS
<1>1. CASE UNCHANGED vars \/ Flush
  BY <1>1 DEF vars, Flush, Solo, At
<1>2. QED
  BY <1>1, NextCases, BeginSolo, MovesSolo
-----------------------------------------------------------------------------
(***************************************************************************)
(* Names.                                                                  *)
(***************************************************************************)
Same(o) == heap'[o].id = heap[o].id /\ heap'[o].owned = heap[o].owned /\ heap'[o].name = heap[o].name

\* A step that gives no name: what it leaves in the store, and in the objects somebody refers to, bore its name before.
GivesNoName ==
  /\ \A c \in Ids : \/ stored'[c] = stored[c] \/ stored'[c] = Absent
                    \/ \E o \in Objs : Refers(o) /\ heap[o].id = c /\ stored'[c] = Card(o)
  /\ \A o \in Objs : Refers(o)' => \/ Refers(o) /\ Same(o)
                                   \/ ~heap'[o].owned
                                   \/ Bears(stored[heap'[o].id], heap'[o].name)

LEMMA KeepsClaims == ASSUME GivesNoName, NEW n, NEW c \in Ids, Claims(c, n)' PROVE Claims(c, n)
<1>1. CASE Bears(stored'[c], n)
  <2>1. ASSUME NEW o \in Objs, Refers(o), heap[o].id = c, stored'[c] = Card(o) PROVE Claims(c, n)
    BY <1>1, <2>1 DEF Claims, Bears, Card
  <2>2. QED
    BY <1>1, <2>1 DEF GivesNoName, Claims, Bears
<1>2. CASE \E o \in Objs : Refers(o)' /\ heap'[o].id = c /\ heap'[o].owned /\ heap'[o].name = n
  BY <1>2 DEF GivesNoName, Claims, Same
<1>3. QED
  BY <1>1, <1>2 DEF Claims

LEMMA OneClaimKept == ASSUME OneClaim, GivesNoName, clash \subseteq clash' PROVE OneClaim'
  BY KeepsClaims DEF OneClaim, Ids

\* The steps that touch neither the map nor the store.
Plain(h) ==
  /\ Others(h) /\ UNCHANGED <<stored, cache>> /\ \A o \in Objs : Same(o)
  /\ job'[h].cur \in {job[h].cur, Null} /\ job'[h].src \in {job[h].src, Null}
  /\ clash' = IF At(h, {"renameSave"}) THEN clash \cup {job[h].other} ELSE clash

LEMMA SameHeap == ASSUME heap' = heap \/ \E o \in Objs, d \in Values : Edited(o, d) PROVE \A o \in Objs : Same(o)
  BY DEF Same, Edited

\* What a step leaves of the objects of h.
LEMMA Forgets == ASSUME TypeOK, NEW h \in Handlers, Finish(h) PROVE Others(h) /\ job'[h].cur = Null /\ job'[h].src = Null
  BY Finished, IdleFacts

LEMMA PlainSteps ==
  ASSUME TypeInv, NEW h \in Handlers,
         \/ CallFails(h) \/ Find(h) \/ CheckName(h) \/ BindCard(h) \/ LoadClear(h) \/ CopyAttributes(h)
         \/ UnbindCard(h) \/ UnbindAll(h) \/ DelList(h) \/ \E d \in Data : StoreAttribute(h, d)
  PROVE  Plain(h)
<1>1. CASE CallFails(h)
  BY <1>1, Forgets, SameHeap DEF CallFails, Plain, TypeInv
<1>2. CASE Find(h)
  <2>1. /\ UNCHANGED <<stored, bound, cache, heap, issued, ran, clash>>
        /\ At(h, {"rename", "tag", "load", "untagall", "del", "renameBound", "untag", "untagallBound"})
    BY <1>2 DEF Find
  <2>2. ~At(h, {"renameSave"}) /\ \A o \in Objs : Same(o)
    BY <2>1, SameHeap DEF At
  <2>3. bound[job[h].g] \in Cards \cup {Null} /\ \A n : Bearers(n) \subseteq Cards
    BY <2>1 DEF TypeInv, TypeOK, StepsOK, JobOK, At, Bearers
  <2>4. Finish(h) \/ \E c \in Cards : job' = [job EXCEPT ![h].pc = After[@], ![h].id = c, ![h].name = Null]
    BY <1>2, <2>3 DEF Find
  <2>5. CASE Finish(h)
    BY <2>1, <2>2, <2>5, Forgets DEF Plain, TypeInv
  <2>6. ASSUME NEW c \in Cards, job' = [job EXCEPT ![h].pc = After[@], ![h].id = c, ![h].name = Null] PROVE Plain(h)
    <3>1. Stepped(h, After[job[h].pc], c, Null, job[h].cur, job[h].src, job[h].blind, job[h].was)
      BY <2>1, <2>6, FoundId, DomainAfter DEF At, TypeInv
    <3>2. QED
      BY <2>1, <2>2, <3>1 DEF Plain, Stepped
  <2>7. QED
    BY <2>4, <2>5, <2>6
<1>3. ASSUME NEW b, Stepped(h, After[job[h].pc], job[h].id, job[h].name, job[h].cur, job[h].src, b, job[h].was),
             UNCHANGED <<stored, cache, clash>>, \A o \in Objs : Same(o), ~At(h, {"renameSave"})
      PROVE  Plain(h)
  BY <1>3 DEF Plain, Stepped
<1>4. CASE CheckName(h)
  <2>1. UNCHANGED <<stored, cache, heap, clash>> /\ At(h, {"new", "save", "renameCheck"})
    BY <1>4 DEF CheckName
  <2>2. ~At(h, {"renameSave"}) /\ \A o \in Objs : Same(o)
    BY <2>1, SameHeap DEF At
  <2>3. CASE Finish(h)
    BY <2>1, <2>2, <2>3, Forgets DEF Plain, TypeInv
  <2>4. CASE ~Finish(h)
    <3>1. \E b : Stepped(h, After[job[h].pc], job[h].id, job[h].name, job[h].cur, job[h].src, b, job[h].was)
      BY <1>4, <2>1, <2>4, Continued, Blinded, DomainAfter DEF CheckName, Continue, At, TypeInv
    <3>2. QED
      BY <1>3, <2>1, <2>2, <3>1
  <2>5. QED
    BY <2>3, <2>4
<1>5. CASE DelList(h)
  <2>1. UNCHANGED <<stored, cache, heap, clash>> /\ At(h, {"delList"})
    BY <1>5 DEF DelList
  <2>2. ~At(h, {"renameSave"}) /\ \A o \in Objs : Same(o)
    BY <2>1, SameHeap DEF At
  <2>3. CASE Finish(h)
    BY <2>1, <2>2, <2>3, Forgets DEF Plain, TypeInv
  <2>4. CASE ~Finish(h)
    <3>1. \E b : Stepped(h, After[job[h].pc], job[h].id, job[h].name, job[h].cur, job[h].src, b, job[h].was)
      BY <1>5, <2>1, <2>4, Continued, Blinded, DomainAfter DEF DelList, Continue, At, TypeInv
    <3>2. QED
      BY <1>3, <2>1, <2>2, <3>1
  <2>5. QED
    BY <2>3, <2>4
<1>6. CASE BindCard(h) \/ UnbindAll(h)
  <2>1. Finish(h) /\ UNCHANGED <<stored, cache, heap, clash>> /\ ~At(h, {"renameSave"})
    BY <1>6 DEF BindCard, UnbindAll, At
  <2>2. QED
    BY <2>1, Forgets, SameHeap DEF Plain, TypeInv
<1>7. CASE UnbindCard(h)
  <2>1. /\ UNCHANGED <<stored, cache, heap, clash>> /\ ~At(h, {"renameSave"})
        /\ Stepped(h, After[job[h].pc], job[h].id, job[h].name, job[h].cur, job[h].src, job[h].blind, job[h].was)
    BY <1>7, Continued, DomainAfter DEF UnbindCard, Continue, At, TypeInv
  <2>2. QED
    BY <1>3, <2>1, SameHeap
<1>8. CASE LoadClear(h)
  <2>1. UNCHANGED <<stored, cache, clash>> /\ ~At(h, {"renameSave"}) /\ Blank \in Values
    BY <1>8 DEF LoadClear, At, Values
  <2>2. \A o \in Objs : Same(o)
    BY <1>8, <2>1, LoadClearFacts, SameHeap
  <2>3. Stepped(h, "loadCopy", job[h].id, job[h].name, job[h].cur, job[h].src, job[h].blind, job[h].was)
    BY <1>8, LoadClearFacts
  <2>4. QED
    BY <2>1, <2>2, <2>3 DEF Plain, Stepped
<1>9. CASE CopyAttributes(h)
  <2>1. UNCHANGED <<stored, cache, clash>> /\ ~At(h, {"renameSave"})
    BY <1>9 DEF CopyAttributes, At
  <2>2. \A o \in Objs : Same(o)
    BY <1>9, CopyFacts DEF Same, Edited
  <2>3. Stepped(h, After[job[h].pc], job[h].id, job[h].name, job[h].cur, job[h].src, job[h].blind, job[h].was)
    BY <1>9, CopyFacts
  <2>4. QED
    BY <1>3, <2>1, <2>2, <2>3
<1>10. ASSUME NEW d \in Data, StoreAttribute(h, d) PROVE Plain(h)
  <2>1. UNCHANGED <<stored, cache, clash>> /\ ~At(h, {"renameSave"}) /\ Finish(h)
    BY <1>10 DEF StoreAttribute, At
  <2>2. \A o \in Objs : Same(o)
    BY <1>10, StoreFacts DEF Same, Edited
  <2>3. QED
    BY <2>1, <2>2, Forgets DEF Plain, TypeInv
<1>11. QED
  BY <1>1, <1>2, <1>4, <1>5, <1>6, <1>7, <1>8, <1>9, <1>10

LEMMA LoadedName ==
  ASSUME TypeOK, NEW id \in Ids, NEW l \in Loaded(id), cache[id] = Null, l.value.owned
  PROVE  Bears(stored[id], l.value.name)
<1>1. stored[id] # Absent /\ l.value = AsStored(id)
  BY LoadedFacts
<1>2. AsStored(id).owned = stored[id].owned /\ AsStored(id).name = stored[id].name
  BY DEF AsStored
<1>3. AsStored(id).owned
  BY <1>1
<1>4. QED
  BY <1>1, <1>2, <1>3 DEF Bears

\* Whatever object the map or a command refers to after a load is the one it found, or it was referred to before.
LEMMA LoadRefers ==
  ASSUME TypeInv, NEW h \in Handlers, NEW id \in Ids, NEW l \in Loaded(id), Loads1(id, l), Others(h),
         job'[h].cur \in {job[h].cur, job[h].src, l.obj, Null}, job'[h].src \in {job[h].cur, job[h].src, l.obj, Null},
         UNCHANGED <<stored, clash>>
  PROVE  GivesNoName
<1>1. /\ l.obj \in Objs /\ heap'[l.obj] = l.value /\ l.value.id = id /\ cache' = [cache EXCEPT ![id] = l.obj]
      /\ \A o \in Objs : Refers(o) => heap'[o] = heap[o]
  BY LoadedFacts, LoadKeeps DEF TypeInv, Loads1
<1>2. Refers(l.obj) \/ ~l.value.owned \/ Bears(stored[id], l.value.name)
  BY LoadedFacts, LoadedName DEF TypeInv, Refers
<1>3. ASSUME NEW o \in Objs, Refers(o)', o # l.obj PROVE Refers(o)
  <2>1. CASE \E i \in Ids : cache'[i] = o
    BY <1>1, <1>3, <2>1 DEF Refers, TypeInv, TypeOK
  <2>2. CASE \E i \in Handlers : job'[i].cur = o \/ job'[i].src = o
    BY <1>3, <2>2, NullAssumption DEF Refers, Others
  <2>3. QED
    BY <1>3, <2>1, <2>2 DEF Refers
<1>4. QED
  BY <1>1, <1>2, <1>3 DEF GivesNoName, Same

\* ... and the store knows its name.
LEMMA LoadNamesStored ==
  ASSUME TypeInv, NamesStored, NEW h \in Handlers, NEW id \in Ids, NEW l \in Loaded(id), Loads1(id, l), Others(h),
         ~At(h, {"renameSave"}), UNCHANGED <<stored, clash>>
  PROVE  NamesStored'
<1>1. SUFFICES ASSUME NEW i \in Ids, cache'[i] # Null, heap'[cache'[i]].owned
               PROVE  LET n == heap'[cache'[i]].name IN
                      \/ n \in clash' \/ Bears(stored'[i], n)
                      \/ \E k \in Handlers : At(k, {"renameSave"})' /\ job'[k].cur = cache'[i] /\ job'[k].other = n
  BY DEF NamesStored
<1>2. CASE cache[i] # Null
  <2>1. cache'[i] = cache[i] /\ cache[i] \in Objs
    BY <1>2, LoadedFacts DEF TypeInv, TypeOK, Loads1
  <2>2. heap'[cache'[i]] = heap[cache[i]]
    BY <1>2, <2>1, LoadKeeps DEF TypeInv, Refers
  <2>3. \A k \in Handlers : At(k, {"renameSave"}) => job'[k] = job[k]
    BY DEF Others
  <2>4. QED
    BY <1>1, <1>2, <2>1, <2>2, <2>3 DEF NamesStored, At
<1>3. CASE cache[i] = Null
  <2>1. i = id
    BY <1>1, <1>3 DEF Loads1, TypeInv, TypeOK
  <2>2. heap'[cache'[id]] = l.value
    BY LoadKeeps DEF TypeInv
  <2>3. Bears(stored[id], l.value.name)
    BY <1>1, <1>3, <2>1, <2>2, LoadedName DEF TypeInv
  <2>4. QED
    BY <2>1, <2>2, <2>3
<1>4. QED
  BY <1>2, <1>3

LEMMA LoadSteps ==
  ASSUME TypeInv, NEW h \in Handlers,
         SaveNewFails(h) \/ LoadCurrent(h) \/ LoadSource(h) \/ LoadTarget(h) \/ UntagLoad(h)
  PROVE  /\ Others(h) /\ ~At(h, {"renameSave"}) /\ UNCHANGED <<stored, clash>>
         /\ \E id \in Ids : \E l \in Loaded(id) :
              /\ Loads1(id, l)
              /\ job'[h].cur \in {job[h].cur, job[h].src, l.obj, Null}
              /\ job'[h].src \in {job[h].cur, job[h].src, l.obj, Null}
<1>1. ~At(h, {"renameSave"}) /\ UNCHANGED <<stored, clash>>
  BY DEF SaveNewFails, LoadCurrent, LoadSource, LoadTarget, UntagLoad, At
<1>2. Others(h)
  BY MovesJob DEF Moves, Took
<1>3. \E id \in Ids : \E l \in Loaded(id) :
              /\ Loads1(id, l)
              /\ job'[h].cur \in {job[h].cur, job[h].src, l.obj, Null}
              /\ job'[h].src \in {job[h].cur, job[h].src, l.obj, Null}
  <2>1. CASE SaveNewFails(h)
    BY <2>1, Forgets, CurrentIds DEF SaveNewFails, Loads1, TypeInv, At
  <2>2. CASE UntagLoad(h)
    <3>1. job[h].id \in Ids
      BY <2>2 DEF UntagLoad, At, TypeInv, StepsOK, JobOK, NeedsId, Ids
    <3>2. QED
      BY <2>2, <3>1, Forgets DEF UntagLoad, Loads1, TypeInv
  <2>3. CASE LoadCurrent(h)
    BY <2>3, LoadCurrentJob DEF Stepped
  <2>4. CASE LoadSource(h)
    <3>1. job[h].id \in Ids
      BY <2>4 DEF LoadSource, At, TypeInv, StepsOK, JobOK, NeedsId, Ids
    <3>2. QED
      BY <2>4, <3>1, LoadSourceJob DEF Stepped
  <2>5. CASE LoadTarget(h)
    <3>1. job[h].id \in Ids
      BY <2>5 DEF LoadTarget, At, TypeInv, StepsOK, JobOK, NeedsId, Ids
    <3>2. QED
      BY <2>5, <3>1, LoadTargetJob DEF Stepped
  <2>6. QED
    BY <2>1, <2>2, <2>3, <2>4, <2>5
<1>4. QED
  BY <1>1, <1>2, <1>3

LEMMA LoadNames ==
  ASSUME TypeInv, OneClaim, NamesStored, NEW h \in Handlers,
         SaveNewFails(h) \/ LoadCurrent(h) \/ LoadSource(h) \/ LoadTarget(h) \/ UntagLoad(h)
  PROVE  OneClaim' /\ NamesStored'
<1>1. /\ Others(h) /\ ~At(h, {"renameSave"}) /\ UNCHANGED <<stored, clash>>
      /\ \E id \in Ids : \E l \in Loaded(id) :
           /\ Loads1(id, l)
           /\ job'[h].cur \in {job[h].cur, job[h].src, l.obj, Null}
           /\ job'[h].src \in {job[h].cur, job[h].src, l.obj, Null}
  BY LoadSteps
<1>2. GivesNoName /\ NamesStored'
  BY <1>1, LoadRefers, LoadNamesStored
<1>3. QED
  BY <1>1, <1>2, OneClaimKept

LEMMA PlainNames ==
  ASSUME TypeInv, OneClaim, NamesStored, NEW h \in Handlers, Plain(h)
  PROVE  OneClaim' /\ NamesStored'
<1>1. GivesNoName
  <2>1. ASSUME NEW o \in Objs, Refers(o)' PROVE Refers(o)
    <3>1. CASE \E i \in Ids : cache'[i] = o
      BY <3>1 DEF Refers, Plain
    <3>2. CASE \E i \in Handlers : job'[i].cur = o \/ job'[i].src = o
      BY <3>2, NullAssumption DEF Refers, Plain, Others
    <3>3. QED
      BY <2>1, <3>1, <3>2 DEF Refers
  <2>2. QED
    BY <2>1 DEF GivesNoName, Plain
<1>2. clash \subseteq clash'
  BY DEF Plain
<1>3. NamesStored'
  <2>1. SUFFICES ASSUME NEW i \in Ids, cache'[i] # Null, heap'[cache'[i]].owned
                 PROVE  LET n == heap'[cache'[i]].name IN
                        \/ n \in clash' \/ Bears(stored'[i], n)
                        \/ \E k \in Handlers : At(k, {"renameSave"})' /\ job'[k].cur = cache'[i] /\ job'[k].other = n
    BY DEF NamesStored
  <2>2. cache'[i] = cache[i] /\ cache[i] \in Objs /\ Same(cache[i]) /\ stored'[i] = stored[i]
    BY <2>1 DEF Plain, TypeInv, TypeOK
  <2>3. \A k \in Handlers : At(k, {"renameSave"}) => job'[k] = job[k] \/ job[k].other \in clash'
    BY DEF Plain, Others
  <2>4. QED
    BY <1>2, <2>1, <2>2, <2>3 DEF NamesStored, At, Same
<1>4. QED
  BY <1>1, <1>2, <1>3, OneClaimKept

\* What has to be shown of NamesStored after a step.
NameKnown(i) ==
  cache[i] # Null /\ heap[cache[i]].owned =>
    \/ heap[cache[i]].name \in clash \/ Bears(stored[i], heap[cache[i]].name)
    \/ \E k \in Handlers : At(k, {"renameSave"}) /\ job[k].cur = cache[i] /\ job[k].other = heap[cache[i]].name

LEMMA NamesAre == NamesStored <=> \A i \in Ids : NameKnown(i)
  BY DEF NamesStored, NameKnown

\* A card in the map the step does not touch, nor the command that renames it.
LEMMA StillKnown ==
  ASSUME TypeInv, NEW i \in Ids, NameKnown(i), cache'[i] # Null, cache'[i] = cache[i], Same(cache[i]), stored'[i] = stored[i],
         clash \subseteq clash',
         \A k \in Handlers : At(k, {"renameSave"}) /\ job[k].cur = cache[i] =>
           (At(k, {"renameSave"})' /\ job'[k].cur = job[k].cur /\ job'[k].other = job[k].other) \/ job[k].other \in clash'
  PROVE  NameKnown(i)'
<1>1. heap'[cache'[i]].owned = heap[cache[i]].owned /\ heap'[cache'[i]].name = heap[cache[i]].name
  BY DEF Same
<1> DEFINE n == heap[cache[i]].name
<1>2. SUFFICES ASSUME heap[cache[i]].owned
      PROVE \/ n \in clash' \/ Bears(stored'[i], n)
            \/ \E k \in Handlers : At(k, {"renameSave"})' /\ job'[k].cur = cache'[i] /\ job'[k].other = n
  BY <1>1 DEF NameKnown
<1>3. \/ n \in clash \/ Bears(stored[i], n)
      \/ \E k \in Handlers : At(k, {"renameSave"}) /\ job[k].cur = cache[i] /\ job[k].other = n
  BY <1>2 DEF NameKnown
<1> HIDE DEF n
<1>4. QED
  BY <1>3

LEMMA SaveCardNames ==
  ASSUME TypeInv, OneClaim, NamesStored, NEW h \in Handlers, SaveCard(h)
  PROVE  OneClaim' /\ NamesStored'
<1> DEFINE o == job[h].cur
<1>1. /\ At(h, {"loadSave", "saveSave", "renameSave"}) /\ o \in Objs /\ heap[o] # Null /\ Put(o) /\ Finish(h) /\ Refers(o)
      /\ UNCHANGED clash
  BY SaveCardFacts DEF Refers
<1>2. Others(h) /\ job'[h].cur = Null /\ job'[h].src = Null /\ (At(h, {"renameSave"}) => job[h].cur = o)
  BY <1>1, Forgets DEF TypeInv
<1> HIDE DEF o
<1>3. /\ heap[o].id \in Ids /\ stored' = [stored EXCEPT ![heap[o].id] = Card(o)] /\ cache' = [cache EXCEPT ![heap[o].id] = o]
      /\ \A p \in Objs : Same(p)
  BY <1>1, PutFacts DEF TypeInv, Same
<1>4. GivesNoName
  <2>1. ASSUME NEW p \in Objs, Refers(p)' PROVE Refers(p)
    <3>1. CASE \E i \in Ids : cache'[i] = p
      BY <1>1, <1>3, <3>1 DEF Refers, TypeInv, TypeOK
    <3>2. CASE \E i \in Handlers : job'[i].cur = p \/ job'[i].src = p
      BY <1>2, <3>2, NullAssumption DEF Refers, Others
    <3>3. QED
      BY <2>1, <3>1, <3>2 DEF Refers
  <2>2. \A c \in Ids : stored'[c] = stored[c] \/ (heap[o].id = c /\ stored'[c] = Card(o))
    BY <1>3 DEF TypeInv, TypeOK
  <2>3. QED
    BY <1>1, <1>3, <2>1, <2>2 DEF GivesNoName
<1>5. ASSUME NEW i \in Ids PROVE NameKnown(i)'
  <2>1. CASE i = heap[o].id
    <3>1. cache'[i] = o /\ stored'[i] = Card(o) /\ Same(o) /\ Card(o) # Absent
      BY <1>1, <1>3, <2>1, PutFacts DEF TypeInv, TypeOK
    <3>2. Card(o).owned = heap[o].owned /\ Card(o).name = heap[o].name
      BY DEF Card
    <3>3. QED
      BY <3>1, <3>2 DEF NameKnown, Bears, Same
  <2>2. CASE i # heap[o].id
    <3>1. cache'[i] = cache[i] /\ stored'[i] = stored[i]
      BY <1>3, <2>2 DEF TypeInv, TypeOK
    <3>2. SUFFICES ASSUME cache'[i] # Null PROVE NameKnown(i)'
      BY DEF NameKnown
    <3>3. cache[i] \in Objs /\ heap[cache[i]].id = i
      BY <3>1, <3>2 DEF TypeInv, TypeOK
    <3>4. \A k \in Handlers : At(k, {"renameSave"}) /\ job[k].cur = cache[i] => job'[k] = job[k]
      BY <1>2, <2>2, <3>3 DEF Others
    <3>5. QED
      BY <1>1, <1>3, <3>1, <3>2, <3>3, <3>4, StillKnown, NamesAre DEF At
  <2>3. QED
    BY <2>1, <2>2
<1>6. NamesStored'
  BY <1>5 DEF NamesStored, NameKnown
<1>7. QED
  BY <1>1, <1>4, <1>6, OneClaimKept

LEMMA DeleteNames ==
  ASSUME TypeInv, OneClaim, NamesStored, NEW h \in Handlers, DeleteCard(h)
  PROVE  OneClaim' /\ NamesStored'
<1>1. /\ At(h, {"delete"}) /\ Finish(h) /\ UNCHANGED <<heap, clash>> /\ job[h].id \in Ids
      /\ \A c \in Ids : /\ cache'[c] # Null => cache'[c] = cache[c] /\ stored'[c] = stored[c]
                        /\ stored'[c] = stored[c] \/ stored'[c] = Absent
  BY DEF DeleteCard, At, TypeInv, TypeOK, StepsOK, JobOK, NeedsId, Ids
<1>2. Others(h) /\ job'[h].cur = Null /\ job'[h].src = Null
  BY <1>1, Forgets DEF TypeInv
<1>3. GivesNoName
  <2>1. ASSUME NEW p \in Objs, Refers(p)' PROVE Refers(p)
    <3>1. CASE \E i \in Ids : cache'[i] = p
      BY <1>1, <3>1, NullAssumption DEF Refers
    <3>2. CASE \E i \in Handlers : job'[i].cur = p \/ job'[i].src = p
      BY <1>2, <3>2, NullAssumption DEF Refers, Others
    <3>3. QED
      BY <2>1, <3>1, <3>2 DEF Refers
  <2>2. QED
    BY <1>1, <2>1 DEF GivesNoName, Same
<1>4. ASSUME NEW i \in Ids PROVE NameKnown(i)'
  <2>1. SUFFICES ASSUME cache'[i] # Null PROVE NameKnown(i)'
    BY DEF NameKnown
  <2>2. \A k \in Handlers : At(k, {"renameSave"}) => job'[k] = job[k]
    BY <1>1, <1>2 DEF Others, At
  <2>3. QED
    BY <1>1, <2>1, <2>2, StillKnown, NamesAre DEF Same, At
<1>5. NamesStored'
  BY <1>4 DEF NamesStored, NameKnown
<1>6. QED
  BY <1>1, <1>3, <1>5, OneClaimKept

LEMMA FlushNames == ASSUME TypeInv, OneClaim, NamesStored, Flush PROVE OneClaim' /\ NamesStored'
<1>1. /\ UNCHANGED <<cache, job, clash>>
      /\ \A id \in Ids : \/ stored'[id] = stored[id]
                         \/ cache[id] # Null /\ stored'[id] = Card(cache[id]) /\ Card(cache[id]) # Absent
      /\ \A p \in Objs : heap[p] # Null => Same(p)
  BY FlushFacts DEF Same
<1>2. \A p \in Objs : Refers(p) => Same(p)
  BY <1>1, NullAssumption DEF Refers, TypeInv, TypeOK, StepsOK, JobOK
<1>3. \A c \in Ids : cache[c] # Null => cache[c] \in Objs /\ Refers(cache[c]) /\ heap[cache[c]].id = c
  BY DEF Refers, TypeInv, TypeOK
<1>4. GivesNoName
  <2>1. \A p \in Objs : Refers(p)' => Refers(p) /\ Same(p)
    BY <1>1, <1>2 DEF Refers
  <2>2. \A c \in Ids : stored'[c] = stored[c] \/ \E o \in Objs : Refers(o) /\ heap[o].id = c /\ stored'[c] = Card(o)
    BY <1>1, <1>3
  <2>3. QED
    BY <2>1, <2>2 DEF GivesNoName
<1>5. ASSUME NEW i \in Ids PROVE NameKnown(i)'
  <2>1. SUFFICES ASSUME cache'[i] # Null PROVE NameKnown(i)'
    BY DEF NameKnown
  <2>2. Same(cache[i])
    BY <1>1, <1>2, <1>3, <2>1
  <2>3. CASE stored'[i] = stored[i]
    BY <1>1, <2>1, <2>2, <2>3, StillKnown, NamesAre DEF At
  <2>4. CASE stored'[i] = Card(cache[i]) /\ Card(cache[i]) # Absent
    <3>1. Card(cache[i]).owned = heap[cache[i]].owned /\ Card(cache[i]).name = heap[cache[i]].name
      BY DEF Card
    <3>2. QED
      BY <1>1, <2>2, <2>4, <3>1 DEF NameKnown, Bears, Same
  <2>5. QED
    BY <1>1, <2>3, <2>4
<1>6. NamesStored'
  BY <1>5 DEF NamesStored, NameKnown
<1>7. QED
  BY <1>1, <1>4, <1>6, OneClaimKept

LEMMA BeginNames ==
  ASSUME TypeInv, OneClaim, NamesStored, NEW h \in Handlers, NEW c \in Commands, NEW g \in Groups,
         NEW n \in Names \cup {Null}, NEW m \in Names \cup {Null}, Begin(h, c, g, n, m)
  PROVE  OneClaim' /\ NamesStored'
<1>1. /\ At(h, {"idle"}) /\ UNCHANGED <<stored, cache, heap, clash>> /\ job'[h].cur = Null /\ job'[h].src = Null
      /\ \A i \in Handlers \ {h} : /\ job'[i].pc = job[i].pc /\ job'[i].other = job[i].other
                                   /\ job'[i].cur = job[i].cur /\ job'[i].src = job[i].src
  BY BeginJob
<1>2. \A p \in Objs : Refers(p)' => Refers(p)
  BY <1>1, NullAssumption DEF Refers
<1>3. GivesNoName
  BY <1>1, <1>2 DEF GivesNoName, Same
<1>4. ASSUME NEW i \in Ids PROVE NameKnown(i)'
  <2>1. SUFFICES ASSUME cache'[i] # Null PROVE NameKnown(i)'
    BY DEF NameKnown
  <2>2. \A k \in Handlers : At(k, {"renameSave"}) => At(k, {"renameSave"})' /\ job'[k].cur = job[k].cur /\ job'[k].other = job[k].other
    BY <1>1 DEF At
  <2>3. QED
    BY <1>1, <2>1, <2>2, StillKnown, NamesAre DEF Same
<1>5. NamesStored'
  BY <1>4 DEF NamesStored, NameKnown
<1>6. QED
  BY <1>1, <1>3, <1>5, OneClaimKept

\* A step that gives name n to card c, and nothing to another.
Gives(c, n) ==
  /\ \A d \in Ids : stored'[d] = stored[d] \/ (d = c /\ stored'[d].name = n)
  /\ \A o \in Objs : Refers(o)' => (Refers(o) /\ Same(o)) \/ (heap'[o].id = c /\ heap'[o].name = n)

LEMMA GivesOne ==
  ASSUME OneClaim, NEW c \in Cards, NEW n, Gives(c, n), clash \subseteq clash', n \in clash' \/ \A d \in Cards : ~Claims(d, n)
  PROVE  OneClaim'
<1>1. ASSUME NEW d \in Cards, NEW x, Claims(d, x)' PROVE Claims(d, x) \/ (d = c /\ x = n)
  <2>1. CASE Bears(stored'[d], x)
    BY <2>1 DEF Gives, Claims, Bears, Ids
  <2>2. CASE \E o \in Objs : Refers(o)' /\ heap'[o].id = d /\ heap'[o].owned /\ heap'[o].name = x
    BY <2>2 DEF Gives, Claims, Same
  <2>3. QED
    BY <1>1, <2>1, <2>2 DEF Claims
<1>2. QED
  BY <1>1 DEF OneClaim

\* A command alone that found a name free: nobody bears it, not even an object yet to be saved.
LEMMA NobodyBears ==
  ASSUME TypeInv, Solo, NamesStored, NEW h \in Handlers, job[h].alone, At(h, {"newPuts", "saveNew", "renameLoad"}),
         NEW n, n \notin clash, Bearers(n) = {}
  PROVE  \A d \in Cards : ~Claims(d, n)
<1>1. job[h].cur = Null /\ job[h].src = Null /\ \A i \in Handlers \ {h} : job[i] = Idle
  BY DEF Solo, At, TypeInv, StepsOK, JobOK, NeedsCur, NeedsSrc
<1>2. \A d \in Cards : ~Bears(stored[d], n)
  BY DEF Bearers, Bears
<1>3. SUFFICES ASSUME NEW d \in Cards, NEW o \in Objs, Refers(o), heap[o].id = d, heap[o].owned, heap[o].name = n PROVE FALSE
  BY <1>2 DEF Claims
<1>4. \E i \in Ids : cache[i] = o
  BY <1>1, <1>3, IdleFacts, NullAssumption DEF Refers
<1>5. cache[d] = o /\ o # Null /\ d \in Ids
  BY <1>3, <1>4, NullAssumption DEF TypeInv, TypeOK
<1>6. \A k \in Handlers : ~At(k, {"renameSave"})
  BY <1>1, IdleFacts DEF At
<1>7. QED
  BY <1>2, <1>3, <1>5, <1>6 DEF NamesStored

LEMMA NoteClashFacts ==
  ASSUME TypeInv, NEW h \in Handlers, NEW n, NoteClash(h, n)
  PROVE  clash \subseteq clash' /\ (n \in clash' \/ (job[h].alone /\ ~job[h].blind /\ n \notin clash))
  BY DEF NoteClash

LEMMA NewCardNames ==
  ASSUME TypeInv, Solo, NamesInv, NEW h \in Handlers, NEW c \in Cards, NewCard(h, c)
  PROVE  OneClaim' /\ NamesStored'
<1> DEFINE n == job[h].name
           item == [owned |-> TRUE, name |-> n, data |-> Blank]
           object == [id |-> c, owned |-> TRUE, name |-> n, data |-> Blank, saved |-> TRUE]
<1>1. /\ At(h, {"newPuts", "saveNew"}) /\ n \in Names /\ c \in Ids
      /\ stored' = [stored EXCEPT ![c] = item] /\ cache' = [cache EXCEPT ![c] = Fresh] /\ heap' = [heap EXCEPT ![Fresh] = object]
      /\ NoteClash(h, n)
      /\ Stepped(h, After[job[h].pc], c, job[h].name, job[h].cur, job[h].src, job[h].blind, job[h].was)
  BY IssuedId, DomainAfter DEF NewCard, At, TypeInv, StepsOK, JobOK, NeedsName, Ids
<1>2. item.owned /\ item.name = n /\ object.owned /\ object.name = n /\ object.id = c /\ item # Absent
  <2>1. item \in Items
    BY <1>1 DEF Items, Values
  <2>2. QED
    BY <2>1, ValuesAssumption
<1>3. Fresh \in Objs /\ Free(Fresh) /\ Fresh # Null
  BY FreshFree, NullAssumption DEF TypeInv
<1>4. n \in clash' \/ (job[h].alone /\ ~job[h].blind /\ n \notin clash)
  BY <1>1, NoteClashFacts
<1>5. clash \subseteq clash' /\ n = job[h].name
  BY <1>1, NoteClashFacts
<1> HIDE DEF n, item, object
<1>6. /\ \A d \in Ids : d # c => stored'[d] = stored[d] /\ cache'[d] = cache[d]
      /\ stored'[c] = item /\ cache'[c] = Fresh /\ heap'[Fresh] = object /\ \A o \in Objs \ {Fresh} : heap'[o] = heap[o]
  BY <1>1, <1>3 DEF TypeInv, TypeOK
<1>7. ASSUME NEW o \in Objs, Refers(o)', o # Fresh PROVE Refers(o)
  <2>1. CASE \E i \in Ids : cache'[i] = o
    BY <1>6, <1>7, <2>1 DEF Refers
  <2>2. CASE \E i \in Handlers : job'[i].cur = o \/ job'[i].src = o
    BY <1>1, <2>2 DEF Refers, Stepped, Others
  <2>3. QED
    BY <1>7, <2>1, <2>2 DEF Refers
<1>8. Gives(c, n)
  BY <1>2, <1>6, <1>7 DEF Gives, Same
<1>9. n \in clash' \/ \A d \in Cards : ~Claims(d, n)
  BY <1>1, <1>4, <1>5, NobodyBears DEF NamesInv, NameFree, At
<1>10. ASSUME NEW i \in Ids PROVE NameKnown(i)'
  <2>1. CASE i = c
    BY <1>2, <1>6, <2>1 DEF NameKnown, Bears
  <2>2. CASE i # c
    <3>1. SUFFICES ASSUME cache'[i] # Null PROVE NameKnown(i)'
      BY DEF NameKnown
    <3>2. cache[i] \in Objs \ {Fresh}
      BY <1>3, <1>6, <2>2, <3>1 DEF TypeInv, TypeOK, Free
    <3>3. \A k \in Handlers : At(k, {"renameSave"}) => job'[k] = job[k]
      BY <1>1 DEF Stepped, Others, At
    <3>4. Same(cache[i]) /\ cache'[i] = cache[i] /\ stored'[i] = stored[i]
      BY <1>6, <2>2, <3>2 DEF Same
    <3>5. QED
      BY <1>5, <3>1, <3>3, <3>4, StillKnown, NamesAre DEF NamesInv, At
  <2>3. QED
    BY <2>1, <2>2
<1>11. NamesStored'
  BY <1>10 DEF NamesStored, NameKnown
<1>12. QED
  BY <1>5, <1>8, <1>9, <1>11, GivesOne DEF NamesInv

LEMMA RenameLoadNames ==
  ASSUME TypeInv, Solo, NamesInv, NEW h \in Handlers, RenameLoad(h)
  PROVE  OneClaim' /\ NamesStored'
<1>1. job[h].pc = "renameLoad" /\ job[h].id \in Cards /\ NoteClash(h, job[h].other) /\ stored' = stored
  BY DEF RenameLoad, At, TypeInv, StepsOK, JobOK, NeedsId
<1>2. PICK o \in Objs : Renamed(h, o)
  BY RenameLoadFacts
<1> DEFINE c == job[h].id
           n == job[h].other
<1>3. /\ c \in Cards /\ c \in Ids /\ clash \subseteq clash'
      /\ n \in clash' \/ (job[h].alone /\ ~job[h].blind /\ n \notin clash)
  BY <1>1, NoteClashFacts DEF Ids
<1>4. /\ \A d \in Ids : d # c => cache'[d] = cache[d]
      /\ cache'[c] = o /\ o # Null /\ heap'[o].id = c /\ heap'[o].name = n /\ \A p \in Objs \ {o} : heap'[p] = heap[p]
      /\ Free(o) \/ cache[c] = o
  BY <1>2, <1>3 DEF Renamed, TypeInv, TypeOK
<1>5. Others(h) /\ job'[h].pc = "renameSave" /\ job'[h].cur = o /\ job'[h].src = job[h].src /\ job'[h].other = n
  BY <1>2 DEF Renamed, Stepped
<1>6. n = job[h].other
  OBVIOUS
<1> HIDE DEF c, n
<1>7. ASSUME NEW p \in Objs, Refers(p)', p # o PROVE Refers(p)
  <2>1. CASE \E i \in Ids : cache'[i] = p
    BY <1>4, <1>7, <2>1 DEF Refers
  <2>2. CASE \E i \in Handlers : job'[i].cur = p \/ job'[i].src = p
    BY <1>5, <1>7, <2>2 DEF Refers, Others
  <2>3. QED
    BY <1>7, <2>1, <2>2 DEF Refers
<1>8. Gives(c, n)
  BY <1>1, <1>4, <1>7 DEF Gives, Same
<1>9. n \in clash' \/ \A d \in Cards : ~Claims(d, n)
  BY <1>1, <1>3, <1>6, NobodyBears DEF NamesInv, NameFree, At
<1>10. ASSUME NEW i \in Ids PROVE NameKnown(i)'
  <2>1. CASE i = c
    BY <1>4, <1>5, <2>1 DEF NameKnown, At
  <2>2. CASE i # c
    <3>1. SUFFICES ASSUME cache'[i] # Null PROVE NameKnown(i)'
      BY DEF NameKnown
    <3>2. cache[i] \in Objs /\ cache[i] # o
      BY <1>3, <1>4, <2>2, <3>1 DEF TypeInv, TypeOK, Free
    <3>3. \A k \in Handlers : At(k, {"renameSave"}) => job'[k] = job[k]
      BY <1>1, <1>5 DEF Others, At
    <3>4. Same(cache[i]) /\ cache'[i] = cache[i] /\ stored'[i] = stored[i]
      BY <1>1, <1>4, <2>2, <3>2 DEF Same
    <3>5. QED
      BY <1>3, <3>1, <3>3, <3>4, StillKnown, NamesAre DEF NamesInv, At
  <2>3. QED
    BY <2>1, <2>2
<1>11. NamesStored'
  BY <1>10 DEF NamesStored, NameKnown
<1>12. QED
  BY <1>3, <1>8, <1>9, <1>11, GivesOne DEF NamesInv

\* A command comes to give a name, and has not met an error, when it found the name free.
LEMMA LookedUp ==
  ASSUME TypeInv, NEW h \in Handlers, Moves(h), job'[h].pc \in {"newPuts", "saveNew", "renameLoad"}, ~job'[h].blind
  PROVE  /\ stored' = stored
         /\ job'[h].pc \in {"newPuts", "saveNew"} => Bearers(job'[h].name) = {}
         /\ job'[h].pc = "renameLoad" => Bearers(job'[h].other) = {}
<1>1. job[h].pc \in {"new", "save", "renameCheck"} /\ job'[h].pc = After[job[h].pc]
  BY MovesJob, IdleFacts, AfterIs, DomainAfter DEF Took
<1>2. CheckName(h)
  BY <1>1 DEF Moves, CallFails, Find, NewCard, SaveNewFails, BindCard, LoadCurrent, LoadSource, LoadTarget, LoadClear,
         CopyAttributes, SaveCard, RenameLoad, UnbindCard, UntagLoad, UnbindAll, DelList, DeleteCard, StoreAttribute, At
<1>3. ~Finish(h)
  BY <1>1, Finished, IdleFacts DEF TypeInv
<1>4. ASSUME job' = [job EXCEPT ![h].pc = After[@], ![h].blind = TRUE] PROVE FALSE
  BY <1>1, <1>4, Blinded, DomainAfter DEF Stepped, TypeInv
<1>5. Continue(h)
  BY <1>2, <1>3, <1>4 DEF CheckName
<1>6. job'[h].name = job[h].name /\ job'[h].other = job[h].other
  BY <1>1, <1>5, Continued, DomainAfter DEF Continue, Stepped, TypeInv
<1>7. Bearers(IF At(h, {"renameCheck"}) THEN job[h].other ELSE job[h].name) = {}
  BY <1>2, <1>3, <1>4 DEF CheckName
<1>8. QED
  BY <1>1, <1>2, <1>6, <1>7, AfterIs DEF CheckName, At

LEMMA MovesNameFree == ASSUME TypeInv, Solo, NEW h \in Handlers, Moves(h) PROVE NameFree'
<1>1. SUFFICES ASSUME NEW i \in Handlers, job'[i].alone, ~job'[i].blind, job'[i].pc \in {"newPuts", "saveNew", "renameLoad"}
               PROVE  /\ job'[i].pc \in {"newPuts", "saveNew"} => Bearers(job[i].name)' = {}
                      /\ job'[i].pc = "renameLoad" => Bearers(job[i].other)' = {}
  BY DEF NameFree, At
<1>2. ~At(h, {"idle"}) /\ Others(h)
  BY MovesJob DEF Took
<1>3. i = h
  BY <1>1, <1>2 DEF Solo, At, Others
<1>4. QED
  BY <1>1, <1>3, LookedUp DEF Bearers

\* The saver stores no name a card did not bear there before, but one that is being given.
LEMMA FlushNameFree == ASSUME TypeInv, Solo, NamesStored, NameFree, Flush PROVE NameFree'
<1>1. /\ UNCHANGED <<job, clash, cache>>
      /\ \A id \in Ids : \/ stored'[id] = stored[id]
                         \/ cache[id] # Null /\ stored'[id] = Card(cache[id]) /\ Card(cache[id]) # Absent
  BY FlushFacts
<1>2. ASSUME NEW h \in Handlers, job[h].alone, At(h, {"newPuts", "saveNew", "renameLoad"}), NEW n, n \notin clash, Bearers(n) = {}
      PROVE  Bearers(n)' = {}
  <2>1. SUFFICES ASSUME NEW c \in Cards, stored'[c] # Absent, stored'[c].owned, stored'[c].name = n PROVE FALSE
    BY DEF Bearers
  <2>2. stored'[c] = Card(cache[c]) /\ cache[c] # Null
    BY <1>1, <1>2, <2>1 DEF Bearers, Ids
  <2>3. heap[cache[c]].owned /\ heap[cache[c]].name = n
    BY <2>1, <2>2 DEF Card
  <2>4. \A k \in Handlers : ~At(k, {"renameSave"})
    BY <1>2 DEF Solo, At
  <2>5. Bears(stored[c], n)
    BY <1>2, <2>2, <2>3, <2>4 DEF NamesStored, Ids
  <2>6. QED
    BY <1>2, <2>5 DEF Bears, Bearers
<1>3. QED
  BY <1>1, <1>2 DEF NameFree, At

LEMMA BeginNameFree ==
  ASSUME TypeInv, NameFree, NEW h \in Handlers, NEW c \in Commands, NEW g \in Groups,
         NEW n \in Names \cup {Null}, NEW m \in Names \cup {Null}, Begin(h, c, g, n, m)
  PROVE  NameFree'
<1>1. SUFFICES ASSUME NEW i \in Handlers, job'[i].alone, job'[i].pc \in {"newPuts", "saveNew", "renameLoad"} PROVE FALSE
  BY DEF NameFree, At
<1>2. i = h
  BY <1>1, BeginJob
<1>3. QED
  BY <1>1, <1>2, BeginJob DEF Commands, Named

LEMMA InitNames == Init => TypeInv /\ Solo /\ NamesInv /\ Knows
<1> SUFFICES ASSUME Init PROVE TypeInv /\ Solo /\ NamesInv /\ Knows
  OBVIOUS
<1>1. /\ \A h \in Handlers : job[h] = Idle
      /\ \A id \in Ids : cache[id] = Null
      /\ \A n \in Names : \A c, d \in Bearers(n) : c = d
  BY DEF Init
<1>2. \A o \in Objs : ~Refers(o)
  BY <1>1, IdleFacts, NullAssumption DEF Refers
<1>3. OneClaim
  BY <1>1, <1>2 DEF OneClaim, Claims, Bears, Bearers
<1>4. NamesStored
  BY <1>1 DEF NamesStored
<1>5. NameFree /\ Solo /\ Knows
  BY <1>1, IdleFacts DEF NameFree, Solo, Knows, Unbinds, LoadKnows, SaveKnows, At
<1>6. QED
  BY <1>3, <1>4, <1>5, InitTypeInv DEF NamesInv

LEMMA NextNames == TypeInv /\ Solo /\ NamesInv /\ [Next]_vars => NamesInv'
<1> SUFFICES ASSUME TypeInv, Solo, NamesInv, [Next]_vars PROVE NamesInv'
  OBVIOUS
<1>1. OneClaim /\ NamesStored /\ NameFree
  BY DEF NamesInv
<1>2. CASE UNCHANGED vars
  <2>1. \A c, n : Claims(c, n)' <=> Claims(c, n)
    BY <1>2 DEF vars, Claims, Refers
  <2>2. QED
    BY <1>1, <1>2, <2>1 DEF vars, NamesInv, OneClaim, NamesStored, NameFree, Bearers, At
<1>3. CASE Flush
  BY <1>1, <1>3, FlushNames, FlushNameFree DEF NamesInv
<1>4. ASSUME NEW h \in Handlers, Moves(h) PROVE NamesInv'
  <2>1. OneClaim' /\ NamesStored'
    BY <1>1, <1>4, PlainSteps, PlainNames, LoadNames, SaveCardNames, DeleteNames, NewCardNames, RenameLoadNames DEF Moves
  <2>2. QED
    BY <1>4, <2>1, MovesNameFree DEF NamesInv
<1>5. ASSUME NEW h \in Handlers, NEW c \in Commands, NEW g \in Groups, NEW n \in Names \cup {Null}, NEW m \in Names \cup {Null},
             Begin(h, c, g, n, m)
      PROVE  NamesInv'
  BY <1>1, <1>5, BeginNames, BeginNameFree DEF NamesInv
<1>6. QED
  BY <1>2, <1>3, <1>4, <1>5, NextCases

\* Two cards of the user never bear one name, unless commands overlapped or the store failed
\* while the name was given.
THEOREM CardNamesUnique == Spec => []NamesUnique
<1> DEFINE Inv == TypeInv /\ Solo /\ NamesInv
<1>1. Init => Inv
  BY InitNames
<1>2. Inv /\ [Next]_vars => Inv'
  BY NextTypeInv, NextSolo, NextNames
<1>3. Inv => NamesUnique
  BY DEF NamesInv, OneClaim, Claims, Bears, Bearers, NamesUnique
<1>4. QED
  BY <1>1, <1>2, <1>3, PTL DEF Spec
-----------------------------------------------------------------------------
(***************************************************************************)
(* What a command nothing overlapped knows of its cards.                   *)
(***************************************************************************)
Knowing == {"delete", "loadClear", "loadCopy", "loadSave", "saveCur", "saveObj", "saveCopy", "saveSave"}

\* The step that brings a command to where it knows something.
LEMMA CameFrom ==
  ASSUME TypeInv, NEW h \in Handlers, Moves(h), job'[h].pc \in Knowing
  PROVE  /\ job'[h].pc = "delete" => DelList(h) /\ job[h].pc = "delList"
         /\ job'[h].pc = "loadClear" => LoadSource(h)
         /\ job'[h].pc = "loadCopy" => LoadClear(h)
         /\ job'[h].pc = "loadSave" => CopyAttributes(h) /\ job[h].pc = "loadCopy"
         /\ job'[h].pc = "saveCur" => (\E c \in Cards : NewCard(h, c)) /\ job[h].pc = "saveNew"
         /\ job'[h].pc = "saveObj" => LoadCurrent(h) /\ job[h].pc = "saveCur"
         /\ job'[h].pc = "saveCopy" => LoadTarget(h)
         /\ job'[h].pc = "saveSave" => CopyAttributes(h) /\ job[h].pc = "saveCopy"
         /\ ~Finish(h)
<1>1. ~Finish(h)
  BY Finished, IdleFacts DEF Knowing, TypeInv
<1>2. /\ job'[h].pc = "delete" => job[h].pc = "delList"
      /\ job'[h].pc = "loadClear" => job[h].pc = "loadSrc"
      /\ job'[h].pc = "loadCopy" => job[h].pc = "loadClear"
      /\ job'[h].pc = "loadSave" => job[h].pc = "loadCopy"
      /\ job'[h].pc = "saveCur" => job[h].pc = "saveNew"
      /\ job'[h].pc = "saveObj" => job[h].pc = "saveCur"
      /\ job'[h].pc = "saveCopy" => job[h].pc = "saveObj"
      /\ job'[h].pc = "saveSave" => job[h].pc = "saveCopy"
  BY MovesJob, IdleFacts, AfterIs, DomainAfter DEF Took, Knowing
<1>3. /\ job[h].pc = "delList" => DelList(h)
      /\ job[h].pc = "loadSrc" => LoadSource(h)
      /\ job[h].pc = "loadClear" => LoadClear(h)
      /\ job[h].pc \in {"loadCopy", "saveCopy"} => CopyAttributes(h)
      /\ job[h].pc = "saveNew" => \E c \in Cards : NewCard(h, c)
      /\ job[h].pc = "saveCur" => LoadCurrent(h)
      /\ job[h].pc = "saveObj" => LoadTarget(h)
  BY <1>1 DEF Moves, CallFails, Find, CheckName, NewCard, SaveNewFails, BindCard, LoadCurrent, LoadSource, LoadTarget, LoadClear,
         CopyAttributes, SaveCard, RenameLoad, UnbindCard, UntagLoad, UnbindAll, DelList, DeleteCard, StoreAttribute, At
<1>4. QED
  BY <1>1, <1>2, <1>3

LEMMA DeleteKnows ==
  ASSUME TypeInv, NEW h \in Handlers, Moves(h), job'[h].pc = "delete", ~job'[h].blind
  PROVE  \A g \in Groups : bound'[g] # job'[h].id
<1>1. DelList(h) /\ job[h].pc = "delList" /\ ~Finish(h)
  BY CameFrom DEF Knowing
<1>2. ASSUME job' = [job EXCEPT ![h].pc = After[@], ![h].blind = TRUE] PROVE FALSE
  BY <1>1, <1>2, Blinded, DomainAfter DEF Stepped, TypeInv
<1>3. Continue(h) /\ (\A g \in Groups : bound[g] # job[h].id) /\ bound' = bound
  BY <1>1, <1>2 DEF DelList
<1>4. job'[h].id = job[h].id
  BY <1>1, <1>3, Continued, DomainAfter DEF Continue, Stepped, TypeInv
<1>5. QED
  BY <1>3, <1>4

LEMMA LoadKnowsStep ==
  ASSUME TypeInv, NEW h \in Handlers, LoadKnows(h), Moves(h), job'[h].pc \in {"loadClear", "loadCopy", "loadSave"}
  PROVE  LoadKnows(h)'
<1> DEFINE j == job[h]
           k == job'[h]
<1>1. CASE k.pc = "loadClear"
  <2>1. LoadSource(h) /\ job[h].id \in Ids
    BY <1>1, CameFrom DEF Knowing, LoadSource, At, TypeInv, StepsOK, JobOK, NeedsId, Ids
  <2>2. PICK l \in Loaded(job[h].id) :
           /\ Loads1(job[h].id, l)
           /\ Stepped(h, "loadClear", job[h].id, job[h].name, job[h].cur, l.obj, job[h].blind \/ l.err, l.value.data)
    BY <2>1, LoadSourceJob
  <2>3. heap'[k.src].data = k.was
    BY <2>1, <2>2, LoadKeeps DEF Stepped, TypeInv
  <2>4. QED
    BY <1>1, <2>3 DEF LoadKnows, At
<1>2. CASE k.pc = "loadCopy"
  <2>1. LoadClear(h)
    BY <1>2, CameFrom DEF Knowing
  <2>2. /\ j.pc = "loadClear" /\ j.cur \in Objs /\ Edited(j.cur, Blank)
        /\ k.cur = j.cur /\ k.src = j.src /\ k.was = j.was
    BY <2>1, LoadClearFacts DEF Stepped
  <2>3. j.src \in Objs
    BY <2>2, CurFacts DEF At, NeedsSrc
  <2>4. ASSUME k.cur # k.src PROVE heap'[k.src].data = k.was /\ heap'[k.cur].data = Blank
    BY <2>2, <2>3, <2>4 DEF Edited, LoadKnows, At
  <2>5. QED
    BY <1>2, <2>4 DEF LoadKnows, At
<1>3. CASE k.pc = "loadSave"
  <2>1. CopyAttributes(h) /\ j.pc = "loadCopy"
    BY <1>3, CameFrom DEF Knowing
  <2>2. /\ j.cur \in Objs /\ j.src \in Objs /\ k.cur = j.cur /\ k.src = j.src /\ k.was = j.was
        /\ \/ heap[j.src].data = Blank /\ heap' = heap
           \/ Edited(j.cur, heap[j.src].data)
    BY <2>1, CopyFacts DEF Stepped
  <2>3. ASSUME k.cur # k.src PROVE heap'[k.src].data = k.was /\ heap'[k.cur].data = k.was
    BY <2>1, <2>2, <2>3 DEF Edited, LoadKnows, At
  <2>4. QED
    BY <1>3, <2>3 DEF LoadKnows, At
<1>4. QED
  BY <1>1, <1>2, <1>3

LEMMA SaveKnowsStep ==
  ASSUME TypeInv, NEW h \in Handlers, SaveKnows(h), Moves(h), job'[h].pc \in {"saveCur", "saveObj", "saveCopy", "saveSave"}
  PROVE  SaveKnows(h)'
<1> DEFINE j == job[h]
           k == job'[h]
<1>1. CASE k.pc = "saveCur"
  <2>1. PICK c \in Cards : NewCard(h, c)
    BY <1>1, CameFrom DEF Knowing
  <2> DEFINE object == [id |-> c, owned |-> TRUE, name |-> job[h].name, data |-> Blank, saved |-> TRUE]
  <2>2. /\ cache' = [cache EXCEPT ![c] = Fresh] /\ heap' = [heap EXCEPT ![Fresh] = object]
        /\ k.id = c /\ k.name = j.name
    BY <2>1, IssuedId, DomainAfter DEF NewCard, At, TypeInv, Stepped
  <2>3. object.id = c /\ object.owned /\ object.name = j.name /\ object.data = Blank
    OBVIOUS
  <2> HIDE DEF object
  <2>4. cache'[c] = Fresh /\ heap'[Fresh] = object /\ Fresh # Null
    BY <2>2, FreshFree, NullAssumption DEF TypeInv, TypeOK, Ids
  <2>5. QED
    BY <1>1, <2>2, <2>3, <2>4 DEF SaveKnows, New, At
<1>2. CASE k.pc = "saveObj"
  <2>1. LoadCurrent(h) /\ j.pc = "saveCur" /\ j.id \in Ids
    BY <1>2, CameFrom DEF Knowing, TypeInv, StepsOK, JobOK, NeedsId, At, Ids
  <2>2. PICK id \in Ids : \E l \in Loaded(id) :
           /\ Loads1(id, l)
           /\ Stepped(h, After[job[h].pc], job[h].id, job[h].name, l.obj, job[h].src,
                      job[h].blind \/ (l.err \/ id # Current(job[h].g)), l.value.data)
    BY <2>1, LoadCurrentJob
  <2>3. PICK l \in Loaded(id) :
           /\ Loads1(id, l)
           /\ Stepped(h, After[job[h].pc], job[h].id, job[h].name, l.obj, job[h].src,
                      job[h].blind \/ (l.err \/ id # Current(job[h].g)), l.value.data)
    BY <2>2
  <2>4. k.id = j.id /\ k.name = j.name /\ k.cur = l.obj /\ k.was = l.value.data
    BY <2>3 DEF Stepped
  <2>5. heap'[k.cur].data = k.was
    BY <2>3, <2>4, LoadKeeps DEF TypeInv
  <2>6. cache[j.id] # Null /\ New(cache[j.id], h, Blank)
    BY <2>1 DEF SaveKnows, At
  <2>7. cache'[j.id] = cache[j.id]
    BY <2>1, <2>3, <2>6, LoadedFacts DEF Loads1, TypeInv, TypeOK
  <2>8. heap'[cache[j.id]] = heap[cache[j.id]]
    BY <2>1, <2>3, <2>6, LoadKeeps DEF Refers, TypeInv, TypeOK
  <2>9. QED
    BY <1>2, <2>4, <2>5, <2>6, <2>7, <2>8 DEF SaveKnows, New, At
<1>3. CASE k.pc = "saveCopy"
  <2>1. LoadTarget(h) /\ j.id \in Ids /\ j.pc = "saveObj"
    BY <1>3, CameFrom DEF Knowing, LoadTarget, At, TypeInv, StepsOK, JobOK, NeedsId, Ids
  <2>2. PICK l \in Loaded(job[h].id) :
           /\ Loads1(job[h].id, l)
           /\ Stepped(h, "saveCopy", job[h].id, job[h].name, l.obj, job[h].cur, job[h].blind \/ l.err, job[h].was)
    BY <2>1, LoadTargetJob
  <2>3. k.id = j.id /\ k.name = j.name /\ k.cur = l.obj /\ k.src = j.cur /\ k.was = j.was
    BY <2>2 DEF Stepped
  <2>4. cache[j.id] # Null /\ New(cache[j.id], h, Blank) /\ heap[j.cur].data = j.was
    BY <2>1 DEF SaveKnows, At
  <2>5. l.obj = cache[j.id] /\ l.value = heap[cache[j.id]] /\ heap'[l.obj] = l.value
    BY <2>1, <2>2, <2>4, LoadedFacts, LoadKeeps DEF TypeInv
  <2>6. heap'[j.cur] = heap[j.cur]
    <3>1. j.cur \in Objs
      BY <2>1, CurFacts DEF At, NeedsCur
    <3>2. QED
      BY <2>1, <2>2, <3>1, LoadKeeps DEF Refers, TypeInv
  <2>7. QED
    BY <1>3, <2>3, <2>4, <2>5, <2>6 DEF SaveKnows, New, At
<1>4. CASE k.pc = "saveSave"
  <2>1. CopyAttributes(h) /\ j.pc = "saveCopy"
    BY <1>4, CameFrom DEF Knowing
  <2>2. /\ j.cur \in Objs /\ j.src \in Objs
        /\ \/ heap[j.src].data = Blank /\ heap' = heap
           \/ Edited(j.cur, heap[j.src].data)
        /\ k.id = j.id /\ k.name = j.name /\ k.cur = j.cur /\ k.src = j.src /\ k.was = j.was
    BY <2>1, CopyFacts DEF Stepped
  <2>3. heap[j.src].data = j.was /\ New(j.cur, h, Blank)
    BY <2>1 DEF SaveKnows, At
  <2>4. heap'[k.src].data = k.was
    BY <2>2, <2>3 DEF Edited
  <2>5. heap'[j.cur].id = j.id /\ heap'[j.cur].owned /\ heap'[j.cur].name = j.name /\ heap'[j.cur].data = j.was
    BY <2>2, <2>3 DEF Edited, New
  <2>6. QED
    BY <1>4, <2>2, <2>4, <2>5 DEF SaveKnows, New, At
<1>5. QED
  BY <1>1, <1>2, <1>3, <1>4

\* Nobody knows anything elsewhere.
LEMMA KnowsNothing == ASSUME NEW h, job[h].pc \notin Knowing PROVE Unbinds(h) /\ LoadKnows(h) /\ SaveKnows(h)
  BY DEF Knowing, Unbinds, LoadKnows, SaveKnows, At

LEMMA KnowsNothingNext == ASSUME NEW h \in Handlers, job'[h].pc \notin Knowing PROVE Unbinds(h)' /\ LoadKnows(h)' /\ SaveKnows(h)'
  BY DEF Knowing, Unbinds, LoadKnows, SaveKnows, At

LEMMA MovesKnows == ASSUME TypeInv, Solo, Knows, NEW h \in Handlers, Moves(h) PROVE Knows'
<1>1. SUFFICES ASSUME NEW i \in Handlers, job'[i].alone, job'[i].pc \in Knowing PROVE Unbinds(i)' /\ LoadKnows(i)' /\ SaveKnows(i)'
  BY KnowsNothingNext DEF Knows
<1>2. ~At(h, {"idle"}) /\ Took(h)
  BY MovesJob
<1>3. i = h
  BY <1>1, <1>2 DEF Solo, At, Took, Others, Knowing
<1>4. Unbinds(h) /\ LoadKnows(h) /\ SaveKnows(h)
  BY <1>1, <1>2, <1>3, IdleFacts DEF Knows, Took, Knowing
<1>5. CASE job'[h].pc = "delete"
  BY <1>3, <1>5, DeleteKnows DEF Unbinds, LoadKnows, SaveKnows, At
<1>6. CASE job'[h].pc \in {"loadClear", "loadCopy", "loadSave"}
  BY <1>3, <1>4, <1>6, LoadKnowsStep DEF Unbinds, SaveKnows, At
<1>7. CASE job'[h].pc \in {"saveCur", "saveObj", "saveCopy", "saveSave"}
  BY <1>3, <1>4, <1>7, SaveKnowsStep DEF Unbinds, LoadKnows, At
<1>8. QED
  BY <1>1, <1>3, <1>5, <1>6, <1>7 DEF Knowing

LEMMA FlushKnows == ASSUME TypeInv, Knows, Flush PROVE Knows'
<1>1. /\ UNCHANGED <<bound, cache, job>>
      /\ \A p \in Objs : heap[p] # Null =>
           heap'[p].id = heap[p].id /\ heap'[p].owned = heap[p].owned /\ heap'[p].name = heap[p].name /\ heap'[p].data = heap[p].data
  BY FlushFacts
<1>2. ASSUME NEW h \in Handlers, Unbinds(h), LoadKnows(h), SaveKnows(h) PROVE Unbinds(h)' /\ LoadKnows(h)' /\ SaveKnows(h)'
  <2> DEFINE j == job[h]
  <2>1. /\ At(h, NeedsCur) => j.cur \in Objs /\ heap[j.cur] # Null
        /\ At(h, NeedsSrc) => j.src \in Objs /\ heap[j.src] # Null
    BY CurFacts
  <2>2. Unbinds(h)'
    BY <1>1, <1>2 DEF Unbinds, At
  <2>3. LoadKnows(h)'
    BY <1>1, <1>2, <2>1 DEF LoadKnows, At, NeedsCur, NeedsSrc
  <2>4. At(h, {"saveCur", "saveObj"}) /\ cache[j.id] # Null => cache[j.id] \in Objs /\ heap[cache[j.id]] # Null
    BY DEF At, TypeInv, TypeOK, StepsOK, JobOK, NeedsId, Ids
  <2>5. SaveKnows(h)'
    BY <1>1, <1>2, <2>1, <2>4 DEF SaveKnows, New, At, NeedsCur, NeedsSrc
  <2>6. QED
    BY <2>2, <2>3, <2>5
<1>3. QED
  BY <1>1, <1>2 DEF Knows

LEMMA NextIInv == IInv /\ [Next]_vars => IInv'
<1> SUFFICES ASSUME IInv, [Next]_vars PROVE IInv'
  OBVIOUS
<1>1. TypeInv /\ Solo /\ Knows
  BY DEF IInv
<1>2. Knows'
  <2>1. CASE UNCHANGED vars
    BY <1>1, <2>1 DEF vars, Knows, Unbinds, LoadKnows, SaveKnows, New, At
  <2>2. ASSUME NEW h \in Handlers, NEW c \in Commands, NEW g \in Groups, NEW n \in Names \cup {Null}, NEW m \in Names \cup {Null},
               Begin(h, c, g, n, m)
        PROVE  Knows'
    <3>1. SUFFICES ASSUME NEW i \in Handlers, job'[i].alone, job'[i].pc \in Knowing PROVE FALSE
      BY KnowsNothingNext DEF Knows
    <3>2. i = h
      BY <1>1, <2>2, <3>1, BeginJob DEF Knowing
    <3>3. QED
      BY <1>1, <2>2, <3>1, <3>2, BeginJob DEF Knowing, Commands, Named
  <2>3. QED
    BY <1>1, <2>1, <2>2, MovesKnows, FlushKnows, NextCases
<1>3. QED
  BY <1>2, NextTypeInv, NextSolo, NextNames DEF IInv

LEMMA InitIInv == Init => IInv
  BY InitNames DEF IInv
-----------------------------------------------------------------------------
(***************************************************************************)
(* What the commands do.                                                   *)
(***************************************************************************)
\* Only .pc del takes a card out of the store.
LEMMA WhoDeletes ==
  ASSUME TypeInv, [Next]_vars, NEW c \in Cards, stored[c] # Absent, stored'[c] = Absent
  PROVE  \E h \in Handlers : At(h, {"delete"}) /\ job[h].id = c
<1>1. c \in Ids
  BY DEF Ids
<1>2. CASE UNCHANGED vars
  BY <1>2 DEF vars
<1>3. CASE Flush
  BY <1>1, <1>3, FlushFacts
<1>4. ASSUME NEW h \in Handlers, Moves(h) PROVE At(h, {"delete"}) /\ job[h].id = c
  <2>1. stored' # stored
    OBVIOUS
  <2>2. ~Plain(h) /\ ~SaveNewFails(h) /\ ~LoadCurrent(h) /\ ~LoadSource(h) /\ ~LoadTarget(h) /\ ~UntagLoad(h) /\ ~RenameLoad(h)
    BY <2>1 DEF Plain, SaveNewFails, LoadCurrent, LoadSource, LoadTarget, UntagLoad, RenameLoad
  <2>3. CASE SaveCard(h)
    BY <1>1, <2>3, SaveCardFacts, PutFacts DEF TypeInv, TypeOK
  <2>4. ASSUME NEW d \in Cards, NewCard(h, d) PROVE FALSE
    <3> DEFINE item == [owned |-> TRUE, name |-> job[h].name, data |-> Blank]
    <3>1. stored' = [stored EXCEPT ![d] = item]
      BY <2>4 DEF NewCard
    <3>2. item # Absent
      <4>1. item \in Items
        BY <2>4 DEF NewCard, At, Items, Values, TypeInv, StepsOK, JobOK, NeedsName
      <4> HIDE DEF item
      <4>2. QED
        BY <4>1, ValuesAssumption
    <3> HIDE DEF item
    <3>3. QED
      BY <1>1, <3>1, <3>2 DEF TypeInv, TypeOK
  <2>5. CASE DeleteCard(h)
    BY <1>1, <2>1, <2>5 DEF DeleteCard, TypeInv, TypeOK
  <2>6. QED
    BY <1>4, <2>2, <2>3, <2>4, <2>5, PlainSteps DEF Moves
<1>5. ASSUME NEW h \in Handlers, NEW k \in Commands, NEW g \in Groups, NEW n \in Names \cup {Null}, NEW m \in Names \cup {Null},
             Begin(h, k, g, n, m)
      PROVE  FALSE
  BY <1>5 DEF Begin
<1>6. QED
  BY <1>2, <1>3, <1>4, <1>5, NextCases

\* .pc del does not take away a card that some group is bound to, unless another command
\* overlapped or the list of groups could not be read.
THEOREM DeleteKeepsBound == Spec => DelKeepsBound
<1> DEFINE Step == \A c \in Cards :
       stored[c] # Absent /\ stored'[c] = Absent /\ (\E g \in Groups : bound[g] = c)
       => \E h \in Handlers : At(h, {"delete"}) /\ job[h].id = c /\ (~job[h].alone \/ job[h].blind)
<1>1. IInv /\ [Next]_vars => Step
  <2>1. SUFFICES ASSUME IInv, [Next]_vars, NEW c \in Cards, stored[c] # Absent, stored'[c] = Absent, NEW g \in Groups, bound[g] = c
                 PROVE  \E h \in Handlers : At(h, {"delete"}) /\ job[h].id = c /\ (~job[h].alone \/ job[h].blind)
    OBVIOUS
  <2>2. PICK h \in Handlers : At(h, {"delete"}) /\ job[h].id = c
    BY <2>1, WhoDeletes DEF IInv
  <2>3. ~job[h].alone \/ job[h].blind
    BY <2>1, <2>2 DEF IInv, Knows, Unbinds
  <2>4. QED
    BY <2>2, <2>3
<1> HIDE DEF Step
<1>2. Spec => [][Step]_vars
  BY <1>1, InitIInv, NextIInv, PTL DEF Spec
<1>3. QED
  BY <1>2 DEF Step, DelKeepsBound

\* A .pc load nothing interfered with leaves the current card, in the store too, with the
\* attributes of the card it was told to load, which it leaves as they were.
THEOREM LoadCopiesCard == Spec => LoadLoads
<1> DEFINE Step == \A h \in Handlers : Undisturbed(h, "loadSave") /\ job[h].cur # job[h].src => Loads(h)
<1>1. IInv /\ [Next]_vars => Step
  <2>1. SUFFICES ASSUME IInv, NEW h \in Handlers, Undisturbed(h, "loadSave"), job[h].cur # job[h].src PROVE Loads(h)
    OBVIOUS
  <2>0. TypeOK
    BY <2>1 DEF IInv, TypeInv
  <2> DEFINE o == job[h].cur
  <2>2. /\ heap[job[h].src].data = job[h].was /\ heap[o].data = job[h].was
        /\ job[h].src \in Objs
    BY <2>1, CurFacts DEF Undisturbed, IInv, Knows, LoadKnows, At, NeedsSrc
  <2>3. o \in Objs /\ heap[o] # Null /\ Put(o)
    BY <2>1, SaveCardFacts DEF Undisturbed, IInv
  <2> HIDE DEF o
  <2>4. /\ stored' = [stored EXCEPT ![heap[o].id] = Card(o)] /\ heap[o].id \in Ids /\ Card(o) # Absent
        /\ heap'[job[h].src].data = heap[job[h].src].data
    BY <2>0, <2>2, <2>3, PutFacts
  <2>5. stored'[heap[o].id] = Card(o) /\ Card(o).data = heap[o].data
    BY <2>0, <2>4 DEF Card, TypeOK
  <2>6. QED
    BY <2>2, <2>4, <2>5 DEF Loads, o
<1> HIDE DEF Step
<1>2. Spec => [][Step]_vars
  BY <1>1, InitIInv, NextIInv, PTL DEF Spec
<1>3. QED
  BY <1>2 DEF Step, LoadLoads

\* A .pc save nothing interfered with leaves a new card under the name it was given, with the
\* attributes of the current one, which it leaves alone.
THEOREM SaveCopiesCard == Spec => SaveCopies
<1> DEFINE Step == \A h \in Handlers :
       Undisturbed(h, "saveSave") =>
         /\ stored'[job[h].id] = [owned |-> TRUE, name |-> job[h].name, data |-> job[h].was]
         /\ heap'[job[h].src].data = job[h].was
<1>1. IInv /\ [Next]_vars => Step
  <2>1. SUFFICES ASSUME IInv, NEW h \in Handlers, Undisturbed(h, "saveSave")
                 PROVE  /\ stored'[job[h].id] = [owned |-> TRUE, name |-> job[h].name, data |-> job[h].was]
                        /\ heap'[job[h].src].data = job[h].was
    OBVIOUS
  <2>0. TypeOK
    BY <2>1 DEF IInv, TypeInv
  <2> DEFINE o == job[h].cur
  <2>2. /\ heap[job[h].src].data = job[h].was /\ New(o, h, job[h].was) /\ job[h].src \in Objs
    BY <2>1, CurFacts DEF Undisturbed, IInv, Knows, SaveKnows, At, NeedsSrc
  <2>3. o \in Objs /\ heap[o] \in Objects /\ heap[o] # Null /\ Put(o)
    BY <2>1, SaveCardFacts, CurFacts DEF Undisturbed, IInv, At, NeedsCur
  <2> HIDE DEF o
  <2>4. /\ stored' = [stored EXCEPT ![heap[o].id] = Card(o)] /\ heap[o].id \in Ids
        /\ heap'[job[h].src].data = heap[job[h].src].data
    BY <2>0, <2>2, <2>3, PutFacts
  <2>5. stored'[job[h].id] = Card(o)
    BY <2>0, <2>2, <2>4 DEF New, TypeOK
  <2>6. heap[o].owned = TRUE /\ heap[o].name = job[h].name /\ heap[o].data = job[h].was
    BY <2>2, <2>3 DEF New, Objects
  <2>7. Card(o) = [owned |-> TRUE, name |-> job[h].name, data |-> job[h].was]
    BY <2>6 DEF Card
  <2>8. QED
    BY <2>2, <2>4, <2>5, <2>7
<1> HIDE DEF Step
<1>2. Spec => [][Step]_vars
  BY <1>1, InitIInv, NextIInv, PTL DEF Spec
<1>3. QED
  BY <1>2 DEF Step, SaveCopies
=============================================================================
