----------------------------- MODULE GroupProofs ----------------------------
(***************************************************************************)
(* Proofs about GroupService, for every set of handlers, groups, objects   *)
(* and messages sent, and every number of messages and restarts.           *)
(***************************************************************************)
EXTENDS GroupService, FiniteSetTheorems, SequenceTheorems, TLAPS

\* An object is one group's.
Owned ==
  /\ \A g, k \in Groups : cache[g] # Null /\ cache[g] = cache[k] => g = k
  /\ \A h \in Handlers, g \in Groups : job[h].obj # Null /\ job[h].obj = cache[g] => Group(h) = g
  /\ \A h, i \in Handlers : job[h].obj # Null /\ job[h].obj = job[i].obj => Group(h) = Group(i)

Shape(h) ==
  /\ job[h].pc = "idle" => job[h] = Idle
  /\ job[h].pc \in {"read", "create"} => job[h].obj = Null
  /\ job[h].pc \in {"write", "fill"} => Shared(Group(h)) /\ (job[h].next = "idle" => Group(h) # Private)
  /\ job[h].pc = "read" => manager = "bunt" /\ Group(h) # Private
  /\ job[h].pc = "write" => manager = "bunt" /\ job[h].snap # Null
  /\ job[h].pc = "visit" => job[h].todo # <<>>

TypeInv == TypeOK /\ Owned /\ \A h \in Handlers : Shape(h)
-----------------------------------------------------------------------------
\* A handler without the group's record is alone and the cache has none either; the others have
\* the one of the cache.
Sole(g) ==
  Shared(g) /\ hist[g].doubt \cap {"records", "file"} = {} =>
    /\ \A h \in Missing(g) : cache[g] = Null /\ Busy(g) = {h}
    /\ \A h \in Busy(g) \ Missing(g) : cache[g] = job[h].obj

\* One handler stores at a time; what it has written or will write is the record, and so is the
\* file when nobody stores.
Writers(g) == {h \in Busy(g) : job[h].pc \in {"write", "fill"}}
Written(h) == IF job[h].pc = "write" THEN job[h].snap ELSE file[Group(h)]

Filed(g) ==
  Trusted(g) =>
    /\ \A h, i \in Writers(g) : h = i
    /\ \A h \in Writers(g) :
         manager = "bunt" /\ (job[h].next = "list" \/ ~hist[g].unsaved) => Stored(Record(h)) = Written(h)
    /\ manager = "bunt" /\ Writers(g) = {} /\ cache[g] # Null /\ ~hist[g].unsaved => file[g] = Stored(heap[cache[g]])

\* A record, in the cache or in the file, has what was acknowledged.
Fits(r, n) ==
  /\ n.silent => ~r.active
  /\ \A e \in n.closed : r.states[e] = "off"
  /\ n.system # "" => r.system = n.system /\ (n.system \in n.closed \/ r.states[n.system] = "on")
Matches(r, n) == Fits(r, n) /\ (n.name # "" => r.player = n.name)
Nothing(n) == ~n.silent /\ n.closed = {} /\ n.system = ""

Told(g) ==
  Trusted(g) =>
    /\ cache[g] # Null => Matches(heap[cache[g]], hist[g])
    /\ cache[g] = Null => /\ hist[g].name = ""
                          /\ Nothing(hist[g]) \/ (manager = "bunt" /\ file[g] # Absent /\ Fits(file[g], hist[g]))
    /\ manager = "bunt" /\ hist[g].silent => file[g] # Absent /\ ~file[g].active
    /\ \A h \in Missing(g) : job[h].pc \in {"create", "write"} => Nothing(hist[g])

\* No write that is under way turns the bot on again, and that of .bot off turns it off.
BotOff == [word |-> "bot", arg |-> "off"]

Hushed(g) ==
  Trusted(g) =>
    \A h \in Writers(g) :
      /\ job[h].pc = "write" /\ hist[g].silent => ~job[h].snap.active
      /\ job[h].next = "idle" /\ job[h].msg = BotOff =>
           /\ ~Record(h).active
           /\ manager = "bunt" => Written(h) # Absent /\ ~Written(h).active

Synced(r) == \A e \in Exts : IsExtensionActive(r, e) => e \in ToSet(r.list)

\* What a handler that asks the extensions knows: whether it may run a command, whom not to ask,
\* that the list is that of the states, and who answers .st first.
Visits(h) ==
  job[h].pc = "visit" /\ Trusted(Group(h)) =>
    /\ job[h].asked.silent => ~job[h].active
    /\ ToSet(job[h].todo) \cap job[h].asked.closed = {}
    /\ Synced(Record(h))
    /\ job[h].msg.word = "st" /\ job[h].asked.system \notin {""} \cup job[h].asked.closed =>
         /\ Busy(Group(h)) = {h}
         /\ job[h].active => /\ Head(job[h].todo) = job[h].asked.system
                             /\ IsExtensionActive(Record(h), job[h].asked.system)

GroupInv(g) == Sole(g) /\ Filed(g) /\ Told(g) /\ Hushed(g) /\ \A h \in Busy(g) : Visits(h)

IInv == TypeInv /\ \A g \in Groups : GroupInv(g)
-----------------------------------------------------------------------------
(***************************************************************************)
(* Lists of extensions.                                                    *)
(***************************************************************************)
LEMMA ConcatSet ==
  ASSUME NEW S, NEW s \in Seq(S), NEW t \in Seq(S)
  PROVE  s \o t \in Seq(S) /\ ToSet(s \o t) = ToSet(s) \cup ToSet(t)
<1>1. s \o t \in Seq(S) /\ Len(s \o t) = Len(s) + Len(t) /\ Len(s) \in Nat /\ Len(t) \in Nat
  BY ConcatProperties, LenProperties
<1>2. \A i \in 1 .. Len(s) + Len(t) : (s \o t)[i] = IF i <= Len(s) THEN s[i] ELSE t[i - Len(s)]
  BY ConcatProperties
<1>3. DOMAIN s = 1..Len(s) /\ DOMAIN t = 1..Len(t) /\ DOMAIN (s \o t) = 1..(Len(s) + Len(t))
  BY <1>1, LenProperties
<1>4. ASSUME NEW x \in ToSet(s \o t) PROVE x \in ToSet(s) \cup ToSet(t)
  <2>1. PICK i \in 1..(Len(s) + Len(t)) : x = (s \o t)[i]
    BY <1>3 DEF ToSet
  <2>2. CASE i <= Len(s)
    BY <1>1, <1>2, <1>3, <2>1, <2>2 DEF ToSet
  <2>3. CASE ~(i <= Len(s))
    <3>1. i - Len(s) \in 1..Len(t)
      BY <1>1, <2>3
    <3>2. QED
      BY <1>2, <1>3, <2>1, <2>3, <3>1 DEF ToSet
  <2>4. QED
    BY <2>2, <2>3
<1>5. ASSUME NEW x \in ToSet(s) PROVE x \in ToSet(s \o t)
  <2>1. PICK i \in 1..Len(s) : x = s[i]
    BY <1>3 DEF ToSet
  <2>2. i \in 1..(Len(s) + Len(t)) /\ (s \o t)[i] = x
    BY <1>1, <1>2, <2>1
  <2>3. QED
    BY <1>3, <2>2 DEF ToSet
<1>6. ASSUME NEW x \in ToSet(t) PROVE x \in ToSet(s \o t)
  <2>1. PICK i \in 1..Len(t) : x = t[i]
    BY <1>3 DEF ToSet
  <2>2. i + Len(s) \in 1..(Len(s) + Len(t)) /\ ~(i + Len(s) <= Len(s)) /\ (i + Len(s)) - Len(s) = i
    BY <1>1
  <2>3. (s \o t)[i + Len(s)] = x
    BY <1>2, <2>1, <2>2
  <2>4. QED
    BY <1>3, <2>2, <2>3 DEF ToSet
<1>7. QED
  BY <1>1, <1>4, <1>5, <1>6

LEMMA OneFacts ==
  ASSUME NEW e \in Exts, NEW T
  PROVE  One(e, T) \in Seq(Exts) /\ ToSet(One(e, T)) = T \cap {e}
<1>1. CASE e \in T
  <2>1. One(e, T) = <<e>>
    BY <1>1 DEF One
  <2>2. ToSet(<<e>>) = {e}
    BY DEF ToSet
  <2>3. QED
    BY <1>1, <2>1, <2>2
<1>2. CASE e \notin T
  <2>1. One(e, T) = <<>>
    BY <1>2 DEF One
  <2>2. ToSet(<<>>) = {}
    BY DEF ToSet
  <2>3. QED
    BY <1>2, <2>1, <2>2
<1>3. QED
  BY <1>1, <1>2

LEMMA ListingFacts ==
  ASSUME NEW T
  PROVE  Listing(T) \in Seq(Exts) /\ ToSet(Listing(T)) = T \cap Exts
<1> DEFINE a == One("core", T)
           b == One("coc7", T)
           c == One("dnd5e", T)
<1>1. /\ a \in Seq(Exts) /\ ToSet(a) = T \cap {"core"} /\ b \in Seq(Exts) /\ ToSet(b) = T \cap {"coc7"}
      /\ c \in Seq(Exts) /\ ToSet(c) = T \cap {"dnd5e"}
  BY OneFacts DEF Exts
<1>2. Listing(T) = (a \o b) \o c
  BY DEF Listing
<1> HIDE DEF a, b, c
<1>3. a \o b \in Seq(Exts) /\ ToSet(a \o b) = ToSet(a) \cup ToSet(b)
  BY <1>1, ConcatSet
<1> DEFINE d == a \o b
<1>4. d \o c \in Seq(Exts) /\ ToSet(d \o c) = ToSet(d) \cup ToSet(c)
  <2> HIDE DEF d
  <2>1. d \in Seq(Exts)
    BY <1>3 DEF d
  <2>2. QED
    BY <1>1, <2>1, ConcatSet
<1>5. QED
  BY <1>1, <1>2, <1>3, <1>4 DEF Exts

LEMMA RankedFacts ==
  ASSUME NEW T \in SUBSET Exts, NEW s
  PROVE  Ranked(T, s) \in Seq(Exts) /\ ToSet(Ranked(T, s)) = T
<1> DEFINE a == Listing(T \cap {"core"})
           b == Listing(T \cap {s})
           c == Listing(T \ {"core", s})
<1>1. /\ a \in Seq(Exts) /\ ToSet(a) = (T \cap {"core"}) \cap Exts /\ b \in Seq(Exts) /\ ToSet(b) = (T \cap {s}) \cap Exts
      /\ c \in Seq(Exts) /\ ToSet(c) = (T \ {"core", s}) \cap Exts
  BY ListingFacts
<1>2. Ranked(T, s) = (a \o b) \o c
  BY DEF Ranked
<1> HIDE DEF a, b, c
<1>3. a \o b \in Seq(Exts) /\ ToSet(a \o b) = ToSet(a) \cup ToSet(b)
  BY <1>1, ConcatSet
<1> DEFINE d == a \o b
<1>4. d \o c \in Seq(Exts) /\ ToSet(d \o c) = ToSet(d) \cup ToSet(c)
  <2> HIDE DEF d
  <2>1. d \in Seq(Exts)
    BY <1>3 DEF d
  <2>2. QED
    BY <1>1, <2>1, ConcatSet
<1>5. QED
  BY <1>1, <1>2, <1>3, <1>4

\* The extension of the system comes first of those that are not the core.
LEMMA RankedHead ==
  ASSUME NEW T \in SUBSET Exts, "core" \notin T, NEW s \in Systems, s \in T
  PROVE  Head(Ranked(T, s)) = s
<1> DEFINE c == Listing(T \ {"core", s})
<1>1. c \in Seq(Exts)
  BY ListingFacts
<1>2. Listing(T \cap {"core"}) = <<>>
  <2>1. T \cap {"core"} = {}
    OBVIOUS
  <2>2. One("core", {}) = <<>> /\ One("coc7", {}) = <<>> /\ One("dnd5e", {}) = <<>>
    BY DEF One
  <2>3. (<<>> \o <<>>) \o <<>> = <<>>
    OBVIOUS
  <2>4. Listing({}) = <<>>
    BY <2>2, <2>3 DEF Listing
  <2>5. QED
    BY <2>1, <2>4
<1>3. Listing(T \cap {s}) = <<s>>
  <2>1. T \cap {s} = {s}
    OBVIOUS
  <2>2. CASE s = "coc7"
    BY <2>1, <2>2 DEF Listing, One
  <2>3. CASE s = "dnd5e"
    BY <2>1, <2>3 DEF Listing, One
  <2>4. QED
    BY <2>2, <2>3 DEF Systems
<1>4. Ranked(T, s) = <<s>> \o c
  <2> HIDE DEF c
  <2>1. Ranked(T, s) = (<<>> \o <<s>>) \o c
    BY <1>2, <1>3 DEF Ranked, c
  <2>2. <<>> \o <<s>> = <<s>>
    OBVIOUS
  <2>3. QED
    BY <2>1, <2>2
<1> HIDE DEF c
<1>5. s \in Exts
  BY DEF Systems, Exts
<1>6. <<s>> \in Seq(Exts) /\ Len(<<s>>) = 1
  BY <1>5
<1>7. (<<s>> \o c)[1] = s
  <2>1. 1 \in 1..(Len(<<s>>) + Len(c)) /\ 1 <= Len(<<s>>)
    BY <1>1, <1>6, LenProperties
  <2>2. QED
    BY <1>1, <1>6, <2>1, ConcatProperties
<1>8. QED
  BY <1>4, <1>7
-----------------------------------------------------------------------------
(***************************************************************************)
(* Records.                                                                *)
(***************************************************************************)
LEMMA StoredFacts ==
  ASSUME NEW r \in Records
  PROVE  /\ Stored(r) \in StoredRecords /\ Stored(r) # Absent
         /\ Stored(r).active = r.active /\ Stored(r).system = r.system /\ Stored(r).states = r.states
<1>1. Stored(r) \in StoredRecords
  BY DEF Records, StoredRecords, Stored
<1>2. QED
  BY <1>1, ValuesAssumption DEF Stored

LEMMA StoredFits ==
  ASSUME NEW r \in Records, NEW n
  PROVE  Fits(Stored(r), n) <=> Fits(r, n)
BY StoredFacts DEF Fits

LEMMA LoadedFacts ==
  ASSUME NEW s \in StoredRecords
  PROVE  /\ Loaded(s) \in Records /\ Loaded(s) # Null
         /\ Stored(Loaded(s)) = s /\ Loaded(s).active = s.active
<1>1. <<>> \in Seq(Exts)
  OBVIOUS
<1>2. Loaded(s) \in Records
  BY <1>1 DEF Records, StoredRecords, Loaded
<1>3. Loaded(s) # Null
  BY <1>2, ValuesAssumption
<1>4. Stored(Loaded(s)) = s
  BY DEF Records, StoredRecords, Loaded, Stored
<1>5. QED
  BY <1>2, <1>3, <1>4 DEF Loaded

LEMMA ListedFacts ==
  ASSUME NEW r \in Records
  PROVE  /\ Listed(r) \in Records
         /\ Listed(r).active = r.active /\ Listed(r).system = r.system /\ Listed(r).player = r.player
         /\ \A k \in Spellings : (r.states[k] = "off" => Listed(r).states[k] = "off")
                                 /\ (r.states[k] = "on" => Listed(r).states[k] = "on")
         /\ Synced(Listed(r)) /\ \A e \in ToSet(Listed(r).list) : Listed(r).states[e] # "off"
         /\ ToSet(Listed(r).list) \in SUBSET Exts
<1> DEFINE T == {e \in Exts : IsActive(r, e)}
           st == [k \in Spellings |-> IF r.states[k] = "unset" /\ k \in AutoActive THEN "on" ELSE r.states[k]]
<1>1. T \in SUBSET Exts
  OBVIOUS
<1>2. Ranked(T, r.system) \in Seq(Exts) /\ ToSet(Ranked(T, r.system)) = T
  BY <1>1, RankedFacts
<1>3. st \in [Spellings -> {"on", "off", "unset"}]
  BY DEF Records
<1>4. Listed(r) = [r EXCEPT !.states = st, !.list = Ranked(T, r.system)]
  BY DEF Listed, GetActiveExtensions
<1>5. Exts \subseteq Spellings
  BY DEF Spellings
<1>6. \A e \in Exts : st[e] = "on" <=> e \in T
  BY <1>5, <1>3 DEF IsActive, IsExtensionActive, Records
<1>7. \A k \in Spellings : (r.states[k] = "off" => st[k] = "off") /\ (r.states[k] = "on" => st[k] = "on")
  OBVIOUS
<1> HIDE DEF T, st
<1>8. /\ Listed(r).active = r.active /\ Listed(r).system = r.system /\ Listed(r).player = r.player
      /\ Listed(r).states = st /\ Listed(r).list = Ranked(T, r.system)
  BY <1>4 DEF Records
<1>9. Listed(r) \in Records
  BY <1>2, <1>3, <1>4 DEF Records
<1>10. Synced(Listed(r))
  BY <1>2, <1>6, <1>8 DEF Synced, IsExtensionActive
<1>11. \A e \in ToSet(Listed(r).list) : Listed(r).states[e] # "off"
  BY <1>1, <1>2, <1>6, <1>8
<1>12. QED
  BY <1>1, <1>2, <1>7, <1>8, <1>9, <1>10, <1>11

\* The list a record had does not matter.
LEMMA ListedAnew ==
  ASSUME NEW r \in Records, NEW q
  PROVE  Listed([r EXCEPT !.list = q]) = Listed(r)
<1>1. [r EXCEPT !.list = q].states = r.states /\ [r EXCEPT !.list = q].system = r.system
  BY DEF Records
<1>2. GetActiveExtensions([r EXCEPT !.list = q]) = GetActiveExtensions(r)
  BY <1>1 DEF GetActiveExtensions, IsActive, IsExtensionActive
<1> DEFINE l == GetActiveExtensions(r)
<1> HIDE DEF l
<1>3. QED
  BY <1>1, <1>2 DEF Listed, Records, l

LEMMA NewFacts == NewRecord \in Records /\ NewRecord # Null
<1> DEFINE r == [active |-> TRUE, system |-> "coc7", sides |-> "", rule |-> "0", states |-> [k \in Spellings |-> "unset"],
                 bots |-> FALSE, list |-> <<>>, player |-> ""]
<1>1. <<>> \in Seq(Exts)
  OBVIOUS
<1>2. r \in Records
  BY <1>1 DEF Records, Systems
<1>3. NewRecord = Listed(r)
  BY DEF NewRecord
<1>4. NewRecord \in Records
  BY <1>2, <1>3, ListedFacts
<1>5. QED
  BY <1>4, ValuesAssumption

LEMMA OlderFacts == Older \in StoredRecords
BY NewFacts, StoredFacts DEF Older, StoredRecords

LEMMA PlayerFacts ==
  ASSUME NEW r \in Records
  PROVE  /\ WithPlayer(r) \in Records /\ WithPlayer(r).player # ""
         /\ r.player # "" => WithPlayer(r).player = r.player
         /\ WithPlayer(r).active = r.active /\ WithPlayer(r).system = r.system /\ WithPlayer(r).states = r.states
BY DEF Records, WithPlayer

\* What an extension's activation does.
LEMMA ExtActiveFacts ==
  ASSUME NEW r \in Records, NEW e \in Exts
  PROVE  /\ ExtActive(r, e) \in Records
         /\ ExtActive(r, e).active = r.active /\ ExtActive(r, e).system = r.system /\ ExtActive(r, e).player = r.player
         /\ ExtActive(r, e).states = [r.states EXCEPT ![e] = "on"]
         /\ Synced(r) => Synced(ExtActive(r, e))
<1> DEFINE l == IF Contains(r.list, e) THEN r.list ELSE Append(r.list, e)
<1>0. r.list \in Seq(Exts) /\ r.states \in [Spellings -> {"on", "off", "unset"}] /\ Exts \subseteq Spellings
  BY DEF Records, Spellings
<1>1. l \in Seq(Exts) /\ ToSet(l) = ToSet(r.list) \cup {e}
  <2>1. CASE Contains(r.list, e)
    <3>1. e \in ToSet(r.list)
      BY <1>0, <2>1, LenProperties DEF Contains, ToSet
    <3>2. QED
      BY <1>0, <2>1, <3>1
  <2>2. CASE ~Contains(r.list, e)
    <3>1. <<e>> \in Seq(Exts) /\ ToSet(<<e>>) = {e}
      BY DEF ToSet
    <3>2. l = r.list \o <<e>>
      BY <1>0, <2>2
    <3>3. r.list \o <<e>> \in Seq(Exts) /\ ToSet(r.list \o <<e>>) = ToSet(r.list) \cup ToSet(<<e>>)
      <4> DEFINE q == <<e>>
      <4> HIDE DEF q
      <4>1. q \in Seq(Exts)
        BY <3>1 DEF q
      <4>2. r.list \o q \in Seq(Exts) /\ ToSet(r.list \o q) = ToSet(r.list) \cup ToSet(q)
        BY <1>0, <4>1, ConcatSet
      <4>3. QED
        BY <4>2 DEF q
    <3>4. QED
      BY <3>1, <3>2, <3>3
  <2>3. QED
    BY <2>1, <2>2
<1> HIDE DEF l
<1>2. ExtActive(r, e) = [r EXCEPT !.states = [r.states EXCEPT ![e] = "on"], !.list = l]
  BY DEF ExtActive, l, Records
<1>3. [r.states EXCEPT ![e] = "on"] \in [Spellings -> {"on", "off", "unset"}]
  BY <1>0
<1>4. /\ ExtActive(r, e).active = r.active /\ ExtActive(r, e).system = r.system /\ ExtActive(r, e).player = r.player
      /\ ExtActive(r, e).states = [r.states EXCEPT ![e] = "on"] /\ ExtActive(r, e).list = l
  BY <1>2 DEF Records
<1>5. ExtActive(r, e) \in Records
  BY <1>1, <1>2, <1>3 DEF Records
<1>6. Synced(r) => Synced(ExtActive(r, e))
  BY <1>0, <1>1, <1>4 DEF Synced, IsExtensionActive
<1>7. QED
  BY <1>4, <1>5, <1>6
-----------------------------------------------------------------------------
(***************************************************************************)
(* Steps of a handler within its group.                                    *)
(***************************************************************************)
Jobs == [pc : {"idle", "read", "create", "write", "fill", "list", "visit"}, g : Groups \cup {Null},
         msg : Heard \cup {Null}, obj : Objs \cup {Null}, todo : Seq(Exts), active : BOOLEAN,
         snap : StoredRecords \cup {Null}, next : {"idle", "list"}, asked : Notes]

LEMMA IdleFacts == Idle \in Jobs /\ Idle.pc = "idle" /\ Idle.obj = Null /\ Idle.g = Null
<1>1. NothingSaid \in Notes
  BY DEF NothingSaid, Notes
<1>2. <<>> \in Seq(Exts)
  OBVIOUS
<1>3. QED
  BY <1>1, <1>2 DEF Idle, Jobs

LEMMA Image ==
  ASSUME NEW S, IsFiniteSet(S), NEW f
  PROVE  IsFiniteSet({f[x] : x \in S}) /\ Cardinality({f[x] : x \in S}) <= Cardinality(S)
<1> DEFINE T == {f[x] : x \in S}
           g == [x \in S |-> f[x]]
<1>1. g \in Surjection(S, T)
  BY DEF Surjection
<1> HIDE DEF g
<1>2. QED
  BY <1>1, FS_Surjection

\* A record more can always be made.
LEMMA UnusedFree == ASSUME TypeOK PROVE Unused \in Objs /\ ~Refers(Unused)
<1> DEFINE C == {cache[g] : g \in Groups}
           held == [h \in Handlers |-> job[h].obj]
           H == {held[h] : h \in Handlers}
<1>1. IsFiniteSet(Groups) /\ IsFiniteSet(Handlers)
  BY ObjsAssumption, FS_AddElement DEF Groups
<1>2. IsFiniteSet(C) /\ Cardinality(C) <= Cardinality(Groups)
  BY <1>1, Image
<1>3. IsFiniteSet(H) /\ Cardinality(H) <= Cardinality(Handlers)
  <2> HIDE DEF held
  <2> QED BY <1>1, Image
<1>4. \E o \in Objs : o \notin C \cup H
  <2> HIDE DEF C, H
  <2>1. IsFiniteSet(C \cup H)
    BY <1>2, <1>3, FS_Union
  <2>2. Cardinality(C \cup H) = Cardinality(C) + Cardinality(H) - Cardinality(C \cap H)
    BY <1>2, <1>3, FS_Union
  <2>3. /\ Cardinality(C \cap H) \in Nat /\ Cardinality(C) \in Nat /\ Cardinality(H) \in Nat
        /\ Cardinality(C \cup H) \in Nat /\ Cardinality(Groups) \in Nat /\ Cardinality(Handlers) \in Nat
    BY <1>1, <1>2, <1>3, <2>1, FS_CardinalityType, FS_Intersection
  <2>4. SUFFICES ASSUME Objs \subseteq C \cup H PROVE FALSE
    OBVIOUS
  <2>5. IsFiniteSet(Objs) /\ Cardinality(Objs) <= Cardinality(C \cup H)
    BY <2>1, <2>4, FS_Subset
  <2>6. Cardinality(Objs) > Cardinality(Groups) + Cardinality(Handlers) /\ Cardinality(Objs) \in Nat
    BY <2>5, ObjsAssumption, FS_CardinalityType DEF Groups
  <2>7. QED
    BY <1>2, <1>3, <2>2, <2>3, <2>5, <2>6
<1>5. \E o \in Objs : ~Refers(o)
  <2>1. PICK o \in Objs : o \notin C \cup H
    BY <1>4
  <2>2. \A h \in Handlers : job[h].obj \in H
    OBVIOUS
  <2>3. QED
    BY <2>1, <2>2 DEF Refers
<1>6. QED
  BY <1>5 DEF Unused

LEMMA HeardParsed ==
  ASSUME NEW msg \in Heard, NEW l
  PROVE  CommandParse(msg, l) \in Heard
<1>1. [word |-> "set", arg |-> "coc7"] \in Heard /\ [word |-> "r", arg |-> ""] \in Heard
  BY DEF Heard, Messages, Systems
<1>2. QED
  BY <1>1 DEF CommandParse

\* A step of h that leaves what the other groups and handlers have alone.
Within(h, g) ==
  /\ g \in Groups /\ job[h].pc # "idle" /\ Group(h) = g
  /\ manager' = manager /\ count' = count
  /\ file' \in [Groups -> StoredRecords \cup {Absent}] /\ hist' \in [Groups -> Notes]
  /\ cache' \in [Groups -> Objs \cup {Null}] /\ cache'[g] \in {cache[g], job[h].obj}
  /\ \A k \in Groups \ {g} : file'[k] = file[k] /\ cache'[k] = cache[k] /\ hist'[k] = hist[k]
  /\ heap' \in [Objs -> Records \cup {Null}]
  /\ \A o \in Objs : (heap[o] # Null => heap'[o] # Null) /\ (Refers(o) /\ o # job[h].obj => heap'[o] = heap[o])
  /\ job' \in [Handlers -> Jobs] /\ \A i \in Handlers \ {h} : job'[i] = job[i]
  /\ job'[h].obj \in {Null, job[h].obj} \/ ~Refers(job'[h].obj)
  /\ job'[h].pc # "idle" => job'[h].g = g /\ job'[h].msg # Null
  /\ job'[h].pc \in {"write", "fill", "list", "visit"} => job'[h].obj # Null /\ heap'[job'[h].obj] # Null
  /\ Shape(h)'

LEMMA WithinTypeOK ==
  ASSUME TypeInv, NEW h \in Handlers, NEW g, Within(h, g)
  PROVE  TypeOK'
<1>1. TypeOK
  BY DEF TypeInv
<1>2. \A i \in Handlers : /\ job'[i].pc # "idle" => Group(i)' \in Groups /\ job'[i].msg # Null
                          /\ job'[i].pc \in {"write", "fill", "list", "visit"} => job'[i].obj # Null /\ Record(i)' # Null
  <2> TAKE i \in Handlers
  <2>1. CASE i = h
    BY <2>1 DEF Within, Group, Record
  <2>2. CASE i # h
    <3>1. job'[i] = job[i]
      BY <2>2 DEF Within
    <3>2. job[i].obj \in Objs \cup {Null}
      BY <1>1 DEF TypeOK
    <3>3. QED
      BY <1>1, <3>1, <3>2 DEF Within, TypeOK, Group, Record
  <2>3. QED
    BY <2>1, <2>2
<1>3. \A k \in Groups : cache'[k] # Null => heap'[cache'[k]] # Null
  <2>1. job[h].obj # Null => job[h].obj \in Objs /\ heap[job[h].obj] # Null
    <3>1. job[h] \in Jobs /\ Shape(h) /\ job[h].pc # "idle"
      BY <1>1 DEF TypeInv, TypeOK, Jobs, Within
    <3>2. job[h].obj # Null => job[h].pc \in {"write", "fill", "list", "visit"}
      BY <3>1 DEF Shape, Jobs
    <3>3. QED
      BY <1>1, <3>1, <3>2 DEF TypeOK, Record, Jobs
  <2>2. \A k \in Groups : cache'[k] # Null => cache'[k] \in Objs /\ heap[cache'[k]] # Null
    BY <1>1, <2>1 DEF TypeOK, Within
  <2>3. QED
    BY <2>2 DEF Within
<1>4. /\ manager' \in {"memory", "bunt"} /\ count' \in [messages : 0..MaxMessages, restarts : 0..MaxRestarts]
      /\ file' \in [Groups -> StoredRecords \cup {Absent}] /\ hist' \in [Groups -> Notes]
      /\ cache' \in [Groups -> Objs \cup {Null}] /\ heap' \in [Objs -> Records \cup {Null}]
  BY <1>1 DEF TypeOK, Within
<1>5. job' \in [Handlers -> [pc : {"idle", "read", "create", "write", "fill", "list", "visit"}, g : Groups \cup {Null},
                           msg : Heard \cup {Null}, obj : Objs \cup {Null}, todo : Seq(Exts), active : BOOLEAN,
                           snap : StoredRecords \cup {Null}, next : {"idle", "list"}, asked : Notes]]
  BY DEF Within, Jobs
<1>6. QED
  BY <1>2, <1>3, <1>4, <1>5 DEF TypeOK

LEMMA WithinTypes ==
  ASSUME TypeInv, NEW h \in Handlers, NEW g, Within(h, g)
  PROVE  TypeInv'
<1>1. TypeOK /\ Owned /\ \A i \in Handlers : Shape(i)
  BY DEF TypeInv
<1>2. TypeOK'
  BY WithinTypeOK
<1>3. \A i \in Handlers : Shape(i)'
  <2> TAKE i \in Handlers
  <2>1. CASE i = h
    BY <2>1 DEF Within
  <2>2. CASE i # h
    BY <1>1, <2>2 DEF Within, Shape, Group, Shared, NeverStored
  <2>3. QED
    BY <2>1, <2>2
<1>4. Owned'
  <2>1. Group(h) = g /\ job[h].pc # "idle" /\ g \in Groups /\ h \in Handlers
    BY DEF Within
  <2>2. \A k \in Groups : \/ cache'[k] = cache[k]
                          \/ k = g /\ cache'[k] = job[h].obj
    BY DEF Within
  <2>3. \A i \in Handlers : i # h => job'[i] = job[i]
    BY DEF Within
  <2>4. job'[h].obj # Null => Group(h)' = g
    BY <1>2 DEF Within, Shape, Idle, Group, TypeOK
  <2>5. job'[h].obj = Null \/ job'[h].obj = job[h].obj
        \/ ((\A k \in Groups : cache[k] # job'[h].obj) /\ \A i \in Handlers : job[i].obj # job'[h].obj)
    BY DEF Within, Refers
  <2>6. \A k, l \in Groups : cache'[k] # Null /\ cache'[k] = cache'[l] => k = l
    BY <1>1, <2>1, <2>2 DEF Owned
  <2>7. \A i \in Handlers, k \in Groups : job'[i].obj # Null /\ job'[i].obj = cache'[k] => Group(i)' = k
    <3> SUFFICES ASSUME NEW i \in Handlers, NEW k \in Groups, job'[i].obj # Null, job'[i].obj = cache'[k]
                 PROVE  Group(i)' = k
      OBVIOUS
    <3>1. CASE i = h
      <4>1. CASE job'[h].obj = job[h].obj
        BY <1>1, <2>1, <2>2, <2>4, <3>1, <4>1 DEF Owned
      <4>2. CASE job'[h].obj # job[h].obj
        BY <2>1, <2>2, <2>5, <3>1, <4>2
      <4>3. QED
        BY <4>1, <4>2
    <3>2. CASE i # h
      <4>1. job'[i] = job[i] /\ Group(i)' = Group(i)
        BY <2>3, <3>2 DEF Group
      <4>2. QED
        BY <1>1, <2>1, <2>2, <4>1 DEF Owned
    <3>3. QED
      BY <3>1, <3>2
  <2>8. \A i, l \in Handlers : job'[i].obj # Null /\ job'[i].obj = job'[l].obj => Group(i)' = Group(l)'
    <3>1. \A i \in Handlers : job'[i].obj # Null /\ job'[i].obj = job'[h].obj => Group(i)' = g
      <4> SUFFICES ASSUME NEW i \in Handlers, job'[i].obj # Null, job'[i].obj = job'[h].obj
                   PROVE  Group(i)' = g
        OBVIOUS
      <4>1. CASE i = h
        BY <2>4, <4>1
      <4>2. CASE i # h
        <5>1. job'[i] = job[i] /\ Group(i)' = Group(i)
          BY <2>3, <4>2 DEF Group
        <5>2. QED
          BY <1>1, <2>1, <2>5, <5>1 DEF Owned
      <4>3. QED
        BY <4>1, <4>2
    <3>2. \A i, l \in Handlers \ {h} : job'[i].obj # Null /\ job'[i].obj = job'[l].obj => Group(i)' = Group(l)'
      BY <1>1, <2>3 DEF Owned, Group
    <3>3. QED
      BY <2>4, <3>1, <3>2
  <2>9. QED
    BY <2>6, <2>7, <2>8 DEF Owned
<1>5. QED
  BY <1>2, <1>3, <1>4 DEF TypeInv

\* What a group has is kept when nothing of it changes.
LEMMA Untouched ==
  ASSUME TypeInv, TypeInv', NEW k \in Groups, GroupInv(k), manager' = manager,
         file'[k] = file[k], cache'[k] = cache[k], hist'[k] = hist[k], Busy(k)' = Busy(k),
         \A i \in Busy(k) : job'[i] = job[i] /\ (job[i].pc \in {"write", "fill", "visit"} => Record(i)' = Record(i)),
         cache[k] # Null => heap'[cache[k]] = heap[cache[k]]
  PROVE  GroupInv(k)'
<1>1. /\ Shared(k)' = Shared(k) /\ Trusted(k)' = Trusted(k) /\ Missing(k)' = Missing(k) /\ Writers(k)' = Writers(k)
      /\ Missing(k) \subseteq Busy(k) /\ Writers(k) \subseteq Busy(k)
  BY DEF Shared, NeverStored, Trusted, Missing, Writers
<1>2. \A i \in Busy(k) : Group(i) = k /\ Group(i)' = k /\ Written(i)' = Written(i)
  BY DEF Busy, Group, Written
<1>0. \A i \in Writers(k) : Record(i)' = Record(i)
  BY DEF Writers
<1>3. Sole(k)'
  BY <1>1 DEF GroupInv, Sole
<1>4. Filed(k)'
  BY <1>0, <1>1, <1>2 DEF GroupInv, Filed
<1>5. Told(k)'
  BY <1>1 DEF GroupInv, Told
<1>6. Hushed(k)'
  BY <1>0, <1>1, <1>2 DEF GroupInv, Hushed
<1>7. \A i \in Busy(k)' : Visits(i)'
  <2> SUFFICES ASSUME NEW i \in Busy(k) PROVE Visits(i)'
    OBVIOUS
  <2>1. Visits(i) /\ Group(i) = k /\ Group(i)' = k /\ job'[i] = job[i]
          /\ (job[i].pc = "visit" => Record(i)' = Record(i))
    BY <1>2 DEF GroupInv
  <2>2. Busy(Group(i))' = Busy(Group(i)) /\ Trusted(Group(i))' = Trusted(Group(i))
    BY <1>1, <2>1
  <2>3. QED
    BY <2>1, <2>2 DEF Visits
<1>8. QED
  BY <1>3, <1>4, <1>5, <1>6, <1>7 DEF GroupInv

LEMMA WithinOthers ==
  ASSUME TypeInv, NEW h \in Handlers, NEW g, Within(h, g), \A k \in Groups : GroupInv(k)
  PROVE  \A k \in Groups \ {g} : GroupInv(k)'
<1>1. TypeInv'
  BY WithinTypes
<1> SUFFICES ASSUME NEW k \in Groups, k # g PROVE GroupInv(k)'
  OBVIOUS
<1>2. TypeOK /\ Owned /\ TypeOK'
  BY <1>1 DEF TypeInv
<1>3. Group(h) = g /\ (job'[h].pc # "idle" => Group(h)' = g) /\ \A i \in Handlers \ {h} : job'[i] = job[i]
  BY DEF Within, Group
<1>4. Busy(k)' = Busy(k) /\ h \notin Busy(k)
  BY <1>3 DEF Busy, Group
<1>5. ASSUME NEW i \in Busy(k)
      PROVE  job'[i] = job[i] /\ (job[i].pc \in {"write", "fill", "visit"} => Record(i)' = Record(i))
  <2>1. i \in Handlers /\ Group(i) = k /\ job'[i] = job[i]
    BY <1>3, <1>4 DEF Busy
  <2>2. SUFFICES ASSUME job[i].pc \in {"write", "fill", "visit"} PROVE Record(i)' = Record(i)
    BY <2>1
  <2>3. job[i].obj \in Objs /\ job[i].obj # Null /\ Refers(job[i].obj)
    BY <1>2, <2>1, <2>2 DEF TypeOK, Refers
  <2>4. job[i].obj # job[h].obj
    BY <1>2, <1>3, <2>1, <2>3 DEF Owned
  <2>5. QED
    BY <2>1, <2>3, <2>4 DEF Within, Record
<1>6. cache[k] # Null => heap'[cache[k]] = heap[cache[k]]
  <2> SUFFICES ASSUME cache[k] # Null PROVE heap'[cache[k]] = heap[cache[k]]
    OBVIOUS
  <2>1. cache[k] \in Objs /\ Refers(cache[k])
    BY <1>2 DEF TypeOK, Refers
  <2>2. cache[k] # job[h].obj
    BY <1>2, <1>3 DEF Owned
  <2>3. QED
    BY <2>1, <2>2 DEF Within
<1>7. QED
  BY <1>1, <1>4, <1>5, <1>6, Untouched DEF Within
-----------------------------------------------------------------------------
(***************************************************************************)
(* Finding the record.                                                     *)
(***************************************************************************)
LEMMA JobFacts ==
  ASSUME TypeInv, NEW h \in Handlers
  PROVE  /\ job[h] \in Jobs /\ Shape(h) /\ DOMAIN job = Handlers
         /\ job[h].pc # "idle" => Group(h) \in Groups /\ job[h].msg \in Heard /\ h \in Busy(Group(h))
         /\ job[h].pc \in {"write", "fill", "list", "visit"} =>
              job[h].obj \in Objs /\ job[h].obj # Null /\ Refers(job[h].obj) /\ Record(h) \in Records
<1>1. job[h] \in Jobs /\ Shape(h) /\ DOMAIN job = Handlers
  BY DEF TypeInv, TypeOK, Jobs
<1>2. job[h].pc # "idle" => Group(h) \in Groups /\ job[h].msg # Null
  BY DEF TypeInv, TypeOK
<1>3. job[h].pc \in {"write", "fill", "list", "visit"} => job[h].obj # Null /\ Record(h) # Null
  BY DEF TypeInv, TypeOK
<1>4. job[h].pc \in {"write", "fill", "list", "visit"} => job[h].obj \in Objs /\ Record(h) \in Records
  BY <1>1, <1>3 DEF TypeInv, TypeOK, Jobs, Record
<1>5. job[h].msg \in Heard \cup {Null}
  BY <1>1 DEF Jobs
<1>6. QED
  BY <1>1, <1>2, <1>3, <1>4, <1>5 DEF Busy, Refers

LEMMA StateFacts ==
  ASSUME TypeInv
  PROVE  /\ file \in [Groups -> StoredRecords \cup {Absent}] /\ hist \in [Groups -> Notes]
         /\ cache \in [Groups -> Objs \cup {Null}] /\ heap \in [Objs -> Records \cup {Null}]
         /\ job \in [Handlers -> Jobs] /\ manager \in {"memory", "bunt"}
         /\ \A g \in Groups : cache[g] # Null => cache[g] \in Objs /\ heap[cache[g]] \in Records
<1>1. TypeOK
  BY DEF TypeInv
<1>2. QED
  BY <1>1 DEF TypeOK, Jobs

LEMMA DoubtNoted ==
  ASSUME TypeInv, NEW g \in Groups, NEW why \in {"records", "persists", "file"}, Doubt(g, why)
  PROVE  /\ hist' \in [Groups -> Notes] /\ \A k \in Groups \ {g} : hist'[k] = hist[k]
         /\ hist'[g].doubt = hist[g].doubt \cup {why}
         /\ hist'[g] = [hist[g] EXCEPT !.doubt = @ \cup {why}]
<1>1. hist \in [Groups -> Notes]
  BY StateFacts
<1>2. hist[g] \in Notes
  BY <1>1
<1>3. [hist[g] EXCEPT !.doubt = @ \cup {why}] \in Notes
  BY <1>2 DEF Notes
<1>4. hist' = [hist EXCEPT ![g] = [hist[g] EXCEPT !.doubt = @ \cup {why}]]
  BY <1>1 DEF Doubt
<1> DEFINE n == [hist[g] EXCEPT !.doubt = @ \cup {why}]
<1>5. n.doubt = hist[g].doubt \cup {why}
  BY <1>2 DEF Notes
<1> HIDE DEF n
<1>6. QED
  BY <1>1, <1>3, <1>4, <1>5 DEF n

\* A doubt about what the file does leaves nothing to show.
LEMMA Doubted ==
  ASSUME NEW g \in Groups, "file" \in hist'[g].doubt, \A h \in Busy(g)' : Group(h)' = g
  PROVE  GroupInv(g)'
<1>1. ~Trusted(g)' /\ hist'[g].doubt \cap {"records", "file"} # {}
  BY DEF Trusted
<1>2. QED
  BY <1>1 DEF GroupInv, Sole, Filed, Told, Hushed, Visits

LEMMA ReadFileWithin ==
  ASSUME TypeInv, NEW h \in Handlers, ReadFile(h)
  PROVE  /\ Within(h, Group(h))
         /\ job'[h] = IF file[Group(h)] = Absent THEN [job[h] EXCEPT !.pc = "create"]
                      ELSE [job[h] EXCEPT !.pc = "fill", !.obj = Unused, !.next = "list"]
         /\ file[Group(h)] # Absent => heap'[Unused] = Loaded(file[Group(h)])
<1> DEFINE g == Group(h)
<1>1. job[h] \in Jobs /\ Shape(h) /\ g \in Groups /\ job[h].g = g /\ job[h].pc = "read" /\ job[h].msg # Null /\ job[h].msg \in Heard
  BY JobFacts DEF ReadFile, TypeInv, TypeOK, Group
<1>2. manager = "bunt" /\ g # Private /\ job[h].obj = Null
  BY <1>1 DEF Shape
<1>3. Unused \in Objs /\ ~Refers(Unused) /\ Unused # Null
  BY UnusedFree, NullAssumption DEF TypeInv
<1>4. file[g] # Absent => Loaded(file[g]) \in Records /\ Loaded(file[g]) # Null
  BY <1>1, StateFacts, LoadedFacts
<1>5. /\ file \in [Groups -> StoredRecords \cup {Absent}] /\ hist \in [Groups -> Notes]
      /\ cache \in [Groups -> Objs \cup {Null}] /\ heap \in [Objs -> Records \cup {Null}] /\ job \in [Handlers -> Jobs]
  BY StateFacts
<1>6. UNCHANGED <<manager, file, cache, hist, count>>
  BY DEF ReadFile
<1>7. CASE file[g] = Absent
  <2>1. job' = [job EXCEPT ![h] = [job[h] EXCEPT !.pc = "create"]] /\ heap' = heap
    BY <1>5, <1>7 DEF ReadFile, Goes
  <2>2. [job[h] EXCEPT !.pc = "create"] \in Jobs
    BY <1>1 DEF Jobs
  <2>3. job'[h] = [job[h] EXCEPT !.pc = "create"] /\ job' \in [Handlers -> Jobs] /\ \A i \in Handlers \ {h} : job'[i] = job[i]
    BY <1>5, <2>1, <2>2
  <2>4. job'[h].pc = "create" /\ job'[h].g = g /\ job'[h].msg = job[h].msg /\ job'[h].obj = Null
    BY <1>1, <1>2, <2>3 DEF Jobs
  <2>5. Shape(h)'
    BY <2>4 DEF Shape
  <2>6. QED
    BY <1>1, <1>5, <1>6, <1>7, <2>1, <2>3, <2>4, <2>5 DEF Within
<1>8. CASE file[g] # Absent
  <2>1. /\ job' = [job EXCEPT ![h] = [job[h] EXCEPT !.pc = "fill", !.obj = Unused, !.next = "list"]]
        /\ heap' = [heap EXCEPT ![Unused] = Loaded(file[g])]
    BY <1>5, <1>8 DEF ReadFile
  <2>2. [job[h] EXCEPT !.pc = "fill", !.obj = Unused, !.next = "list"] \in Jobs
    BY <1>1, <1>3 DEF Jobs
  <2>3. /\ job'[h] = [job[h] EXCEPT !.pc = "fill", !.obj = Unused, !.next = "list"]
        /\ job' \in [Handlers -> Jobs] /\ \A i \in Handlers \ {h} : job'[i] = job[i]
    BY <1>5, <2>1, <2>2
  <2>4. job'[h].pc = "fill" /\ job'[h].g = g /\ job'[h].msg = job[h].msg /\ job'[h].obj = Unused /\ job'[h].next = "list"
    BY <1>1, <2>3 DEF Jobs
  <2>5. Shape(h)'
    BY <1>2, <1>6, <2>4 DEF Shape, Shared, NeverStored, Group
  <2>6. heap' \in [Objs -> Records \cup {Null}] /\ heap'[Unused] = Loaded(file[g]) /\ heap'[Unused] # Null
    BY <1>3, <1>4, <1>5, <1>8, <2>1
  <2>7. \A o \in Objs : (heap[o] # Null => heap'[o] # Null) /\ (Refers(o) /\ o # job[h].obj => heap'[o] = heap[o])
    BY <1>3, <1>5, <2>1, <2>6
  <2>8. Within(h, g)
    BY <1>1, <1>3, <1>5, <1>6, <2>3, <2>4, <2>5, <2>6, <2>7 DEF Within
  <2>9. QED
    BY <1>8, <2>3, <2>6, <2>8
<1>9. QED
  BY <1>7, <1>8

LEMMA ReadFailsWithin ==
  ASSUME TypeInv, NEW h \in Handlers, ReadFails(h)
  PROVE  Within(h, Group(h)) /\ "file" \in hist'[Group(h)].doubt
<1> DEFINE g == Group(h)
<1>1. job[h] \in Jobs /\ Shape(h) /\ g \in Groups /\ job[h].g = g /\ job[h].pc = "read" /\ job[h].msg # Null
  BY JobFacts DEF ReadFails, TypeInv, TypeOK, Group
<1>2. job[h].obj = Null
  BY <1>1 DEF Shape
<1>3. /\ file \in [Groups -> StoredRecords \cup {Absent}]
      /\ cache \in [Groups -> Objs \cup {Null}] /\ heap \in [Objs -> Records \cup {Null}] /\ job \in [Handlers -> Jobs]
  BY StateFacts
<1>4. hist' \in [Groups -> Notes] /\ (\A k \in Groups \ {g} : hist'[k] = hist[k]) /\ "file" \in hist'[g].doubt
  BY <1>1, DoubtNoted DEF ReadFails
<1>5. job' = [job EXCEPT ![h] = [job[h] EXCEPT !.pc = "create"]] /\ UNCHANGED <<manager, file, cache, heap, count>>
  BY <1>3 DEF ReadFails, Goes
<1>6. [job[h] EXCEPT !.pc = "create"] \in Jobs
  BY <1>1 DEF Jobs
<1>7. job'[h] = [job[h] EXCEPT !.pc = "create"] /\ job' \in [Handlers -> Jobs] /\ \A i \in Handlers \ {h} : job'[i] = job[i]
  BY <1>3, <1>5, <1>6
<1>8. job'[h].pc = "create" /\ job'[h].g = g /\ job'[h].msg = job[h].msg /\ job'[h].obj = Null
  BY <1>1, <1>2, <1>7 DEF Jobs
<1>9. Shape(h)'
  BY <1>8 DEF Shape
<1>10. QED
  BY <1>1, <1>3, <1>4, <1>5, <1>7, <1>8, <1>9 DEF Within

LEMMA CreateWithin ==
  ASSUME TypeInv, NEW h \in Handlers, Create(h)
  PROVE  /\ Within(h, Group(h))
         /\ job'[h] = IF NeverStored(Group(h)) THEN [job[h] EXCEPT !.pc = "list", !.obj = Unused]
                      ELSE IF manager = "bunt"
                        THEN [job[h] EXCEPT !.obj = Unused, !.pc = "write", !.next = "list", !.todo = <<>>, !.snap = Stored(NewRecord)]
                        ELSE [job[h] EXCEPT !.obj = Unused, !.pc = "fill", !.next = "list", !.todo = <<>>]
         /\ heap'[Unused] = NewRecord
<1> DEFINE g == Group(h)
           j == IF NeverStored(g) THEN [job[h] EXCEPT !.pc = "list", !.obj = Unused]
                ELSE IF manager = "bunt"
                  THEN [job[h] EXCEPT !.obj = Unused, !.pc = "write", !.next = "list", !.todo = <<>>, !.snap = Stored(NewRecord)]
                  ELSE [job[h] EXCEPT !.obj = Unused, !.pc = "fill", !.next = "list", !.todo = <<>>]
<1>1. job[h] \in Jobs /\ g \in Groups /\ job[h].g = g /\ job[h].pc = "create" /\ job[h].msg # Null
  BY JobFacts DEF Create, TypeInv, TypeOK, Group
<1>2. Unused \in Objs /\ ~Refers(Unused) /\ Unused # Null
  BY UnusedFree, NullAssumption DEF TypeInv
<1>3. NewRecord \in Records /\ NewRecord # Null /\ Stored(NewRecord) \in StoredRecords
  BY NewFacts, StoredFacts
<1>4. /\ file \in [Groups -> StoredRecords \cup {Absent}] /\ hist \in [Groups -> Notes]
      /\ cache \in [Groups -> Objs \cup {Null}] /\ heap \in [Objs -> Records \cup {Null}] /\ job \in [Handlers -> Jobs]
  BY StateFacts
<1>5. UNCHANGED <<manager, file, cache, hist, count>> /\ heap' = [heap EXCEPT ![Unused] = NewRecord]
  BY DEF Create
<1>6. <<>> \in Seq(Exts)
  OBVIOUS
<1>7. j \in Jobs
  BY <1>1, <1>2, <1>3, <1>6 DEF Jobs
<1>8. /\ j.g = g /\ j.msg = job[h].msg /\ j.obj = Unused
      /\ j.pc = IF NeverStored(g) THEN "list" ELSE IF manager = "bunt" THEN "write" ELSE "fill"
      /\ j.pc = "write" => j.snap = Stored(NewRecord)
      /\ j.pc \in {"write", "fill"} => j.next = "list"
  BY <1>1 DEF Jobs
<1>9. job' = [job EXCEPT ![h] = j]
  <2>1. job[h] = [pc |-> job[h].pc, g |-> job[h].g, msg |-> job[h].msg, obj |-> job[h].obj, todo |-> job[h].todo,
                  active |-> job[h].active, snap |-> job[h].snap, next |-> job[h].next, asked |-> job[h].asked]
    BY <1>1 DEF Jobs
  <2>2. QED
    BY <1>4 DEF Create, Storing
<1> HIDE DEF j
<1>10. job'[h] = j /\ job' \in [Handlers -> Jobs] /\ \A i \in Handlers \ {h} : job'[i] = job[i]
  BY <1>4, <1>7, <1>9
<1>11. heap' \in [Objs -> Records \cup {Null}] /\ heap'[Unused] = NewRecord
  BY <1>2, <1>3, <1>4, <1>5
<1>12. \A o \in Objs : (heap[o] # Null => heap'[o] # Null) /\ (Refers(o) /\ o # job[h].obj => heap'[o] = heap[o])
  BY <1>2, <1>3, <1>4, <1>5
<1>13. Stored(NewRecord) # Null
  BY <1>3, ValuesAssumption
<1>14. Shape(h)'
  BY <1>5, <1>8, <1>10, <1>13 DEF Shape, Shared, NeverStored, Group
<1>15. Within(h, g)
  BY <1>1, <1>2, <1>3, <1>4, <1>5, <1>8, <1>10, <1>11, <1>12, <1>14 DEF Within
<1>16. QED
  BY <1>10, <1>11, <1>15 DEF j

\* The writes and the cache.
LEMMA WriteFileWithin ==
  ASSUME TypeInv, NEW h \in Handlers, WriteFile(h)
  PROVE  /\ Within(h, Group(h)) /\ job'[h] = [job[h] EXCEPT !.pc = "fill", !.snap = Null]
         /\ file'[Group(h)] = job[h].snap /\ job[h].snap \in StoredRecords /\ manager = "bunt"
<1> DEFINE g == Group(h)
<1>1. /\ job[h] \in Jobs /\ Shape(h) /\ g \in Groups /\ job[h].g = g /\ job[h].pc = "write" /\ job[h].msg # Null
      /\ job[h].obj \in Objs /\ job[h].obj # Null /\ heap[job[h].obj] # Null
  BY JobFacts DEF WriteFile, TypeInv, TypeOK, Group, Record
<1>2. manager = "bunt" /\ job[h].snap # Null /\ Shared(g) /\ (job[h].next = "idle" => g # Private)
  BY <1>1 DEF Shape
<1>3. job[h].snap \in StoredRecords
  BY <1>1, <1>2 DEF Jobs
<1>4. /\ file \in [Groups -> StoredRecords \cup {Absent}] /\ hist \in [Groups -> Notes]
      /\ cache \in [Groups -> Objs \cup {Null}] /\ heap \in [Objs -> Records \cup {Null}] /\ job \in [Handlers -> Jobs]
  BY StateFacts
<1>5. file' = [file EXCEPT ![g] = job[h].snap] /\ UNCHANGED <<manager, cache, heap, hist, count>>
  BY DEF WriteFile
<1>6. job' = [job EXCEPT ![h] = [job[h] EXCEPT !.pc = "fill", !.snap = Null]]
  BY <1>4 DEF WriteFile
<1>7. [job[h] EXCEPT !.pc = "fill", !.snap = Null] \in Jobs
  BY <1>1 DEF Jobs
<1>8. /\ job'[h] = [job[h] EXCEPT !.pc = "fill", !.snap = Null]
      /\ job' \in [Handlers -> Jobs] /\ \A i \in Handlers \ {h} : job'[i] = job[i]
  BY <1>4, <1>6, <1>7
<1>9. /\ job'[h].pc = "fill" /\ job'[h].g = g /\ job'[h].msg = job[h].msg /\ job'[h].obj = job[h].obj
      /\ job'[h].next = job[h].next
  BY <1>1, <1>8 DEF Jobs
<1>10. Shape(h)'
  BY <1>2, <1>5, <1>9 DEF Shape, Shared, NeverStored, Group
<1>11. file' \in [Groups -> StoredRecords \cup {Absent}] /\ file'[g] = job[h].snap /\ \A k \in Groups \ {g} : file'[k] = file[k]
  BY <1>1, <1>3, <1>4, <1>5
<1>12. Within(h, g)
  BY <1>1, <1>4, <1>5, <1>8, <1>9, <1>10, <1>11 DEF Within
<1>13. QED
  BY <1>2, <1>3, <1>8, <1>11, <1>12

LEMMA WriteFailsWithin ==
  ASSUME TypeInv, NEW h \in Handlers, WriteFails(h)
  PROVE  Within(h, Group(h)) /\ "file" \in hist'[Group(h)].doubt
<1> DEFINE g == Group(h)
<1>1. /\ job[h] \in Jobs /\ g \in Groups /\ job[h].g = g /\ job[h].pc = "write" /\ job[h].msg # Null
      /\ job[h].obj \in Objs /\ job[h].obj # Null /\ heap[job[h].obj] # Null
  BY JobFacts DEF WriteFails, TypeInv, TypeOK, Group, Record
<1>2. /\ file \in [Groups -> StoredRecords \cup {Absent}]
      /\ cache \in [Groups -> Objs \cup {Null}] /\ heap \in [Objs -> Records \cup {Null}] /\ job \in [Handlers -> Jobs]
  BY StateFacts
<1>3. hist' \in [Groups -> Notes] /\ (\A k \in Groups \ {g} : hist'[k] = hist[k]) /\ "file" \in hist'[g].doubt
  BY <1>1, DoubtNoted DEF WriteFails
<1>4. /\ job' = [job EXCEPT ![h] = IF job[h].next = "idle" THEN Idle ELSE [job[h] EXCEPT !.pc = "list", !.snap = Null]]
      /\ UNCHANGED <<manager, file, cache, heap, count>>
  BY <1>2 DEF WriteFails
<1>5. [job[h] EXCEPT !.pc = "list", !.snap = Null] \in Jobs
  BY <1>1 DEF Jobs
<1>6. CASE job[h].next = "idle"
  <2>1. job'[h] = Idle /\ job' \in [Handlers -> Jobs] /\ \A i \in Handlers \ {h} : job'[i] = job[i]
    BY <1>2, <1>4, <1>6, IdleFacts
  <2>2. job'[h].pc = "idle" /\ job'[h].obj = Null
    BY <2>1, IdleFacts
  <2>3. Shape(h)'
    BY <2>1, <2>2 DEF Shape
  <2>4. QED
    BY <1>1, <1>2, <1>3, <1>4, <2>1, <2>2, <2>3 DEF Within
<1>7. CASE job[h].next # "idle"
  <2>1. /\ job'[h] = [job[h] EXCEPT !.pc = "list", !.snap = Null]
        /\ job' \in [Handlers -> Jobs] /\ \A i \in Handlers \ {h} : job'[i] = job[i]
    BY <1>2, <1>4, <1>5, <1>7
  <2>2. job'[h].pc = "list" /\ job'[h].g = g /\ job'[h].msg = job[h].msg /\ job'[h].obj = job[h].obj
    BY <1>1, <2>1 DEF Jobs
  <2>3. Shape(h)'
    BY <2>2 DEF Shape
  <2>4. QED
    BY <1>1, <1>2, <1>3, <1>4, <2>1, <2>2, <2>3 DEF Within
<1>8. QED
  BY <1>6, <1>7

LEMMA FillWithin ==
  ASSUME TypeInv, NEW h \in Handlers, Fill(h)
  PROVE  /\ Within(h, Group(h))
         /\ job'[h] = IF job[h].next = "list" THEN [job[h] EXCEPT !.pc = "list"] ELSE Idle
         /\ cache'[Group(h)] = job[h].obj /\ file' = file /\ heap' = heap
         /\ hist'[Group(h)] = IF job[h].next = "idle" /\ job[h].msg = BotOff THEN [hist[Group(h)] EXCEPT !.silent = TRUE]
                              ELSE hist[Group(h)]
<1> DEFINE g == Group(h)
<1>1. /\ job[h] \in Jobs /\ g \in Groups /\ job[h].g = g /\ job[h].pc = "fill" /\ job[h].msg # Null
      /\ job[h].obj \in Objs /\ job[h].obj # Null /\ heap[job[h].obj] # Null
  BY JobFacts DEF Fill, TypeInv, TypeOK, Group, Record
<1>2. /\ file \in [Groups -> StoredRecords \cup {Absent}] /\ hist \in [Groups -> Notes]
      /\ cache \in [Groups -> Objs \cup {Null}] /\ heap \in [Objs -> Records \cup {Null}] /\ job \in [Handlers -> Jobs]
  BY StateFacts
<1>3. cache' = [cache EXCEPT ![g] = job[h].obj] /\ UNCHANGED <<manager, file, heap, count>>
  BY DEF Fill
<1>4. cache' \in [Groups -> Objs \cup {Null}] /\ cache'[g] = job[h].obj /\ \A k \in Groups \ {g} : cache'[k] = cache[k]
  BY <1>1, <1>2, <1>3
<1>5. [job[h] EXCEPT !.pc = "list"] \in Jobs /\ job[h].next \in {"list", "idle"}
  BY <1>1 DEF Jobs
<1>6. CASE job[h].next = "list"
  <2>1. job' = [job EXCEPT ![h] = [job[h] EXCEPT !.pc = "list"]] /\ hist' = hist
    BY <1>2, <1>6 DEF Fill, Goes
  <2>2. /\ job'[h] = [job[h] EXCEPT !.pc = "list"]
        /\ job' \in [Handlers -> Jobs] /\ \A i \in Handlers \ {h} : job'[i] = job[i]
    BY <1>2, <1>5, <2>1
  <2>3. job'[h].pc = "list" /\ job'[h].g = g /\ job'[h].msg = job[h].msg /\ job'[h].obj = job[h].obj
    BY <1>1, <2>2 DEF Jobs
  <2>4. Shape(h)'
    BY <2>3 DEF Shape
  <2>5. Within(h, g)
    BY <1>1, <1>2, <1>3, <1>4, <2>1, <2>2, <2>3, <2>4 DEF Within
  <2>6. QED
    BY <1>3, <1>4, <1>6, <2>1, <2>2, <2>5
<1>7. CASE job[h].next = "idle"
  <2>1. /\ job' = [job EXCEPT ![h] = Idle]
        /\ hist' = IF job[h].msg = BotOff THEN [hist EXCEPT ![g].silent = TRUE] ELSE hist
    BY <1>7 DEF Fill, BotOff
  <2>2. /\ job'[h] = Idle /\ job' \in [Handlers -> Jobs] /\ \A i \in Handlers \ {h} : job'[i] = job[i]
    BY <1>2, <2>1, IdleFacts
  <2>3. job'[h].pc = "idle" /\ job'[h].obj = Null
    BY <2>2, IdleFacts
  <2>4. Shape(h)'
    BY <2>2, <2>3 DEF Shape
  <2>5. [hist[g] EXCEPT !.silent = TRUE] \in Notes
    <3>1. hist[g] \in Notes
      BY <1>1, <1>2
    <3>2. QED
      BY <3>1 DEF Notes
  <2>6. /\ hist' \in [Groups -> Notes] /\ \A k \in Groups \ {g} : hist'[k] = hist[k]
        /\ hist'[g] = IF job[h].msg = BotOff THEN [hist[g] EXCEPT !.silent = TRUE] ELSE hist[g]
    BY <1>1, <1>2, <2>1, <2>5
  <2>7. Within(h, g)
    BY <1>1, <1>2, <1>3, <1>4, <2>2, <2>3, <2>4, <2>6 DEF Within
  <2>8. QED
    BY <1>3, <1>4, <1>7, <2>2, <2>6, <2>7
<1>8. QED
  BY <1>5, <1>6, <1>7
-----------------------------------------------------------------------------
(***************************************************************************)
(* The list, and what is done to those asked.                              *)
(***************************************************************************)
\* Steps of a handler that has the record: j is what it does next, r the record, n what is noted.
Working(h, j, r, n) ==
  /\ heap' = [heap EXCEPT ![job[h].obj] = r]
  /\ job' = [job EXCEPT ![h] = j]
  /\ hist' = [hist EXCEPT ![Group(h)] = n]
  /\ UNCHANGED <<manager, file, cache, count>>

LEMMA WorkingWithin ==
  ASSUME TypeInv, NEW h \in Handlers, job[h].pc \in {"list", "visit"}, NEW j \in Jobs, NEW r \in Records, NEW n \in Notes,
         Working(h, j, r, n),
         j.pc \in {"idle", "visit", "write", "fill"}, j.pc = "idle" => j = Idle,
         j.pc # "idle" => j.g = Group(h) /\ j.msg # Null /\ j.obj = job[h].obj,
         j.pc = "visit" => j.todo # <<>>,
         j.pc \in {"write", "fill"} => Shared(Group(h)) /\ (j.next = "idle" => Group(h) # Private),
         j.pc = "write" => manager = "bunt" /\ j.snap # Null
  PROVE  /\ Within(h, Group(h)) /\ job'[h] = j /\ heap'[job[h].obj] = r /\ hist'[Group(h)] = n
         /\ UNCHANGED <<manager, file, cache, count>>
<1> DEFINE g == Group(h)
<1>1. g \in Groups /\ job[h].obj \in Objs /\ job[h].obj # Null
  BY JobFacts
<1>2. /\ file \in [Groups -> StoredRecords \cup {Absent}] /\ hist \in [Groups -> Notes]
      /\ cache \in [Groups -> Objs \cup {Null}] /\ heap \in [Objs -> Records \cup {Null}] /\ job \in [Handlers -> Jobs]
  BY StateFacts
<1>3. UNCHANGED <<manager, file, cache, count>>
  BY DEF Working
<1>4. r # Null
  BY ValuesAssumption
<1>5. /\ heap' \in [Objs -> Records \cup {Null}] /\ heap'[job[h].obj] = r
      /\ \A o \in Objs : (heap[o] # Null => heap'[o] # Null) /\ (o # job[h].obj => heap'[o] = heap[o])
  BY <1>1, <1>2, <1>4 DEF Working
<1>6. job' \in [Handlers -> Jobs] /\ job'[h] = j /\ \A i \in Handlers \ {h} : job'[i] = job[i]
  BY <1>2 DEF Working
<1>7. hist' \in [Groups -> Notes] /\ hist'[g] = n /\ \A k \in Groups \ {g} : hist'[k] = hist[k]
  BY <1>1, <1>2 DEF Working
<1>8. j.obj \in {Null, job[h].obj}
  BY IdleFacts
<1>9. Shape(h)'
  BY <1>3, <1>6 DEF Shape, Shared, NeverStored, Group
<1>10. j.pc \in {"write", "fill", "list", "visit"} => j.obj # Null /\ heap'[j.obj] # Null
  BY <1>1, <1>4, <1>5
<1>11. job[h].pc # "idle" /\ Group(h) = g
  OBVIOUS
<1>12. Within(h, g)
  BY <1>1, <1>2, <1>3, <1>5, <1>6, <1>7, <1>8, <1>9, <1>10, <1>11 DEF Within
<1>13. QED
  BY <1>3, <1>5, <1>6, <1>7, <1>12

\* The parts of List.
ListRecord(h) == Listed(WithPlayer(Record(h)))
ListMsg(h)    == CommandParse(job[h].msg, ListRecord(h).list)
ListTodo(h)   == Ranked({e \in ToSet(ListRecord(h).list) : ListMsg(h).word \in CmdMap[e]}, ListRecord(h).system)
ListAsked(h)  == [hist[Group(h)] EXCEPT !.system = IF Busy(Group(h)) = {h} THEN @ ELSE ""]
ListJob(h)    ==
  [job[h] EXCEPT !.msg = ListMsg(h), !.active = ListRecord(h).active, !.asked = ListAsked(h), !.pc = "visit", !.todo = ListTodo(h)]
ListNote(h)   == [hist[Group(h)] EXCEPT !.unsaved = @ \/ Stored(ListRecord(h)) # Stored(Record(h)),
                                       !.name = IF @ = "" THEN ListRecord(h).player ELSE @]

LEMMA ListParts ==
  ASSUME TypeInv, NEW h \in Handlers, job[h].pc = "list"
  PROVE  /\ ListRecord(h) \in Records /\ ListMsg(h) \in Heard
         /\ {e \in ToSet(ListRecord(h).list) : ListMsg(h).word \in CmdMap[e]} \in SUBSET Exts
         /\ ListTodo(h) \in Seq(Exts)
         /\ ToSet(ListTodo(h)) = {e \in ToSet(ListRecord(h).list) : ListMsg(h).word \in CmdMap[e]}
         /\ ListAsked(h) \in Notes /\ ListNote(h) \in Notes /\ ListJob(h) \in Jobs
<1>1. job[h] \in Jobs /\ Record(h) \in Records /\ job[h].msg \in Heard /\ Group(h) \in Groups
  BY JobFacts
<1>2. ListRecord(h) \in Records /\ ToSet(ListRecord(h).list) \in SUBSET Exts
  BY <1>1, PlayerFacts, ListedFacts DEF ListRecord
<1>3. ListMsg(h) \in Heard
  BY <1>1, HeardParsed DEF ListMsg
<1> DEFINE T == {e \in ToSet(ListRecord(h).list) : ListMsg(h).word \in CmdMap[e]}
<1>4. T \in SUBSET Exts
  BY <1>2
<1>5. ListTodo(h) \in Seq(Exts) /\ ToSet(ListTodo(h)) = T
  BY <1>4, RankedFacts DEF ListTodo
<1>6. hist[Group(h)] \in Notes
  BY <1>1, StateFacts
<1>7. ListAsked(h) \in Notes
  BY <1>6 DEF ListAsked, Notes
<1>8. ListNote(h) \in Notes
  <2>1. ListRecord(h).player \in {"", "nickname", "name"}
    BY <1>2 DEF Records
  <2>2. QED
    BY <1>6, <2>1 DEF ListNote, Notes
<1>9. ListRecord(h).active \in BOOLEAN
  BY <1>2 DEF Records
<1>10. ListJob(h) \in Jobs
  BY <1>1, <1>3, <1>5, <1>7, <1>9 DEF ListJob, Jobs
<1>11. QED
  BY <1>2, <1>3, <1>4, <1>5, <1>7, <1>8, <1>10

LEMMA ListWithin ==
  ASSUME TypeInv, NEW h \in Handlers, List(h)
  PROVE  /\ Within(h, Group(h)) /\ heap'[job[h].obj] = ListRecord(h) /\ hist'[Group(h)] = ListNote(h)
         /\ job'[h] = IF ListTodo(h) = <<>> THEN Idle ELSE ListJob(h)
         /\ UNCHANGED <<manager, file, cache>>
<1> DEFINE j == IF ListTodo(h) = <<>> THEN Idle ELSE ListJob(h)
<1>1. job[h] \in Jobs /\ job[h].pc = "list" /\ job[h].msg \in Heard /\ job[h].g = Group(h)
  BY JobFacts DEF List, Group
<1>2. ListRecord(h) \in Records /\ ListMsg(h) \in Heard /\ ListNote(h) \in Notes /\ ListJob(h) \in Jobs
  BY <1>1, ListParts
<1>3. Null \notin Heard
  BY ValuesAssumption
<1>4. /\ ListJob(h).pc = "visit" /\ ListJob(h).g = Group(h) /\ ListJob(h).msg = ListMsg(h)
      /\ ListJob(h).obj = job[h].obj /\ ListJob(h).todo = ListTodo(h)
  BY <1>1 DEF ListJob, Jobs
<1>5. job' = [job EXCEPT ![h] = j]
  <2>1. job' = [job EXCEPT ![h] = Asking([job[h] EXCEPT !.msg = ListMsg(h), !.active = ListRecord(h).active, !.asked = ListAsked(h)],
                                         ListTodo(h))]
    BY StateFacts DEF List, ListMsg, ListRecord, ListAsked, ListTodo
  <2>2. [[job[h] EXCEPT !.msg = ListMsg(h), !.active = ListRecord(h).active, !.asked = ListAsked(h)]
           EXCEPT !.pc = "visit", !.todo = ListTodo(h)] = ListJob(h)
    BY <1>1 DEF ListJob, Jobs
  <2>3. QED
    BY <2>1, <2>2 DEF Asking
<1>6. heap' = [heap EXCEPT ![job[h].obj] = ListRecord(h)] /\ UNCHANGED <<manager, file, cache, count>>
  BY DEF List, ListRecord
<1>7. hist' = [hist EXCEPT ![Group(h)] = ListNote(h)]
  BY DEF List, ListNote, ListRecord
<1>8. Working(h, j, ListRecord(h), ListNote(h))
  BY <1>5, <1>6, <1>7 DEF Working
<1> HIDE DEF j
<1>9. /\ j \in Jobs /\ j.pc \in {"idle", "visit"} /\ (j.pc = "idle" => j = Idle)
      /\ j.pc # "idle" => j.g = Group(h) /\ j.msg # Null /\ j.obj = job[h].obj
      /\ j.pc = "visit" => j.todo # <<>>
  BY <1>2, <1>3, <1>4, IdleFacts DEF j
<1>10. /\ Within(h, Group(h)) /\ job'[h] = j /\ heap'[job[h].obj] = ListRecord(h) /\ hist'[Group(h)] = ListNote(h)
       /\ UNCHANGED <<manager, file, cache, count>>
  BY <1>1, <1>2, <1>8, <1>9, WorkingWithin
<1>11. QED
  BY <1>10 DEF j

\* Asking the next, answering, and storing.
SkipJob(h) == Asking(job[h], Tail(job[h].todo))

LEMMA SkipWithin ==
  ASSUME TypeInv, NEW h \in Handlers, Skip(h)
  PROVE  /\ Within(h, Group(h)) /\ job'[h] = SkipJob(h)
         /\ heap'[job[h].obj] = Record(h) /\ hist'[Group(h)] = hist[Group(h)] /\ UNCHANGED <<manager, file, cache>>
<1> DEFINE j == SkipJob(h)
           q == Tail(job[h].todo)
<1>1. job[h] \in Jobs /\ Shape(h) /\ job[h].pc = "visit" /\ job[h].msg \in Heard /\ job[h].g = Group(h) /\ Record(h) \in Records
  BY JobFacts DEF Skip, Group
<1>2. job[h].obj \in Objs /\ Group(h) \in Groups /\ hist[Group(h)] \in Notes
  BY <1>1, JobFacts, StateFacts
<1>3. q \in Seq(Exts)
  BY <1>1, HeadTailProperties DEF Shape, Jobs
<1>4. j \in Jobs
  BY <1>1, <1>3, IdleFacts DEF SkipJob, Asking, Jobs
<1>5. /\ j.pc \in {"idle", "visit"} /\ (j.pc = "idle" => j = Idle)
      /\ j.pc # "idle" => j.g = Group(h) /\ j.msg # Null /\ j.obj = job[h].obj
      /\ j.pc = "visit" => j.todo # <<>>
  <2>1. CASE q = <<>>
    BY <2>1, IdleFacts DEF SkipJob, Asking
  <2>2. CASE q # <<>>
    <3>1. j = [job[h] EXCEPT !.pc = "visit", !.todo = q]
      BY <2>2 DEF SkipJob, Asking
    <3> HIDE DEF j, q
    <3>2. j.pc = "visit" /\ j.g = job[h].g /\ j.msg = job[h].msg /\ j.obj = job[h].obj /\ j.todo = q
      BY <1>1, <3>1 DEF Jobs
    <3>3. QED
      BY <1>1, <2>2, <3>2, ValuesAssumption
  <2>3. QED
    BY <2>1, <2>2
<1>6. Working(h, j, Record(h), hist[Group(h)])
  BY <1>2, StateFacts DEF Skip, SkipJob, Working, Record
<1> HIDE DEF j
<1>7. /\ Within(h, Group(h)) /\ job'[h] = j /\ heap'[job[h].obj] = Record(h) /\ hist'[Group(h)] = hist[Group(h)]
      /\ UNCHANGED <<manager, file, cache, count>>
  BY <1>1, <1>2, <1>4, <1>5, <1>6, WorkingWithin
<1>8. QED
  BY <1>7 DEF j

AnswerNote(h, r, said) == [said EXCEPT !.unsaved = @ \/ Stored(r) # Stored(Record(h))]

LEMMA AnswersWithin ==
  ASSUME TypeInv, NEW h \in Handlers, job[h].pc = "visit", NEW r \in Records, NEW said \in Notes, Answers(h, r, said)
  PROVE  /\ Within(h, Group(h)) /\ job'[h] = Idle /\ heap'[job[h].obj] = r
         /\ hist'[Group(h)] = AnswerNote(h, r, said) /\ UNCHANGED <<manager, file, cache>>
<1>1. AnswerNote(h, r, said) \in Notes
  BY DEF AnswerNote, Notes
<1>2. Working(h, Idle, r, AnswerNote(h, r, said))
  BY DEF Answers, Working, AnswerNote
<1> DEFINE n == AnswerNote(h, r, said)
<1> HIDE DEF n
<1>3. n \in Notes /\ Working(h, Idle, r, n)
  BY <1>1, <1>2 DEF n
<1>4. /\ Within(h, Group(h)) /\ job'[h] = Idle /\ heap'[job[h].obj] = r /\ hist'[Group(h)] = n
      /\ UNCHANGED <<manager, file, cache, count>>
  BY <1>3, IdleFacts, WorkingWithin
<1>5. QED
  BY <1>4 DEF n

PersistJob(h, r) ==
  IF manager = "bunt" THEN [job[h] EXCEPT !.pc = "write", !.next = "idle", !.todo = <<>>, !.snap = Stored(r)]
                      ELSE [job[h] EXCEPT !.pc = "fill", !.next = "idle", !.todo = <<>>]
PersistDoubt(h) == IF \E i \in Busy(Group(h)) : job[i].pc \in {"write", "fill"} THEN {"persists"} ELSE {}
PersistNote(h, said) == [said EXCEPT !.unsaved = FALSE, !.doubt = @ \cup PersistDoubt(h)]

LEMMA PersistsWithin ==
  ASSUME TypeInv, NEW h \in Handlers, job[h].pc = "visit", NEW r \in Records, NEW said \in Notes, Persists(h, r, said),
         Group(h) # Private
  PROVE  /\ Within(h, Group(h)) /\ job'[h] = PersistJob(h, r) /\ heap'[job[h].obj] = r
         /\ hist'[Group(h)] = PersistNote(h, said) /\ UNCHANGED <<manager, file, cache>>
<1> DEFINE n == PersistNote(h, said)
           j == PersistJob(h, r)
<1>1. job[h] \in Jobs /\ job[h].msg \in Heard /\ job[h].g = Group(h)
  BY JobFacts DEF Group
<1>2. n \in Notes
  <2>1. PersistDoubt(h) \subseteq {"records", "persists", "file"}
    BY DEF PersistDoubt
  <2> DEFINE d == PersistDoubt(h)
  <2> HIDE DEF d
  <2>2. d \subseteq {"records", "persists", "file"}
    BY <2>1 DEF d
  <2>3. said.doubt \cup d \in SUBSET {"records", "persists", "file"}
    BY <2>2 DEF Notes
  <2>4. QED
    BY <2>3 DEF PersistNote, Notes, d
<1>3. Stored(r) \in StoredRecords /\ Stored(r) # Null
  BY StoredFacts, ValuesAssumption
<1>4. <<>> \in Seq(Exts)
  OBVIOUS
<1>5. j \in Jobs
  BY <1>1, <1>3, <1>4 DEF PersistJob, Jobs
<1>6. /\ j.pc \in {"write", "fill"} /\ (j.pc = "write" => manager = "bunt" /\ j.snap = Stored(r))
      /\ j.g = job[h].g /\ j.msg = job[h].msg /\ j.obj = job[h].obj
  BY <1>1 DEF PersistJob, Jobs
<1>7. Working(h, j, r, n)
  BY StateFacts DEF Persists, PersistJob, PersistNote, PersistDoubt, Storing, Working
<1>8. Shared(Group(h))
  BY DEF Shared, NeverStored
<1> HIDE DEF j, n
<1>9. /\ Within(h, Group(h)) /\ job'[h] = j /\ heap'[job[h].obj] = r /\ hist'[Group(h)] = n
      /\ UNCHANGED <<manager, file, cache, count>>
  BY <1>1, <1>2, <1>3, <1>5, <1>6, <1>7, <1>8, ValuesAssumption, WorkingWithin
<1>10. QED
  BY <1>9 DEF j, n
-----------------------------------------------------------------------------
(***************************************************************************)
(* The commands: what was acknowledged before is still so, or no longer.       *)
(***************************************************************************)
Changed(h, r, said) ==
  LET n == Said(h) IN
  /\ r \in Records /\ said \in Notes
  /\ said.doubt = n.doubt /\ said.unsaved = n.unsaved /\ (said.silent => n.silent)
  /\ Synced(Record(h)) => Synced(r)
  /\ Synced(Record(h)) /\ Matches(Record(h), n) => Matches(r, said)

LEMMA ExtFindFacts ==
  ASSUME NEW w
  PROVE  /\ ExtFind(w) \in SUBSET Exts /\ \A a, b \in ExtFind(w) : a = b
         /\ \A e \in Exts : e = w => e \in ExtFind(w)
         /\ \A e \in ExtFind(w) : EqualFold(e, w)
BY DEF ExtFind, EqualFold, Exts

LEMMA SaidFacts ==
  ASSUME TypeInv, NEW h \in Handlers, job[h].pc = "visit"
  PROVE  Said(h) \in Notes /\ Record(h) \in Records /\ job[h].msg \in Heard
BY JobFacts, StateFacts DEF Said

\* Nothing noted changes but that the bot may answer again.
LEMMA ChangedElse ==
  ASSUME TypeInv, NEW h \in Handlers, job[h].pc = "visit", NEW r \in Records, NEW b \in BOOLEAN,
         r.states = Record(h).states, r.system = Record(h).system, r.player = Record(h).player, r.list = Record(h).list,
         Said(h).silent /\ b => (r.active => Record(h).active)
  PROVE  Changed(h, r, [Said(h) EXCEPT !.silent = @ /\ b])
<1>1. Said(h) \in Notes
  BY SaidFacts
<1> DEFINE m == [Said(h) EXCEPT !.silent = @ /\ b]
<1>2. /\ m \in Notes /\ m.silent = (Said(h).silent /\ b) /\ m.closed = Said(h).closed /\ m.system = Said(h).system
      /\ m.name = Said(h).name /\ m.doubt = Said(h).doubt /\ m.unsaved = Said(h).unsaved
  BY <1>1 DEF Notes
<1> HIDE DEF m
<1>3. Synced(Record(h)) => Synced(r)
  BY DEF Synced, IsExtensionActive
<1>4. Matches(Record(h), Said(h)) => Matches(r, m)
  BY <1>2 DEF Matches, Fits
<1>5. QED
  BY <1>2, <1>3, <1>4 DEF Changed, m

LEMMA SameSilent == ASSUME NEW n \in Notes PROVE [n EXCEPT !.silent = @ /\ TRUE] = n
BY DEF Notes

LEMMA ChangedNothing ==
  ASSUME TypeInv, NEW h \in Handlers, job[h].pc = "visit", NEW r \in Records,
         r.states = Record(h).states, r.system = Record(h).system, r.player = Record(h).player, r.list = Record(h).list,
         r.active = Record(h).active
  PROVE  Changed(h, r, Said(h))
<1>1. Changed(h, r, [Said(h) EXCEPT !.silent = @ /\ TRUE])
  BY ChangedElse
<1>2. QED
  BY <1>1, SaidFacts, SameSilent

LEMMA BotChanges ==
  ASSUME TypeInv, NEW h \in Handlers, job[h].pc = "visit"
  PROVE  Changed(h, [Record(h) EXCEPT !.active = (Arg(h) = "on")], [Said(h) EXCEPT !.silent = @ /\ Arg(h) = "off"])
<1> DEFINE r == [Record(h) EXCEPT !.active = (Arg(h) = "on")]
           b == Arg(h) = "off"
<1>1. Record(h) \in Records
  BY SaidFacts
<1>2. /\ r \in Records /\ r.states = Record(h).states /\ r.system = Record(h).system /\ r.player = Record(h).player
      /\ r.list = Record(h).list /\ r.active = (Arg(h) = "on")
  BY <1>1 DEF Records
<1>3. b \in BOOLEAN /\ (b => ~r.active)
  BY <1>2
<1> HIDE DEF r, b
<1>4. Changed(h, r, [Said(h) EXCEPT !.silent = @ /\ b])
  BY <1>2, <1>3, ChangedElse
<1>5. QED
  BY <1>4 DEF r, b

LEMMA BotListChanges ==
  ASSUME TypeInv, NEW h \in Handlers, job[h].pc = "visit"
  PROVE  Changed(h, [Record(h) EXCEPT !.bots = (Arg(h) = "add")], Said(h))
<1> DEFINE r == [Record(h) EXCEPT !.bots = (Arg(h) = "add")]
<1>1. Record(h) \in Records
  BY SaidFacts
<1>2. /\ r \in Records /\ r.states = Record(h).states /\ r.system = Record(h).system /\ r.player = Record(h).player
      /\ r.list = Record(h).list /\ r.active = Record(h).active
  BY <1>1 DEF Records
<1> HIDE DEF r
<1>3. Changed(h, r, Said(h))
  BY <1>2, ChangedNothing
<1>4. QED
  BY <1>3 DEF r

LEMMA SetDiceChanges ==
  ASSUME TypeInv, NEW h \in Handlers, job[h].pc = "visit"
  PROVE  Changed(h, [Record(h) EXCEPT !.sides = "d6"], Said(h))
<1> DEFINE r == [Record(h) EXCEPT !.sides = "d6"]
<1>1. Record(h) \in Records
  BY SaidFacts
<1>2. /\ r \in Records /\ r.states = Record(h).states /\ r.system = Record(h).system /\ r.player = Record(h).player
      /\ r.list = Record(h).list /\ r.active = Record(h).active
  BY <1>1 DEF Records
<1> HIDE DEF r
<1>3. Changed(h, r, Said(h))
  BY <1>2, ChangedNothing
<1>4. QED
  BY <1>3 DEF r

LEMMA NnChanges ==
  ASSUME TypeInv, NEW h \in Handlers, job[h].pc = "visit", NEW name \in {"nickname", "name"}
  PROVE  Changed(h, [Record(h) EXCEPT !.player = name], [Said(h) EXCEPT !.name = name])
<1> DEFINE r == [Record(h) EXCEPT !.player = name]
           m == [Said(h) EXCEPT !.name = name]
<1>1. Record(h) \in Records /\ Said(h) \in Notes
  BY SaidFacts
<1>2. /\ r \in Records /\ r.states = Record(h).states /\ r.system = Record(h).system /\ r.player = name
      /\ r.list = Record(h).list /\ r.active = Record(h).active
  BY <1>1 DEF Records
<1>3. /\ m \in Notes /\ m.silent = Said(h).silent /\ m.closed = Said(h).closed /\ m.system = Said(h).system
      /\ m.name = name /\ m.doubt = Said(h).doubt /\ m.unsaved = Said(h).unsaved
  BY <1>1 DEF Notes
<1> HIDE DEF r, m
<1>4. Synced(Record(h)) => Synced(r)
  BY <1>2 DEF Synced, IsExtensionActive
<1>5. Matches(Record(h), Said(h)) => Matches(r, m)
  BY <1>2, <1>3 DEF Matches, Fits
<1>6. Changed(h, r, m)
  BY <1>2, <1>3, <1>4, <1>5 DEF Changed
<1>7. QED
  BY <1>6 DEF r, m

LEMMA SetClrChanges ==
  ASSUME TypeInv, NEW h \in Handlers, job[h].pc = "visit"
  PROVE  Changed(h, [Record(h) EXCEPT !.sides = "", !.system = ""], [Said(h) EXCEPT !.system = ""])
<1> DEFINE r == [Record(h) EXCEPT !.sides = "", !.system = ""]
           m == [Said(h) EXCEPT !.system = ""]
<1>1. Record(h) \in Records /\ Said(h) \in Notes
  BY SaidFacts
<1>2. /\ r \in Records /\ r.states = Record(h).states /\ r.player = Record(h).player
      /\ r.list = Record(h).list /\ r.active = Record(h).active
  BY <1>1 DEF Records
<1>3. /\ m \in Notes /\ m.silent = Said(h).silent /\ m.closed = Said(h).closed /\ m.system = ""
      /\ m.name = Said(h).name /\ m.doubt = Said(h).doubt /\ m.unsaved = Said(h).unsaved
  BY <1>1 DEF Notes
<1> HIDE DEF r, m
<1>4. Synced(Record(h)) => Synced(r)
  BY <1>2 DEF Synced, IsExtensionActive
<1>5. Matches(Record(h), Said(h)) => Matches(r, m)
  BY <1>2, <1>3 DEF Matches, Fits
<1>6. Changed(h, r, m)
  BY <1>2, <1>3, <1>4, <1>5 DEF Changed
<1>7. QED
  BY <1>6 DEF r, m

\* An extension is turned on, and the system is what it was, or is the one of that extension.
LEMMA OnChanges ==
  ASSUME TypeInv, NEW h \in Handlers, job[h].pc = "visit", NEW e \in Exts, NEW r \in Records, NEW m \in Notes,
         r.active = Record(h).active, r.player = Record(h).player, Synced(Record(h)) => Synced(r),
         r.states[e] = "on",
         \A k \in Exts \ {e} : (Record(h).states[k] = "off" => r.states[k] = "off")
                               /\ (Record(h).states[k] = "on" => r.states[k] = "on"),
         m.silent = Said(h).silent, m.name = Said(h).name, m.doubt = Said(h).doubt, m.unsaved = Said(h).unsaved,
         m.closed = Said(h).closed \ {e},
         (m.system = Said(h).system /\ r.system = Record(h).system) \/ (m.system = e /\ r.system = e)
  PROVE  Changed(h, r, m)
<1>1. Said(h) \in Notes /\ Systems \subseteq Exts
  BY SaidFacts DEF Systems, Exts
<1>2. Said(h).closed \subseteq Exts /\ Said(h).system \in Systems \cup {""}
  BY <1>1 DEF Notes
<1>3. ASSUME Matches(Record(h), Said(h)) PROVE Matches(r, m)
  <2>1. \A k \in m.closed : r.states[k] = "off"
    BY <1>2, <1>3 DEF Matches, Fits
  <2>2. m.system # "" => r.system = m.system /\ (m.system \in m.closed \/ r.states[m.system] = "on")
    <3>1. CASE m.system = e /\ r.system = e
      BY <3>1
    <3>2. CASE m.system = Said(h).system /\ r.system = Record(h).system
      <4>1. CASE m.system = e
        BY <1>3, <3>2, <4>1 DEF Matches, Fits
      <4>2. CASE m.system # e
        BY <1>1, <1>2, <1>3, <3>2, <4>2 DEF Matches, Fits
      <4>3. QED
        BY <4>1, <4>2
    <3>3. QED
      BY <3>1, <3>2
  <2>3. QED
    BY <1>3, <2>1, <2>2 DEF Matches, Fits
<1>4. QED
  BY <1>3 DEF Changed

LEMMA SetSystemChanges ==
  ASSUME TypeInv, NEW h \in Handlers, job[h].pc = "visit", NEW key \in Systems
  PROVE  Changed(h, Listed(ExtActive([Record(h) EXCEPT !.system = key, !.sides = IF key = "coc7" THEN "100" ELSE "20"], key)),
                    [Said(h) EXCEPT !.system = key, !.closed = @ \ {key}])
<1> DEFINE q == [Record(h) EXCEPT !.system = key, !.sides = IF key = "coc7" THEN "100" ELSE "20"]
           m == [Said(h) EXCEPT !.system = key, !.closed = @ \ {key}]
<1>1. Record(h) \in Records /\ Said(h) \in Notes /\ key \in Exts /\ Exts \subseteq Spellings
  BY SaidFacts DEF Systems, Exts, Spellings
<1>2. q \in Records /\ q.states = Record(h).states /\ q.system = key /\ q.active = Record(h).active /\ q.player = Record(h).player
  BY <1>1 DEF Records
<1>3. /\ m \in Notes /\ m.silent = Said(h).silent /\ m.closed = Said(h).closed \ {key} /\ m.system = key
      /\ m.name = Said(h).name /\ m.doubt = Said(h).doubt /\ m.unsaved = Said(h).unsaved
  BY <1>1 DEF Notes
<1> HIDE DEF q, m
<1> DEFINE a == ExtActive(q, key)
<1>4. a \in Records /\ a.active = q.active /\ a.system = key /\ a.player = q.player /\ a.states = [q.states EXCEPT ![key] = "on"]
  BY <1>1, <1>2, ExtActiveFacts
<1> HIDE DEF a
<1> DEFINE r == Listed(a)
<1>5. /\ r \in Records /\ r.active = a.active /\ r.system = a.system /\ r.player = a.player /\ Synced(r)
      /\ \A k \in Spellings : (a.states[k] = "off" => r.states[k] = "off") /\ (a.states[k] = "on" => r.states[k] = "on")
  BY <1>4, ListedFacts
<1> HIDE DEF r
<1>6. Record(h).states \in [Spellings -> {"on", "off", "unset"}]
  BY <1>1 DEF Records
<1>7. a.states[key] = "on" /\ \A k \in Exts \ {key} : a.states[k] = Record(h).states[k]
  BY <1>1, <1>2, <1>4, <1>6
<1>8. Changed(h, r, m)
  BY <1>1, <1>2, <1>3, <1>4, <1>5, <1>7, OnChanges
<1>9. QED
  BY <1>8 DEF r, a, q, m

LEMMA HeardArgs ==
  ASSUME NEW msg \in Heard
  PROVE  /\ msg.word = "setcoc" => msg.arg = "2"
         /\ msg.word \in {"ext on", "ext off"} => msg.arg \in Spellings
<1>1. CASE msg \in [word : {"setcoc"}, arg : {"2"}]
  BY <1>1
<1>2. CASE msg \in [word : {"ext on", "ext off"}, arg : Spellings]
  BY <1>2
<1>3. CASE msg \in [word : {"bot"}, arg : {"on", "off", "bye"}]
  BY <1>3
<1>4. CASE msg \in [word : {"botlist"}, arg : {"add", "del"}]
  BY <1>4
<1>5. CASE msg \in [word : {"nn"}, arg : {"clr", "name"}]
  BY <1>5
<1>6. CASE msg \in [word : {"set"}, arg : Systems \cup {"clr", "dice"}]
  BY <1>6
<1>7. CASE msg \in [word : {"st", "en", "ri", "talk"}, arg : {""}]
  BY <1>7
<1>8. CASE msg = [word |-> "r", arg |-> ""]
  BY <1>8
<1>9. QED
  BY <1>1, <1>2, <1>3, <1>4, <1>5, <1>6, <1>7, <1>8 DEF Heard, Messages

LEMMA SetCocChanges ==
  ASSUME TypeInv, NEW h \in Handlers, job[h].pc = "visit", job[h].msg.word = "setcoc"
  PROVE  Changed(h, [ExtActive(Record(h), "coc7") EXCEPT !.system = "coc7", !.rule = Arg(h)],
                    [Said(h) EXCEPT !.system = "coc7", !.closed = @ \ {"coc7"}])
<1> DEFINE a == ExtActive(Record(h), "coc7")
           m == [Said(h) EXCEPT !.system = "coc7", !.closed = @ \ {"coc7"}]
<1>1. Record(h) \in Records /\ Said(h) \in Notes /\ "coc7" \in Exts /\ "coc7" \in Systems /\ Exts \subseteq Spellings
  BY SaidFacts DEF Systems, Exts, Spellings
<1>2. Arg(h) = "2"
  <2>1. job[h].msg \in Heard
    BY SaidFacts
  <2>2. QED
    BY <2>1, HeardArgs DEF Arg
<1>3. /\ m \in Notes /\ m.silent = Said(h).silent /\ m.closed = Said(h).closed \ {"coc7"} /\ m.system = "coc7"
      /\ m.name = Said(h).name /\ m.doubt = Said(h).doubt /\ m.unsaved = Said(h).unsaved
  BY <1>1 DEF Notes
<1>4. /\ a \in Records /\ a.active = Record(h).active /\ a.player = Record(h).player
      /\ a.states = [Record(h).states EXCEPT !["coc7"] = "on"] /\ (Synced(Record(h)) => Synced(a))
  BY <1>1, ExtActiveFacts
<1> HIDE DEF a, m
<1> DEFINE r == [a EXCEPT !.system = "coc7", !.rule = Arg(h)]
<1>5. /\ r \in Records /\ r.active = a.active /\ r.system = "coc7" /\ r.player = a.player /\ r.states = a.states /\ r.list = a.list
  BY <1>1, <1>2, <1>4 DEF Records
<1> HIDE DEF r
<1>6. Record(h).states \in [Spellings -> {"on", "off", "unset"}]
  BY <1>1 DEF Records
<1>7. r.states["coc7"] = "on" /\ \A k \in Exts \ {"coc7"} : r.states[k] = Record(h).states[k]
  BY <1>1, <1>4, <1>5, <1>6
<1>8. Synced(Record(h)) => Synced(r)
  BY <1>4, <1>5 DEF Synced, IsExtensionActive
<1>9. Changed(h, r, m)
  <2>1. PICK e \in Exts : e = "coc7"
    BY <1>1
  <2>2. r.states[e] = "on" /\ \A k \in Exts \ {e} : r.states[k] = Record(h).states[k]
    BY <1>7, <2>1
  <2>3. m.closed = Said(h).closed \ {e} /\ m.system = e /\ r.system = e
    BY <1>3, <1>5, <2>1
  <2>4. r.active = Record(h).active /\ r.player = Record(h).player
    BY <1>4, <1>5
  <2>5. QED
    BY <1>3, <1>5, <1>8, <2>2, <2>3, <2>4, OnChanges
<1>10. QED
  BY <1>9 DEF r, a, m

\* .ext on and .ext off.
LEMMA ListedChanges ==
  ASSUME TypeInv, NEW h \in Handlers, job[h].pc = "visit"
  PROVE  Changed(h, Listed(Record(h)), Said(h))
<1> DEFINE r == Listed(Record(h))
<1>1. Record(h) \in Records /\ Said(h) \in Notes
  BY SaidFacts
<1>2. /\ r \in Records /\ r.active = Record(h).active /\ r.system = Record(h).system /\ r.player = Record(h).player /\ Synced(r)
      /\ \A k \in Spellings : (Record(h).states[k] = "off" => r.states[k] = "off")
                              /\ (Record(h).states[k] = "on" => r.states[k] = "on")
  BY <1>1, ListedFacts
<1> HIDE DEF r
<1>3. Said(h).closed \subseteq Spellings /\ (Said(h).system # "" => Said(h).system \in Spellings)
  BY <1>1 DEF Notes, Systems, Exts, Spellings
<1>4. Matches(Record(h), Said(h)) => Matches(r, Said(h))
  BY <1>2, <1>3 DEF Matches, Fits
<1>5. Changed(h, r, Said(h))
  BY <1>1, <1>2, <1>4 DEF Changed
<1>6. QED
  BY <1>5 DEF r

LEMMA ExtOnChanges ==
  ASSUME TypeInv, NEW h \in Handlers, job[h].pc = "visit"
  PROVE  Changed(h, Listed(IF ExtFind(Arg(h)) = {} THEN Record(h) ELSE ExtActive(Record(h), CHOOSE e \in ExtFind(Arg(h)) : TRUE)),
                    [Said(h) EXCEPT !.closed = @ \ ExtFind(Arg(h))])
<1> DEFINE F == ExtFind(Arg(h))
           m == [Said(h) EXCEPT !.closed = @ \ F]
<1>1. Record(h) \in Records /\ Said(h) \in Notes /\ Exts \subseteq Spellings
  BY SaidFacts DEF Exts, Spellings
<1>2. F \in SUBSET Exts /\ \A a, b \in F : a = b
  BY ExtFindFacts
<1> HIDE DEF F
<1>3. CASE F = {}
  <2>1. m = Said(h)
    BY <1>1, <1>3 DEF Notes
  <2>2. QED
    BY <1>3, <2>1, ListedChanges DEF F
<1>4. CASE F # {}
  <2> DEFINE e == CHOOSE e \in F : TRUE
  <2>1. e \in F /\ e \in Exts /\ F = {e}
    BY <1>2, <1>4
  <2> HIDE DEF e
  <2>2. /\ m \in Notes /\ m.silent = Said(h).silent /\ m.closed = Said(h).closed \ {e} /\ m.system = Said(h).system
        /\ m.name = Said(h).name /\ m.doubt = Said(h).doubt /\ m.unsaved = Said(h).unsaved
    BY <1>1, <2>1 DEF Notes
  <2> DEFINE a == ExtActive(Record(h), e)
  <2>3. /\ a \in Records /\ a.active = Record(h).active /\ a.player = Record(h).player /\ a.system = Record(h).system
        /\ a.states = [Record(h).states EXCEPT ![e] = "on"]
    BY <1>1, <2>1, ExtActiveFacts
  <2> HIDE DEF a, m
  <2> DEFINE r == Listed(a)
  <2>4. /\ r \in Records /\ r.active = a.active /\ r.system = a.system /\ r.player = a.player /\ Synced(r)
        /\ \A k \in Spellings : (a.states[k] = "off" => r.states[k] = "off") /\ (a.states[k] = "on" => r.states[k] = "on")
    BY <2>3, ListedFacts
  <2> HIDE DEF r
  <2>5. Record(h).states \in [Spellings -> {"on", "off", "unset"}]
    BY <1>1 DEF Records
  <2>6. a.states[e] = "on" /\ \A k \in Exts \ {e} : a.states[k] = Record(h).states[k]
    BY <1>1, <2>1, <2>3, <2>5
  <2>7. r.states[e] = "on" /\ \A k \in Exts \ {e} : (Record(h).states[k] = "off" => r.states[k] = "off")
                               /\ (Record(h).states[k] = "on" => r.states[k] = "on")
    BY <1>1, <2>1, <2>4, <2>6
  <2>8. Changed(h, r, m)
    BY <2>1, <2>2, <2>3, <2>4, <2>7, OnChanges
  <2>9. QED
    BY <1>4, <2>8 DEF r, a, m, e, F
<1>5. QED
  BY <1>3, <1>4

\* A record with the states of some words off.
Off(r, W) == [r EXCEPT !.states = [k \in Spellings |-> IF k \in W THEN "off" ELSE r.states[k]]]

LEMMA OffFacts ==
  ASSUME NEW r \in Records, NEW W \in SUBSET Spellings
  PROVE  /\ Off(r, W) \in Records /\ Off(r, W).active = r.active /\ Off(r, W).system = r.system /\ Off(r, W).player = r.player
         /\ \A k \in Spellings : Off(r, W).states[k] = IF k \in W THEN "off" ELSE r.states[k]
<1> DEFINE st == [k \in Spellings |-> IF k \in W THEN "off" ELSE r.states[k]]
<1>1. st \in [Spellings -> {"on", "off", "unset"}] /\ \A k \in Spellings : st[k] = IF k \in W THEN "off" ELSE r.states[k]
  BY DEF Records
<1> HIDE DEF st
<1>2. Off(r, W) = [r EXCEPT !.states = st]
  BY DEF Off, st
<1>3. Off(r, W) \in Records
  BY <1>1, <1>2 DEF Records
<1> DEFINE o == Off(r, W)
<1> HIDE DEF o
<1>4. o.active = r.active /\ o.system = r.system /\ o.player = r.player /\ o.states = st
  BY <1>2 DEF Records, o
<1>5. \A k \in Spellings : o.states[k] = IF k \in W THEN "off" ELSE r.states[k]
  BY <1>1, <1>4
<1>6. QED
  BY <1>3, <1>4, <1>5 DEF o

LEMMA ClosedIsOff ==
  ASSUME NEW r \in Records, NEW w \in Spellings, NEW e \in Spellings
  PROVE  /\ Listed(ExtInactiveByName(r, w)) = Listed(Off(r, {w}))
         /\ Listed(ExtInactiveByName(ExtInactiveByName(r, w), e)) = Listed(Off(r, {w, e}))
<1> DEFINE p == SelectSeq(r.list, LAMBDA x : ~EqualFold(x, w))
           t == [r EXCEPT !.states[w] = "off", !.list = p]
           q == SelectSeq(t.list, LAMBDA x : ~EqualFold(x, e))
<1>1. ExtInactiveByName(r, w) = t /\ ExtInactiveByName(t, e) = [t EXCEPT !.states[e] = "off", !.list = q]
  BY DEF ExtInactiveByName
<1>2. r.states \in [Spellings -> {"on", "off", "unset"}]
  BY DEF Records
<1>3. /\ [r.states EXCEPT ![w] = "off"] = [k \in Spellings |-> IF k \in {w} THEN "off" ELSE r.states[k]]
      /\ [[r.states EXCEPT ![w] = "off"] EXCEPT ![e] = "off"] = [k \in Spellings |-> IF k \in {w, e} THEN "off" ELSE r.states[k]]
  BY <1>2
<1> HIDE DEF p, q
<1>4. t = [Off(r, {w}) EXCEPT !.list = p]
  BY <1>3 DEF Off, Records
<1>5. [t EXCEPT !.states[e] = "off", !.list = q] = [Off(r, {w, e}) EXCEPT !.list = q]
  BY <1>3 DEF Off, Records
<1>6. Off(r, {w}) \in Records /\ Off(r, {w, e}) \in Records
  BY OffFacts
<1> HIDE DEF t
<1>7. Listed([Off(r, {w}) EXCEPT !.list = p]) = Listed(Off(r, {w})) /\ Listed([Off(r, {w, e}) EXCEPT !.list = q]) = Listed(Off(r, {w, e}))
  BY <1>6, ListedAnew
<1>8. QED
  BY <1>1, <1>4, <1>5, <1>7

\* Words are closed: those acknowledged, and no other extension that was in the list.
LEMMA OffChanges ==
  ASSUME TypeInv, NEW h \in Handlers, job[h].pc = "visit", NEW W \in SUBSET Spellings, NEW A \in SUBSET Exts, A \subseteq W,
         \A e \in Exts \cap W : e \in A \/ e \notin ToSet(Record(h).list)
  PROVE  Changed(h, Listed(Off(Record(h), W)), [Said(h) EXCEPT !.closed = @ \cup A])
<1> DEFINE o == Off(Record(h), W)
           m == [Said(h) EXCEPT !.closed = @ \cup A]
<1>1. Record(h) \in Records /\ Said(h) \in Notes /\ Exts \subseteq Spellings
  BY SaidFacts DEF Exts, Spellings
<1>2. /\ o \in Records /\ o.active = Record(h).active /\ o.system = Record(h).system /\ o.player = Record(h).player
      /\ \A k \in Spellings : o.states[k] = IF k \in W THEN "off" ELSE Record(h).states[k]
  BY <1>1, OffFacts
<1>3. Said(h).closed \cup A \in SUBSET Exts
  BY <1>1 DEF Notes
<1>4. /\ m \in Notes /\ m.silent = Said(h).silent /\ m.closed = Said(h).closed \cup A /\ m.system = Said(h).system
      /\ m.name = Said(h).name /\ m.doubt = Said(h).doubt /\ m.unsaved = Said(h).unsaved
  BY <1>1, <1>3 DEF Notes
<1> HIDE DEF o, m
<1> DEFINE r == Listed(o)
<1>5. /\ r \in Records /\ r.active = o.active /\ r.system = o.system /\ r.player = o.player /\ Synced(r)
      /\ \A k \in Spellings : (o.states[k] = "off" => r.states[k] = "off") /\ (o.states[k] = "on" => r.states[k] = "on")
  BY <1>2, ListedFacts
<1> HIDE DEF r
<1>6. Said(h).closed \subseteq Exts /\ (Said(h).system # "" => Said(h).system \in Exts)
  BY <1>1 DEF Notes, Systems, Exts
<1>7. ASSUME Synced(Record(h)), Matches(Record(h), Said(h)) PROVE Matches(r, m)
  <2>1. \A k \in m.closed : r.states[k] = "off"
    BY <1>1, <1>2, <1>4, <1>5, <1>6, <1>7 DEF Matches, Fits
  <2>2. m.system # "" => r.system = m.system /\ (m.system \in m.closed \/ r.states[m.system] = "on")
    <3> SUFFICES ASSUME m.system # "" PROVE r.system = m.system /\ (m.system \in m.closed \/ r.states[m.system] = "on")
      OBVIOUS
    <3>1. m.system \in Exts /\ Record(h).system = m.system /\ r.system = m.system
      BY <1>2, <1>4, <1>5, <1>6, <1>7 DEF Matches, Fits
    <3>2. m.system \in Said(h).closed \/ Record(h).states[m.system] = "on"
      BY <1>4, <1>7 DEF Matches, Fits
    <3>3. CASE m.system \in Said(h).closed
      BY <1>4, <3>1, <3>3
    <3>4. CASE Record(h).states[m.system] = "on"
      <4>1. m.system \in ToSet(Record(h).list)
        BY <1>7, <3>1, <3>4 DEF Synced, IsExtensionActive
      <4>2. CASE m.system \in W
        BY <1>4, <3>1, <4>1, <4>2
      <4>3. CASE m.system \notin W
        BY <1>1, <1>2, <1>5, <3>1, <3>4, <4>3
      <4>4. QED
        BY <4>2, <4>3
    <3>5. QED
      BY <3>2, <3>3, <3>4
  <2>3. QED
    BY <1>2, <1>4, <1>5, <1>7, <2>1, <2>2 DEF Matches, Fits
<1>8. Changed(h, r, m)
  BY <1>4, <1>5, <1>7 DEF Changed
<1>9. QED
  BY <1>8 DEF r, o, m

LEMMA ExtOffChanges ==
  ASSUME TypeInv, NEW h \in Handlers, ExtOff(h)
  PROVE  \E r, said : Changed(h, r, said) /\ Answers(h, r, said) /\ r.active = Record(h).active
<1> DEFINE r == Record(h)
           w == Arg(h)
           F == ExtFind(w)
           e == CHOOSE x \in F : TRUE
           typed == ExtInactiveByName(r, w)
           byName == IF Removed(r, w) # {} \/ F = {} THEN typed ELSE ExtInactiveByName(typed, e)
<1>1. job[h].pc = "visit" /\ job[h].msg.word = "ext off"
  BY DEF ExtOff, Solves
<1>2. w \in Spellings
  <2>1. job[h].msg \in Heard
    BY <1>1, SaidFacts
  <2>2. QED
    BY <1>1, <2>1, HeardArgs DEF Arg
<1>3. F \in SUBSET Exts /\ (\A x \in Exts : x = w => x \in F) /\ (\A x \in F : EqualFold(x, w)) /\ Exts \subseteq Spellings
  BY ExtFindFacts DEF Exts, Spellings
<1>4. r \in Records
  BY <1>1, SaidFacts
<1>5. CASE "core" \in F
  <2>1. Answers(h, Listed(r), Said(h))
    BY <1>5 DEF ExtOff
  <2>2. Changed(h, Listed(r), Said(h)) /\ Listed(r).active = r.active
    BY <1>1, <1>4, ListedChanges, ListedFacts
  <2>3. QED
    BY <2>1, <2>2
<1>6. CASE "core" \notin F
  <2>1. Answers(h, Listed(byName), [Said(h) EXCEPT !.closed = @ \cup (F \cap {w})])
    BY <1>6 DEF ExtOff
  <2> HIDE DEF F
  <2>2. CASE Removed(r, w) # {} \/ F = {}
    <3>1. Listed(byName) = Listed(Off(r, {w}))
      BY <1>2, <1>4, <2>2, ClosedIsOff
    <3>2. Changed(h, Listed(Off(r, {w})), [Said(h) EXCEPT !.closed = @ \cup (F \cap {w})])
      <4>1. F \cap {w} \in SUBSET Exts /\ F \cap {w} \subseteq {w} /\ {w} \in SUBSET Spellings
        BY <1>2, <1>3
      <4>2. \A x \in Exts \cap {w} : x \in F \cap {w}
        BY <1>3
      <4> DEFINE A == F \cap {w}
                 W == {w}
      <4> HIDE DEF A, W, w
      <4>3. A \in SUBSET Exts /\ A \subseteq W /\ W \in SUBSET Spellings /\ \A x \in Exts \cap W : x \in A \/ x \notin ToSet(r.list)
        BY <4>1, <4>2 DEF A, W
      <4>4. Changed(h, Listed(Off(Record(h), W)), [Said(h) EXCEPT !.closed = @ \cup A])
        BY <1>1, <4>3, OffChanges
      <4>5. QED
        BY <4>4 DEF A, W
    <3>3. Listed(Off(r, {w})).active = r.active
      BY <1>2, <1>4, OffFacts, ListedFacts
    <3>4. QED
      BY <2>1, <3>1, <3>2, <3>3
  <2>3. CASE Removed(r, w) = {} /\ F # {}
    <3>1. e \in F
      BY <2>3
    <3> HIDE DEF e
    <3>2. Listed(byName) = Listed(Off(r, {w, e}))
      BY <1>2, <1>3, <1>4, <2>3, <3>1, ClosedIsOff
    <3>3. e \notin ToSet(r.list)
      BY <1>3, <2>3, <3>1 DEF Removed
    <3>4. Changed(h, Listed(Off(r, {w, e})), [Said(h) EXCEPT !.closed = @ \cup (F \cap {w})])
      <4>1. F \cap {w} \in SUBSET Exts /\ F \cap {w} \subseteq {w, e} /\ {w, e} \in SUBSET Spellings
        BY <1>2, <1>3, <3>1
      <4>2. \A x \in Exts \cap {w, e} : x \in F \cap {w} \/ x \notin ToSet(r.list)
        BY <1>3, <3>3
      <4> DEFINE A == F \cap {w}
                 W == {w, e}
      <4> HIDE DEF A, W, w
      <4>3. A \in SUBSET Exts /\ A \subseteq W /\ W \in SUBSET Spellings /\ \A x \in Exts \cap W : x \in A \/ x \notin ToSet(r.list)
        BY <4>1, <4>2 DEF A, W
      <4>4. Changed(h, Listed(Off(Record(h), W)), [Said(h) EXCEPT !.closed = @ \cup A])
        BY <1>1, <4>3, OffChanges
      <4>5. QED
        BY <4>4 DEF A, W
    <3>5. Listed(Off(r, {w, e})).active = r.active
      <4>1. {w, e} \in SUBSET Spellings
        BY <1>2, <1>3, <3>1
      <4>2. QED
        BY <1>4, <4>1, OffFacts, ListedFacts
    <3>6. QED
      BY <2>1, <3>2, <3>4, <3>5
  <2>4. QED
    BY <2>2, <2>3
<1>7. QED
  BY <1>5, <1>6

\* A command is a change of the record, with the answer or the store after it.
LEMMA CommandsChange ==
  ASSUME TypeInv, NEW h \in Handlers, Commands(h)
  PROVE  /\ job[h].pc = "visit"
         /\ \E r, said : /\ Changed(h, r, said)
                         /\ \/ Answers(h, r, said) /\ r.active = Record(h).active
                            \/ Persists(h, r, said) /\ (job[h].msg = BotOff => ~r.active)
<1>0. job[h].pc = "visit"
  BY DEF Commands, Bot, Reply, BotList, Nn, SetClr, SetSystem, SetDice, SetCoc, ExtOn, ExtOff, Solves
<1>1. Record(h) \in Records /\ Said(h) \in Notes
  BY <1>0, SaidFacts
<1>2. CASE Bot(h)
  <2> DEFINE r == [Record(h) EXCEPT !.active = (Arg(h) = "on")]
             m == [Said(h) EXCEPT !.silent = @ /\ Arg(h) = "off"]
  <2>1. Changed(h, r, m)
    BY <1>0, BotChanges
  <2>2. Persists(h, r, m)
    BY <1>2 DEF Bot
  <2>3. job[h].msg = BotOff => ~r.active
    <3>1. r.active = (Arg(h) = "on")
      BY <1>1 DEF Records
    <3>2. job[h].msg = BotOff => Arg(h) = "off"
      BY DEF BotOff, Arg
    <3>3. QED
      BY <3>1, <3>2
  <2>4. QED
    BY <1>0, <2>1, <2>2, <2>3
<1>3. CASE Reply(h)
  <2>1. Changed(h, Record(h), Said(h))
    BY <1>0, <1>1, ChangedNothing
  <2>2. QED
    BY <1>0, <1>3, <2>1 DEF Reply
<1>4. CASE BotList(h)
  <2> DEFINE r == [Record(h) EXCEPT !.bots = (Arg(h) = "add")]
  <2>1. Changed(h, r, Said(h))
    BY <1>0, BotListChanges
  <2>3. r.active = Record(h).active
    BY <1>1 DEF Records
  <2>2. QED
    BY <1>0, <1>4, <2>1, <2>3 DEF BotList
<1>5. CASE Nn(h)
  <2> DEFINE name == IF Arg(h) = "clr" THEN "nickname" ELSE "name"
  <2>1. name \in {"nickname", "name"}
    OBVIOUS
  <2>2. Answers(h, [Record(h) EXCEPT !.player = name], [Said(h) EXCEPT !.name = name])
    BY <1>5 DEF Nn
  <2> HIDE DEF name
  <2>3. Changed(h, [Record(h) EXCEPT !.player = name], [Said(h) EXCEPT !.name = name])
    BY <1>0, <2>1, NnChanges
  <2>4. [Record(h) EXCEPT !.player = name].active = Record(h).active
    BY <1>1 DEF Records
  <2>5. QED
    BY <1>0, <2>2, <2>3, <2>4
<1>6. CASE SetClr(h)
  <2>1. Changed(h, [Record(h) EXCEPT !.sides = "", !.system = ""], [Said(h) EXCEPT !.system = ""])
    BY <1>0, SetClrChanges
  <2>2. job[h].msg # BotOff
    <3>1. Solves(h, {"set"})
      BY <1>6 DEF SetClr
    <3>2. QED
      BY <3>1 DEF Solves, BotOff
  <2>3. QED
    BY <1>0, <1>6, <2>1, <2>2 DEF SetClr
<1>7. CASE SetSystem(h)
  <2> DEFINE key == Arg(h)
             r == Listed(ExtActive([Record(h) EXCEPT !.system = key, !.sides = IF key = "coc7" THEN "100" ELSE "20"], key))
             m == [Said(h) EXCEPT !.system = key, !.closed = @ \ {key}]
  <2>1. Persists(h, r, m) /\ key \in Systems
    BY <1>7 DEF SetSystem
  <2>2. job[h].msg # BotOff
    BY <1>7 DEF SetSystem, Solves, BotOff
  <2>3. Changed(h, r, m)
    <3> HIDE DEF key
    <3> QED BY <1>0, <2>1, SetSystemChanges
  <2> HIDE DEF r, m
  <2>4. QED
    BY <1>0, <2>1, <2>2, <2>3
<1>8. CASE SetDice(h)
  <2>1. Changed(h, [Record(h) EXCEPT !.sides = "d6"], Said(h))
    BY <1>0, SetDiceChanges
  <2>2. job[h].msg # BotOff
    BY <1>8 DEF SetDice, Solves, BotOff
  <2>3. QED
    BY <1>0, <1>8, <2>1, <2>2 DEF SetDice
<1>9. CASE SetCoc(h)
  <2> DEFINE r == [ExtActive(Record(h), "coc7") EXCEPT !.system = "coc7", !.rule = Arg(h)]
             m == [Said(h) EXCEPT !.system = "coc7", !.closed = @ \ {"coc7"}]
  <2>1. Answers(h, r, m)
    BY <1>9 DEF SetCoc
  <2>2. Changed(h, r, m)
    BY <1>0, <1>9, SetCocChanges DEF SetCoc, Solves
  <2>3. r.active = Record(h).active
    <3>1. ExtActive(Record(h), "coc7") \in Records /\ ExtActive(Record(h), "coc7").active = Record(h).active
      BY <1>1, ExtActiveFacts DEF Exts
    <3>2. QED
      BY <3>1 DEF Records
  <2> HIDE DEF r, m
  <2>4. QED
    BY <1>0, <2>1, <2>2, <2>3
<1>10. CASE ExtOn(h)
  <2> DEFINE r == Listed(IF ExtFind(Arg(h)) = {} THEN Record(h) ELSE ExtActive(Record(h), CHOOSE e \in ExtFind(Arg(h)) : TRUE))
             m == [Said(h) EXCEPT !.closed = @ \ ExtFind(Arg(h))]
  <2>1. Answers(h, r, m)
    BY <1>10 DEF ExtOn
  <2>2. Changed(h, r, m)
    BY <1>0, ExtOnChanges
  <2>3. r.active = Record(h).active
    <3> DEFINE F == ExtFind(Arg(h))
               e == CHOOSE x \in F : TRUE
               a == IF F = {} THEN Record(h) ELSE ExtActive(Record(h), e)
    <3>1. F # {} => e \in Exts
      BY ExtFindFacts
    <3> HIDE DEF F, e
    <3>2. a \in Records /\ a.active = Record(h).active
      BY <1>1, <3>1, ExtActiveFacts
    <3> HIDE DEF a
    <3>3. Listed(a).active = a.active
      BY <3>2, ListedFacts
    <3>4. QED
      BY <3>2, <3>3 DEF a, F, e
  <2> HIDE DEF r, m
  <2>4. QED
    BY <1>0, <2>1, <2>2, <2>3
<1>11. CASE ExtOff(h)
  BY <1>0, <1>11, ExtOffChanges
<1>12. QED
  BY <1>2, <1>3, <1>4, <1>5, <1>6, <1>7, <1>8, <1>9, <1>10, <1>11 DEF Commands
-----------------------------------------------------------------------------
(***************************************************************************)
(* What the steps of finding a record keep in its group.                   *)
(***************************************************************************)
LEMMA BusyGroup == ASSUME NEW g PROVE \A i \in Busy(g)' : Group(i)' = g
BY DEF Busy

LEMMA OwnBusy ==
  ASSUME TypeInv, NEW h \in Handlers, NEW g, Within(h, g)
  PROVE  /\ h \in Busy(g) /\ Group(h) = g /\ Shared(g)' = Shared(g)
         /\ Busy(g)' = IF job'[h].pc = "idle" THEN Busy(g) \ {h} ELSE Busy(g)
         /\ \A i \in Busy(g) \ {h} : job'[i] = job[i] /\ (i \in Missing(g)' <=> i \in Missing(g)) /\ (i \in Writers(g)' <=> i \in Writers(g))
         /\ \A i \in Busy(g) : Group(i) = g /\ i \in Handlers
         /\ job'[h].pc # "idle" => Group(h)' = g
         /\ Missing(g) \subseteq Busy(g) /\ Writers(g) \subseteq Busy(g)
         /\ Missing(g)' \subseteq Busy(g)' /\ Writers(g)' \subseteq Busy(g)'
<1>1. /\ g \in Groups /\ job[h].pc # "idle" /\ Group(h) = g /\ manager' = manager
      /\ \A i \in Handlers \ {h} : job'[i] = job[i]
      /\ job'[h].pc # "idle" => job'[h].g = g
  BY DEF Within
<1>2. Busy(g)' = IF job'[h].pc = "idle" THEN Busy(g) \ {h} ELSE Busy(g)
  BY <1>1 DEF Busy, Group
<1>3. h \in Busy(g) /\ Shared(g)' = Shared(g) /\ \A i \in Busy(g) : Group(i) = g /\ i \in Handlers
  BY <1>1 DEF Busy, Shared, NeverStored
<1>4. \A i \in Busy(g) \ {h} : i \in Busy(g)' /\ job'[i] = job[i]
  BY <1>1, <1>2, <1>3
<1>5. \A i \in Busy(g) \ {h} : (i \in Missing(g)' <=> i \in Missing(g)) /\ (i \in Writers(g)' <=> i \in Writers(g))
  BY <1>4 DEF Missing, Writers
<1>6. QED
  BY <1>1, <1>2, <1>3, <1>4, <1>5 DEF Missing, Writers, Group

\* A handler without a record is alone, when nothing is in doubt.
LEMMA Lone ==
  ASSUME NEW g \in Groups, GroupInv(g), NEW h \in Missing(g), Trusted(g)
  PROVE  Busy(g) = {h} /\ cache[g] = Null
<1>1. hist[g].doubt = {} /\ Shared(g)
  BY DEF Trusted
<1>2. hist[g].doubt \cap {"records", "file"} = {}
  BY <1>1
<1>3. QED
  BY <1>1, <1>2 DEF GroupInv, Sole

LEMMA Held ==
  ASSUME NEW g \in Groups, GroupInv(g), NEW h \in Busy(g), h \notin Missing(g), Trusted(g)
  PROVE  cache[g] = job[h].obj /\ Missing(g) = {} /\ \A i \in Busy(g) : cache[g] = job[i].obj
<1>1. hist[g].doubt = {} /\ Shared(g)
  BY DEF Trusted
<1>2. hist[g].doubt \cap {"records", "file"} = {}
  BY <1>1
<1>3. \A i \in Missing(g) : Busy(g) = {i}
  BY <1>1, <1>2 DEF GroupInv, Sole
<1>4. Missing(g) = {}
  BY <1>3
<1>5. QED
  BY <1>1, <1>2, <1>4 DEF GroupInv, Sole

\* Nothing is known in a group whose handlers may have lost it.
LEMMA Distrusted ==
  ASSUME NEW g \in Groups, ~Trusted(g)', Sole(g)', \A i \in Busy(g)' : Group(i)' = g
  PROVE  GroupInv(g)'
BY DEF GroupInv, Filed, Told, Hushed, Visits

\* A step that leaves who lacks a record and who has which.
LEMMA SoleKept ==
  ASSUME TypeInv, NEW h \in Handlers, NEW g \in Groups, Within(h, g), Sole(g),
         hist[g].doubt \cap {"records", "file"} \subseteq hist'[g].doubt, cache'[g] = cache[g],
         job'[h].pc # "idle" => (h \in Missing(g)' <=> h \in Missing(g)),
         job'[h].pc = "idle" => h \notin Missing(g),
         job'[h].pc # "idle" /\ h \notin Missing(g) => job'[h].obj = job[h].obj
  PROVE  Sole(g)'
<1>1. /\ h \in Busy(g) /\ Shared(g)' = Shared(g)
      /\ Busy(g)' = IF job'[h].pc = "idle" THEN Busy(g) \ {h} ELSE Busy(g)
      /\ \A i \in Busy(g) \ {h} : job'[i] = job[i] /\ (i \in Missing(g)' <=> i \in Missing(g))
      /\ Missing(g) \subseteq Busy(g) /\ Missing(g)' \subseteq Busy(g)'
  BY OwnBusy
<1>2. SUFFICES ASSUME Shared(g), hist'[g].doubt \cap {"records", "file"} = {}
               PROVE  /\ \A i \in Missing(g)' : cache'[g] = Null /\ Busy(g)' = {i}
                      /\ \A i \in Busy(g)' \ Missing(g)' : cache'[g] = job'[i].obj
  BY <1>1 DEF Sole
<1>3. hist[g].doubt \cap {"records", "file"} = {}
  BY <1>2
<1>4. (\A i \in Missing(g) : cache[g] = Null /\ Busy(g) = {i}) /\ \A i \in Busy(g) \ Missing(g) : cache[g] = job[i].obj
  BY <1>2, <1>3 DEF Sole
<1>5. ASSUME NEW i \in Missing(g)' PROVE cache'[g] = Null /\ Busy(g)' = {i}
  <2>1. i \in Missing(g)
    BY <1>1
  <2>2. Busy(g) = {i} /\ cache[g] = Null /\ i = h
    BY <1>1, <1>4, <2>1
  <2>3. QED
    BY <1>1, <2>1, <2>2
<1>6. ASSUME NEW i \in Busy(g)', i \notin Missing(g)' PROVE cache'[g] = job'[i].obj
  <2>1. i \in Busy(g) /\ i \notin Missing(g)
    BY <1>1, <1>6
  <2>2. QED
    BY <1>1, <1>4, <2>1
<1>7. QED
  BY <1>5, <1>6

\* What the other handlers of the group know they still know.
LEMMA OthersVisit ==
  ASSUME TypeInv, NEW h \in Handlers, NEW g \in Groups, Within(h, g), GroupInv(g), hist[g].doubt \subseteq hist'[g].doubt,
         NEW i \in Busy(g) \ {h},
         Trusted(g) /\ job[i].pc = "visit" => Record(i)' = Record(i) \/ Synced(Record(i)')
  PROVE  Visits(i)'
<1>1. /\ h \in Busy(g) /\ Shared(g)' = Shared(g) /\ job'[i] = job[i] /\ Group(i) = g
  BY OwnBusy
<1>2. Trusted(g)' => Trusted(g)
  BY <1>1 DEF Trusted
<1>3. Group(i)' = g
  BY <1>1 DEF Group
<1>4. SUFFICES ASSUME job[i].pc = "visit", Trusted(g) PROVE Visits(i)'
  BY <1>1, <1>2, <1>3 DEF Visits
<1>5. Visits(i)
  BY DEF GroupInv
<1>6. ~(Busy(g) = {i})
  BY <1>1
<1>7. ~(job[i].msg.word = "st" /\ job[i].asked.system \notin {""} \cup job[i].asked.closed)
  BY <1>1, <1>4, <1>5, <1>6 DEF Visits
<1>8. Synced(Record(i)) /\ Synced(Record(i)')
  BY <1>1, <1>4, <1>5 DEF Visits
<1>9. QED
  BY <1>1, <1>4, <1>5, <1>7, <1>8 DEF Visits

LEMMA ReadFileKeeps ==
  ASSUME TypeInv, NEW h \in Handlers, NEW g \in Groups, g = Group(h), ReadFile(h), GroupInv(g)
  PROVE  GroupInv(g)'
<1>0. /\ Within(h, g) /\ g \in Groups /\ job[h].pc = "read" /\ UNCHANGED <<manager, file, cache, hist>>
      /\ job[h] \in Jobs /\ manager = "bunt" /\ g # Private
      /\ job'[h] = IF file[g] = Absent THEN [job[h] EXCEPT !.pc = "create"]
                   ELSE [job[h] EXCEPT !.pc = "fill", !.obj = Unused, !.next = "list"]
      /\ file[g] # Absent => heap'[Unused] = Loaded(file[g])
  BY ReadFileWithin, JobFacts DEF ReadFile, Within, Shape
<1>1. /\ h \in Busy(g) /\ Shared(g)' = Shared(g)
      /\ Missing(g) \subseteq Busy(g) /\ Writers(g) \subseteq Busy(g) /\ Writers(g)' \subseteq Busy(g)'
      /\ Busy(g)' = IF job'[h].pc = "idle" THEN Busy(g) \ {h} ELSE Busy(g)
      /\ \A i \in Busy(g) \ {h} : job'[i] = job[i] /\ (i \in Missing(g)' <=> i \in Missing(g))
  BY <1>0, OwnBusy
<1>1a. h \in Missing(g)
  BY <1>0, <1>1 DEF Missing
<1>2. /\ file[g] = Absent => job'[h].pc = "create"
      /\ file[g] # Absent => job'[h].pc = "fill" /\ job'[h].next = "list" /\ job'[h].obj = Unused
  BY <1>0 DEF Jobs
<1>3. Group(h)' = g /\ Busy(g)' = Busy(g)
  BY <1>0, <1>1, <1>2, OwnBusy
<1>4. h \in Missing(g)'
  BY <1>1, <1>2, <1>3 DEF Missing
<1>5. Sole(g)'
  BY <1>0, <1>1, <1>1a, <1>2, <1>4, SoleKept DEF GroupInv
<1>6. Trusted(g)' = Trusted(g)
  BY <1>0, <1>1 DEF Trusted
<1>7. CASE ~Trusted(g)
  <2>1. \A i \in Busy(g)' : Group(i)' = g
    BY BusyGroup
  <2>2. QED
    BY <1>0, <1>5, <1>6, <1>7, <2>1, Distrusted
<1>8. CASE Trusted(g)
  <2>1. Busy(g) = {h} /\ cache[g] = Null
    BY <1>1a, <1>8, Lone
  <2>2. Writers(g)' \subseteq {h} /\ (h \in Writers(g)' => file[g] # Absent)
    BY <1>1, <1>2, <1>3, <2>1 DEF Writers
  <2>3. file[g] # Absent => Record(h)' = Loaded(file[g]) /\ Stored(Record(h)') = file[g] /\ Written(h)' = file[g]
    <3>1. SUFFICES ASSUME file[g] # Absent PROVE Record(h)' = Loaded(file[g]) /\ Stored(Record(h)') = file[g] /\ Written(h)' = file[g]
      OBVIOUS
    <3>2. file[g] \in StoredRecords
      BY <1>0, <3>1, StateFacts
    <3>3. Record(h)' = Loaded(file[g])
      BY <1>0, <1>2, <3>1 DEF Record
    <3>4. Written(h)' = file[g]
      BY <1>0, <1>2, <1>3, <3>1 DEF Written
    <3>5. QED
      BY <3>2, <3>3, <3>4, LoadedFacts
  <2>4. Filed(g)'
    BY <1>0, <2>1, <2>2, <2>3 DEF Filed
  <2>5. Told(g)'
    <3>1. Told(g)
      BY DEF GroupInv
    <3>2. file[g] = Absent => Nothing(hist[g])
      BY <1>8, <2>1, <3>1 DEF Told
    <3>3. \A i \in Missing(g)' : i = h
      BY <1>3, <2>1 DEF Missing
    <3>4. \A i \in Missing(g)' : job'[i].pc \in {"create", "write"} => Nothing(hist[g])
      BY <1>2, <3>2, <3>3
    <3>5. QED
      BY <1>0, <1>8, <2>1, <3>1, <3>4 DEF Told
  <2>6. Hushed(g)'
    BY <1>2, <2>2 DEF Hushed
  <2>7. \A i \in Busy(g)' : Visits(i)'
    BY <1>2, <1>3, <2>1 DEF Visits
  <2>8. QED
    BY <1>5, <2>4, <2>5, <2>6, <2>7 DEF GroupInv
<1>9. QED
  BY <1>7, <1>8

\* A record is made, written, and put into the cache.
LEMMA CreateKeeps ==
  ASSUME TypeInv, NEW h \in Handlers, NEW g \in Groups, g = Group(h), Create(h), GroupInv(g)
  PROVE  GroupInv(g)'
<1>0. /\ Within(h, g) /\ job[h].pc = "create" /\ UNCHANGED <<manager, file, cache, hist>> /\ job[h] \in Jobs
      /\ job'[h] = IF NeverStored(g) THEN [job[h] EXCEPT !.pc = "list", !.obj = Unused]
                   ELSE IF manager = "bunt"
                     THEN [job[h] EXCEPT !.obj = Unused, !.pc = "write", !.next = "list", !.todo = <<>>, !.snap = Stored(NewRecord)]
                     ELSE [job[h] EXCEPT !.obj = Unused, !.pc = "fill", !.next = "list", !.todo = <<>>]
      /\ heap'[Unused] = NewRecord
  BY CreateWithin, JobFacts DEF Create
<1>1. /\ h \in Busy(g) /\ Shared(g)' = Shared(g)
      /\ Missing(g) \subseteq Busy(g) /\ Writers(g) \subseteq Busy(g) /\ Writers(g)' \subseteq Busy(g)' /\ Missing(g)' \subseteq Busy(g)'
      /\ Busy(g)' = IF job'[h].pc = "idle" THEN Busy(g) \ {h} ELSE Busy(g)
      /\ \A i \in Busy(g) \ {h} : job'[i] = job[i] /\ (i \in Missing(g)' <=> i \in Missing(g))
  BY <1>0, OwnBusy
<1>2. h \in Missing(g)
  BY <1>0, <1>1 DEF Missing
<1>3. /\ job'[h].obj = Unused /\ job'[h].pc \in {"list", "write", "fill"}
      /\ Shared(g) => job'[h].next = "list" /\ job'[h].pc = IF manager = "bunt" THEN "write" ELSE "fill"
      /\ job'[h].pc = "write" => job'[h].snap = Stored(NewRecord)
  BY <1>0 DEF Jobs, Shared
<1>4. Group(h)' = g /\ Busy(g)' = Busy(g) /\ \A i \in Busy(g)' : Group(i)' = g
  BY <1>0, <1>1, <1>3, OwnBusy, BusyGroup
<1>5. Trusted(g)' = Trusted(g)
  BY <1>0, <1>1 DEF Trusted
<1>6. CASE ~Shared(g)
  <2>1. Sole(g)' /\ ~Trusted(g)'
    BY <1>1, <1>5, <1>6 DEF Sole, Trusted
  <2>2. QED
    BY <1>4, <2>1, Distrusted
<1>7. CASE Shared(g)
  <2>1. h \in Missing(g)'
    BY <1>1, <1>3, <1>4, <1>7 DEF Missing
  <2>2. Sole(g)'
    BY <1>0, <1>1, <1>2, <1>3, <2>1, SoleKept DEF GroupInv
  <2>3. CASE ~Trusted(g)
    BY <1>4, <1>5, <2>2, <2>3, Distrusted
  <2>4. CASE Trusted(g)
    <3>1. Busy(g) = {h} /\ cache[g] = Null
      BY <1>2, <2>4, Lone
    <3>2. Record(h)' = NewRecord
      BY <1>0, <1>3 DEF Record
    <3>3. Told(g) /\ Nothing(hist[g])
      <4>1. Told(g)
        BY DEF GroupInv
      <4>2. QED
        BY <1>0, <1>2, <2>4, <4>1 DEF Told
    <3>4. Writers(g)' \subseteq {h}
      BY <1>1, <1>4, <3>1
    <3>5. manager = "bunt" => Stored(Record(h)') = Written(h)'
      BY <1>3, <1>7, <3>2 DEF Written
    <3>6. Filed(g)'
      BY <1>0, <3>1, <3>4, <3>5 DEF Filed
    <3>7. Told(g)'
      BY <1>0, <2>4, <3>1, <3>3 DEF Told
    <3>8. Hushed(g)'
      BY <1>0, <1>3, <1>7, <3>3, <3>4 DEF Hushed, Nothing
    <3>9. \A i \in Busy(g)' : Visits(i)'
      BY <1>3, <1>4, <3>1 DEF Visits
    <3>10. QED
      BY <2>2, <3>6, <3>7, <3>8, <3>9 DEF GroupInv
  <2>5. QED
    BY <2>3, <2>4
<1>8. QED
  BY <1>6, <1>7

LEMMA WriteFileKeeps ==
  ASSUME TypeInv, NEW h \in Handlers, NEW g \in Groups, g = Group(h), WriteFile(h), GroupInv(g)
  PROVE  GroupInv(g)'
<1>0. /\ Within(h, g) /\ job[h].pc = "write" /\ UNCHANGED <<manager, cache, heap, hist>> /\ job[h] \in Jobs
      /\ job'[h] = [job[h] EXCEPT !.pc = "fill", !.snap = Null]
      /\ file'[g] = job[h].snap /\ job[h].snap \in StoredRecords /\ manager = "bunt"
  BY WriteFileWithin, JobFacts DEF WriteFile
<1>1. /\ h \in Busy(g) /\ Shared(g)' = Shared(g)
      /\ Missing(g) \subseteq Busy(g) /\ Writers(g) \subseteq Busy(g) /\ Writers(g)' \subseteq Busy(g)' /\ Missing(g)' \subseteq Busy(g)'
      /\ Busy(g)' = IF job'[h].pc = "idle" THEN Busy(g) \ {h} ELSE Busy(g)
      /\ \A i \in Busy(g) \ {h} : job'[i] = job[i] /\ (i \in Missing(g)' <=> i \in Missing(g)) /\ (i \in Writers(g)' <=> i \in Writers(g))
  BY <1>0, OwnBusy
<1>2. h \in Writers(g) /\ (h \in Missing(g) <=> job[h].next = "list")
  BY <1>0, <1>1 DEF Missing, Writers
<1>3. job'[h].pc = "fill" /\ job'[h].obj = job[h].obj /\ job'[h].next = job[h].next /\ job'[h].msg = job[h].msg
  BY <1>0 DEF Jobs
<1>4. Group(h)' = g /\ Busy(g)' = Busy(g) /\ \A i \in Busy(g)' : Group(i)' = g
  BY <1>0, <1>1, <1>3, OwnBusy, BusyGroup
<1>5. Trusted(g)' = Trusted(g)
  BY <1>0, <1>1 DEF Trusted
<1>6. h \in Missing(g)' <=> h \in Missing(g)
  BY <1>1, <1>2, <1>3, <1>4 DEF Missing
<1>7. Sole(g)'
  BY <1>0, <1>1, <1>3, <1>6, SoleKept DEF GroupInv
<1>8. CASE ~Trusted(g)
  BY <1>4, <1>5, <1>7, <1>8, Distrusted
<1>9. CASE Trusted(g)
  <2>0. Filed(g) /\ Told(g) /\ Hushed(g)
    BY DEF GroupInv
  <2>1. Writers(g) = {h} /\ Writers(g)' = {h}
    <3>1. Writers(g) = {h}
      BY <1>2, <1>9, <2>0 DEF Filed
    <3>2. h \in Writers(g)'
      BY <1>1, <1>3, <1>4 DEF Writers
    <3>3. QED
      BY <1>1, <1>4, <3>1, <3>2
  <2>2. Written(h)' = Written(h) /\ Written(h) = job[h].snap /\ Record(h)' = Record(h)
    BY <1>0, <1>3, <1>4 DEF Written, Record
  <2>3. Filed(g)'
    <3>1. job[h].next = "list" \/ ~hist[g].unsaved => Stored(Record(h)) = Written(h)
      BY <1>0, <1>9, <2>0, <2>1 DEF Filed
    <3>2. Stored(Record(h)') = Stored(Record(h))
      BY <2>2
    <3>3. \A i \in Writers(g)' : (job'[i].next = "list" \/ ~hist[g].unsaved) => Stored(Record(i)') = Written(i)'
      BY <1>3, <2>1, <2>2, <3>1, <3>2
    <3>4. QED
      BY <1>0, <2>1, <3>3 DEF Filed
  <2>4. job[h].snap # Absent /\ (hist[g].silent => ~job[h].snap.active)
    BY <1>0, <1>9, <2>0, <2>1, ValuesAssumption DEF Hushed
  <2>5. cache[g] = Null => h \in Missing(g) /\ Nothing(hist[g])
    <3>1. ASSUME cache[g] = Null, h \notin Missing(g) PROVE FALSE
      <4>1. cache[g] = job[h].obj
        BY <1>1, <1>9, <3>1, Held
      <4>2. job[h].obj # Null
        BY <1>0, JobFacts
      <4>3. QED
        BY <3>1, <4>1, <4>2
    <3>2. QED
      BY <1>0, <1>9, <2>0, <3>1 DEF Told
  <2>6. \A i \in Missing(g)' : job'[i].pc \in {"create", "write"} => Nothing(hist[g])
    BY <1>1, <1>3, <1>4, <1>9, <2>0 DEF Told
  <2>7. Told(g)'
    BY <1>0, <1>9, <2>0, <2>4, <2>5, <2>6 DEF Told
  <2>8. Hushed(g)'
    <3>1. job[h].next = "idle" /\ job[h].msg = BotOff => ~Record(h).active /\ Written(h) # Absent /\ ~Written(h).active
      BY <1>0, <1>9, <2>0, <2>1 DEF Hushed
    <3>2. QED
      BY <1>0, <1>3, <2>1, <2>2, <3>1 DEF Hushed
  <2>9. \A i \in Busy(g)' : Visits(i)'
    <3>1. ASSUME NEW i \in Busy(g) \ {h} PROVE Visits(i)'
      <4>1. Record(i)' = Record(i)
        BY <1>0, <1>1 DEF Record
      <4>2. QED
        BY <1>0, <4>1, OthersVisit
    <3>2. Visits(h)'
      BY <1>3 DEF Visits
    <3>3. QED
      BY <1>4, <3>1, <3>2
  <2>10. QED
    BY <1>7, <2>3, <2>7, <2>8, <2>9 DEF GroupInv
<1>10. QED
  BY <1>8, <1>9

LEMMA FillKeeps ==
  ASSUME TypeInv, NEW h \in Handlers, NEW g \in Groups, g = Group(h), Fill(h), GroupInv(g)
  PROVE  GroupInv(g)'
<1>0. /\ Within(h, g) /\ job[h].pc = "fill" /\ UNCHANGED <<manager, file, heap>> /\ job[h] \in Jobs
      /\ job'[h] = IF job[h].next = "list" THEN [job[h] EXCEPT !.pc = "list"] ELSE Idle
      /\ cache'[g] = job[h].obj
      /\ hist'[g] = IF job[h].next = "idle" /\ job[h].msg = BotOff THEN [hist[g] EXCEPT !.silent = TRUE] ELSE hist[g]
      /\ hist[g] \in Notes
  BY FillWithin, JobFacts, StateFacts DEF Fill
<1>1. /\ h \in Busy(g) /\ Shared(g)' = Shared(g)
      /\ Missing(g) \subseteq Busy(g) /\ Writers(g) \subseteq Busy(g) /\ Writers(g)' \subseteq Busy(g)' /\ Missing(g)' \subseteq Busy(g)'
      /\ Busy(g)' = IF job'[h].pc = "idle" THEN Busy(g) \ {h} ELSE Busy(g)
      /\ \A i \in Busy(g) \ {h} : job'[i] = job[i] /\ (i \in Missing(g)' <=> i \in Missing(g)) /\ (i \in Writers(g)' <=> i \in Writers(g))
      /\ \A i \in Busy(g)' : Group(i)' = g
  BY <1>0, OwnBusy, BusyGroup
<1>2. h \in Writers(g) /\ (h \in Missing(g) <=> job[h].next = "list") /\ job[h].next \in {"idle", "list"}
  BY <1>0, <1>1 DEF Missing, Writers, Jobs
<1>3. /\ hist'[g].doubt = hist[g].doubt /\ hist'[g].name = hist[g].name /\ hist'[g].unsaved = hist[g].unsaved
      /\ hist'[g].closed = hist[g].closed /\ hist'[g].system = hist[g].system
      /\ hist'[g].silent = (hist[g].silent \/ (job[h].next = "idle" /\ job[h].msg = BotOff))
  BY <1>0 DEF Notes
<1>4. Trusted(g)' = Trusted(g)
  BY <1>1, <1>3 DEF Trusted
<1>5. /\ job[h].next = "list" => job'[h].pc = "list" /\ job'[h].obj = job[h].obj
      /\ job[h].next = "idle" => job'[h].pc = "idle"
  BY <1>0, IdleFacts DEF Jobs
<1>6. h \notin Writers(g)' /\ h \notin Missing(g)'
  BY <1>2, <1>5 DEF Writers, Missing
<1>7. job[h].obj # Null /\ Record(h) = heap[job[h].obj] /\ Record(h) \in Records
  BY <1>0, JobFacts DEF Record
<1>8. Sole(g)'
  <2>1. SUFFICES ASSUME Shared(g), hist[g].doubt \cap {"records", "file"} = {}
                 PROVE  /\ \A i \in Missing(g)' : cache'[g] = Null /\ Busy(g)' = {i}
                        /\ \A i \in Busy(g)' \ Missing(g)' : cache'[g] = job'[i].obj
    BY <1>1, <1>3 DEF Sole
  <2>2. (\A i \in Missing(g) : cache[g] = Null /\ Busy(g) = {i}) /\ \A i \in Busy(g) \ Missing(g) : cache[g] = job[i].obj
    BY <2>1 DEF GroupInv, Sole
  <2>3. CASE job[h].next = "list"
    <3>1. Busy(g) = {h} /\ Busy(g)' = {h}
      BY <1>1, <1>2, <1>5, <2>2, <2>3
    <3>2. QED
      BY <1>0, <1>1, <1>5, <1>6, <2>3, <3>1
  <2>4. CASE job[h].next = "idle"
    <3>1. cache[g] = job[h].obj /\ Busy(g)' = Busy(g) \ {h}
      BY <1>1, <1>2, <1>5, <2>2, <2>4
    <3>2. Missing(g)' = {}
      BY <1>1, <1>6, <1>7, <2>2, <3>1
    <3>3. QED
      BY <1>0, <1>1, <2>2, <3>1, <3>2
  <2>5. QED
    BY <1>2, <2>3, <2>4
<1>9. CASE ~Trusted(g)
  BY <1>1, <1>4, <1>8, <1>9, Distrusted
<1>10. CASE Trusted(g)
  <2>0. Filed(g) /\ Told(g) /\ Hushed(g)
    BY DEF GroupInv
  <2>1. Writers(g) = {h} /\ Writers(g)' = {}
    <3>1. Writers(g) = {h}
      BY <1>2, <1>10, <2>0 DEF Filed
    <3>2. QED
      BY <1>1, <1>6, <3>1
  <2>2. Written(h) = file[g]
    BY <1>0 DEF Written
  <2>3. manager = "bunt" /\ (job[h].next = "list" \/ ~hist[g].unsaved) => Stored(Record(h)) = file[g]
    BY <1>2, <1>10, <2>0, <2>2 DEF Filed
  <2>4. heap'[cache'[g]] = Record(h) /\ cache'[g] # Null
    BY <1>0, <1>7
  <2>5. Filed(g)'
    BY <1>0, <1>3, <2>1, <2>3, <2>4 DEF Filed
  <2>6. Missing(g)' = {}
    <3>1. CASE job[h].next = "list"
      <4>1. Busy(g) = {h}
        BY <1>2, <1>10, <3>1, Lone
      <4>2. QED
        BY <1>1, <1>5, <1>6, <3>1, <4>1
    <3>2. CASE job[h].next = "idle"
      <4>1. Missing(g) = {}
        BY <1>1, <1>2, <1>10, <3>2, Held
      <4>2. QED
        BY <1>1, <1>6, <4>1
    <3>3. QED
      BY <1>2, <3>1, <3>2
  <2>7. Matches(Record(h), hist'[g])
    <3>1. CASE job[h].next = "list"
      <4>1. cache[g] = Null /\ hist'[g].name = "" /\ ~(job[h].next = "idle")
        BY <1>2, <1>3, <1>10, <2>0, <3>1, Lone DEF Told
      <4>2. Fits(Record(h), hist[g])
        <5>1. CASE Nothing(hist[g])
          BY <5>1 DEF Nothing, Fits
        <5>2. CASE manager = "bunt" /\ Fits(file[g], hist[g])
          BY <1>7, <2>3, <3>1, <5>2, StoredFits
        <5>3. QED
          BY <1>10, <2>0, <4>1, <5>1, <5>2 DEF Told
      <4>3. QED
        BY <1>3, <4>1, <4>2 DEF Matches, Fits
    <3>2. CASE job[h].next = "idle"
      <4>1. cache[g] = job[h].obj /\ Matches(Record(h), hist[g])
        BY <1>1, <1>2, <1>7, <1>10, <2>0, <3>2, Held DEF Told
      <4>2. job[h].msg = BotOff => ~Record(h).active
        BY <1>10, <2>0, <2>1, <3>2 DEF Hushed
      <4>3. QED
        BY <1>3, <4>1, <4>2 DEF Matches, Fits
    <3>3. QED
      BY <1>2, <3>1, <3>2
  <2>8. manager = "bunt" /\ hist'[g].silent => file[g] # Absent /\ ~file[g].active
    <3>1. manager = "bunt" /\ job[h].next = "idle" /\ job[h].msg = BotOff => file[g] # Absent /\ ~file[g].active
      BY <1>10, <2>0, <2>1, <2>2 DEF Hushed
    <3>2. QED
      BY <1>3, <1>10, <2>0, <3>1 DEF Told
  <2>9. Told(g)'
    BY <1>0, <2>4, <2>6, <2>7, <2>8 DEF Told
  <2>10. Hushed(g)'
    BY <2>1 DEF Hushed
  <2>11. \A i \in Busy(g)' : Visits(i)'
    <3>1. ASSUME NEW i \in Busy(g) \ {h} PROVE Visits(i)'
      <4>1. Record(i)' = Record(i)
        BY <1>0, <1>1 DEF Record
      <4>2. QED
        BY <1>0, <1>3, <4>1, OthersVisit
    <3>2. Visits(h)'
      BY <1>2, <1>5 DEF Visits
    <3>3. QED
      BY <1>1, <3>1, <3>2
  <2>12. QED
    BY <1>8, <2>5, <2>9, <2>10, <2>11 DEF GroupInv
<1>11. QED
  BY <1>9, <1>10
-----------------------------------------------------------------------------
(***************************************************************************)
(* What the steps of a command keep in its group.                          *)
(***************************************************************************)
\* The record changes and is not stored.
LEMMA Revises ==
  ASSUME TypeInv, NEW h \in Handlers, NEW g \in Groups, g = Group(h), Within(h, g), GroupInv(g),
         job[h].pc \in {"list", "visit"}, job'[h].pc \in {"idle", "visit"},
         job'[h].pc # "idle" => job'[h].obj = job[h].obj,
         NEW r \in Records, heap'[job[h].obj] = r, NEW n \in Notes, hist'[g] = n,
         UNCHANGED <<manager, file, cache>>,
         n.doubt = hist[g].doubt, n.silent => hist[g].silent,
         n.unsaved <=> (hist[g].unsaved \/ Stored(r) # Stored(Record(h))),
         Trusted(g) => Matches(r, n) /\ Synced(r),
         (r.active => Record(h).active) \/ g = Private,
         job'[h].pc = "visit" => Visits(h)'
  PROVE  GroupInv(g)'
<1>1. /\ h \in Busy(g) /\ Shared(g)' = Shared(g)
      /\ Missing(g) \subseteq Busy(g) /\ Writers(g) \subseteq Busy(g) /\ Writers(g)' \subseteq Busy(g)' /\ Missing(g)' \subseteq Busy(g)'
      /\ Busy(g)' = IF job'[h].pc = "idle" THEN Busy(g) \ {h} ELSE Busy(g)
      /\ \A i \in Busy(g) \ {h} : job'[i] = job[i] /\ (i \in Missing(g)' <=> i \in Missing(g)) /\ (i \in Writers(g)' <=> i \in Writers(g))
      /\ \A i \in Busy(g)' : Group(i)' = g
      /\ \A i \in Busy(g) : Group(i) = g /\ i \in Handlers
  BY OwnBusy, BusyGroup
<1>2. h \notin Missing(g) /\ h \notin Writers(g) /\ h \notin Missing(g)' /\ h \notin Writers(g)'
  BY DEF Missing, Writers
<1>3. Writers(g)' = Writers(g)
  BY <1>1, <1>2
<1>4. Trusted(g)' = Trusted(g)
  BY <1>1 DEF Trusted
<1>5. Sole(g)'
  BY <1>1, <1>2, SoleKept DEF GroupInv
<1>6. CASE ~Trusted(g)
  BY <1>1, <1>4, <1>5, <1>6, Distrusted
<1>7. CASE Trusted(g)
  <2>0. Filed(g) /\ Told(g) /\ Hushed(g)
    BY DEF GroupInv
  <2>1. cache[g] = job[h].obj /\ Missing(g) = {} /\ \A i \in Busy(g) : job[i].obj = cache[g]
    BY <1>1, <1>2, <1>7, Held
  <2>2. job[h].obj # Null /\ Record(h) = heap[cache[g]] /\ heap'[cache[g]] = r /\ Record(h) \in Records
    BY <2>1, JobFacts DEF Record
  <2>3. \A i \in Busy(g) \ {h} : Record(i) = Record(h) /\ Record(i)' = r /\ Written(i)' = Written(i)
    BY <1>1, <2>1, <2>2 DEF Record, Written, Group
  <2>4. Missing(g)' = {}
    BY <1>1, <1>2, <2>1
  <2>5. Filed(g)'
    <3>1. ASSUME NEW i \in Writers(g)', manager = "bunt", job'[i].next = "list" \/ ~n.unsaved
          PROVE  Stored(Record(i)') = Written(i)'
      <4>1. i \in Writers(g) /\ i \in Busy(g) \ {h} /\ job'[i] = job[i]
        BY <1>1, <1>2, <1>3
      <4>2. job[i].next # "list"
        BY <2>1, <4>1 DEF Missing, Writers
      <4>3. ~hist[g].unsaved /\ Stored(r) = Stored(Record(h))
        BY <3>1, <4>1, <4>2
      <4>4. Stored(Record(i)) = Written(i)
        BY <1>7, <2>0, <3>1, <4>1, <4>3 DEF Filed
      <4>5. QED
        BY <2>3, <4>1, <4>3, <4>4
    <3>2. ASSUME manager = "bunt", Writers(g)' = {}, ~n.unsaved PROVE file[g] = Stored(heap'[cache[g]])
      <4>1. file[g] = Stored(heap[cache[g]])
        BY <1>3, <1>7, <2>0, <2>1, <2>2, <3>2 DEF Filed
      <4>2. QED
        BY <2>2, <3>2, <4>1
    <3>3. \A i, l \in Writers(g)' : i = l
      BY <1>3, <1>7, <2>0 DEF Filed
    <3>4. QED
      BY <3>1, <3>2, <3>3 DEF Filed
  <2>6. Told(g)'
    <3>1. manager = "bunt" /\ n.silent => file[g] # Absent /\ ~file[g].active
      BY <1>7, <2>0 DEF Told
    <3>2. QED
      BY <1>7, <2>1, <2>2, <2>4, <3>1 DEF Told
  <2>7. Hushed(g)'
    <3>1. SUFFICES ASSUME NEW i \in Writers(g)'
                   PROVE  /\ job'[i].pc = "write" /\ n.silent => ~job'[i].snap.active
                          /\ job'[i].next = "idle" /\ job'[i].msg = BotOff =>
                               ~Record(i)'.active /\ (manager = "bunt" => Written(i)' # Absent /\ ~Written(i)'.active)
      BY DEF Hushed
    <3>2. i \in Writers(g) /\ i \in Busy(g) \ {h} /\ job'[i] = job[i] /\ i \in Handlers
      BY <1>1, <1>2, <1>3
    <3>3. Shape(i) /\ job[i].pc \in {"write", "fill"} /\ Group(i) = g
      BY <1>1, <3>2, JobFacts DEF Writers
    <3>4. job[i].next = "idle" => g # Private
      BY <3>3 DEF Shape
    <3>5. job[i].pc = "write" /\ hist[g].silent => ~job[i].snap.active
      BY <1>7, <2>0, <3>2 DEF Hushed
    <3>6. job[i].next = "idle" /\ job[i].msg = BotOff => ~Record(i).active /\ (manager = "bunt" => Written(i) # Absent /\ ~Written(i).active)
      BY <1>7, <2>0, <3>2 DEF Hushed
    <3>7. QED
      BY <2>3, <3>2, <3>4, <3>5, <3>6
  <2>8. \A i \in Busy(g)' : Visits(i)'
    <3>1. ASSUME NEW i \in Busy(g) \ {h} PROVE Visits(i)'
      <4>1. Synced(Record(i)')
        BY <1>7, <2>3
      <4>2. QED
        BY <4>1, OthersVisit
    <3>2. job'[h].pc # "idle" => Visits(h)'
      OBVIOUS
    <3>3. QED
      BY <1>1, <3>1, <3>2
  <2>9. QED
    BY <1>5, <2>5, <2>6, <2>7, <2>8 DEF GroupInv
<1>8. QED
  BY <1>6, <1>7

LEMMA HeldMatches ==
  ASSUME TypeInv, NEW h \in Handlers, NEW g \in Groups, g = Group(h), GroupInv(g), Trusted(g), job[h].pc \in {"list", "visit"}
  PROVE  Matches(Record(h), hist[g]) /\ (job[h].pc = "visit" => Synced(Record(h)))
<1>1. h \in Busy(g) /\ h \notin Missing(g) /\ job[h].obj # Null
  BY JobFacts DEF Missing
<1>2. cache[g] = job[h].obj
  BY <1>1, Held
<1>3. Matches(Record(h), hist[g])
  BY <1>1, <1>2 DEF GroupInv, Told, Record
<1>4. job[h].pc = "visit" => Synced(Record(h))
  BY <1>1 DEF GroupInv, Visits
<1>5. QED
  BY <1>3, <1>4

LEMMA AnswersKeeps ==
  ASSUME TypeInv, NEW h \in Handlers, NEW g \in Groups, g = Group(h), GroupInv(g), job[h].pc = "visit",
         NEW r, NEW said, Changed(h, r, said), Answers(h, r, said), r.active = Record(h).active \/ g = Private
  PROVE  GroupInv(g)'
<1> DEFINE n == AnswerNote(h, r, said)
<1>1. r \in Records /\ said \in Notes
  BY DEF Changed
<1>2. /\ Within(h, g) /\ job'[h] = Idle /\ heap'[job[h].obj] = r
      /\ hist'[g] = n /\ UNCHANGED <<manager, file, cache>>
  BY <1>1, AnswersWithin
<1>3. /\ n \in Notes /\ n.silent = said.silent /\ n.closed = said.closed /\ n.system = said.system /\ n.name = said.name
      /\ n.doubt = said.doubt /\ n.unsaved = (said.unsaved \/ Stored(r) # Stored(Record(h)))
  BY <1>1 DEF AnswerNote, Notes
<1> HIDE DEF n
<1>4. n.doubt = hist[g].doubt /\ (n.silent => hist[g].silent) /\ (n.unsaved <=> (hist[g].unsaved \/ Stored(r) # Stored(Record(h))))
  BY <1>3 DEF Changed, Said
<1>5. Trusted(g) => Matches(r, n) /\ Synced(r)
  <2>1. SUFFICES ASSUME Trusted(g) PROVE Matches(r, n) /\ Synced(r)
    OBVIOUS
  <2>2. Matches(Record(h), Said(h)) /\ Synced(Record(h))
    BY <2>1, HeldMatches DEF Said
  <2>3. Matches(r, said) /\ Synced(r)
    BY <2>2 DEF Changed
  <2>4. QED
    BY <1>3, <2>3 DEF Matches, Fits
<1>6. job'[h].pc = "idle"
  BY <1>2, IdleFacts
<1>7. QED
  BY <1>1, <1>2, <1>3, <1>4, <1>5, <1>6, Revises

LEMMA SkipKeeps ==
  ASSUME TypeInv, NEW h \in Handlers, NEW g \in Groups, g = Group(h), GroupInv(g), Skip(h)
  PROVE  GroupInv(g)'
<1> DEFINE n == hist[g]
           q == Tail(job[h].todo)
<1>1. /\ Within(h, g) /\ job'[h] = SkipJob(h) /\ heap'[job[h].obj] = Record(h) /\ hist'[g] = n
      /\ UNCHANGED <<manager, file, cache>> /\ job[h].pc = "visit" /\ ~Willing(h)
  BY SkipWithin DEF Skip
<1>2. job[h] \in Jobs /\ Record(h) \in Records /\ n \in Notes /\ Shape(h) /\ h \in Busy(g) /\ job[h].obj \in Objs
  BY <1>1, JobFacts, StateFacts
<1>3. CASE q = <<>>
  <2>1. job'[h].pc = "idle"
    BY <1>1, <1>3, IdleFacts DEF SkipJob, Asking
  <2>2. QED
    BY <1>1, <1>2, <2>1, HeldMatches, Revises
<1>4. CASE q # <<>>
  <2>1. job'[h] = [job[h] EXCEPT !.pc = "visit", !.todo = q]
    BY <1>1, <1>4 DEF SkipJob, Asking
  <2>1a. q \in Seq(Exts) /\ ToSet(q) \subseteq ToSet(job[h].todo) /\ Head(job[h].todo) \in Exts
    <3>1. job[h].todo \in Seq(Exts) /\ job[h].todo # <<>>
      BY <1>1, <1>2 DEF Jobs, Shape
    <3>2. /\ q \in Seq(Exts) /\ Len(q) = Len(job[h].todo) - 1 /\ \A i \in 1..Len(q) : q[i] = job[h].todo[i + 1]
          /\ Head(job[h].todo) \in Exts
      BY <3>1, HeadTailProperties
    <3>3. /\ DOMAIN q = 1..Len(q) /\ DOMAIN job[h].todo = 1..Len(job[h].todo)
          /\ Len(q) \in Nat /\ Len(job[h].todo) \in Nat
      BY <3>1, <3>2, LenProperties
    <3>4. ASSUME NEW x \in ToSet(q) PROVE x \in ToSet(job[h].todo)
      <4>1. PICK i \in 1..Len(q) : x = q[i]
        BY <3>3 DEF ToSet
      <4>2. i + 1 \in 1..Len(job[h].todo)
        BY <3>2, <3>3
      <4>3. QED
        BY <3>2, <3>3, <4>1, <4>2 DEF ToSet
    <3>5. QED
      BY <3>2, <3>4
  <2> HIDE DEF q
  <2>2. /\ job'[h].pc = "visit" /\ job'[h].obj = job[h].obj /\ job'[h].asked = job[h].asked /\ job'[h].todo = q
        /\ job'[h].msg = job[h].msg /\ job'[h].active = job[h].active
    BY <1>2, <2>1 DEF Jobs
  <2>3. /\ Busy(g)' = Busy(g) /\ Shared(g)' = Shared(g) /\ Group(h)' = g
    BY <1>1, <2>2, OwnBusy
  <2>4. Visits(h)'
    <3>1. SUFFICES ASSUME Trusted(g)
                   PROVE  /\ job[h].asked.silent => ~job[h].active
                          /\ ToSet(q) \cap job[h].asked.closed = {}
                          /\ Synced(Record(h))
                          /\ job[h].msg.word = "st" /\ job[h].asked.system \notin {""} \cup job[h].asked.closed =>
                               Busy(g) = {h} /\ ~job[h].active
      <4>1. Trusted(g)' = Trusted(g)
        BY <1>1, <2>3 DEF Trusted
      <4>2. Record(h)' = Record(h)
        BY <1>1, <2>2 DEF Record
      <4>3. QED
        BY <2>2, <2>3, <4>1, <4>2 DEF Visits
    <3>2. Visits(h)
      BY <1>2 DEF GroupInv
    <3>3. job[h].msg.word = "st" /\ job[h].asked.system \notin {""} \cup job[h].asked.closed => Busy(g) = {h} /\ ~job[h].active
      BY <1>1, <3>1, <3>2 DEF Visits, Willing
    <3>4. QED
      BY <1>1, <2>1a, <3>1, <3>2, <3>3 DEF Visits
  <2>5. QED
    BY <1>1, <1>2, <2>2, <2>4, HeldMatches, Revises
<1>5. QED
  BY <1>3, <1>4

LEMMA ListKeeps ==
  ASSUME TypeInv, NEW h \in Handlers, NEW g \in Groups, g = Group(h), GroupInv(g), List(h)
  PROVE  GroupInv(g)'
<1> DEFINE r == ListRecord(h)
           n == ListNote(h)
           T == {e \in ToSet(r.list) : ListMsg(h).word \in CmdMap[e]}
<1>1. /\ Within(h, g) /\ heap'[job[h].obj] = r /\ hist'[g] = n /\ UNCHANGED <<manager, file, cache>>
      /\ job'[h] = IF ListTodo(h) = <<>> THEN Idle ELSE ListJob(h)
      /\ job[h].pc = "list"
  BY ListWithin DEF List
<1>2. /\ job[h] \in Jobs /\ Record(h) \in Records /\ hist[g] \in Notes /\ h \in Busy(g) /\ job[h].obj \in Objs
      /\ r \in Records /\ n \in Notes /\ T \in SUBSET Exts /\ ToSet(ListTodo(h)) = T
  BY <1>1, JobFacts, StateFacts, ListParts
<1>3. /\ r.active = Record(h).active /\ r.system = Record(h).system /\ r.player # "" /\ Synced(r)
      /\ Record(h).player # "" => r.player = Record(h).player
      /\ \A k \in Spellings : (Record(h).states[k] = "off" => r.states[k] = "off") /\ (Record(h).states[k] = "on" => r.states[k] = "on")
      /\ \A e \in ToSet(r.list) : r.states[e] # "off"
  <2> DEFINE p == WithPlayer(Record(h))
  <2>1. /\ p \in Records /\ p.player # "" /\ (Record(h).player # "" => p.player = Record(h).player)
        /\ p.active = Record(h).active /\ p.system = Record(h).system /\ p.states = Record(h).states
    BY <1>2, PlayerFacts
  <2>2. r = Listed(p)
    BY DEF ListRecord
  <2> HIDE DEF p, r
  <2>3. /\ Listed(p).active = p.active /\ Listed(p).system = p.system /\ Listed(p).player = p.player /\ Synced(Listed(p))
        /\ \A k \in Spellings : (p.states[k] = "off" => Listed(p).states[k] = "off") /\ (p.states[k] = "on" => Listed(p).states[k] = "on")
        /\ \A e \in ToSet(Listed(p).list) : Listed(p).states[e] # "off"
    BY <2>1, ListedFacts
  <2>4. QED
    BY <2>1, <2>2, <2>3
<1>4. /\ n.silent = hist[g].silent /\ n.closed = hist[g].closed /\ n.system = hist[g].system /\ n.doubt = hist[g].doubt
      /\ n.name = (IF hist[g].name = "" THEN r.player ELSE hist[g].name)
      /\ n.unsaved = (hist[g].unsaved \/ Stored(r) # Stored(Record(h)))
  BY <1>2 DEF ListNote, Notes
<1>5. hist[g].closed \subseteq Spellings /\ (hist[g].system # "" => hist[g].system \in Spellings /\ hist[g].system \in Systems)
  BY <1>2 DEF Notes, Systems, Exts, Spellings
<1> HIDE DEF r, n
<1>6. Trusted(g) => Matches(r, n)
  <2>1. SUFFICES ASSUME Trusted(g) PROVE Matches(r, n)
    OBVIOUS
  <2>2. Matches(Record(h), hist[g])
    BY <1>1, <2>1, HeldMatches
  <2>3. QED
    BY <1>3, <1>4, <1>5, <2>2 DEF Matches, Fits
<1>7. n.unsaved <=> (hist[g].unsaved \/ Stored(r) # Stored(Record(h)))
  BY <1>4
<1>7a. /\ n.doubt = hist[g].doubt /\ (n.silent => hist[g].silent) /\ (Trusted(g) => Matches(r, n) /\ Synced(r))
       /\ (r.active => Record(h).active) \/ g = Private
  BY <1>3, <1>4, <1>6
<1>7b. /\ Within(h, g) /\ heap'[job[h].obj] = r /\ hist'[g] = n /\ UNCHANGED <<manager, file, cache>>
       /\ job[h].pc \in {"list", "visit"} /\ r \in Records /\ n \in Notes
  BY <1>1, <1>2
<1>8. CASE ListTodo(h) = <<>>
  <2>1. job'[h].pc = "idle"
    BY <1>1, <1>8, IdleFacts
  <2>2. QED
    BY <1>7, <1>7a, <1>7b, <2>1, Revises
<1>9. CASE ListTodo(h) # <<>>
  <2>1. /\ job'[h].pc = "visit" /\ job'[h].obj = job[h].obj /\ job'[h].asked = ListAsked(h) /\ job'[h].todo = ListTodo(h)
        /\ job'[h].msg = ListMsg(h) /\ job'[h].active = r.active
    BY <1>1, <1>2, <1>9 DEF ListJob, Jobs, r
  <2>2. /\ ListAsked(h).silent = hist[g].silent /\ ListAsked(h).closed = hist[g].closed
        /\ ListAsked(h).system = (IF Busy(g) = {h} THEN hist[g].system ELSE "")
    BY <1>2 DEF ListAsked, Notes
  <2>3. Busy(g)' = Busy(g) /\ Shared(g)' = Shared(g) /\ Group(h)' = g
    BY <1>1, <2>1, OwnBusy
  <2>4. Visits(h)'
    <3>1. SUFFICES ASSUME Trusted(g)
                   PROVE  /\ hist[g].silent => ~r.active
                          /\ T \cap hist[g].closed = {}
                          /\ ListMsg(h).word = "st" /\ ListAsked(h).system \notin {""} \cup hist[g].closed =>
                               /\ Busy(g) = {h} /\ Head(ListTodo(h)) = ListAsked(h).system
                               /\ IsExtensionActive(r, ListAsked(h).system)
      <4>1. Trusted(g)' = Trusted(g)
        BY <1>1, <1>4, <2>3 DEF Trusted
      <4>2. Record(h)' = r
        BY <1>1, <2>1 DEF Record
      <4>3. QED
        BY <1>2, <1>3, <2>1, <2>2, <2>3, <4>1, <4>2 DEF Visits
    <3>2. Matches(r, n)
      BY <1>6, <3>1
    <3>3. hist[g].silent => ~r.active
      BY <1>4, <3>2 DEF Matches, Fits
    <3>4. T \cap hist[g].closed = {}
      BY <1>3, <1>4, <3>2 DEF Matches, Fits
    <3>5. ASSUME ListMsg(h).word = "st", ListAsked(h).system \notin {""} \cup hist[g].closed
          PROVE  /\ Busy(g) = {h} /\ Head(ListTodo(h)) = ListAsked(h).system
                 /\ IsExtensionActive(r, ListAsked(h).system)
      <4> DEFINE s == hist[g].system
      <4>1. Busy(g) = {h} /\ ListAsked(h).system = s /\ s # "" /\ s \notin hist[g].closed
        BY <2>2, <3>5
      <4>2. r.system = s /\ r.states[s] = "on" /\ s \in Systems
        BY <1>4, <1>5, <3>2, <4>1 DEF Matches, Fits
      <4>3. s \in ToSet(r.list)
        BY <1>3, <4>2 DEF Synced, IsExtensionActive, Systems, Exts
      <4>4. "st" \in CmdMap[s] /\ "st" \notin CmdMap["core"]
        <5>1. "st" \in CmdMap["coc7"] /\ "st" \in CmdMap["dnd5e"] /\ "st" \notin CmdMap["core"]
          BY DEF CmdMap
        <5>2. QED
          BY <4>2, <5>1 DEF Systems
      <4>5. s \in T /\ "core" \notin T
        BY <3>5, <4>3, <4>4
      <4>6. ListTodo(h) = Ranked(T, s)
        BY <4>2 DEF ListTodo, r
      <4> HIDE DEF T, s
      <4>7. Head(ListTodo(h)) = s
        BY <1>2, <4>2, <4>5, <4>6, RankedHead
      <4>8. QED
        BY <4>1, <4>2, <4>7 DEF IsExtensionActive
    <3>6. QED
      BY <3>3, <3>4, <3>5
  <2>5. QED
    <3>1. job'[h].pc \in {"idle", "visit"} /\ (job'[h].pc # "idle" => job'[h].obj = job[h].obj) /\ (job'[h].pc = "visit" => Visits(h)')
      BY <2>1, <2>4
    <3>2. QED
      BY <1>7, <1>7a, <1>7b, <3>1, Revises
<1>10. QED
  BY <1>8, <1>9

\* The record changes and is stored.
LEMMA PersistsKeeps ==
  ASSUME TypeInv, NEW h \in Handlers, NEW g \in Groups, g = Group(h), GroupInv(g), job[h].pc = "visit",
         NEW r, NEW said, Changed(h, r, said), Persists(h, r, said), g # Private, job[h].msg = BotOff => ~r.active
  PROVE  GroupInv(g)'
<1> DEFINE n == PersistNote(h, said)
           D == PersistDoubt(h)
<1>1. r \in Records /\ said \in Notes /\ job[h] \in Jobs
  BY JobFacts DEF Changed
<1>2. /\ Within(h, g) /\ job'[h] = PersistJob(h, r) /\ heap'[job[h].obj] = r
      /\ hist'[g] = n /\ UNCHANGED <<manager, file, cache>>
  BY <1>1, PersistsWithin
<1>3. /\ n.silent = said.silent /\ n.closed = said.closed /\ n.system = said.system /\ n.name = said.name
      /\ n.doubt = said.doubt \cup D /\ n.unsaved = FALSE
  BY <1>1 DEF PersistNote, Notes
<1>3a. D \subseteq {"persists"} /\ (D = {} <=> Writers(g) = {})
  BY DEF PersistDoubt, Writers
<1> HIDE DEF n, D
<1>4. n.doubt = hist[g].doubt \cup D /\ (n.silent => hist[g].silent)
  BY <1>3 DEF Changed, Said
<1>5. /\ job'[h].obj = job[h].obj /\ job'[h].next = "idle" /\ job'[h].msg = job[h].msg
      /\ job'[h].pc = IF manager = "bunt" THEN "write" ELSE "fill"
      /\ manager = "bunt" => job'[h].snap = Stored(r)
  BY <1>1, <1>2 DEF PersistJob, Jobs
<1>6. /\ h \in Busy(g) /\ Shared(g)' = Shared(g)
      /\ Missing(g) \subseteq Busy(g) /\ Writers(g) \subseteq Busy(g) /\ Writers(g)' \subseteq Busy(g)' /\ Missing(g)' \subseteq Busy(g)'
      /\ Busy(g)' = IF job'[h].pc = "idle" THEN Busy(g) \ {h} ELSE Busy(g)
      /\ \A i \in Busy(g) \ {h} : job'[i] = job[i] /\ (i \in Missing(g)' <=> i \in Missing(g)) /\ (i \in Writers(g)' <=> i \in Writers(g))
      /\ \A i \in Busy(g)' : Group(i)' = g
      /\ \A i \in Busy(g) : Group(i) = g /\ i \in Handlers
  BY <1>2, OwnBusy, BusyGroup
<1>7. h \notin Missing(g) /\ h \notin Missing(g)'
  BY <1>5 DEF Missing
<1>8. Sole(g)'
  <2>1. hist[g].doubt \cap {"records", "file"} \subseteq hist'[g].doubt
    BY <1>2, <1>4
  <2>2. QED
    BY <1>2, <1>5, <1>6, <1>7, <2>1, SoleKept DEF GroupInv
<1>9. CASE ~Trusted(g)'
  BY <1>6, <1>8, <1>9, Distrusted
<1>10. CASE Trusted(g)'
  <2>1. Trusted(g) /\ Writers(g) = {}
    BY <1>2, <1>3a, <1>4, <1>6, <1>10 DEF Trusted
  <2>2. Filed(g) /\ Told(g) /\ Hushed(g)
    BY DEF GroupInv
  <2>3. cache[g] = job[h].obj /\ Missing(g) = {} /\ \A i \in Busy(g) : job[i].obj = cache[g]
    BY <1>6, <1>7, <2>1, Held
  <2>4. job[h].obj # Null /\ Record(h) = heap[cache[g]] /\ heap'[cache[g]] = r /\ Record(h)' = r
    BY <1>2, <1>5, <2>3, JobFacts DEF Record
  <2>5. Matches(r, n) /\ Synced(r)
    <3>1. Matches(Record(h), Said(h)) /\ Synced(Record(h))
      BY <2>1, HeldMatches DEF Said
    <3>2. Matches(r, said) /\ Synced(r)
      BY <3>1 DEF Changed
    <3>3. QED
      BY <1>3, <3>2 DEF Matches, Fits
  <2>6. Missing(g)' = {} /\ Writers(g)' \subseteq {h} /\ h \in Writers(g)'
    BY <1>5, <1>6, <1>7, <2>1, <2>3 DEF Writers, Group
  <2>7. manager = "bunt" => Written(h)' = Stored(r)
    BY <1>5 DEF Written
  <2>8. Filed(g)'
    BY <1>2, <2>4, <2>6, <2>7 DEF Filed
  <2>9. Told(g)'
    <3>1. manager = "bunt" /\ n.silent => file[g] # Absent /\ ~file[g].active
      BY <1>4, <2>1, <2>2 DEF Told
    <3>2. QED
      BY <1>2, <2>3, <2>4, <2>5, <2>6, <3>1 DEF Told
  <2>10. Hushed(g)'
    <3>1. Stored(r) # Absent /\ Stored(r).active = r.active
      BY <1>1, StoredFacts
    <3>2. n.silent => ~r.active
      BY <2>5 DEF Matches, Fits
    <3>3. QED
      BY <1>2, <1>5, <2>4, <2>6, <2>7, <3>1, <3>2 DEF Hushed
  <2>11. \A i \in Busy(g)' : Visits(i)'
    <3>1. ASSUME NEW i \in Busy(g) \ {h} PROVE Visits(i)'
      <4>1. Record(i)' = r
        BY <1>6, <2>3, <2>4 DEF Record
      <4>2. hist[g].doubt \subseteq hist'[g].doubt
        BY <1>2, <1>4
      <4>3. QED
        BY <1>2, <2>5, <4>1, <4>2, OthersVisit
    <3>2. Visits(h)'
      BY <1>5 DEF Visits
    <3>3. QED
      BY <1>6, <3>1, <3>2
  <2>12. QED
    BY <1>8, <2>8, <2>9, <2>10, <2>11 DEF GroupInv
<1>11. QED
  BY <1>9, <1>10
-----------------------------------------------------------------------------
(***************************************************************************)
(* A message comes, the process is started again.                          *)
(***************************************************************************)
Voided(j) == [j EXCEPT !.asked.system = ""]

LEMMA VoidedFacts ==
  ASSUME NEW j \in Jobs
  PROVE  /\ Voided(j) \in Jobs /\ Voided(j).pc = j.pc /\ Voided(j).g = j.g /\ Voided(j).msg = j.msg /\ Voided(j).obj = j.obj
         /\ Voided(j).todo = j.todo /\ Voided(j).active = j.active /\ Voided(j).snap = j.snap /\ Voided(j).next = j.next
         /\ Voided(j).asked.silent = j.asked.silent /\ Voided(j).asked.closed = j.asked.closed /\ Voided(j).asked.system = ""
<1> DEFINE a == [j.asked EXCEPT !.system = ""]
<1>1. a \in Notes /\ a.silent = j.asked.silent /\ a.closed = j.asked.closed /\ a.system = ""
  BY DEF Jobs, Notes
<1>2. Voided(j) = [j EXCEPT !.asked = a]
  BY DEF Voided, Jobs
<1> HIDE DEF a
<1>3. [j EXCEPT !.asked = a] \in Jobs
  BY <1>1 DEF Jobs
<1>4. QED
  BY <1>1, <1>2, <1>3 DEF Jobs

LEMMA ReceiveFacts ==
  ASSUME TypeInv, NEW h \in Handlers, NEW g \in Groups, NEW msg \in Messages, NEW pc \in {"read", "create", "list"},
         NEW obj \in {Null, cache[g]}, Receive(h, g, msg, pc, obj)
  PROVE  /\ h \notin Busy(g) /\ job[h].pc = "idle" /\ job[h].obj = Null
         /\ job' \in [Handlers -> Jobs] /\ UNCHANGED <<manager, file, cache, heap>>
         /\ job'[h].pc = pc /\ job'[h].g = g /\ job'[h].msg = msg /\ job'[h].obj = obj
         /\ \A i \in Busy(g) : job'[i] = Voided(job[i])
         /\ \A i \in Handlers : i # h /\ i \notin Busy(g) => job'[i] = job[i]
         /\ count' \in [messages : 0..MaxMessages, restarts : 0..MaxRestarts]
<1>1. /\ job[h].pc = "idle" /\ count.messages < MaxMessages /\ UNCHANGED <<manager, file, cache, heap>>
      /\ job' = [i \in Handlers |-> IF i = h THEN [Idle EXCEPT !.pc = pc, !.g = g, !.msg = msg, !.obj = obj]
                                    ELSE IF i \in Busy(g) THEN [job[i] EXCEPT !.asked.system = ""] ELSE job[i]]
      /\ count' = [count EXCEPT !.messages = @ + 1]
  BY DEF Receive
<1> DEFINE j == [Idle EXCEPT !.pc = pc, !.g = g, !.msg = msg, !.obj = obj]
<1>2. j \in Jobs /\ j.pc = pc /\ j.g = g /\ j.msg = msg /\ j.obj = obj
  <2>1. Idle \in Jobs
    BY IdleFacts
  <2>2. obj \in Objs \cup {Null}
    BY StateFacts
  <2>3. msg \in Heard
    BY DEF Heard
  <2>4. QED
    BY <2>1, <2>2, <2>3 DEF Jobs
<1>3. h \notin Busy(g) /\ job[h].obj = Null
  <2>1. job[h] = Idle
    BY <1>1, JobFacts DEF Shape
  <2>2. QED
    BY <1>1, <2>1, IdleFacts DEF Busy
<1> HIDE DEF j
<1>4. job' = [i \in Handlers |-> IF i = h THEN j ELSE IF i \in Busy(g) THEN Voided(job[i]) ELSE job[i]]
  BY <1>1 DEF j, Voided
<1>5. \A i \in Handlers : job[i] \in Jobs /\ Voided(job[i]) \in Jobs
  BY StateFacts, VoidedFacts
<1>6. job' \in [Handlers -> Jobs]
  BY <1>2, <1>4, <1>5
<1>7. count' \in [messages : 0..MaxMessages, restarts : 0..MaxRestarts]
  <2>1. count \in [messages : 0..MaxMessages, restarts : 0..MaxRestarts]
    BY DEF TypeInv, TypeOK
  <2>2. MaxMessages \in Nat
    BY BoundAssumption
  <2>3. count.messages \in 0..MaxMessages /\ count.messages < MaxMessages /\ count.restarts \in 0..MaxRestarts
    BY <1>1, <2>1
  <2>4. count.messages + 1 \in 0..MaxMessages
    BY <2>2, <2>3
  <2>5. count' = [messages |-> count.messages + 1, restarts |-> count.restarts]
    BY <1>1, <2>1
  <2>6. QED
    BY <2>3, <2>4, <2>5
<1>8. Busy(g) \subseteq Handlers
  BY DEF Busy
<1>9. QED
  BY <1>1, <1>2, <1>3, <1>4, <1>6, <1>7, <1>8

\* What a message that comes changes: it finds the record, or looks for it.
Comes(h, g, msg) ==
  \/ LoadHit(h, g, msg)
  \/ LoadMiss(h, g, msg)

LEMMA ComesFacts ==
  ASSUME TypeInv, NEW h \in Handlers, NEW g \in Groups, NEW msg \in Messages, Comes(h, g, msg)
  PROVE  \E pc \in {"read", "create", "list"} : \E obj \in {Null, cache[g]} :
           /\ Receive(h, g, msg, pc, obj)
           /\ hist' \in [Groups -> Notes] /\ \A k \in Groups \ {g} : hist'[k] = hist[k]
           /\ hist[g].doubt \subseteq hist'[g].doubt
           /\ Trusted(g)' => hist'[g] = hist[g]
           /\ \/ pc = "list" /\ cache[g] # Null /\ obj = cache[g] /\ ~NeverStored(g)
              \/ /\ pc = IF manager = "bunt" /\ g # Private THEN "read" ELSE "create"
                 /\ obj = Null /\ (NeverStored(g) \/ cache[g] = Null)
                 /\ Missing(g) = {} \/ "records" \in hist'[g].doubt
<1>1. CASE LoadHit(h, g, msg)
  <2>1. Receive(h, g, msg, "list", cache[g]) /\ hist' = hist /\ cache[g] # Null /\ ~NeverStored(g)
    BY <1>1 DEF LoadHit
  <2>2. QED
    BY <2>1, StateFacts
<1>2. CASE LoadMiss(h, g, msg)
  <2> DEFINE pc == IF manager = "bunt" /\ g # Private THEN "read" ELSE "create"
  <2>1. Receive(h, g, msg, pc, Null) /\ (NeverStored(g) \/ cache[g] = Null)
    BY <1>2 DEF LoadMiss
  <2>2. IF Missing(g) # {} THEN Doubt(g, "records") ELSE UNCHANGED hist
    BY <1>2 DEF LoadMiss
  <2>3. /\ hist' \in [Groups -> Notes] /\ \A k \in Groups \ {g} : hist'[k] = hist[k]
        /\ hist[g].doubt \subseteq hist'[g].doubt
        /\ Trusted(g)' => hist'[g] = hist[g]
        /\ Missing(g) = {} \/ "records" \in hist'[g].doubt
    <3>1. CASE Missing(g) # {}
      <4>1. Doubt(g, "records")
        BY <2>2, <3>1
      <4>2. /\ hist' \in [Groups -> Notes] /\ \A k \in Groups \ {g} : hist'[k] = hist[k]
            /\ hist'[g].doubt = hist[g].doubt \cup {"records"}
        BY <4>1, DoubtNoted
      <4>3. ~Trusted(g)'
        BY <4>2 DEF Trusted
      <4>4. QED
        BY <4>2, <4>3
    <3>2. CASE Missing(g) = {}
      BY <2>2, <3>2, StateFacts
    <3>3. QED
      BY <3>1, <3>2
  <2>4. pc \in {"read", "create", "list"}
    OBVIOUS
  <2> HIDE DEF pc
  <2>5. QED
    BY <2>1, <2>3, <2>4 DEF pc
<1>3. QED
  BY <1>1, <1>2 DEF Comes

LEMMA ComesTypes ==
  ASSUME TypeInv, NEW h \in Handlers, NEW g \in Groups, NEW msg \in Messages, Comes(h, g, msg)
  PROVE  TypeInv'
<1>1. PICK pc \in {"read", "create", "list"}, obj \in {Null, cache[g]} :
           /\ Receive(h, g, msg, pc, obj)
           /\ hist' \in [Groups -> Notes]
           /\ \/ pc = "list" /\ cache[g] # Null /\ obj = cache[g] /\ ~NeverStored(g)
              \/ /\ pc = IF manager = "bunt" /\ g # Private THEN "read" ELSE "create"
                 /\ obj = Null
  BY ComesFacts
<1>2. /\ job[h].pc = "idle" /\ job[h].obj = Null
      /\ job' \in [Handlers -> Jobs] /\ UNCHANGED <<manager, file, cache, heap>>
      /\ job'[h].pc = pc /\ job'[h].g = g /\ job'[h].msg = msg /\ job'[h].obj = obj
      /\ \A i \in Busy(g) : job'[i] = Voided(job[i])
      /\ \A i \in Handlers : i # h /\ i \notin Busy(g) => job'[i] = job[i]
      /\ count' \in [messages : 0..MaxMessages, restarts : 0..MaxRestarts]
      /\ h \notin Busy(g)
  BY <1>1, ReceiveFacts
<1>3. TypeOK /\ Owned /\ \A i \in Handlers : Shape(i)
  BY DEF TypeInv
<1>4. \A i \in Handlers : i # h =>
        /\ job'[i].pc = job[i].pc /\ job'[i].g = job[i].g /\ job'[i].msg = job[i].msg /\ job'[i].obj = job[i].obj
        /\ job'[i].todo = job[i].todo /\ job'[i].snap = job[i].snap /\ job'[i].next = job[i].next
        /\ job[i].pc = "idle" => job'[i] = job[i]
  <2> TAKE i \in Handlers
  <2>1. CASE i \in Busy(g)
    <3>1. job[i] \in Jobs
      BY StateFacts
    <3>2. QED
      BY <1>2, <2>1, <3>1, VoidedFacts DEF Busy
  <2>2. CASE i \notin Busy(g)
    BY <1>2, <2>2
  <2>3. QED
    BY <2>1, <2>2
<1>5. msg # Null /\ (cache[g] # Null => heap[cache[g]] # Null)
  <2>1. msg \in Heard
    BY DEF Heard
  <2>2. QED
    BY <1>3, <2>1, ValuesAssumption DEF TypeOK
<1>6. \A i \in Handlers : /\ job'[i].pc # "idle" => Group(i)' \in Groups /\ job'[i].msg # Null
                          /\ job'[i].pc \in {"write", "fill", "list", "visit"} => job'[i].obj # Null /\ Record(i)' # Null
  <2> TAKE i \in Handlers
  <2>1. CASE i = h
    BY <1>1, <1>2, <1>5, <2>1 DEF Group, Record
  <2>2. CASE i # h
    BY <1>2, <1>3, <1>4, <2>2 DEF TypeOK, Group, Record
  <2>3. QED
    BY <2>1, <2>2
<1>7. /\ manager' \in {"memory", "bunt"} /\ file' \in [Groups -> StoredRecords \cup {Absent}]
      /\ cache' \in [Groups -> Objs \cup {Null}] /\ heap' \in [Objs -> Records \cup {Null}]
      /\ \A k \in Groups : cache'[k] # Null => heap'[cache'[k]] # Null
  BY <1>2, <1>3 DEF TypeOK
<1>8. TypeOK'
  <2>1. job' \in [Handlers -> [pc : {"idle", "read", "create", "write", "fill", "list", "visit"}, g : Groups \cup {Null},
                           msg : Heard \cup {Null}, obj : Objs \cup {Null}, todo : Seq(Exts), active : BOOLEAN,
                           snap : StoredRecords \cup {Null}, next : {"idle", "list"}, asked : Notes]]
    BY <1>2 DEF Jobs
  <2>2. QED
    BY <1>1, <1>2, <1>6, <1>7, <2>1 DEF TypeOK
<1>9. Owned'
  <2>1. \A i \in Handlers : i # h => job'[i].obj = job[i].obj /\ Group(i)' = Group(i)
    BY <1>4 DEF Group
  <2>2. Group(h)' = g /\ (job'[h].obj = Null \/ job'[h].obj = cache[g]) /\ cache' = cache
    BY <1>2 DEF Group
  <2>3. \A k, l \in Groups : cache'[k] # Null /\ cache'[k] = cache'[l] => k = l
    BY <1>3, <2>2 DEF Owned
  <2>4. \A i \in Handlers, k \in Groups : job'[i].obj # Null /\ job'[i].obj = cache'[k] => Group(i)' = k
    <3> TAKE i \in Handlers, k \in Groups
    <3>1. CASE i = h
      BY <1>3, <2>2, <3>1 DEF Owned
    <3>2. CASE i # h
      BY <1>3, <2>1, <2>2, <3>2 DEF Owned
    <3>3. QED
      BY <3>1, <3>2
  <2>5. \A i \in Handlers : job'[i].obj # Null /\ job'[i].obj = job'[h].obj => Group(i)' = g
    BY <2>2, <2>4
  <2>6. \A i, l \in Handlers : job'[i].obj # Null /\ job'[i].obj = job'[l].obj => Group(i)' = Group(l)'
    <3> TAKE i, l \in Handlers
    <3>1. CASE i = h \/ l = h
      BY <2>2, <2>5, <3>1
    <3>2. CASE i # h /\ l # h
      BY <1>3, <2>1, <3>2 DEF Owned
    <3>3. QED
      BY <3>1, <3>2
  <2>7. QED
    BY <2>3, <2>4, <2>6 DEF Owned
<1>10. \A i \in Handlers : Shape(i)'
  <2> TAKE i \in Handlers
  <2>1. CASE i = h
    BY <1>1, <1>2, <2>1 DEF Shape, Group
  <2>2. CASE i # h
    BY <1>2, <1>3, <1>4, <2>2 DEF Shape, Group, Shared, NeverStored
  <2>3. QED
    BY <2>1, <2>2
<1>11. QED
  BY <1>8, <1>9, <1>10 DEF TypeInv
\* The groups the message is not of.
LEMMA ComesOthers ==
  ASSUME TypeInv, NEW h \in Handlers, NEW g \in Groups, NEW msg \in Messages, Comes(h, g, msg), \A k \in Groups : GroupInv(k)
  PROVE  \A k \in Groups \ {g} : GroupInv(k)'
<1> SUFFICES ASSUME NEW k \in Groups, k # g PROVE GroupInv(k)'
  OBVIOUS
<1>0. TypeInv'
  BY ComesTypes
<1>1. PICK pc \in {"read", "create", "list"}, obj \in {Null, cache[g]} :
        Receive(h, g, msg, pc, obj) /\ \A l \in Groups \ {g} : hist'[l] = hist[l]
  BY ComesFacts
<1>2. /\ job[h].pc = "idle" /\ UNCHANGED <<manager, file, cache, heap>>
      /\ job'[h].g = g
      /\ \A i \in Busy(g) : job'[i] = Voided(job[i])
      /\ \A i \in Handlers : i # h /\ i \notin Busy(g) => job'[i] = job[i]
  BY <1>1, ReceiveFacts
<1>3. \A i \in Handlers : i # h => job'[i].pc = job[i].pc /\ Group(i)' = Group(i)
  <2> TAKE i \in Handlers
  <2>1. CASE i \in Busy(g)
    <3>1. job[i] \in Jobs /\ job'[i] = Voided(job[i])
      BY <1>2, <2>1, StateFacts
    <3>2. job'[i].pc = job[i].pc /\ job'[i].g = job[i].g
      BY <3>1, VoidedFacts
    <3>3. QED
      BY <3>2 DEF Group
  <2>2. CASE i \notin Busy(g)
    BY <1>2, <2>2 DEF Group
  <2>3. QED
    BY <2>1, <2>2
<1>4. h \notin Busy(k) /\ Busy(k)' = Busy(k)
  <2>1. Group(h)' = g /\ h \notin Busy(k) /\ h \notin Busy(k)'
    BY <1>2 DEF Busy, Group
  <2>2. \A i \in Handlers : i # h => (i \in Busy(k)' <=> i \in Busy(k))
    BY <1>3 DEF Busy
  <2>3. Busy(k) \subseteq Handlers /\ Busy(k)' \subseteq Handlers
    BY DEF Busy
  <2>4. QED
    BY <2>1, <2>2, <2>3
<1>5. \A i \in Busy(k) : job'[i] = job[i] /\ Record(i)' = Record(i)
  <2> TAKE i \in Busy(k)
  <2>1. i \in Handlers /\ i # h /\ i \notin Busy(g)
    BY <1>4 DEF Busy
  <2>2. QED
    BY <1>2, <2>1 DEF Record
<1>6. QED
  BY <1>0, <1>1, <1>2, <1>4, <1>5, Untouched

LEMMA ComesKeeps ==
  ASSUME TypeInv, NEW h \in Handlers, NEW g \in Groups, NEW msg \in Messages, Comes(h, g, msg), GroupInv(g)
  PROVE  GroupInv(g)'
<1>1. PICK pc \in {"read", "create", "list"}, obj \in {Null, cache[g]} :
           /\ Receive(h, g, msg, pc, obj)
           /\ hist[g].doubt \subseteq hist'[g].doubt
           /\ Trusted(g)' => hist'[g] = hist[g]
           /\ \/ pc = "list" /\ cache[g] # Null /\ obj = cache[g] /\ ~NeverStored(g)
              \/ /\ pc = IF manager = "bunt" /\ g # Private THEN "read" ELSE "create"
                 /\ obj = Null /\ (NeverStored(g) \/ cache[g] = Null)
                 /\ Missing(g) = {} \/ "records" \in hist'[g].doubt
  BY ComesFacts
<1>2. /\ h \notin Busy(g) /\ UNCHANGED <<manager, file, cache, heap>>
      /\ job'[h].pc = pc /\ job'[h].g = g /\ job'[h].msg = msg /\ job'[h].obj = obj
      /\ \A i \in Busy(g) : job'[i] = Voided(job[i])
      /\ \A i \in Handlers : i # h /\ i \notin Busy(g) => job'[i] = job[i]
  BY <1>1, ReceiveFacts
<1>3. \A i \in Busy(g) : /\ i \in Handlers /\ i # h /\ Group(i) = g /\ job[i].pc # "idle"
                         /\ job'[i].pc = job[i].pc /\ job'[i].g = job[i].g /\ job'[i].msg = job[i].msg /\ job'[i].obj = job[i].obj
                         /\ job'[i].todo = job[i].todo /\ job'[i].active = job[i].active /\ job'[i].snap = job[i].snap
                         /\ job'[i].next = job[i].next /\ job'[i].asked.silent = job[i].asked.silent
                         /\ job'[i].asked.closed = job[i].asked.closed /\ job'[i].asked.system = ""
  <2> TAKE i \in Busy(g)
  <2>1. i \in Handlers /\ i # h /\ Group(i) = g /\ job[i].pc # "idle"
    BY <1>2 DEF Busy
  <2>2. job[i] \in Jobs
    BY <2>1, StateFacts
  <2>3. QED
    BY <1>2, <2>1, <2>2, VoidedFacts
<1>4. Busy(g)' = Busy(g) \cup {h}
  <2>1. h \in Busy(g)'
    BY <1>1, <1>2 DEF Busy, Group
  <2>2. \A i \in Busy(g) : i \in Busy(g)'
    BY <1>3 DEF Busy, Group
  <2>3. \A i \in Handlers : i \notin Busy(g) /\ i # h => i \notin Busy(g)'
    BY <1>2 DEF Busy, Group
  <2>4. Busy(g) \subseteq Handlers /\ Busy(g)' \subseteq Handlers
    BY DEF Busy
  <2>5. QED
    BY <2>1, <2>2, <2>3, <2>4
<1>5. Missing(g)' = IF pc = "list" THEN Missing(g) ELSE Missing(g) \cup {h}
  <2>1. \A i \in Busy(g) : i \in Missing(g)' <=> i \in Missing(g)
    BY <1>3, <1>4 DEF Missing
  <2>2. h \in Missing(g)' <=> pc # "list"
    BY <1>2, <1>4 DEF Missing
  <2>3. Missing(g) \subseteq Busy(g) /\ Missing(g)' \subseteq Busy(g)'
    BY DEF Missing
  <2>4. QED
    BY <1>2, <1>4, <2>1, <2>2, <2>3
<1>6. Writers(g)' = Writers(g) /\ Writers(g) \subseteq Busy(g)
  <2>1. \A i \in Busy(g) : i \in Writers(g)' <=> i \in Writers(g)
    BY <1>3, <1>4 DEF Writers
  <2>2. h \notin Writers(g)'
    BY <1>2 DEF Writers
  <2>3. Writers(g) \subseteq Busy(g) /\ Writers(g)' \subseteq Busy(g)'
    BY DEF Writers
  <2>4. QED
    BY <1>4, <2>1, <2>2, <2>3
<1>7. /\ Shared(g)' = Shared(g) /\ (Trusted(g)' => Trusted(g))
      /\ \A i \in Busy(g) : Record(i)' = Record(i) /\ Group(i)' = Group(i) /\ Written(i)' = Written(i)
  BY <1>1, <1>2, <1>3 DEF Shared, NeverStored, Trusted, Record, Group, Written
<1>8. Shared(g) /\ pc # "list" /\ hist'[g].doubt \cap {"records", "file"} = {} => Busy(g) = {} /\ Missing(g) = {} /\ cache[g] = Null
  <2> SUFFICES ASSUME Shared(g), pc # "list", hist'[g].doubt \cap {"records", "file"} = {}
               PROVE  Busy(g) = {} /\ Missing(g) = {} /\ cache[g] = Null
    OBVIOUS
  <2>1. Missing(g) = {} /\ cache[g] = Null /\ hist[g].doubt \cap {"records", "file"} = {}
    BY <1>1 DEF Shared
  <2>2. ASSUME NEW i \in Busy(g) PROVE FALSE
    <3>1. i \notin Missing(g) /\ cache[g] = job[i].obj
      BY <2>1 DEF GroupInv, Sole
    <3>2. job[i] \in Jobs /\ i \in Handlers
      BY <1>3, StateFacts
    <3>3. job[i].pc \in {"write", "fill", "list", "visit"}
      BY <1>3, <3>1, <3>2 DEF Missing, Jobs
    <3>4. job[i].obj # Null
      BY <3>2, <3>3, JobFacts
    <3>5. QED
      BY <2>1, <3>1, <3>4
  <2>3. QED
    BY <2>1, <2>2
<1>9. Sole(g)'
  <2> SUFFICES ASSUME Shared(g), hist'[g].doubt \cap {"records", "file"} = {}
               PROVE  /\ \A i \in Missing(g)' : cache'[g] = Null /\ Busy(g)' = {i}
                      /\ \A i \in Busy(g)' \ Missing(g)' : cache'[g] = job'[i].obj
    BY <1>7 DEF Sole
  <2>1. CASE pc = "list"
    <3>1. /\ \A i \in Missing(g) : cache[g] = Null
          /\ \A i \in Busy(g) \ Missing(g) : cache[g] = job[i].obj
      <4>1. hist[g].doubt \cap {"records", "file"} = {}
        BY <1>1
      <4>2. QED
        BY <4>1 DEF GroupInv, Sole
    <3>2. cache[g] # Null /\ obj = cache[g]
      BY <1>1, <2>1
    <3>3. Missing(g)' = {}
      BY <1>5, <2>1, <3>1, <3>2
    <3>4. QED
      BY <1>2, <1>3, <1>4, <1>5, <2>1, <3>1, <3>2, <3>3
  <2>2. CASE pc # "list"
    <3>1. Busy(g) = {} /\ Missing(g) = {} /\ cache[g] = Null
      BY <1>8, <2>2
    <3>2. Busy(g)' = {h} /\ Missing(g)' = {h}
      BY <1>4, <1>5, <2>2, <3>1
    <3>3. QED
      BY <1>2, <3>1, <3>2
  <2>3. QED
    BY <2>1, <2>2
<1>10. CASE ~Trusted(g)'
  BY <1>9, <1>10, BusyGroup, Distrusted
<1>11. CASE Trusted(g)'
  <2>0. Trusted(g) /\ hist'[g] = hist[g] /\ Filed(g) /\ Told(g) /\ Hushed(g) /\ \A i \in Busy(g) : Visits(i)
    BY <1>1, <1>7, <1>11 DEF GroupInv
  <2>6. \A i \in Writers(g) : /\ job'[i].pc = job[i].pc /\ job'[i].msg = job[i].msg /\ job'[i].next = job[i].next
                             /\ job'[i].snap = job[i].snap /\ Record(i)' = Record(i) /\ Written(i)' = Written(i)
    BY <1>3, <1>6, <1>7
  <2>1. Filed(g)'
    <3>1. /\ \A a, b \in Writers(g) : a = b
          /\ \A i \in Writers(g) : manager = "bunt" /\ (job[i].next = "list" \/ ~hist[g].unsaved) => Stored(Record(i)) = Written(i)
          /\ manager = "bunt" /\ Writers(g) = {} /\ cache[g] # Null /\ ~hist[g].unsaved => file[g] = Stored(heap[cache[g]])
      BY <2>0 DEF Filed
    <3>2. \A i \in Writers(g)' : manager' = "bunt" /\ (job'[i].next = "list" \/ ~hist[g].unsaved) => Stored(Record(i)') = Written(i)'
      BY <1>2, <1>6, <2>6, <3>1
    <3>3. QED
      BY <1>2, <1>6, <2>0, <3>1, <3>2 DEF Filed
  <2>2. Hushed(g)'
    <3>1. \A i \in Writers(g) :
            /\ job[i].pc = "write" /\ hist[g].silent => ~job[i].snap.active
            /\ job[i].next = "idle" /\ job[i].msg = BotOff =>
                 /\ ~Record(i).active
                 /\ manager = "bunt" => Written(i) # Absent /\ ~Written(i).active
      BY <2>0 DEF Hushed
    <3>2. \A i \in Writers(g)' :
            /\ job'[i].pc = "write" /\ hist[g].silent => ~job'[i].snap.active
            /\ job'[i].next = "idle" /\ job'[i].msg = BotOff =>
                 /\ ~Record(i)'.active
                 /\ manager' = "bunt" => Written(i)' # Absent /\ ~Written(i)'.active
      BY <1>2, <1>6, <2>6, <3>1
    <3>3. QED
      BY <2>0, <3>2 DEF Hushed
  <2>3. \A i \in Missing(g)' : job'[i].pc \in {"create", "write"} => Nothing(hist[g])
    <3> SUFFICES ASSUME NEW i \in Missing(g)', job'[i].pc \in {"create", "write"} PROVE Nothing(hist[g])
      OBVIOUS
    <3>1. CASE i \in Missing(g)
      <4>1. i \in Busy(g)
        BY <3>1 DEF Missing
      <4>2. QED
        BY <1>3, <2>0, <3>1, <4>1 DEF Told
    <3>2. CASE i \notin Missing(g)
      <4>1. i = h /\ pc = "create"
        BY <1>2, <1>5, <3>2
      <4>2. Shared(g) /\ hist'[g].doubt = {}
        BY <1>7, <1>11, <2>0 DEF Trusted
      <4>3. hist'[g].doubt \cap {"records", "file"} = {}
        BY <4>2
      <4>4. cache[g] = Null
        BY <1>8, <4>1, <4>2, <4>3
      <4>5. manager # "bunt"
        BY <1>1, <4>1, <4>2 DEF Shared, NeverStored
      <4>6. QED
        BY <2>0, <4>4, <4>5 DEF Told
    <3>3. QED
      BY <3>1, <3>2
  <2>4. Told(g)'
    BY <1>2, <2>0, <2>3 DEF Told
  <2>5. \A i \in Busy(g)' : Visits(i)'
    <3> SUFFICES ASSUME NEW i \in Busy(g)' PROVE Visits(i)'
      OBVIOUS
    <3>1. CASE i = h
      BY <1>1, <1>2, <3>1 DEF Visits
    <3>2. CASE i # h
      <4>1. i \in Busy(g)
        BY <1>4, <3>2
      <4>2. Visits(i) /\ Group(i) = g /\ Group(i)' = g
        BY <1>3, <1>7, <2>0, <4>1
      <4>3. QED
        BY <1>3, <1>7, <2>0, <4>1, <4>2 DEF Visits
    <3>3. QED
      BY <3>1, <3>2
  <2>7. QED
    BY <1>9, <2>1, <2>2, <2>4, <2>5 DEF GroupInv
<1>12. QED
  BY <1>10, <1>11
\* The process is started again: what is remembered is in the file.
LEMMA RestartTypes == ASSUME TypeInv, Restart PROVE TypeInv'
<1>1. /\ cache' = [g \in Groups |-> Null] /\ heap' = [o \in Objs |-> Null] /\ job' = [h \in Handlers |-> Idle]
      /\ hist' = [g \in Groups |-> Remembered(g)] /\ count' = [count EXCEPT !.restarts = @ + 1]
      /\ count.restarts < MaxRestarts /\ manager' = manager /\ file' = file
  BY DEF Restart
<1>2. count' \in [messages : 0..MaxMessages, restarts : 0..MaxRestarts]
  <2>1. count \in [messages : 0..MaxMessages, restarts : 0..MaxRestarts] /\ MaxRestarts \in Nat
    BY BoundAssumption DEF TypeInv, TypeOK
  <2>2. count.restarts + 1 \in 0..MaxRestarts /\ count.messages \in 0..MaxMessages
    BY <1>1, <2>1
  <2>3. count' = [messages |-> count.messages, restarts |-> count.restarts + 1]
    BY <1>1, <2>1
  <2>4. QED
    BY <2>2, <2>3
<1>3. hist' \in [Groups -> Notes]
  <2>1. ASSUME NEW g \in Groups PROVE Remembered(g) \in Notes
    <3>1. hist[g] \in Notes
      BY StateFacts
    <3>2. (hist[g].silent /\ manager = "bunt") \in BOOLEAN
      BY <3>1 DEF Notes
    <3>3. QED
      BY <3>1, <3>2 DEF Remembered, Notes
  <2>2. QED
    BY <1>1, <2>1
<1>4. \A h \in Handlers : job'[h] = Idle /\ job'[h].pc = "idle" /\ job'[h].obj = Null
  BY <1>1, IdleFacts
<1>5. job' \in [Handlers -> Jobs]
  BY <1>1, IdleFacts
<1>6. /\ manager' \in {"memory", "bunt"} /\ file' \in [Groups -> StoredRecords \cup {Absent}]
      /\ cache' \in [Groups -> Objs \cup {Null}] /\ heap' \in [Objs -> Records \cup {Null}]
      /\ \A k \in Groups : cache'[k] = Null
  BY <1>1, StateFacts
<1>7. TypeOK'
  BY <1>2, <1>3, <1>4, <1>5, <1>6 DEF TypeOK, Jobs
<1>8. Owned'
  BY <1>4, <1>6 DEF Owned
<1>9. \A h \in Handlers : Shape(h)'
  BY <1>4 DEF Shape
<1>10. QED
  BY <1>7, <1>8, <1>9 DEF TypeInv

LEMMA RestartKeeps ==
  ASSUME TypeInv, NEW g \in Groups, GroupInv(g), Restart
  PROVE  GroupInv(g)'
<1>1. /\ cache'[g] = Null /\ \A h \in Handlers : job'[h].pc = "idle"
      /\ hist'[g] = Remembered(g) /\ manager' = manager /\ file' = file
  BY IdleFacts DEF Restart
<1>2. Busy(g)' = {} /\ Missing(g)' = {} /\ Writers(g)' = {}
  BY <1>1 DEF Busy, Missing, Writers
<1>3. hist[g] \in Notes
  BY StateFacts
<1> DEFINE n == hist'[g]
           lost == hist[g].unsaved \/ Busy(g) # {} \/ manager = "memory"
<1>4. /\ n.name = "" /\ n.doubt = hist[g].doubt /\ (n.silent => hist[g].silent)
      /\ lost => n.closed = {} /\ n.system = "" /\ (n.silent => manager = "bunt")
      /\ ~lost => n.silent = hist[g].silent /\ n.closed = hist[g].closed /\ n.system = hist[g].system
  BY <1>1, <1>3 DEF Remembered, Notes
<1> HIDE DEF n
<1>5. CASE ~Trusted(g)'
  <2>1. Sole(g)'
    BY <1>2 DEF Sole
  <2>2. QED
    BY <1>5, <2>1, BusyGroup, Distrusted
<1>6. CASE Trusted(g)'
  <2>1. Trusted(g) /\ Filed(g) /\ Told(g)
    BY <1>1, <1>4, <1>6 DEF Trusted, Shared, NeverStored, GroupInv, n
  <2>2. manager = "bunt" /\ n.silent => file[g] # Absent /\ ~file[g].active
    BY <1>4, <2>1 DEF Told
  <2>3. Nothing(n) \/ (manager = "bunt" /\ file[g] # Absent /\ Fits(file[g], n))
    <3>1. CASE lost
      BY <1>4, <2>2, <3>1 DEF Nothing, Fits
    <3>2. CASE ~lost /\ cache[g] # Null
      <4>1. manager = "bunt" /\ Writers(g) = {} /\ ~hist[g].unsaved
        BY <3>2, StateFacts DEF Writers
      <4>2. file[g] = Stored(heap[cache[g]]) /\ heap[cache[g]] \in Records
        BY <2>1, <3>2, <4>1, StateFacts DEF Filed
      <4>3. Fits(heap[cache[g]], hist[g])
        BY <2>1, <3>2 DEF Told, Matches
      <4>4. file[g] # Absent /\ Fits(file[g], hist[g])
        BY <4>2, <4>3, StoredFacts, StoredFits
      <4>5. QED
        BY <1>4, <3>2, <4>1, <4>4 DEF Fits
    <3>3. CASE ~lost /\ cache[g] = Null
      <4>1. Nothing(hist[g]) \/ (manager = "bunt" /\ file[g] # Absent /\ Fits(file[g], hist[g]))
        BY <2>1, <3>3 DEF Told
      <4>2. QED
        BY <1>4, <3>3, <4>1 DEF Nothing, Fits
    <3>4. QED
      BY <3>1, <3>2, <3>3
  <2>4. Told(g)'
    BY <1>1, <1>2, <1>4, <2>2, <2>3 DEF Told, n
  <2>5. Sole(g)' /\ Filed(g)' /\ Hushed(g)'
    BY <1>1, <1>2 DEF Sole, Filed, Hushed
  <2>6. QED
    BY <1>2, <2>4, <2>5 DEF GroupInv
<1>7. QED
  BY <1>5, <1>6
-----------------------------------------------------------------------------
(***************************************************************************)
(* The invariant.                                                          *)
(***************************************************************************)
LEMMA InitIInv == Init => IInv
<1> SUFFICES ASSUME Init PROVE IInv
  OBVIOUS
<1>1. /\ manager \in {"memory", "bunt"} /\ cache = [g \in Groups |-> Null] /\ heap = [o \in Objs |-> Null]
      /\ job = [h \in Handlers |-> Idle] /\ hist = [g \in Groups |-> NothingSaid]
      /\ count = [messages |-> 0, restarts |-> 0]
  BY DEF Init
<1>2. file \in [Groups -> StoredRecords \cup {Absent}]
  <2>1. PICK old \in SUBSET Rooms : file = [g \in Groups |-> IF g \in old THEN Older ELSE Absent]
    BY DEF Init
  <2>2. QED
    BY <2>1, OlderFacts
<1>3. job \in [Handlers -> Jobs] /\ \A h \in Handlers : job[h] = Idle /\ job[h].pc = "idle" /\ job[h].obj = Null
  BY <1>1, IdleFacts
<1>4. count \in [messages : 0..MaxMessages, restarts : 0..MaxRestarts]
  BY <1>1, BoundAssumption
<1>5. NothingSaid \in Notes
  BY DEF NothingSaid, Notes
<1>6. TypeOK
  BY <1>1, <1>2, <1>3, <1>4, <1>5 DEF TypeOK, Jobs
<1>7. TypeInv
  BY <1>1, <1>3, <1>6 DEF TypeInv, Owned, Shape
<1>8. ASSUME NEW g \in Groups PROVE GroupInv(g)
  <2>1. Busy(g) = {} /\ Missing(g) = {} /\ Writers(g) = {} /\ cache[g] = Null /\ hist[g] = NothingSaid
    BY <1>1, <1>3 DEF Busy, Missing, Writers
  <2> DEFINE n == hist[g]
  <2> HIDE DEF n
  <2>4. n = NothingSaid
    BY <2>1 DEF n
  <2>5. n.silent = FALSE /\ n.closed = {} /\ n.system = "" /\ n.name = ""
    BY <2>4 DEF NothingSaid
  <2>2. Nothing(n) /\ n.name = "" /\ ~n.silent
    BY <2>5 DEF Nothing
  <2>3. QED
    BY <2>1, <2>2 DEF GroupInv, Sole, Filed, Told, Hushed, n
<1>9. QED
  BY <1>7, <1>8 DEF IInv

\* A step of a handler in its group.
LEMMA StepKeeps ==
  ASSUME IInv, NEW h \in Handlers, Finds(h) \/ Dispatches(h)
  PROVE  IInv'
<1>1. TypeInv /\ \A k \in Groups : GroupInv(k)
  BY DEF IInv
<1>2. job[h].pc # "idle"
  <2>1. CASE Commands(h)
    BY <1>1, <2>1, CommandsChange
  <2>2. CASE ~Commands(h)
    BY <2>2 DEF Finds, Dispatches, ReadFile, ReadFails, Create, WriteFile, WriteFails, Fill, List, Skip
  <2>3. QED
    BY <2>1, <2>2
<1>3. Group(h) \in Groups
  BY <1>1, <1>2, JobFacts
<1>4. PICK g \in Groups : g = Group(h)
  BY <1>3
<1>5. GroupInv(g)
  BY <1>1
<1>6. Within(h, g) /\ GroupInv(g)'
  <2>1. CASE ReadFile(h)
    BY <1>1, <1>4, <1>5, <2>1, ReadFileWithin, ReadFileKeeps
  <2>2. CASE ReadFails(h)
    BY <1>1, <1>4, <2>2, ReadFailsWithin, BusyGroup, Doubted
  <2>3. CASE Create(h)
    BY <1>1, <1>4, <1>5, <2>3, CreateWithin, CreateKeeps
  <2>4. CASE WriteFile(h)
    BY <1>1, <1>4, <1>5, <2>4, WriteFileWithin, WriteFileKeeps
  <2>5. CASE WriteFails(h)
    BY <1>1, <1>4, <2>5, WriteFailsWithin, BusyGroup, Doubted
  <2>6. CASE Fill(h)
    BY <1>1, <1>4, <1>5, <2>6, FillWithin, FillKeeps
  <2>7. CASE List(h)
    BY <1>1, <1>4, <1>5, <2>7, ListWithin, ListKeeps
  <2>8. CASE Skip(h)
    BY <1>1, <1>4, <1>5, <2>8, SkipWithin, SkipKeeps
  <2>9. CASE Commands(h)
    <3>1. job[h].pc = "visit"
      BY <1>1, <2>9, CommandsChange
    <3>2. PICK r, said : /\ Changed(h, r, said)
                         /\ \/ Answers(h, r, said) /\ r.active = Record(h).active
                            \/ Persists(h, r, said) /\ (job[h].msg = BotOff => ~r.active)
      BY <1>1, <2>9, CommandsChange
    <3>3. r \in Records /\ said \in Notes
      BY <3>2 DEF Changed
    <3>4. CASE Answers(h, r, said) /\ (r.active = Record(h).active \/ g = Private)
      BY <1>1, <1>4, <1>5, <3>1, <3>2, <3>3, <3>4, AnswersWithin, AnswersKeeps
    <3>5. CASE Persists(h, r, said) /\ (job[h].msg = BotOff => ~r.active) /\ g # Private
      BY <1>1, <1>4, <1>5, <3>1, <3>2, <3>3, <3>5, PersistsWithin, PersistsKeeps
    <3>6. Persists(h, r, said) /\ g = Private => Answers(h, r, said)
      BY <1>4 DEF Persists
    <3>7. QED
      BY <3>2, <3>4, <3>5, <3>6
  <2>10. QED
    BY <2>1, <2>2, <2>3, <2>4, <2>5, <2>6, <2>7, <2>8, <2>9 DEF Finds, Dispatches
<1>7. TypeInv'
  BY <1>1, <1>6, WithinTypes
<1>8. \A k \in Groups \ {g} : GroupInv(k)'
  BY <1>1, <1>6, WithinOthers
<1>9. QED
  BY <1>6, <1>7, <1>8 DEF IInv

LEMMA StutterKeeps == ASSUME IInv, UNCHANGED vars PROVE IInv'
<1>1. TypeInv /\ \A k \in Groups : GroupInv(k)
  BY DEF IInv
<1>2. UNCHANGED <<manager, file, cache, heap, job, hist, count>>
  BY DEF vars
<1>3. TypeInv'
  BY <1>1, <1>2 DEF TypeInv, TypeOK, Owned, Shape, Group, Record, Shared, NeverStored
<1>4. ASSUME NEW k \in Groups PROVE GroupInv(k)'
  <2>1. Busy(k)' = Busy(k) /\ GroupInv(k)
    BY <1>1, <1>2 DEF Busy, Group
  <2>2. \A i \in Busy(k) : job'[i] = job[i] /\ Record(i)' = Record(i)
    BY <1>2 DEF Record
  <2>3. QED
    BY <1>1, <1>2, <1>3, <2>1, <2>2, Untouched
<1>5. QED
  BY <1>3, <1>4 DEF IInv

LEMMA NextIInv == IInv /\ [Next]_vars => IInv'
<1> SUFFICES ASSUME IInv, [Next]_vars PROVE IInv'
  OBVIOUS
<1>1. TypeInv /\ \A k \in Groups : GroupInv(k)
  BY DEF IInv
<1>2. ASSUME NEW h \in Handlers, NEW g \in Groups, NEW msg \in Messages, LoadHit(h, g, msg) \/ LoadMiss(h, g, msg)
      PROVE  IInv'
  <2>1. Comes(h, g, msg)
    BY <1>2 DEF Comes
  <2>2. TypeInv' /\ GroupInv(g)' /\ \A k \in Groups \ {g} : GroupInv(k)'
    BY <1>1, <2>1, ComesTypes, ComesKeeps, ComesOthers
  <2>3. QED
    BY <2>2 DEF IInv
<1>3. CASE Restart
  <2>1. TypeInv' /\ \A k \in Groups : GroupInv(k)'
    BY <1>1, <1>3, RestartTypes, RestartKeeps
  <2>2. QED
    BY <2>1 DEF IInv
<1>4. CASE UNCHANGED vars
  BY <1>4, StutterKeeps
<1>5. QED
  BY <1>2, <1>3, <1>4, StepKeeps DEF Next

LEMMA GroupInvariant == Spec => []IInv
BY InitIInv, NextIInv, PTL DEF Spec
-----------------------------------------------------------------------------
(***************************************************************************)
(* The properties.                                                         *)
(***************************************************************************)
\* Every variable keeps its type, the record a handler works on and the record in the cache exist.
THEOREM GroupTypeOK == Spec => []TypeOK
<1>1. IInv => TypeOK
  BY DEF IInv, TypeInv
<1>2. QED
  BY <1>1, GroupInvariant, PTL

\* A group has one record: what a handler dispatches a message with is what the next message finds.
THEOREM GroupHasOneRecord == Spec => []OneRecord
<1>1. IInv => OneRecord
  <2> SUFFICES ASSUME IInv, NEW h \in Handlers, job[h].pc \in {"list", "visit"}, Shared(Group(h)),
                      hist[Group(h)].doubt \cap {"records", "file"} = {}
               PROVE  cache[Group(h)] = job[h].obj
    BY DEF OneRecord
  <2>1. Group(h) \in Groups /\ h \in Busy(Group(h))
    BY JobFacts DEF IInv
  <2>2. h \notin Missing(Group(h))
    BY DEF Missing
  <2>3. QED
    BY <2>1, <2>2 DEF IInv, GroupInv, Sole
<1>2. QED
  BY <1>1, GroupInvariant, PTL

\* The settings of a group nobody is talking in are in the file as they are in the cache.
THEOREM SettingsAreSaved == Spec => []SettingsSurvive
<1>1. IInv => SettingsSurvive
  <2> SUFFICES ASSUME IInv, NEW g \in Rooms, manager = "bunt", cache[g] # Null, Busy(g) = {}, hist[g].doubt = {}, ~hist[g].unsaved
               PROVE  file[g] = Stored(heap[cache[g]])
    BY DEF SettingsSurvive
  <2>1. g \in Groups /\ Trusted(g) /\ Writers(g) = {}
    BY GroupsAssumption DEF Groups, Trusted, Shared, NeverStored, Writers
  <2>2. Filed(g)
    BY <2>1 DEF IInv, GroupInv
  <2>3. QED
    BY <2>1, <2>2 DEF Filed
<1>2. QED
  BY <1>1, GroupInvariant, PTL

\* The player keeps the name .nn gave.
THEOREM NameIsKept == Spec => []NameKept
<1>1. IInv => NameKept
  <2> SUFFICES ASSUME IInv, NEW g \in Groups, Shared(g), cache[g] # Null, hist[g].doubt = {}, hist[g].name # ""
               PROVE  heap[cache[g]].player = hist[g].name
    BY DEF NameKept
  <2>1. Told(g) /\ Trusted(g)
    BY DEF IInv, GroupInv, Trusted
  <2>2. QED
    BY <2>1 DEF Told, Matches
<1>2. QED
  BY <1>1, GroupInvariant, PTL

\* What a handler that runs a command of e knows.
LEMMA RunFacts ==
  ASSUME IInv, NEW h \in Handlers, NEW e \in Exts, Runs(h, e), Trusted(Group(h))
  PROVE  /\ Visits(h) /\ job[h].pc = "visit" /\ Head(job[h].todo) = e /\ e \in ToSet(job[h].todo)
         /\ job[h].active \/ job[h].msg.word = "bot"
<1>1. job[h].pc = "visit" /\ Head(job[h].todo) = e /\ (job[h].active \/ job[h].msg.word = "bot")
  BY DEF Runs, Willing
<1>2. job[h] \in Jobs /\ job[h].todo # <<>> /\ Group(h) \in Groups /\ h \in Busy(Group(h))
  BY <1>1, JobFacts DEF IInv, Shape
<1>3. job[h].todo \in Seq(Exts) /\ Len(job[h].todo) > 0
  BY <1>2 DEF Jobs
<1>4. e \in ToSet(job[h].todo)
  BY <1>1, <1>3 DEF ToSet
<1>5. Visits(h)
  BY <1>2 DEF IInv, GroupInv
<1>6. QED
  BY <1>1, <1>4, <1>5

\* After .bot off only .bot and .dismiss are run.
THEOREM SilenceIsKept == Spec => SilentAfterOff
<1>1. IInv => \A h \in Handlers : \A e \in Exts :
                Runs(h, e) /\ Trusted(Group(h)) /\ job[h].asked.silent => job[h].msg.word = "bot"
  BY RunFacts DEF Visits
<1>2. QED
  BY <1>1, GroupInvariant, PTL DEF SilentAfterOff

\* An extension that was closed runs no command.
THEOREM ClosedRunsNothing == Spec => ClosedStaysClosed
<1>1. IInv => \A h \in Handlers : \A e \in Exts :
                Runs(h, e) /\ Trusted(Group(h)) => e \notin job[h].asked.closed
  BY RunFacts DEF Visits
<1>2. QED
  BY <1>1, GroupInvariant, PTL DEF ClosedStaysClosed

\* The system last set answers .st.
THEOREM SystemRunsSt == Spec => SystemAnswers
<1>1. IInv => \A h \in Handlers : \A e \in Exts :
                Runs(h, e) /\ Trusted(Group(h)) /\ job[h].msg.word = "st"
                  => job[h].asked.system \in {"", e} \cup job[h].asked.closed
  BY RunFacts DEF Visits
<1>2. QED
  BY <1>1, GroupInvariant, PTL DEF SystemAnswers
=============================================================================
