--------------------------- MODULE BuntAttrsProofs ---------------------------
(***************************************************************************)
(* Proofs about BuntAttrs, for every set of cards, users, names and        *)
(* groups: its five kinds of keys stay consistent, and it implements the   *)
(* promise of AttrsIO.                                                     *)
(***************************************************************************)
EXTENDS BuntAttrs, TLAPS

Keys == [Owners -> [Names -> Ids \cup {NoId}]]

\* IndexesSound of some cards and index keys, and BoundCardExists of some cards.
Sound(attr_, ownerKeys_, nameKeys_) ==
  /\ \A o \in Owners, id \in Ids :
       <<o, id>> \in ownerKeys_ <=> attr_[id] # Absent /\ attr_[id].owner = o
  /\ \A o \in Owners, n \in Names :
       /\ nameKeys_[o][n] # NoId => attr_[nameKeys_[o][n]] = [owner |-> o, name |-> n]
       /\ <<o, n>> \notin clashed =>
            \A id \in Ids : attr_[id] = [owner |-> o, name |-> n] => nameKeys_[o][n] = id

Exist(attr_) == \A g \in Groups, u \in Owners : bind[g][u] # NoId => attr_[bind[g][u]] # Absent

\* The keys are consistent, and so are those a rollback of Puts would bring back.
IInv ==
  /\ TypeOK
  /\ ReverseKeysMirror
  /\ Sound(attr, ownerKeys, nameKeys) /\ Exist(attr)
  /\ tx = "puts" => Sound(undo.attr, undo.ownerKeys, undo.nameKeys) /\ Exist(undo.attr)

\* The constants of the promise are those of the store, and so are the sets made of them.
LEMMA SameSets == Promise!Items = Items /\ \A id : Promise!Params(id) = Params(id)
  BY DEF Promise!Items, Items, Promise!Params, Params

LEMMA Types ==
  TypeOK <=> /\ attr \in [Ids -> Items \cup {Absent}]
             /\ bind \in [Groups -> [Owners -> Ids \cup {NoId}]]
             /\ clashed \subseteq Owners \X Names
             /\ ownerKeys \subseteq Owners \X Ids
             /\ nameKeys \in Keys
             /\ revKeys \subseteq Ids \X Groups \X Owners
             /\ tx \in {"none", "puts"}
             /\ undo \in [attr : [Ids -> Items \cup {Absent}], ownerKeys : SUBSET (Owners \X Ids),
                          nameKeys : Keys]
  BY SameSets DEF TypeOK, Promise!TypeOK, Keys

LEMMA TypesNext ==
  TypeOK' <=> /\ attr' \in [Ids -> Items \cup {Absent}]
              /\ bind' \in [Groups -> [Owners -> Ids \cup {NoId}]]
              /\ clashed' \subseteq Owners \X Names
              /\ ownerKeys' \subseteq Owners \X Ids
              /\ nameKeys' \in Keys
              /\ revKeys' \subseteq Ids \X Groups \X Owners
              /\ tx' \in {"none", "puts"}
              /\ undo' \in [attr : [Ids -> Items \cup {Absent}], ownerKeys : SUBSET (Owners \X Ids),
                           nameKeys : Keys]
  BY SameSets DEF TypeOK, Promise!TypeOK, Keys

LEMMA ParamsAreItems == ASSUME NEW id \in Ids PROVE Params(id) \subseteq Items
  BY OwnersAssumption DEF Params, Items

LEMMA WithNameKeys ==
  ASSUME NEW keys \in Keys, NEW o, NEW n, NEW id \in Ids
  PROVE  /\ WithName(keys, o, n, id) \in Keys
         /\ \A p \in Owners, m \in Names :
              WithName(keys, o, n, id)[p][m] = IF p = o /\ m = n THEN id ELSE keys[p][m]
  BY DEF WithName, Keys

LEMMA WithoutNameKeys ==
  ASSUME NEW keys \in Keys, NEW o, NEW n
  PROVE  /\ WithoutName(keys, o, n) \in Keys
         /\ \A p \in Owners, m \in Names :
              WithoutName(keys, o, n)[p][m] = IF p = o /\ m = n THEN NoId ELSE keys[p][m]
  BY DEF WithoutName, Keys

LEMMA PersistNameKeys ==
  ASSUME nameKeys \in Keys, NEW id \in Ids, NEW p, NEW prev, Persist(id, p, prev)
  PROVE  /\ nameKeys' \in Keys
         /\ \A o \in Owners, n \in Names :
              nameKeys'[o][n] = IF o = p.owner /\ n = p.name THEN id
                                ELSE IF prev # p /\ o = prev.owner /\ n = prev.name THEN NoId
                                ELSE nameKeys[o][n]
<1> DEFINE left == IF prev = p THEN nameKeys ELSE WithoutName(nameKeys, prev.owner, prev.name)
<1>1. /\ left \in Keys
      /\ \A o \in Owners, n \in Names :
           left[o][n] = IF prev # p /\ o = prev.owner /\ n = prev.name THEN NoId ELSE nameKeys[o][n]
  BY WithoutNameKeys
<1>2. nameKeys' = WithName(left, p.owner, p.name, id)
  BY DEF Persist
<1> HIDE DEF left
<1>3. QED
  BY <1>1, <1>2, WithNameKeys

\* persistAttr keeps the indexes right, for a card whose earlier owner and name it is told.
LEMMA PersistSound ==
  ASSUME TypeOK, Sound(attr, ownerKeys, nameKeys), NEW id \in Ids, NEW p \in Items,
         NEW prev, prev = IF attr[id] = Absent THEN NoRecord ELSE attr[id],
         Persist(id, p, prev),
         clashed \subseteq clashed',
         prev = p \/ (Shares(id, p) => <<p.owner, p.name>> \in clashed')
  PROVE  Sound(attr, ownerKeys, nameKeys)'
<1>1. /\ attr' = [attr EXCEPT ![id] = p] /\ attr \in [Ids -> Items \cup {Absent}]
      /\ nameKeys \in Keys /\ Absent \notin Items /\ p # Absent
  <2>1. attr \in [Ids -> Items \cup {Absent}] /\ nameKeys \in Keys
    BY Types
  <2>2. Absent \notin Items /\ p # Absent
    BY AbsentAssumption
  <2>3. QED
    BY <2>1, <2>2 DEF Persist
<1>2. /\ attr'[id] = p
      /\ \A i \in Ids \ {id} : attr'[i] = attr[i]
  BY <1>1
<1>3. prev \in Items /\ (attr[id] # Absent => prev = attr[id])
  BY <1>1 DEF NoRecord, Items
<1>4. ASSUME NEW o \in Owners, NEW i \in Ids
      PROVE  <<o, i>> \in ownerKeys' <=> attr'[i] # Absent /\ attr'[i].owner = o
  <2>1. <<o, i>> \in ownerKeys <=> attr[i] # Absent /\ attr[i].owner = o
    BY DEF Sound
  <2>2. ownerKeys' = {k \in ownerKeys : ~(k = <<prev.owner, id>> /\ prev.owner # p.owner)}
                     \cup (IF p.owner = NoOwner THEN {} ELSE {<<p.owner, id>>})
    BY DEF Persist
  <2>3. CASE i # id
    BY <1>2, <2>1, <2>2, <2>3
  <2>4. CASE i = id
    <3>1. <<o, id>> \in ownerKeys' <=> o = p.owner
      BY <1>3, <2>1, <2>2, <2>4, OwnersAssumption DEF NoRecord
    <3>2. QED
      BY <1>1, <1>2, <2>4, <3>1
  <2>5. QED
    BY <2>3, <2>4
<1>5. \A o \in Owners, n \in Names :
        nameKeys'[o][n] = IF o = p.owner /\ n = p.name THEN id
                          ELSE IF prev # p /\ o = prev.owner /\ n = prev.name THEN NoId
                          ELSE nameKeys[o][n]
  BY <1>1, PersistNameKeys
<1>6. \A q \in Items, o \in Owners, n \in Names :
        q = [owner |-> o, name |-> n] <=> q.owner = o /\ q.name = n
  BY DEF Items
<1>7. ASSUME NEW o \in Owners, NEW n \in Names, nameKeys'[o][n] # NoId
      PROVE  attr'[nameKeys'[o][n]] = [owner |-> o, name |-> n]
  <2>1. CASE o = p.owner /\ n = p.name
    BY <1>2, <1>5, <1>6, <2>1
  <2>2. CASE ~(o = p.owner /\ n = p.name)
    <3> DEFINE j == nameKeys[o][n]
    <3>1. nameKeys'[o][n] = j /\ j # NoId /\ ~(prev # p /\ o = prev.owner /\ n = prev.name)
      BY <1>5, <1>7, <2>2
    <3>2. j \in Ids
      BY <1>1, <3>1 DEF Keys
    <3>3. attr[j] = [owner |-> o, name |-> n]
      BY <3>1 DEF Sound
    <3> HIDE DEF j
    <3>4. j # id
      BY <1>1, <1>3, <1>6, <2>2, <3>1, <3>3, AbsentAssumption DEF Items
    <3>5. QED
      BY <1>2, <3>1, <3>2, <3>3, <3>4
  <2>3. QED
    BY <2>1, <2>2
<1>8. ASSUME NEW o \in Owners, NEW n \in Names, <<o, n>> \notin clashed', NEW i \in Ids,
             attr'[i] = [owner |-> o, name |-> n]
      PROVE  nameKeys'[o][n] = i
  <2>1. CASE i = id
    BY <1>2, <1>5, <1>6, <1>8, <2>1
  <2>2. CASE i # id
    <3>1. attr[i] = [owner |-> o, name |-> n] /\ nameKeys[o][n] = i
      BY <1>2, <1>8, <2>2 DEF Sound
    <3>2. attr[id] # [owner |-> o, name |-> n]
      BY <1>8, <2>2, <3>1 DEF Sound
    <3>3. [owner |-> o, name |-> n] # Absent /\ [owner |-> o, name |-> n] \in Items
      BY <1>1 DEF Items
    <3>4. prev # [owner |-> o, name |-> n]
      BY <1>3, <3>2, OwnersAssumption DEF NoRecord
    <3>5. ~(o = prev.owner /\ n = prev.name)
      BY <1>3, <1>6, <3>4
    <3>6. ~(o = p.owner /\ n = p.name)
      <4>1. SUFFICES ASSUME o = p.owner, n = p.name PROVE FALSE
        OBVIOUS
      <4>2. p = [owner |-> o, name |-> n]
        BY <1>6, <4>1
      <4>3. Shares(id, p)
        BY <2>2, <3>1, <4>1, <4>2, OwnersAssumption, NoNameAssumption DEF Shares
      <4>4. QED
        BY <1>8, <3>4, <4>1, <4>2, <4>3
    <3>7. QED
      BY <1>5, <3>1, <3>5, <3>6
  <2>3. QED
    BY <2>1, <2>2
<1>9. QED
  BY <1>4, <1>7, <1>8 DEF Sound

LEMMA PersistTypes ==
  ASSUME TypeOK, NEW id \in Ids, NEW p \in Items, NEW prev \in Items, Persist(id, p, prev)
  PROVE  /\ attr' \in [Ids -> Items \cup {Absent}]
         /\ ownerKeys' \subseteq Owners \X Ids
         /\ nameKeys' \in Keys
<1>1. nameKeys' \in Keys
  BY Types, PersistNameKeys
<1>2. ownerKeys' \subseteq Owners \X Ids
  BY Types DEF Persist, Items
<1>3. attr' \in [Ids -> Items \cup {Absent}]
  BY Types DEF Persist
<1>4. QED
  BY <1>1, <1>2, <1>3

\* A card read and written back: the last-used time is no part of the record.
LEMMA Touch ==
  ASSUME IInv, NEW id \in Ids, attr[id] # Absent, Persist(id, attr[id], attr[id]),
         UNCHANGED <<bind, revKeys, tx, undo, clashed>>
  PROVE  IInv' /\ attr' = attr
<1>1. attr[id] \in Items
  BY Types DEF IInv
<1>2. TypeOK'
  BY <1>1, Types, TypesNext, PersistTypes DEF IInv
<1>3. attr' = attr
  BY Types DEF IInv, Persist
<1>4. Sound(attr, ownerKeys, nameKeys)'
  BY <1>1, PersistSound DEF IInv
<1>5. QED
  BY <1>2, <1>3, <1>4 DEF IInv, ReverseKeysMirror, Exist, Sound

LEMMA RemoveAllBindingsMirror ==
  ASSUME TypeOK, ReverseKeysMirror, NEW id \in Ids, RemoveAllBindings(id)
  PROVE  /\ bind' = [g \in Groups |-> [u \in Owners |-> IF bind[g][u] = id THEN NoId ELSE bind[g][u]]]
         /\ bind' \in [Groups -> [Owners -> Ids \cup {NoId}]]
         /\ revKeys' \subseteq Ids \X Groups \X Owners
         /\ ReverseKeysMirror'
         /\ \A g \in Groups, u \in Owners : bind'[g][u] # id
<1>1. \A g \in Groups, u \in Owners : <<g, u>> \in Pairs(id) <=> bind[g][u] = id
  BY DEF Pairs, ReverseKeysMirror
<1>2. bind' = [g \in Groups |-> [u \in Owners |-> IF bind[g][u] = id THEN NoId ELSE bind[g][u]]]
  BY <1>1 DEF RemoveAllBindings
<1>3. \A g \in Groups, u \in Owners : bind'[g][u] = IF bind[g][u] = id THEN NoId ELSE bind[g][u]
  BY <1>2
<1>4. revKeys' = {k \in revKeys : k[1] # id}
  BY DEF RemoveAllBindings
<1>5. bind \in [Groups -> [Owners -> Ids \cup {NoId}]] /\ revKeys \subseteq Ids \X Groups \X Owners
  BY Types
<1>6. bind' \in [Groups -> [Owners -> Ids \cup {NoId}]] /\ revKeys' \subseteq Ids \X Groups \X Owners
  BY <1>2, <1>4, <1>5
<1>7. ASSUME NEW i \in Ids, NEW g \in Groups, NEW u \in Owners
      PROVE  <<i, g, u>> \in revKeys' <=> bind'[g][u] = i
  <2>1. <<i, g, u>> \in revKeys' <=> <<i, g, u>> \in revKeys /\ i # id
    BY <1>4
  <2>2. <<i, g, u>> \in revKeys <=> bind[g][u] = i
    BY DEF ReverseKeysMirror
  <2>3. QED
    BY <1>3, <2>1, <2>2, NoIdAssumption
<1>8. QED
  BY <1>2, <1>3, <1>6, <1>7, NoIdAssumption DEF ReverseKeysMirror
-----------------------------------------------------------------------------
LEMMA InitIInv == Init => IInv
<1> SUFFICES ASSUME Init PROVE IInv
  OBVIOUS
<1>1. TypeOK
  BY Types DEF Init, Kept, Keys
<1>2. ReverseKeysMirror
  BY NoIdAssumption DEF Init, ReverseKeysMirror
<1>3. Sound(attr, ownerKeys, nameKeys) /\ Exist(attr)
  <2>1. \A o \in Owners, n \in Names : [owner |-> o, name |-> n] # Absent
    BY AbsentAssumption DEF Items
  <2>2. QED
    BY <2>1 DEF Init, Sound, Exist
<1>4. QED
  BY <1>1, <1>2, <1>3 DEF IInv, Init

\* One method of the store: its keys stay consistent, and it does what the promise says.
LEMMA NextStep == IInv /\ Next => IInv' /\ Promise!Next
<1> SUFFICES ASSUME IInv, Next PROVE IInv' /\ Promise!Next
  OBVIOUS
<1>1. ASSUME NEW id \in Ids, GetById(id) PROVE IInv' /\ Promise!GetById(id)
  <2>1. UNCHANGED <<bind, revKeys, tx, undo, clashed>> /\ tx = "none"
    BY <1>1 DEF GetById, Alone
  <2>2. IInv' /\ attr' = attr
    <3>1. CASE attr[id] = Absent
      BY <1>1, <2>1, <3>1, Types
      DEF GetById, IInv, Sound, Exist, ReverseKeysMirror, TypeOK, Promise!TypeOK
    <3>2. CASE attr[id] # Absent
      BY <1>1, <2>1, <3>2, Touch DEF GetById
    <3>3. QED
      BY <3>1, <3>2
  <2>3. QED
    BY <1>1, <2>1, <2>2 DEF GetById, Answer, Promise!GetById, Promise!Unlocked, Promise!Answer
<1>2. ASSUME NEW o \in Owners, NEW n \in Names, GetByUidAndName(o, n)
      PROVE  IInv' /\ Promise!GetByUidAndName(o, n)
  <2>1. UNCHANGED <<bind, revKeys, tx, undo, clashed>> /\ tx = "none"
    BY <1>2 DEF GetByUidAndName, Alone
  <2>2. nameKeys[o][n] \in Ids \cup {NoId}
    BY Types DEF IInv, Keys
  <2>3. CASE nameKeys[o][n] = NoId
    <3>1. UNCHANGED <<attr, ownerKeys, nameKeys>> /\ answer' = <<"GetByUidAndName", NoId>>
      BY <1>2, <2>3 DEF GetByUidAndName, Answer
    <3>2. <<o, n>> \in clashed \/ Promise!Bearers(o, n) = {}
      BY <2>3, NoIdAssumption DEF IInv, Sound, Promise!Bearers
    <3>3. IInv'
      BY <2>1, <3>1 DEF IInv, Sound, Exist, ReverseKeysMirror, TypeOK, Promise!TypeOK
    <3>4. QED
      BY <2>1, <3>1, <3>2, <3>3
      DEF Promise!GetByUidAndName, Promise!Unlocked, Promise!Answer
  <2>4. CASE nameKeys[o][n] # NoId
    <3> DEFINE id == nameKeys[o][n]
    <3>1. id \in Ids /\ attr[id] = [owner |-> o, name |-> n]
      BY <2>2, <2>4 DEF IInv, Sound
    <3>2. attr[id] # Absent
      BY <3>1, AbsentAssumption DEF Items
    <3>3. answer' = <<"GetByUidAndName", id>> /\ Persist(id, attr[id], attr[id])
      BY <1>2, <2>4, <3>2 DEF GetByUidAndName, Answer
    <3>4. IInv' /\ attr' = attr
      BY <2>1, <3>1, <3>2, <3>3, Touch
    <3>5. id \in Promise!Bearers(o, n)
      BY <3>1 DEF Promise!Bearers
    <3>6. QED
      BY <2>1, <3>3, <3>4, <3>5 DEF Promise!GetByUidAndName, Promise!Unlocked, Promise!Answer
  <2>5. QED
    BY <2>3, <2>4
<1>3. ASSUME NEW o \in Owners, ListByUid(o) PROVE IInv' /\ Promise!ListByUid(o)
  <2>1. UNCHANGED <<attr, ownerKeys, nameKeys, bind, revKeys, tx, undo, clashed>> /\ tx = "none"
    BY <1>3 DEF ListByUid, Alone
  <2>2. {id \in Ids : <<o, id>> \in ownerKeys /\ attr[id] # Absent}
        = {id \in Ids : attr[id] # Absent /\ attr[id].owner = o}
    BY DEF IInv, Sound
  <2>3. IInv'
    BY <2>1 DEF IInv, Sound, Exist, ReverseKeysMirror, TypeOK, Promise!TypeOK
  <2>4. QED
    BY <1>3, <2>1, <2>2, <2>3 DEF ListByUid, Answer, Promise!ListByUid, Promise!Unlocked, Promise!Answer
<1>4. ASSUME PutsBegin PROVE IInv' /\ Promise!PutsBegin
  <2>1. /\ UNCHANGED <<attr, ownerKeys, nameKeys, bind, revKeys, answer, clashed>>
        /\ tx = "none" /\ tx' = "puts" /\ undo' = Kept
    BY <1>4 DEF PutsBegin
  <2>2. /\ undo'.attr = attr /\ undo'.ownerKeys = ownerKeys /\ undo'.nameKeys = nameKeys
        /\ TypeOK'
    BY <2>1, Types, TypesNext DEF Kept, IInv
  <2>3. IInv'
    BY <2>1, <2>2 DEF IInv, Sound, Exist, ReverseKeysMirror
  <2>4. Promise!PutsBegin
    BY <2>1, <2>2 DEF Promise!PutsBegin
  <2>5. QED
    BY <2>3, <2>4
<1>5. ASSUME NEW id \in Ids, NEW p \in Params(id), Put(id, p)
      PROVE  IInv' /\ Promise!Put(id, p)
  <2> DEFINE prev == IF attr[id] = Absent THEN NoRecord ELSE attr[id]
  <2>1. /\ UNCHANGED <<bind, revKeys, answer, tx, undo>> /\ tx = "puts"
        /\ Persist(id, p, prev)
        /\ clashed' = IF Shares(id, p) THEN clashed \cup {<<p.owner, p.name>>} ELSE clashed
    BY <1>5 DEF Put
  <2>2. p \in Items /\ prev \in Items
    BY ParamsAreItems, Types DEF IInv, NoRecord, Items
  <2> HIDE DEF prev
  <2>3. clashed' \subseteq Owners \X Names
    BY <2>1, <2>2, Types DEF IInv, Shares, Items
  <2>4. TypeOK'
    BY <2>1, <2>2, <2>3, Types, TypesNext, PersistTypes DEF IInv
  <2>5. Sound(attr, ownerKeys, nameKeys)'
    BY <2>1, <2>2, PersistSound DEF IInv, prev
  <2>6. attr' = [attr EXCEPT ![id] = p] /\ p # Absent
    BY <2>1, <2>2, AbsentAssumption DEF Persist
  <2>7. Exist(attr)'
    BY <2>1, <2>6, Types DEF IInv, Exist
  <2>8. Sound(undo.attr, undo.ownerKeys, undo.nameKeys)' /\ Exist(undo.attr)'
    BY <2>1 DEF IInv, Sound, Exist
  <2>9. IInv'
    BY <2>1, <2>4, <2>5, <2>7, <2>8 DEF IInv, ReverseKeysMirror
  <2>10. QED
    BY <2>1, <2>6, <2>9 DEF Promise!Put, Promise!Shares, Shares
<1>6. ASSUME PutsEnd PROVE IInv' /\ Promise!PutsEnd
  <2>1. /\ UNCHANGED <<attr, ownerKeys, nameKeys, bind, revKeys, undo, clashed>>
        /\ tx = "puts" /\ tx' = "none" /\ answer' = <<"Puts", "ok">>
    BY <1>6 DEF PutsEnd, Answer
  <2>2. IInv'
    BY <2>1, Types, TypesNext DEF IInv, Sound, Exist, ReverseKeysMirror
  <2>3. QED
    BY <2>1, <2>2 DEF Promise!PutsEnd, Promise!Answer
<1>7. ASSUME PutsRefused PROVE IInv' /\ Promise!PutsRefused
  <2>1. /\ UNCHANGED <<bind, revKeys, undo, clashed>>
        /\ tx = "puts" /\ tx' = "none" /\ answer' = <<"Puts", "error">>
        /\ attr' = undo.attr /\ ownerKeys' = undo.ownerKeys /\ nameKeys' = undo.nameKeys
    BY <1>7 DEF PutsRefused, Answer
  <2>2. IInv'
    BY <2>1, Types, TypesNext DEF IInv, Sound, Exist, ReverseKeysMirror
  <2>3. QED
    BY <2>1, <2>2 DEF Promise!PutsRefused, Promise!Answer
<1>8. ASSUME NEW id \in Ids, DeleteById(id) PROVE IInv' /\ Promise!DeleteById(id)
  <2>1. UNCHANGED <<tx, undo, clashed>> /\ tx = "none"
    BY <1>8 DEF DeleteById, Alone
  <2>2. CASE attr[id] = Absent
    <3>1. UNCHANGED <<attr, ownerKeys, nameKeys, bind, revKeys>> /\ answer' = <<"DeleteById", "error">>
      BY <1>8, <2>2 DEF DeleteById, Answer
    <3>2. IInv'
      BY <2>1, <3>1 DEF IInv, Sound, Exist, ReverseKeysMirror, TypeOK, Promise!TypeOK
    <3>3. QED
      BY <2>1, <2>2, <3>1, <3>2 DEF Promise!DeleteById, Promise!Unlocked, Promise!Answer
  <2>3. CASE attr[id] # Absent
    <3>1. /\ attr' = [attr EXCEPT ![id] = Absent]
          /\ ownerKeys' = ownerKeys \ {<<attr[id].owner, id>>}
          /\ nameKeys' = WithoutName(nameKeys, attr[id].owner, attr[id].name)
          /\ RemoveAllBindings(id)
          /\ answer' = <<"DeleteById", "ok">>
      BY <1>8, <2>3 DEF DeleteById, Answer
    <3>2. /\ bind' = [g \in Groups |-> [u \in Owners |-> IF bind[g][u] = id THEN NoId ELSE bind[g][u]]]
          /\ bind' \in [Groups -> [Owners -> Ids \cup {NoId}]]
          /\ revKeys' \subseteq Ids \X Groups \X Owners
          /\ ReverseKeysMirror'
          /\ \A g \in Groups, u \in Owners : bind'[g][u] # id
      BY <3>1, RemoveAllBindingsMirror DEF IInv
    <3>3. /\ attr' \in [Ids -> Items \cup {Absent}] /\ attr'[id] = Absent
          /\ \A i \in Ids \ {id} : attr'[i] = attr[i]
      BY <3>1, Types DEF IInv
    <3>4. /\ nameKeys' \in Keys
          /\ \A o \in Owners, n \in Names :
               nameKeys'[o][n] = IF o = attr[id].owner /\ n = attr[id].name THEN NoId ELSE nameKeys[o][n]
      BY <3>1, WithoutNameKeys, Types DEF IInv
    <3>5. TypeOK'
      BY <2>1, <3>1, <3>2, <3>3, <3>4, Types, TypesNext DEF IInv
    <3>6. Exist(attr)'
      BY <3>2, <3>3, Types DEF IInv, Exist
    <3>7. ASSUME NEW o \in Owners, NEW i \in Ids
          PROVE  <<o, i>> \in ownerKeys' <=> attr'[i] # Absent /\ attr'[i].owner = o
      <4>1. <<o, i>> \in ownerKeys <=> attr[i] # Absent /\ attr[i].owner = o
        BY DEF IInv, Sound
      <4>2. QED
        BY <3>1, <3>3, <4>1
    <3>8. ASSUME NEW o \in Owners, NEW n \in Names
          PROVE  /\ nameKeys'[o][n] # NoId => attr'[nameKeys'[o][n]] = [owner |-> o, name |-> n]
                 /\ <<o, n>> \notin clashed' =>
                      \A i \in Ids : attr'[i] = [owner |-> o, name |-> n] => nameKeys'[o][n] = i
      <4>1. /\ nameKeys[o][n] # NoId => attr[nameKeys[o][n]] = [owner |-> o, name |-> n]
            /\ <<o, n>> \notin clashed =>
                 \A i \in Ids : attr[i] = [owner |-> o, name |-> n] => nameKeys[o][n] = i
        BY DEF IInv, Sound
      <4>2. [owner |-> o, name |-> n] # Absent
        BY AbsentAssumption DEF Items
      <4>3. nameKeys[o][n] \in Ids \cup {NoId} /\ clashed' = clashed
        BY <2>1, Types DEF IInv, Keys
      <4>4. attr[id] = [owner |-> o, name |-> n] <=> o = attr[id].owner /\ n = attr[id].name
        BY <2>3, Types DEF IInv, Items
      <4>5. QED
        BY <3>3, <3>4, <4>1, <4>2, <4>3, <4>4
    <3>9. IInv'
      BY <2>1, <3>2, <3>5, <3>6, <3>7, <3>8 DEF IInv, Sound
    <3>10. QED
      BY <2>1, <2>3, <3>1, <3>2, <3>9 DEF Promise!DeleteById, Promise!Unlocked, Promise!Answer
  <2>4. QED
    BY <2>2, <2>3
<1>9. ASSUME NEW g \in Groups, NEW u \in Owners, BindingIdGet(g, u)
      PROVE  IInv' /\ Promise!BindingIdGet(g, u)
  <2>1. UNCHANGED <<attr, ownerKeys, nameKeys, bind, revKeys, tx, undo, clashed>> /\ tx = "none"
    BY <1>9 DEF BindingIdGet, Alone
  <2>2. IInv'
    BY <2>1 DEF IInv, Sound, Exist, ReverseKeysMirror, TypeOK, Promise!TypeOK
  <2>3. QED
    BY <1>9, <2>1, <2>2
    DEF BindingIdGet, Answer, Promise!BindingIdGet, Promise!Unlocked, Promise!Answer
<1>10. ASSUME NEW g \in Groups, NEW u \in Owners, NEW id \in Ids, Bind(g, u, id)
       PROVE  IInv' /\ Promise!Bind(g, u, id)
  <2>1. UNCHANGED <<attr, ownerKeys, nameKeys, tx, undo, clashed>> /\ tx = "none"
    BY <1>10 DEF Bind, Alone
  <2>2. Sound(attr, ownerKeys, nameKeys)'
    BY <2>1 DEF IInv, Sound
  <2>3. CASE attr[id] = Absent
    <3>1. UNCHANGED <<bind, revKeys>> /\ answer' = <<"Bind", "error">>
      BY <1>10, <2>3 DEF Bind, Answer
    <3>2. IInv'
      BY <2>1, <2>2, <3>1 DEF IInv, Exist, ReverseKeysMirror, TypeOK, Promise!TypeOK
    <3>3. QED
      BY <2>1, <2>3, <3>1, <3>2 DEF Promise!Bind, Promise!Unlocked, Promise!Answer
  <2>4. CASE attr[id] # Absent
    <3>1. /\ bind' = [bind EXCEPT ![g][u] = id]
          /\ revKeys' = (revKeys \ {<<bind[g][u], g, u>>}) \cup {<<id, g, u>>}
          /\ answer' = <<"Bind", "ok">>
      BY <1>10, <2>4 DEF Bind, Answer
    <3>2. /\ bind' \in [Groups -> [Owners -> Ids \cup {NoId}]]
          /\ \A h \in Groups, v \in Owners : bind'[h][v] = IF h = g /\ v = u THEN id ELSE bind[h][v]
      BY <3>1, Types DEF IInv
    <3>3. TypeOK'
      BY <2>1, <3>1, <3>2, Types, TypesNext DEF IInv
    <3>4. ASSUME NEW i \in Ids, NEW h \in Groups, NEW v \in Owners
          PROVE  <<i, h, v>> \in revKeys' <=> bind'[h][v] = i
      <4>1. <<i, h, v>> \in revKeys <=> bind[h][v] = i
        BY DEF IInv, ReverseKeysMirror
      <4>2. QED
        BY <3>1, <3>2, <4>1
    <3>5. Exist(attr)'
      BY <2>1, <2>4, <3>2 DEF IInv, Exist
    <3>6. IInv'
      BY <2>1, <2>2, <3>3, <3>4, <3>5 DEF IInv, ReverseKeysMirror
    <3>7. QED
      BY <2>1, <2>4, <3>1, <3>6 DEF Promise!Bind, Promise!Unlocked, Promise!Answer
  <2>5. QED
    BY <2>3, <2>4
<1>11. ASSUME NEW g \in Groups, NEW u \in Owners, Unbind(g, u) PROVE IInv' /\ Promise!Unbind(g, u)
  <2>1. /\ UNCHANGED <<attr, ownerKeys, nameKeys, tx, undo, clashed>> /\ tx = "none"
        /\ bind' = [bind EXCEPT ![g][u] = NoId]
        /\ revKeys' = revKeys \ {<<bind[g][u], g, u>>}
        /\ answer' = <<"Unbind", "ok">>
    BY <1>11 DEF Unbind, Alone, Answer
  <2>2. /\ bind' \in [Groups -> [Owners -> Ids \cup {NoId}]]
        /\ \A h \in Groups, v \in Owners : bind'[h][v] = IF h = g /\ v = u THEN NoId ELSE bind[h][v]
    BY <2>1, Types DEF IInv
  <2>3. TypeOK'
    BY <2>1, <2>2, Types, TypesNext DEF IInv
  <2>4. ASSUME NEW i \in Ids, NEW h \in Groups, NEW v \in Owners
        PROVE  <<i, h, v>> \in revKeys' <=> bind'[h][v] = i
    <3>1. <<i, h, v>> \in revKeys <=> bind[h][v] = i
      BY DEF IInv, ReverseKeysMirror
    <3>2. QED
      BY <2>1, <2>2, <3>1, NoIdAssumption
  <2>5. Sound(attr, ownerKeys, nameKeys)' /\ Exist(attr)'
    BY <2>1, <2>2 DEF IInv, Sound, Exist
  <2>6. IInv'
    BY <2>1, <2>3, <2>4, <2>5 DEF IInv, ReverseKeysMirror
  <2>7. QED
    BY <2>1, <2>6 DEF Promise!Unbind, Promise!Unlocked, Promise!Answer
<1>12. ASSUME NEW id \in Ids, UnbindAll(id) PROVE IInv' /\ Promise!UnbindAll(id)
  <2>1. /\ UNCHANGED <<attr, ownerKeys, nameKeys, tx, undo, clashed>> /\ tx = "none"
        /\ RemoveAllBindings(id)
        /\ answer' = <<"UnbindAll", Removed(id)>>
    BY <1>12 DEF UnbindAll, Alone, Answer
  <2>2. /\ bind' = [g \in Groups |-> [u \in Owners |-> IF bind[g][u] = id THEN NoId ELSE bind[g][u]]]
        /\ bind' \in [Groups -> [Owners -> Ids \cup {NoId}]]
        /\ revKeys' \subseteq Ids \X Groups \X Owners
        /\ ReverseKeysMirror'
    BY <2>1, RemoveAllBindingsMirror DEF IInv
  <2>3. TypeOK'
    BY <2>1, <2>2, Types, TypesNext DEF IInv
  <2>4. Sound(attr, ownerKeys, nameKeys)' /\ Exist(attr)'
    BY <2>1, <2>2 DEF IInv, Sound, Exist
  <2>5. Removed(id) = {gu \in Groups \X Owners : bind[gu[1]][gu[2]] = id}
    BY DEF Removed, Pairs, IInv, ReverseKeysMirror
  <2>6. IInv'
    BY <2>1, <2>2, <2>3, <2>4 DEF IInv
  <2>7. QED
    BY <2>1, <2>2, <2>5, <2>6 DEF Promise!UnbindAll, Promise!Unlocked, Promise!Answer
<1>13. ASSUME NEW id \in Ids, BindingGroupIdList(id) PROVE IInv' /\ Promise!BindingGroupIdList(id)
  <2>1. UNCHANGED <<attr, ownerKeys, nameKeys, bind, revKeys, tx, undo, clashed>> /\ tx = "none"
    BY <1>13 DEF BindingGroupIdList, Alone
  <2>2. {g \in Groups : \E u \in Owners : <<id, g, u>> \in revKeys}
        = {g \in Groups : \E u \in Owners : bind[g][u] = id}
    BY DEF IInv, ReverseKeysMirror
  <2>3. IInv'
    BY <2>1 DEF IInv, Sound, Exist, ReverseKeysMirror, TypeOK, Promise!TypeOK
  <2>4. QED
    BY <1>13, <2>1, <2>2, <2>3
    DEF BindingGroupIdList, Answer, Promise!BindingGroupIdList, Promise!Unlocked, Promise!Answer
<1>14. QED
  BY <1>1, <1>2, <1>3, <1>4, <1>5, <1>6, <1>7, <1>8, <1>9, <1>10, <1>11, <1>12, <1>13, SameSets
  DEF Next, Promise!Next

LEMMA IInvInvariant == Spec => []IInv
<1>1. IInv /\ UNCHANGED vars => IInv'
  BY DEF IInv, vars, Sound, Exist, ReverseKeysMirror, TypeOK, Promise!TypeOK
<1>2. IInv /\ [Next]_vars => IInv'
  BY <1>1, NextStep
<1>3. QED
  BY InitIInv, <1>2, PTL DEF Spec

\* The buntdb store implements the interface the cards' cache is written against: every
\* method answers, and changes cards and bindings, as AttrsIO says.
THEOREM BuntAttrsKeepsPromise == Spec => KeepsPromise
<1>1. Init => Promise!Init
  BY DEF Init, Kept, Promise!Init
<1>2. IInv /\ [Next]_vars => [Promise!Next]_Promise!vars
  <2>1. UNCHANGED vars => UNCHANGED Promise!vars
    BY DEF vars, Promise!vars
  <2>2. QED
    BY <2>1, NextStep
<1>3. QED
  BY <1>1, <1>2, IInvInvariant, PTL DEF Spec, Promise!Spec, KeepsPromise

\* The reverse binding keys are the inverse of the binding keys, after any calls.
THEOREM BindingKeysMirror == Spec => []ReverseKeysMirror
<1>1. IInv => ReverseKeysMirror
  BY DEF IInv
<1>2. QED
  BY <1>1, IInvInvariant, PTL

\* Owner and name keys lead to the right cards, and a card is found by a name it never
\* shared, after any calls.
THEOREM IndexKeysSound == Spec => []IndexesSound
<1>1. IInv => IndexesSound
  BY DEF IInv, Sound, IndexesSound
<1>2. QED
  BY <1>1, IInvInvariant, PTL

\* No binding outlives its card.
THEOREM BindingsLeadToCards == Spec => []BoundCardExists
<1>1. IInv => BoundCardExists
  BY DEF IInv, Exist, BoundCardExists, Promise!BoundCardExists
<1>2. QED
  BY <1>1, IInvInvariant, PTL

\* Cards, bindings, the two kinds of keys and the answers are of the kinds the interface knows,
\* after any calls.
THEOREM StoreTypeOK == Spec => []TypeOK
<1>1. IInv => TypeOK
  BY DEF IInv
<1>2. QED
  BY <1>1, IInvInvariant, PTL
=============================================================================
