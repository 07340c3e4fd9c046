------------------------------ MODULE BuntAttrs ------------------------------
(***************************************************************************)
(* The buntdb store: examples/main_ob11_with_db/buntdb_attrs_io.go.        *)
(*                                                                         *)
(* A key-value file with five kinds of keys.  attr:<id> holds the card;    *)
(* owner:<owner>:<id> and name:<owner>:<name> are indexes persistAttr and  *)
(* DeleteById keep beside it; bind:<group>:<user> is the binding and       *)
(* bindrev:<id>:<group>:<user> its reverse.  Each method is one            *)
(* transaction, which buntdb runs alone and rolls back on an error.        *)
(***************************************************************************)
EXTENDS AttrsItems

VARIABLES
  attr,      \* attr:<id>, the stored record or Absent
  ownerKeys, \* the keys owner:<owner>:<id>
  nameKeys,  \* name:<owner>:<name>, the id it holds or NoId
  bind,      \* bind:<group>:<user>, the id it holds or NoId
  revKeys,   \* the keys bindrev:<id>:<group>:<user>
  answer,    \* what the last method returned
  tx,        \* "none", or "puts" while Puts works through its batch
  undo,      \* what a rollback of it restores
  clashed    \* history: owner and name of cards that ever shared both

vars == <<attr, ownerKeys, nameKeys, bind, revKeys, answer, tx, undo, clashed>>

\* The promise, over the cards and the bindings in the file.
Promise == INSTANCE AttrsIO WITH
  items <- attr, bound <- bind, putting <- (tx = "puts"), before <- undo.attr

TypeOK ==
  /\ Promise!TypeOK
  /\ ownerKeys \subseteq Owners \X Ids
  /\ nameKeys \in [Owners -> [Names -> Ids \cup {NoId}]]
  /\ revKeys \subseteq Ids \X Groups \X Owners
  /\ tx \in {"none", "puts"}
  /\ undo \in [attr : [Ids -> Items \cup {Absent}], ownerKeys : SUBSET (Owners \X Ids),
               nameKeys : [Owners -> [Names -> Ids \cup {NoId}]]]
-----------------------------------------------------------------------------
Shares(id, p) == p.owner # NoOwner /\ p.name # NoName /\ \E other \in Ids \ {id} : attr[other] = p

Kept == [attr |-> attr, ownerKeys |-> ownerKeys, nameKeys |-> nameKeys]

Answer(call, value) == answer' = <<call, value>>

Alone == tx = "none" /\ UNCHANGED <<tx, undo, clashed>>

\* No name key of owner o for name n, when both are set.
WithoutName(keys, o, n) ==
  IF o \in Owners /\ n \in Names THEN [keys EXCEPT ![o][n] = NoId] ELSE keys

WithName(keys, o, n, id) ==
  IF o \in Owners /\ n \in Names THEN [keys EXCEPT ![o][n] = id] ELSE keys

\* Mutant: a card that gets another name leaves the key of the old one.
PersistKeepsOldName(id, p, prev) ==
  /\ attr' = [attr EXCEPT ![id] = p]
  /\ ownerKeys' = {k \in ownerKeys : ~(k = <<prev.owner, id>> /\ prev.owner # p.owner)}
                  \cup (IF p.owner = NoOwner THEN {} ELSE {<<p.owner, id>>})
  /\ nameKeys' = WithName(nameKeys, p.owner, p.name, id)

\* persistAttr: the card, and its index keys when owner or name is new.
Persist(id, p, prev) ==
  /\ attr' = [attr EXCEPT ![id] = p]
  /\ ownerKeys' = {k \in ownerKeys : ~(k = <<prev.owner, id>> /\ prev.owner # p.owner)}
                  \cup (IF p.owner = NoOwner THEN {} ELSE {<<p.owner, id>>})
  /\ nameKeys' = LET left == IF prev = p THEN nameKeys
                             ELSE WithoutName(nameKeys, prev.owner, prev.name)
                 IN  WithName(left, p.owner, p.name, id)

\* removeAllBindingsTx: the pairs the reverse keys of id name, and those keys.
Pairs(id) == {gu \in Groups \X Owners : <<id, gu[1], gu[2]>> \in revKeys}

RemoveAllBindings(id) ==
  /\ bind' = [g \in Groups |-> [u \in Owners |->
                IF <<g, u>> \in Pairs(id) /\ bind[g][u] = id THEN NoId ELSE bind[g][u]]]
  /\ revKeys' = {k \in revKeys : k[1] # id}

Removed(id) == {gu \in Pairs(id) : bind[gu[1]][gu[2]] = id}
-----------------------------------------------------------------------------
Init ==
  /\ attr = [id \in Ids |-> Absent]
  /\ ownerKeys = {}
  /\ nameKeys = [o \in Owners |-> [n \in Names |-> NoId]]
  /\ bind = [g \in Groups |-> [u \in Owners |-> NoId]]
  /\ revKeys = {}
  /\ answer = <<"none", NoId>>
  /\ tx = "none"
  /\ undo = Kept
  /\ clashed = {}

\* The last-used time is new, so the card and its index keys are written again.
GetById(id) ==
  /\ Alone /\ UNCHANGED <<bind, revKeys>>
  /\ Answer("GetById", attr[id])
  /\ IF attr[id] = Absent THEN UNCHANGED <<attr, ownerKeys, nameKeys>>
     ELSE Persist(id, attr[id], attr[id])

GetByUidAndName(o, n) ==
  /\ Alone /\ UNCHANGED <<bind, revKeys>>
  /\ LET id == nameKeys[o][n] IN
     \/ /\ id = NoId
        /\ Answer("GetByUidAndName", NoId)
        /\ UNCHANGED <<attr, ownerKeys, nameKeys>>
     \/ /\ id # NoId /\ attr[id] = Absent
        /\ Answer("GetByUidAndName", NoId)
        /\ nameKeys' = [nameKeys EXCEPT ![o][n] = NoId]
        /\ UNCHANGED <<attr, ownerKeys>>
     \/ /\ id # NoId /\ attr[id] # Absent
        /\ Answer("GetByUidAndName", id)
        /\ Persist(id, attr[id], attr[id])

ListByUid(o) ==
  /\ Alone /\ UNCHANGED <<attr, ownerKeys, nameKeys, bind, revKeys>>
  /\ Answer("ListByUid", {id \in Ids : <<o, id>> \in ownerKeys /\ attr[id] # Absent})

PutsBegin ==
  /\ tx = "none"
  /\ tx' = "puts"
  /\ undo' = Kept
  /\ UNCHANGED <<attr, ownerKeys, nameKeys, bind, revKeys, answer, clashed>>

Put(id, p) ==
  /\ tx = "puts"
  /\ Persist(id, p, IF attr[id] = Absent THEN NoRecord ELSE attr[id])
  /\ clashed' = IF Shares(id, p) THEN clashed \cup {<<p.owner, p.name>>} ELSE clashed
  /\ UNCHANGED <<bind, revKeys, answer, tx, undo>>

PutsEnd ==
  /\ tx = "puts"
  /\ tx' = "none"
  /\ Answer("Puts", "ok")
  /\ UNCHANGED <<attr, ownerKeys, nameKeys, bind, revKeys, undo, clashed>>

\* An empty id, or an error of the file: the transaction is rolled back.
PutsRefused ==
  /\ tx = "puts"
  /\ tx' = "none"
  /\ Answer("Puts", "error")
  /\ attr' = undo.attr /\ ownerKeys' = undo.ownerKeys /\ nameKeys' = undo.nameKeys
  /\ UNCHANGED <<bind, revKeys, undo, clashed>>

\* Mutant: the card goes, its bindings stay.
DeleteByIdOnly(id) ==
  /\ Alone
  /\ IF attr[id] = Absent
     THEN /\ Answer("DeleteById", "error")
          /\ UNCHANGED <<attr, ownerKeys, nameKeys, bind, revKeys>>
     ELSE /\ Answer("DeleteById", "ok")
          /\ attr' = [attr EXCEPT ![id] = Absent]
          /\ ownerKeys' = ownerKeys \ {<<attr[id].owner, id>>}
          /\ nameKeys' = WithoutName(nameKeys, attr[id].owner, attr[id].name)
          /\ UNCHANGED <<bind, revKeys>>

DeleteById(id) ==
  /\ Alone
  /\ IF attr[id] = Absent
     THEN /\ Answer("DeleteById", "error")
          /\ UNCHANGED <<attr, ownerKeys, nameKeys, bind, revKeys>>
     ELSE /\ Answer("DeleteById", "ok")
          /\ attr' = [attr EXCEPT ![id] = Absent]
          /\ ownerKeys' = ownerKeys \ {<<attr[id].owner, id>>}
          /\ nameKeys' = WithoutName(nameKeys, attr[id].owner, attr[id].name)
          /\ RemoveAllBindings(id)

BindingIdGet(g, u) ==
  /\ Alone /\ UNCHANGED <<attr, ownerKeys, nameKeys, bind, revKeys>>
  /\ Answer("BindingIdGet", bind[g][u])

\* Mutant: binding another card leaves the reverse key of the one before.
BindKeepsOldReverse(g, u, id) ==
  /\ Alone /\ UNCHANGED <<attr, ownerKeys, nameKeys>>
  /\ IF attr[id] = Absent
     THEN Answer("Bind", "error") /\ UNCHANGED <<bind, revKeys>>
     ELSE /\ Answer("Bind", "ok")
          /\ bind' = [bind EXCEPT ![g][u] = id]
          /\ revKeys' = revKeys \cup {<<id, g, u>>}

\* Mutant: the reverse key has user and group the wrong way round.
BindSwapsReverse(g, u, id) ==
  /\ Alone /\ UNCHANGED <<attr, ownerKeys, nameKeys>>
  /\ IF attr[id] = Absent
     THEN Answer("Bind", "error") /\ UNCHANGED <<bind, revKeys>>
     ELSE /\ Answer("Bind", "ok")
          /\ bind' = [bind EXCEPT ![g][u] = id]
          /\ revKeys' = (revKeys \ {<<bind[g][u], u, g>>}) \cup {<<id, u, g>>}

Bind(g, u, id) ==
  /\ Alone /\ UNCHANGED <<attr, ownerKeys, nameKeys>>
  /\ IF attr[id] = Absent
     THEN Answer("Bind", "error") /\ UNCHANGED <<bind, revKeys>>
     ELSE /\ Answer("Bind", "ok")
          /\ bind' = [bind EXCEPT ![g][u] = id]
          /\ revKeys' = (revKeys \ {<<bind[g][u], g, u>>}) \cup {<<id, g, u>>}

Unbind(g, u) ==
  /\ Alone /\ UNCHANGED <<attr, ownerKeys, nameKeys>>
  /\ Answer("Unbind", "ok")
  /\ bind' = [bind EXCEPT ![g][u] = NoId]
  /\ revKeys' = revKeys \ {<<bind[g][u], g, u>>}

UnbindAll(id) ==
  /\ Alone /\ UNCHANGED <<attr, ownerKeys, nameKeys>>
  /\ Answer("UnbindAll", Removed(id))
  /\ RemoveAllBindings(id)

BindingGroupIdList(id) ==
  /\ Alone /\ UNCHANGED <<attr, ownerKeys, nameKeys, bind, revKeys>>
  /\ Answer("BindingGroupIdList", {g \in Groups : \E u \in Owners : <<id, g, u>> \in revKeys})

Next ==
  \/ \E id \in Ids :
       \/ GetById(id) \/ DeleteById(id) \/ UnbindAll(id) \/ BindingGroupIdList(id)
       \/ \E p \in Params(id) : Put(id, p)
  \/ \E o \in Owners : ListByUid(o) \/ \E n \in Names : GetByUidAndName(o, n)
  \/ PutsBegin \/ PutsEnd \/ PutsRefused
  \/ \E g \in Groups, u \in Owners :
       BindingIdGet(g, u) \/ Unbind(g, u) \/ \E id \in Ids : Bind(g, u, id)

Spec == Init /\ [][Next]_vars
-----------------------------------------------------------------------------
\* Every method of the file store answers and changes the cards and the bindings as the
\* interface promises, though it works from five kinds of keys.
KeepsPromise == Promise!Spec

\* A binding always leads to a card.
BoundCardExists == Promise!BoundCardExists

\* removeAllBindingsTx and BindingGroupIdList see exactly the bindings there are: the
\* reverse keys are the inverse of the binding keys.
ReverseKeysMirror ==
  \A id \in Ids, g \in Groups, u \in Owners : <<id, g, u>> \in revKeys <=> bind[g][u] = id

\* The owner keys list exactly the owned cards, and a name key leads to a card that bears
\* that name; a card that never shared owner and name with another is found by its name.
IndexesSound ==
  /\ \A o \in Owners, id \in Ids :
       <<o, id>> \in ownerKeys <=> attr[id] # Absent /\ attr[id].owner = o
  /\ \A o \in Owners, n \in Names :
       /\ nameKeys[o][n] # NoId => attr[nameKeys[o][n]] = [owner |-> o, name |-> n]
       /\ <<o, n>> \notin clashed =>
            \A id \in Ids : attr[id] = [owner |-> o, name |-> n] => nameKeys[o][n] = id
=============================================================================
