------------------------------- MODULE AttrsIO -------------------------------
(***************************************************************************)
(* What a store of attribute cards promises: the interface of              *)
(* dice/attrs/attrs_io.go as MemoryAttrsIO (default_io_impl.go) keeps it.  *)
(*                                                                         *)
(* Every call runs under the store's lock; Puts, whose batch is processed  *)
(* item by item, holds the lock over several steps here.  Two promises are *)
(* as weak as the weaker of the two stores in the repository: a refused    *)
(* batch leaves what was written before the refusal (memory) or nothing    *)
(* (buntdb), and a name two cards of one owner shared at some time may be  *)
(* answered with no card (buntdb has one name entry for both).             *)
(***************************************************************************)
EXTENDS AttrsItems

VARIABLES
  items,    \* m.items
  bound,    \* m.bindings: the card each user of a group is bound to
  answer,   \* what the last call returned, and which it was
  putting,  \* Puts holds the lock
  before,   \* the items as they were when it took it
  clashed   \* history: owner and name of cards that ever shared both

vars == <<items, bound, answer, putting, before, clashed>>

TypeOK ==
  /\ items \in [Ids -> Items \cup {Absent}]
  /\ bound \in [Groups -> [Owners -> Ids \cup {NoId}]]
  /\ putting \in BOOLEAN
  /\ before \in [Ids -> Items \cup {Absent}]
  /\ clashed \subseteq Owners \X Names
-----------------------------------------------------------------------------
Bearers(o, n) == {id \in Ids : items[id] = [owner |-> o, name |-> n]}

Shares(id, p) == p.owner # NoOwner /\ p.name # NoName /\ \E other \in Ids \ {id} : items[other] = p

Answer(call, value) == answer' = <<call, value>>

Unlocked == ~putting /\ UNCHANGED <<putting, before, clashed>>

Init ==
  /\ items = [id \in Ids |-> Absent]
  /\ bound = [g \in Groups |-> [u \in Owners |-> NoId]]
  /\ answer = <<"none", NoId>>
  /\ putting = FALSE
  /\ before = items
  /\ clashed = {}

GetById(id) ==
  Unlocked /\ Answer("GetById", items[id]) /\ UNCHANGED <<items, bound>>

GetByUidAndName(o, n) ==
  /\ Unlocked
  /\ \/ \E id \in Bearers(o, n) : Answer("GetByUidAndName", id)
     \/ Bearers(o, n) = {} /\ Answer("GetByUidAndName", NoId)
     \/ <<o, n>> \in clashed /\ Answer("GetByUidAndName", NoId)
  /\ UNCHANGED <<items, bound>>

ListByUid(o) ==
  /\ Unlocked
  /\ Answer("ListByUid", {id \in Ids : items[id] # Absent /\ items[id].owner = o})
  /\ UNCHANGED <<items, bound>>

PutsBegin ==
  /\ ~putting
  /\ putting' = TRUE
  /\ before' = items
  /\ UNCHANGED <<items, bound, answer, clashed>>

Put(id, p) ==
  /\ putting
  /\ items' = [items EXCEPT ![id] = p]
  /\ clashed' = IF Shares(id, p) THEN clashed \cup {<<p.owner, p.name>>} ELSE clashed
  /\ UNCHANGED <<bound, answer, putting, before>>

PutsEnd ==
  /\ putting
  /\ putting' = FALSE
  /\ Answer("Puts", "ok")
  /\ UNCHANGED <<items, bound, before, clashed>>

\* An item with an empty id, or an error of the file.
PutsRefused ==
  /\ putting
  /\ putting' = FALSE
  /\ Answer("Puts", "error")
  /\ items' \in {items, before}
  /\ UNCHANGED <<bound, before, clashed>>

DeleteById(id) ==
  /\ Unlocked
  /\ IF items[id] = Absent
     THEN Answer("DeleteById", "error") /\ UNCHANGED <<items, bound>>
     ELSE /\ Answer("DeleteById", "ok")
          /\ items' = [items EXCEPT ![id] = Absent]
          /\ bound' = [g \in Groups |-> [u \in Owners |->
                         IF bound[g][u] = id THEN NoId ELSE bound[g][u]]]

BindingIdGet(g, u) ==
  Unlocked /\ Answer("BindingIdGet", bound[g][u]) /\ UNCHANGED <<items, bound>>

Bind(g, u, id) ==
  /\ Unlocked /\ UNCHANGED items
  /\ IF items[id] = Absent
     THEN Answer("Bind", "error") /\ UNCHANGED bound
     ELSE Answer("Bind", "ok") /\ bound' = [bound EXCEPT ![g][u] = id]

Unbind(g, u) ==
  /\ Unlocked /\ UNCHANGED items
  /\ Answer("Unbind", "ok")
  /\ bound' = [bound EXCEPT ![g][u] = NoId]

UnbindAll(id) ==
  /\ Unlocked /\ UNCHANGED items
  /\ Answer("UnbindAll", {gu \in Groups \X Owners : bound[gu[1]][gu[2]] = id})
  /\ bound' = [g \in Groups |-> [u \in Owners |->
                 IF bound[g][u] = id THEN NoId ELSE bound[g][u]]]

BindingGroupIdList(id) ==
  /\ Unlocked
  /\ Answer("BindingGroupIdList", {g \in Groups : \E u \in Owners : bound[g][u] = id})
  /\ UNCHANGED <<items, bound>>

Next ==
  \/ \E id \in Ids :
       \/ GetById(id) \/ DeleteById(id) \/ UnbindAll(id) \/ BindingGroupIdList(id)
       \/ \E p \in Params(id) : Put(id, p)
  \/ \E o \in Owners : ListByUid(o) \/ \E n \in Names : GetByUidAndName(o, n)
  \/ PutsBegin \/ PutsEnd \/ PutsRefused
  \/ \E g \in Groups, u \in Owners :
       BindingIdGet(g, u) \/ Unbind(g, u) \/ \E id \in Ids : Bind(g, u, id)

Spec == Init /\ [][Next]_vars
-----------------------------------------------------------------------------
\* A binding always leads to a card: DeleteById drops the bindings of what it deletes, Bind
\* refuses a card that is not there, and a refused Puts takes no bound card away.
BoundCardExists ==
  \A g \in Groups, u \in Owners : bound[g][u] # NoId => items[bound[g][u]] # Absent
=============================================================================
