----------------------------- MODULE AttrsCache -----------------------------
(***************************************************************************)
(* The write-behind cache of attribute cards: dice/attrs/attrs_manager.go  *)
(* and attributes_item.go.                                                 *)
(*                                                                         *)
(* AttrsManager keeps a concurrent map  id -> *AttributesItem  in front of *)
(* an AttrsIO store.  Message handlers (one goroutine per incoming frame)  *)
(* take the pointer out of the map, keep it, and edit the card through it; *)
(* a saver (the 60 s goroutine of Init, and SaveAll when the program ends) *)
(* copies the cards whose IsSaved flag is FALSE, puts them into the store  *)
(* and sets their flag.  Nothing but the map's own lock and the store's    *)
(* own lock orders these steps, so each step below is one access to the    *)
(* map, to the store or to a card.                                         *)
(*                                                                         *)
(* A card's data is the set of attribute names it holds: values matter to  *)
(* no property here, presence does.  Pointers are the members of Objs; one *)
(* that nothing refers to is free, as the garbage collector would have it. *)
(***************************************************************************)
EXTENDS Integers

CONSTANTS
  Ids,         \* the attribute ids in play
  Cards,       \* those that are character cards, made by CharNew
  BadIds,      \* those the store refuses: the empty id of a private chat's group
  Names,       \* attribute names
  Objs,        \* AttributesItem objects on the heap
  Handlers,    \* goroutines handling a message
  Savers,      \* goroutines running CheckForSave
  Exit,        \* the saver that is SaveAll, run as the program ends
  Null,        \* no object, no id, no copy
  Absent,      \* the store has no such item
  AtomicPuts,  \* Puts is one transaction (buntdb), or stops half way (memory)
  IoMayFail,   \* the store, or the conversion of a card to or from its text, may return an error
  Edits        \* the edits handlers make: "store", "delete", "clear", "save"

ASSUME IdsAssumption == Cards \subseteq Ids /\ BadIds \subseteq Ids /\ Cards \cap BadIds = {}
ASSUME FlagsAssumption == AtomicPuts \in BOOLEAN /\ IoMayFail \in BOOLEAN
ASSUME NoValueAssumption ==
  /\ Null \notin Ids /\ Null \notin Objs
  /\ \A d \in SUBSET Names : d # Null /\ d # Absent

VARIABLES
  up,       \* the process runs
  cache,    \* AttrsManager.m
  data,     \* AttributesItem.valueMap, the names it holds
  saved,    \* AttributesItem.IsSaved
  disk,     \* what the AttrsIO holds under each id
  pc,       \* where each handler is
  req,      \* the id it asked for
  held,     \* the *AttributesItem it keeps
  copy,     \* the serialized card of its Save in progress
  savePc,   \* where each saver is
  toVisit,  \* ids its Range has not come to
  batch,    \* resultList: the serialized cards, by id
  issued,   \* character ids generateAttrID has given out
  \* history, read by the properties only
  races,    \* the races each id went through (see Races)
  removed,  \* names a handler deleted or cleared from the card
  gone,     \* character ids CharDelete removed from the store
  late      \* a handler was at work while SaveAll was

memory  == <<cache, data, saved, pc, req, held, copy, savePc, toVisit, batch>>
history == <<races, removed, gone, late>>
vars    == <<up, memory, disk, issued, history>>

HandlerPcs == {"idle", "load", "fetch", "install", "hold", "flag", "savePuts",
               "saveMark", "newCache", "uncache"}
SaverPcs   == {"idle", "scan", "mark", "done"}

(***************************************************************************)
(* The four ways in which steps of two goroutines get in each other's way. *)
(*   window    an edit, or a second copy, between the copy a save took of  *)
(*             a card and the moment that save sets the card's flag        *)
(*   unflagged an edit that leaves IsSaved alone (AttributesItem.Delete)   *)
(*   split     two objects stand for one id, or one that was not filled    *)
(*             from what the store holds                                   *)
(*   revive    a save, or a new object, of a card CharDelete removed       *)
(***************************************************************************)
Races == {"window", "unflagged", "split", "revive"}

Data == SUBSET Names

TypeOK ==
  /\ up \in BOOLEAN
  /\ cache \in [Ids -> Objs \cup {Null}]
  /\ data \in [Objs -> Data]
  /\ saved \in [Objs -> BOOLEAN]
  /\ disk \in [Ids -> {Absent} \cup Data]
  /\ pc \in [Handlers -> HandlerPcs]
  /\ req \in [Handlers -> Ids \cup {Null}]
  /\ held \in [Handlers -> Objs \cup {Null}]
  /\ copy \in [Handlers -> {Null} \cup Data]
  /\ savePc \in [Savers -> SaverPcs]
  /\ toVisit \in [Savers -> SUBSET Ids]
  /\ batch \in [Savers -> [Ids -> {Null} \cup Data]]
  /\ issued \subseteq Cards
  /\ races \in [Ids -> SUBSET Races]
  /\ removed \in [Ids -> SUBSET Names]
  /\ gone \subseteq Cards
  /\ late \in BOOLEAN
  /\ \A h \in Handlers :
       /\ pc[h] # "idle" => req[h] \in Ids
       /\ pc[h] \in {"install", "hold", "flag", "savePuts", "saveMark", "newCache"} => held[h] \in Objs
       /\ pc[h] \in {"savePuts", "saveMark"} => copy[h] \in Data
-----------------------------------------------------------------------------
NoBatch == [id \in Ids |-> Null]

Batched(s) == {id \in Ids : batch[s][id] # Null}

Free(o) == (\A id \in Ids : cache[id] # o) /\ (\A h \in Handlers : held[h] # o)

SavingCard(h, id) == pc[h] \in {"savePuts", "saveMark"} /\ req[h] = id

\* A save holds a copy of card id that it has not put or not flagged yet.
Window(id) == (\E s \in Savers : batch[s][id] # Null) \/ (\E h \in Handlers : SavingCard(h, id))

\* CharDelete is between its two steps for card id.
Deleting(id) == \E h \in Handlers : pc[h] = "uncache" /\ req[h] = id

\* Nothing is under way that will still touch card id in the store or the map.
AtRest(id) ==
  /\ ~Window(id)
  /\ \A h \in Handlers : req[h] = id => pc[h] \notin {"flag", "newCache", "uncache"}

Race(id, kinds) == races' = [races EXCEPT ![id] = @ \cup kinds]

\* An edit of the card h holds, and how it may go wrong.
EditRace(h) ==
  IF cache[req[h]] = held[h] /\ Window(req[h]) THEN {"window"} ELSE {}

\* A save takes a copy of an object for card id; `cached`: it is the one in the map.
CopyRaces(id, cached) ==
  [races EXCEPT ![id] =
     (IF Window(id) THEN @ \cup {"window"}
      ELSE IF cached THEN @ \ {"window", "unflagged"} ELSE @)
     \cup (IF cached THEN {} ELSE {"split"})
     \cup (IF Deleting(id) \/ (id \in gone /\ ~cached) THEN {"revive"} ELSE {})]

\* Object o is put into the map under id.
InstallRace(id, o) ==
  LET fresh == disk[id] = IF saved[o] THEN data[o] ELSE Absent
  IN  (IF cache[id] = Null /\ ~Window(id) /\ fresh THEN {} ELSE {"split"})
      \cup (IF id \in gone THEN {"revive"} ELSE {})

\* A handler begins while SaveAll runs.
NoteLate == late' = (late \/ (Exit \in Savers /\ savePc[Exit] # "idle"))
-----------------------------------------------------------------------------
\* The process starts with an empty map, no goroutine at work and an empty heap.
ColdMemory(cache_, data_, saved_, pc_, req_, held_, copy_, savePc_, toVisit_, batch_) ==
  /\ cache_ = [id \in Ids |-> Null]
  /\ data_ = [o \in Objs |-> {}]
  /\ saved_ = [o \in Objs |-> TRUE]
  /\ pc_ = [h \in Handlers |-> "idle"]
  /\ req_ = [h \in Handlers |-> Null]
  /\ held_ = [h \in Handlers |-> Null]
  /\ copy_ = [h \in Handlers |-> Null]
  /\ savePc_ = [s \in Savers |-> "idle"]
  /\ toVisit_ = [s \in Savers |-> {}]
  /\ batch_ = [s \in Savers |-> NoBatch]

\* The program starts on whatever an earlier run left in the store.
Init ==
  /\ up = TRUE
  /\ ColdMemory(cache, data, saved, pc, req, held, copy, savePc, toVisit, batch)
  /\ disk \in [Ids -> {Absent} \cup Data]
  /\ \A id \in BadIds : disk[id] = Absent
  /\ issued = {c \in Cards : disk[c] # Absent}
  /\ races = [id \in Ids |-> {}]
  /\ removed = [id \in Ids |-> {}]
  /\ gone = {}
  /\ late = FALSE
-----------------------------------------------------------------------------
(* A handler asks for a card.  The id of a character card comes from the   *)
(* name or the binding the store has for it (CharIdGetByName, Load), so    *)
(* the store had the card then; the other ids are built from group and user.*)

Resolve(h, id) ==
  /\ up /\ pc[h] = "idle"
  /\ id \in Cards => disk[id] # Absent
  /\ pc' = [pc EXCEPT ![h] = "load"]
  /\ req' = [req EXCEPT ![h] = id]
  /\ NoteLate
  /\ UNCHANGED <<up, cache, data, saved, disk, held, copy, savePc, toVisit, batch, issued, races, removed, gone>>

LoadHit(h) ==
  /\ up /\ pc[h] = "load" /\ cache[req[h]] # Null
  /\ held' = [held EXCEPT ![h] = cache[req[h]]]
  /\ pc' = [pc EXCEPT ![h] = "hold"]
  /\ UNCHANGED <<up, cache, data, saved, disk, req, copy, savePc, toVisit, batch, issued, history>>

LoadMiss(h) ==
  /\ up /\ pc[h] = "load" /\ cache[req[h]] = Null
  /\ pc' = [pc EXCEPT ![h] = "fetch"]
  /\ UNCHANGED <<up, cache, data, saved, disk, req, held, copy, savePc, toVisit, batch, issued, history>>

\* GetById: the item becomes a saved object; no item, or an error, an unsaved empty one.
Fetch(h, o) ==
  /\ up /\ pc[h] = "fetch" /\ Free(o)
  /\ \/ /\ disk[req[h]] # Absent
        /\ data' = [data EXCEPT ![o] = disk[req[h]]]
        /\ saved' = [saved EXCEPT ![o] = TRUE]
     \/ /\ disk[req[h]] = Absent \/ IoMayFail
        /\ data' = [data EXCEPT ![o] = {}]
        /\ saved' = [saved EXCEPT ![o] = FALSE]
  /\ held' = [held EXCEPT ![h] = o]
  /\ pc' = [pc EXCEPT ![h] = "install"]
  /\ UNCHANGED <<up, cache, disk, req, copy, savePc, toVisit, batch, issued, history>>

Install(h) ==
  /\ up /\ pc[h] = "install"
  /\ cache' = [cache EXCEPT ![req[h]] = held[h]]
  /\ pc' = [pc EXCEPT ![h] = "hold"]
  /\ Race(req[h], InstallRace(req[h], held[h]))
  /\ UNCHANGED <<up, data, saved, disk, req, held, copy, savePc, toVisit, batch, issued, removed, gone, late>>

\* The text in the store is not that of a card: LoadById returns an error, and the command gives up.
FetchUnreadable(h) ==
  /\ up /\ pc[h] = "fetch" /\ disk[req[h]] # Absent /\ IoMayFail
  /\ pc' = [pc EXCEPT ![h] = "idle"]
  /\ req' = [req EXCEPT ![h] = Null]
  /\ UNCHANGED <<up, cache, data, saved, disk, held, copy, savePc, toVisit, batch, issued, history>>

\* Mutant: a card nobody uses any more leaves the map, saved or not.
ReleaseEvicts(h) ==
  /\ up /\ pc[h] = "hold"
  /\ pc' = [pc EXCEPT ![h] = "idle"]
  /\ cache' = [cache EXCEPT ![req[h]] = Null]
  /\ req' = [req EXCEPT ![h] = Null]
  /\ held' = [held EXCEPT ![h] = Null]
  /\ UNCHANGED <<up, data, saved, disk, copy, savePc, toVisit, batch, issued, history>>

\* The handler has what it wanted of the card, or Save cannot serialize it, and lets go of it.
Release(h) ==
  /\ up /\ pc[h] = "hold"
  /\ pc' = [pc EXCEPT ![h] = "idle"]
  /\ req' = [req EXCEPT ![h] = Null]
  /\ held' = [held EXCEPT ![h] = Null]
  /\ UNCHANGED <<up, cache, data, saved, disk, copy, savePc, toVisit, batch, issued, history>>
-----------------------------------------------------------------------------
(* A handler edits the card it holds.  Store and Clear change the value    *)
(* map and then, as a second statement, the flag; Delete has no second one.*)

Store(h, n) ==
  /\ up /\ pc[h] = "hold" /\ "store" \in Edits
  /\ data' = [data EXCEPT ![held[h]] = @ \cup {n}]
  /\ pc' = [pc EXCEPT ![h] = "flag"]
  /\ Race(req[h], EditRace(h))
  /\ UNCHANGED <<up, cache, saved, disk, req, held, copy, savePc, toVisit, batch, issued, removed, gone, late>>

Clear(h) ==
  /\ up /\ pc[h] = "hold" /\ "clear" \in Edits
  /\ data' = [data EXCEPT ![held[h]] = {}]
  /\ pc' = [pc EXCEPT ![h] = "flag"]
  /\ removed' = [removed EXCEPT ![req[h]] = @ \cup data[held[h]]]
  /\ Race(req[h], EditRace(h))
  /\ UNCHANGED <<up, cache, saved, disk, req, held, copy, savePc, toVisit, batch, issued, gone, late>>

\* Mutant: Store and Clear forget the flag, as Delete does.
SetUnsavedForgotten(h) ==
  /\ up /\ pc[h] = "flag"
  /\ pc' = [pc EXCEPT ![h] = "hold"]
  /\ UNCHANGED <<up, cache, data, saved, disk, req, held, copy, savePc, toVisit, batch, issued, history>>

SetUnsaved(h) ==
  /\ up /\ pc[h] = "flag"
  /\ saved' = [saved EXCEPT ![held[h]] = FALSE]
  /\ pc' = [pc EXCEPT ![h] = "hold"]
  /\ UNCHANGED <<up, cache, data, disk, req, held, copy, savePc, toVisit, batch, issued, history>>

Delete(h, n) ==
  /\ up /\ pc[h] = "hold" /\ "delete" \in Edits
  /\ n \in data[held[h]]
  /\ data' = [data EXCEPT ![held[h]] = @ \ {n}]
  /\ removed' = [removed EXCEPT ![req[h]] = @ \cup {n}]
  /\ Race(req[h], EditRace(h) \cup (IF cache[req[h]] = held[h] THEN {"unflagged"} ELSE {}))
  /\ UNCHANGED <<up, cache, saved, disk, pc, req, held, copy, savePc, toVisit, batch, issued, gone, late>>
-----------------------------------------------------------------------------
(* AttrsManager.Save: serialize, Puts, set the flag, put into the map.     *)

\* Mutant: Puts is given the card's id where its data belongs.
SaveCopySwapped(h) ==
  /\ up /\ pc[h] = "hold" /\ "save" \in Edits /\ req[h] \notin BadIds
  /\ copy' = [copy EXCEPT ![h] = {req[h]}]
  /\ pc' = [pc EXCEPT ![h] = "savePuts"]
  /\ races' = CopyRaces(req[h], cache[req[h]] = held[h])
  /\ UNCHANGED <<up, cache, data, saved, disk, req, held, savePc, toVisit, batch, issued, removed, gone, late>>

SaveCopy(h) ==
  /\ up /\ pc[h] = "hold" /\ "save" \in Edits /\ req[h] \notin BadIds
  /\ copy' = [copy EXCEPT ![h] = data[held[h]]]
  /\ pc' = [pc EXCEPT ![h] = "savePuts"]
  /\ races' = CopyRaces(req[h], cache[req[h]] = held[h])
  /\ UNCHANGED <<up, cache, data, saved, disk, req, held, savePc, toVisit, batch, issued, removed, gone, late>>

SavePuts(h) ==
  /\ up /\ pc[h] = "savePuts"
  /\ disk' = [disk EXCEPT ![req[h]] = copy[h]]
  /\ pc' = [pc EXCEPT ![h] = "saveMark"]
  /\ UNCHANGED <<up, cache, data, saved, req, held, copy, savePc, toVisit, batch, issued, history>>

\* The command gives up; what Delete had left unflagged stays so.
SavePutsFail(h) ==
  /\ up /\ pc[h] = "savePuts" /\ IoMayFail
  /\ pc' = [pc EXCEPT ![h] = "idle"]
  /\ req' = [req EXCEPT ![h] = Null]
  /\ held' = [held EXCEPT ![h] = Null]
  /\ copy' = [copy EXCEPT ![h] = Null]
  /\ Race(req[h], IF cache[req[h]] = held[h] THEN {"unflagged"} ELSE {})
  /\ UNCHANGED <<up, cache, data, saved, disk, savePc, toVisit, batch, issued, removed, gone, late>>

SaveMark(h) ==
  /\ up /\ pc[h] = "saveMark"
  /\ saved' = [saved EXCEPT ![held[h]] = TRUE]
  /\ cache' = [cache EXCEPT ![req[h]] = held[h]]
  /\ copy' = [copy EXCEPT ![h] = Null]
  /\ pc' = [pc EXCEPT ![h] = "hold"]
  /\ UNCHANGED <<up, data, disk, req, held, savePc, toVisit, batch, issued, history>>
-----------------------------------------------------------------------------
(* CharNew: Puts, then the map.  CharDelete: DeleteById, then the map.     *)

CharNewPuts(h, c, o) ==
  /\ up /\ pc[h] = "idle" /\ c \in Cards \ issued /\ Free(o)
  /\ issued' = issued \cup {c}
  /\ disk' = [disk EXCEPT ![c] = {}]
  /\ data' = [data EXCEPT ![o] = {}]
  /\ saved' = [saved EXCEPT ![o] = TRUE]
  /\ req' = [req EXCEPT ![h] = c]
  /\ held' = [held EXCEPT ![h] = o]
  /\ pc' = [pc EXCEPT ![h] = "newCache"]
  /\ NoteLate
  /\ UNCHANGED <<up, cache, copy, savePc, toVisit, batch, races, removed, gone>>

CharNewCache(h) ==
  /\ up /\ pc[h] = "newCache"
  /\ cache' = [cache EXCEPT ![req[h]] = held[h]]
  /\ pc' = [pc EXCEPT ![h] = "idle"]
  /\ req' = [req EXCEPT ![h] = Null]
  /\ held' = [held EXCEPT ![h] = Null]
  /\ Race(req[h], InstallRace(req[h], held[h]))
  /\ UNCHANGED <<up, data, saved, disk, copy, savePc, toVisit, batch, issued, removed, gone, late>>

CharDeleteIo(h) ==
  /\ up /\ pc[h] = "load" /\ req[h] \in Cards /\ disk[req[h]] # Absent
  /\ disk' = [disk EXCEPT ![req[h]] = Absent]
  /\ gone' = gone \cup {req[h]}
  /\ pc' = [pc EXCEPT ![h] = "uncache"]
  /\ Race(req[h], IF Window(req[h]) THEN {"revive"} ELSE {})
  /\ UNCHANGED <<up, cache, data, saved, req, held, copy, savePc, toVisit, batch, issued, removed, late>>

\* DeleteById finds no item: CharDelete returns its error and leaves the map alone.
CharDeleteMissing(h) ==
  /\ up /\ pc[h] = "load" /\ req[h] \in Cards /\ disk[req[h]] = Absent
  /\ pc' = [pc EXCEPT ![h] = "idle"]
  /\ req' = [req EXCEPT ![h] = Null]
  /\ UNCHANGED <<up, cache, data, saved, disk, held, copy, savePc, toVisit, batch, issued, history>>

\* Mutant: the deleted card stays in the map.
CharDeleteKeepsCache(h) ==
  /\ up /\ pc[h] = "uncache"
  /\ pc' = [pc EXCEPT ![h] = "idle"]
  /\ req' = [req EXCEPT ![h] = Null]
  /\ Race(req[h], IF Window(req[h]) THEN {"revive"} ELSE {})
  /\ UNCHANGED <<up, cache, data, saved, disk, held, copy, savePc, toVisit, batch, issued, removed, gone, late>>

CharDeleteCache(h) ==
  /\ up /\ pc[h] = "uncache"
  /\ cache' = [cache EXCEPT ![req[h]] = Null]
  /\ pc' = [pc EXCEPT ![h] = "idle"]
  /\ req' = [req EXCEPT ![h] = Null]
  /\ Race(req[h], IF Window(req[h]) THEN {"revive"} ELSE {})
  /\ UNCHANGED <<up, data, saved, disk, held, copy, savePc, toVisit, batch, issued, removed, gone, late>>
-----------------------------------------------------------------------------
(* CheckForSave.                                                           *)

SaveBegin(s) ==
  /\ up /\ savePc[s] = "idle"
  /\ savePc' = [savePc EXCEPT ![s] = "scan"]
  /\ toVisit' = [toVisit EXCEPT ![s] = Ids]
  /\ late' = (late \/ (s = Exit /\ \E h \in Handlers : pc[h] # "idle"))
  /\ UNCHANGED <<up, cache, data, saved, disk, pc, req, held, copy, batch, issued, races, removed, gone>>

\* Mutant: the card is serialized from a new, empty value map.
VisitCopiesNothing(s, id) ==
  /\ up /\ savePc[s] = "scan" /\ id \in toVisit[s]
  /\ toVisit' = [toVisit EXCEPT ![s] = @ \ {id}]
  /\ \/ /\ cache[id] # Null /\ ~saved[cache[id]]
        /\ batch' = [batch EXCEPT ![s][id] = {}]
        /\ races' = CopyRaces(id, TRUE)
     \/ /\ IoMayFail \/ (cache[id] # Null => saved[cache[id]])
        /\ UNCHANGED <<batch, races>>
  /\ UNCHANGED <<up, cache, data, saved, disk, pc, req, held, copy, savePc, issued, removed, gone, late>>

\* Range calls back with the entry id has when it comes to it; a card that cannot be serialized waits for
\* the next run.
Visit(s, id) ==
  /\ up /\ savePc[s] = "scan" /\ id \in toVisit[s]
  /\ toVisit' = [toVisit EXCEPT ![s] = @ \ {id}]
  /\ \/ /\ cache[id] # Null /\ ~saved[cache[id]]
        /\ batch' = [batch EXCEPT ![s][id] = data[cache[id]]]
        /\ races' = CopyRaces(id, TRUE)
     \/ /\ IoMayFail \/ (cache[id] # Null => saved[cache[id]])
        /\ UNCHANGED <<batch, races>>
  /\ UNCHANGED <<up, cache, data, saved, disk, pc, req, held, copy, savePc, issued, removed, gone, late>>

\* CheckForSave returns.  After SaveAll the program ends.
SaverReturns(s) ==
  /\ savePc' = [savePc EXCEPT ![s] = IF s = Exit THEN "done" ELSE "idle"]
  /\ up' = (s # Exit)

Scanned(s) == up /\ savePc[s] = "scan" /\ toVisit[s] = {}

NothingToSave(s) ==
  /\ Scanned(s) /\ Batched(s) = {}
  /\ SaverReturns(s)
  /\ UNCHANGED <<cache, data, saved, disk, pc, req, held, copy, toVisit, batch, issued, history>>

\* Mutant: CheckForSave returns after Puts and leaves the flags.
PutsAllWithoutMarks(s) ==
  /\ Scanned(s) /\ Batched(s) # {} /\ Batched(s) \cap BadIds = {}
  /\ disk' = [id \in Ids |-> IF id \in Batched(s) THEN batch[s][id] ELSE disk[id]]
  /\ batch' = [batch EXCEPT ![s] = NoBatch]
  /\ SaverReturns(s)
  /\ UNCHANGED <<cache, data, saved, pc, req, held, copy, toVisit, issued, history>>

PutsAll(s) ==
  /\ Scanned(s) /\ Batched(s) # {} /\ Batched(s) \cap BadIds = {}
  /\ disk' = [id \in Ids |-> IF id \in Batched(s) THEN batch[s][id] ELSE disk[id]]
  /\ savePc' = [savePc EXCEPT ![s] = "mark"]
  /\ UNCHANGED <<up, cache, data, saved, pc, req, held, copy, toVisit, batch, issued, history>>

\* Puts returns an error: `put` is what it had written when it met a bad id.
PutsError(s) ==
  /\ Scanned(s)
  /\ \/ Batched(s) \cap BadIds # {}
     \/ Batched(s) # {} /\ IoMayFail
  /\ \E put \in IF AtomicPuts \/ Batched(s) \cap BadIds = {} THEN {{}}
                ELSE SUBSET (Batched(s) \ BadIds) :
       disk' = [id \in Ids |-> IF id \in put THEN batch[s][id] ELSE disk[id]]
  /\ batch' = [batch EXCEPT ![s] = NoBatch]
  /\ SaverReturns(s)
  /\ UNCHANGED <<cache, data, saved, pc, req, held, copy, toVisit, issued, history>>

\* `v, _ := am.m.Load(key); v.IsSaved = true` for one key.
Mark(s, id) ==
  /\ up /\ savePc[s] = "mark" /\ id \in Batched(s) /\ cache[id] # Null
  /\ saved' = [saved EXCEPT ![cache[id]] = TRUE]
  /\ batch' = [batch EXCEPT ![s][id] = Null]
  /\ IF Batched(s) = {id} THEN SaverReturns(s) ELSE UNCHANGED <<savePc, up>>
  /\ UNCHANGED <<cache, data, disk, pc, req, held, copy, toVisit, issued, history>>

\* The same with no entry in the map: v is nil and the process dies.
MarkPanics(s) ==
  /\ up /\ savePc[s] = "mark" /\ \E id \in Batched(s) : cache[id] = Null
  /\ up' = FALSE
  /\ UNCHANGED <<memory, disk, issued, history>>
-----------------------------------------------------------------------------
\* The process may die at any point; it starts again with an empty map.
Crash == up /\ up' = FALSE /\ UNCHANGED <<memory, disk, issued, history>>

Restart ==
  /\ ~up /\ up' = TRUE
  /\ ColdMemory(cache', data', saved', pc', req', held', copy', savePc', toVisit', batch')
  /\ races' = [id \in Ids |-> races[id] \cap {"revive"}]
  /\ removed' = [id \in Ids |-> {}]
  /\ late' = FALSE
  /\ UNCHANGED <<disk, issued, gone>>

HandlerNext(h) ==
  \/ \E id \in Ids : Resolve(h, id)
  \/ LoadHit(h)
  \/ LoadMiss(h)
  \/ \E o \in Objs : Fetch(h, o)
  \/ FetchUnreadable(h)
  \/ Install(h)
  \/ Release(h)
  \/ \E n \in Names : Store(h, n)
  \/ \E n \in Names : Delete(h, n)
  \/ Clear(h)
  \/ SetUnsaved(h)
  \/ SaveCopy(h)
  \/ SavePuts(h)
  \/ SavePutsFail(h)
  \/ SaveMark(h)
  \/ \E c \in Cards, o \in Objs : CharNewPuts(h, c, o)
  \/ CharNewCache(h)
  \/ CharDeleteIo(h)
  \/ CharDeleteMissing(h)
  \/ CharDeleteCache(h)

SaverNext(s) ==
  \/ SaveBegin(s)
  \/ \E id \in Ids : Visit(s, id)
  \/ NothingToSave(s)
  \/ PutsAll(s)
  \/ PutsError(s)
  \/ \E id \in Ids : Mark(s, id)
  \/ MarkPanics(s)

Next ==
  \/ \E h \in Handlers : HandlerNext(h)
  \/ \E s \in Savers : SaverNext(s)
  \/ Crash
  \/ Restart

Spec == Init /\ [][Next]_vars

\* The ticker goroutine keeps running, and Range, Puts and the marks return.
FairSpec == Spec /\ \A s \in Savers \ {Exit} : WF_vars(SaverNext(s))
-----------------------------------------------------------------------------
(***************************************************************************)
(* Properties.                                                             *)
(***************************************************************************)

\* A card the map says is saved is what the store holds, at every moment no step is under
\* way on it, unless an edit fell into a save's window (CheckForSave, Save), went without
\* the flag (Delete), LoadById put a second or outdated object into the map, or the card
\* was being deleted.
CleanMeansPersisted ==
  \A id \in Ids :
    /\ cache[id] # Null /\ saved[cache[id]] /\ AtRest(id)
    /\ races[id] = {}
    => disk[id] = data[cache[id]]

\* A card CharDelete removed stays removed, in the store and after a restart, unless a save
\* or a load of it overlapped the deletion.
DeletedStaysDeleted ==
  \A id \in gone : "revive" \notin races[id] => disk[id] = Absent

\* CheckForSave finds every card it saved still in the map when it sets the flags (it does
\* not check), unless CharDelete ran in between.
MarkMeetsDeletion ==
  \A s \in Savers, id \in Ids :
    savePc[s] = "mark" /\ batch[s][id] # Null /\ cache[id] = Null => "revive" \in races[id]

\* No save takes an attribute out of the store that no handler asked to remove, unless
\* edits and saves of that card overlapped or two objects stood for it.
NothingErased ==
  [][\A id \in Ids :
       disk[id] # Absent /\ disk'[id] # Absent /\ races[id] \cap {"window", "split", "revive"} = {}
       => disk[id] \ removed[id] \subseteq disk'[id]]_vars

\* A card waiting to be saved is flagged saved in the end, or leaves the map with a deletion
\* or the process, unless an item the store refuses waits too: its Puts fails every batch.
UnsavedIsSaved ==
  \A id \in Ids : \A o \in Objs :
    (cache[id] = o /\ ~saved[o])
      ~> (cache[id] # o \/ saved[o] \/ ~up \/ \E b \in BadIds : cache[b] # Null /\ ~saved[cache[b]])

\* dice.go:283, "SaveAll saves all attribute data not yet saved" (and main.go:101, "make sure
\* all unsaved attribute data is saved when the program exits"): when SaveAll returns, with
\* no handler at work since before it began, the store holds what the map holds.
SaveAllSavesAll ==
  Exit \in Savers /\ savePc[Exit] = "done" /\ ~late =>
    \A id \in Ids : cache[id] # Null => disk[id] = data[cache[id]]

\* attrs_manager.go:269, "the data should never be missing here".
MarkFindsCard ==
  \A s \in Savers, id \in Ids : savePc[s] = "mark" /\ batch[s][id] # Null => cache[id] # Null
-----------------------------------------------------------------------------
(***************************************************************************)
(* The inductive invariant behind CleanMeansPersisted, DeletedStaysDeleted *)
(* and MarkMeetsDeletion.                                                  *)
(***************************************************************************)

\* An object in the map or in a handler's hands belongs to one id.
OneObject ==
  /\ \A i, j \in Ids : cache[i] = cache[j] /\ cache[i] # Null => i = j
  /\ \A h \in Handlers, id \in Ids : held[h] # Null /\ cache[id] = held[h] => req[h] = id
  /\ \A g, h \in Handlers : held[g] # Null /\ held[g] = held[h] => req[g] = req[h]
  /\ \A h \in Handlers : pc[h] \in {"install", "newCache"} =>
       /\ \A id \in Ids : cache[id] # held[h]
       /\ \A g \in Handlers \ {h} : held[g] # held[h]
  /\ \A h \in Handlers : held[h] # Null => pc[h] \notin {"idle", "load", "fetch", "uncache"}

\* Nothing anywhere refers to a character id that was not given out.
UnissuedUnknown ==
  /\ gone \subseteq issued
  /\ \A c \in Cards \ issued :
       /\ disk[c] = Absent /\ cache[c] = Null
       /\ \A s \in Savers : batch[s][c] = Null
       /\ \A h \in Handlers : req[h] # c

\* What CharDelete leaves, and what a copy taken of a card means, while no race is noted.
DeletionInv ==
  /\ \A s \in Savers, id \in Ids : batch[s][id] # Null /\ cache[id] = Null => "revive" \in races[id]
  /\ \A id \in gone : "revive" \notin races[id] =>
       disk[id] = Absent /\ ~Window(id) /\ (cache[id] = Null \/ Deleting(id))

\* Card id while no race is noted: one save at a time, whose copy is the card as it is.
OneCopy(id) ==
  /\ \A s, t \in Savers : batch[s][id] # Null /\ batch[t][id] # Null => s = t
  /\ \A s \in Savers, h \in Handlers : batch[s][id] # Null => ~SavingCard(h, id)
  /\ \A g, h \in Handlers : SavingCard(g, id) /\ SavingCard(h, id) => g = h

CopyCurrent(id) ==
  /\ \A s \in Savers : batch[s][id] # Null =>
       /\ cache[id] # Null /\ batch[s][id] = data[cache[id]]
       /\ savePc[s] = "mark" => disk[id] = batch[s][id]
  /\ \A h \in Handlers : SavingCard(h, id) =>
       /\ held[h] = cache[id] /\ copy[h] = data[cache[id]]
       /\ pc[h] = "saveMark" => disk[id] = copy[h]

CleanCurrent(id) ==
  /\ cache[id] # Null /\ saved[cache[id]] /\ ~Deleting(id)
  /\ \A h \in Handlers : ~SavingCard(h, id) /\ (pc[h] = "flag" => held[h] # cache[id])
  => disk[id] = data[cache[id]]

QuietInv == \A id \in Ids : races[id] = {} => OneCopy(id) /\ CopyCurrent(id) /\ CleanCurrent(id)

(***************************************************************************)
(* The inductive invariant behind NothingErased.                           *)
(***************************************************************************)

\* What the store and the copies hold of card id is still in its object, but for what was
\* removed on request.
ObjectKeeps(id) ==
  /\ cache[id] # Null /\ disk[id] # Absent => disk[id] \ removed[id] \subseteq data[cache[id]]
  /\ \A s \in Savers : batch[s][id] # Null =>
       cache[id] # Null /\ batch[s][id] \ removed[id] \subseteq data[cache[id]]
  /\ \A h \in Handlers : SavingCard(h, id) =>
       held[h] = cache[id] /\ copy[h] \ removed[id] \subseteq data[cache[id]]

\* ... and what the store holds is in the copies.
CopiesKeep(id) ==
  /\ OneCopy(id)
  /\ \A s \in Savers : batch[s][id] # Null /\ disk[id] # Absent => disk[id] \ removed[id] \subseteq batch[s][id]
  /\ \A h \in Handlers : SavingCard(h, id) /\ disk[id] # Absent => disk[id] \ removed[id] \subseteq copy[h]

KeepInv ==
  \A id \in Ids : races[id] \cap {"split", "revive"} = {} =>
    ObjectKeeps(id) /\ ("window" \notin races[id] => CopiesKeep(id))
=============================================================================
