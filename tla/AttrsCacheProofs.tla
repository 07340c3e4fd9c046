-------------------------- MODULE AttrsCacheProofs --------------------------
(***************************************************************************)
(* Proofs about AttrsCache, for every set of ids, cards, attribute names,  *)
(* handlers and savers.                                                    *)
(***************************************************************************)
EXTENDS AttrsCache, TLAPS

LEMMA InitTypeOK == Init => TypeOK
<1> SUFFICES ASSUME Init PROVE TypeOK
  OBVIOUS
<1>1. issued \subseteq Cards /\ gone \subseteq Cards /\ disk \in [Ids -> {Absent} \cup Data]
  BY DEF Init
<1>2. /\ cache \in [Ids -> Objs \cup {Null}]
      /\ data \in [Objs -> Data]
      /\ saved \in [Objs -> BOOLEAN]
      /\ req \in [Handlers -> Ids \cup {Null}]
      /\ held \in [Handlers -> Objs \cup {Null}]
      /\ copy \in [Handlers -> {Null} \cup Data]
  BY DEF Init, ColdMemory, Data
<1>3. /\ pc \in [Handlers -> HandlerPcs]
      /\ \A h \in Handlers : pc[h] = "idle"
      /\ savePc \in [Savers -> SaverPcs]
      /\ toVisit \in [Savers -> SUBSET Ids]
      /\ batch \in [Savers -> [Ids -> {Null} \cup Data]]
  BY DEF Init, ColdMemory, HandlerPcs, SaverPcs, NoBatch
<1>4. races \in [Ids -> SUBSET Races] /\ removed \in [Ids -> SUBSET Names]
  BY DEF Init
<1>5. up \in BOOLEAN /\ late \in BOOLEAN
  BY DEF Init
<1>6. QED
  BY <1>1, <1>2, <1>3, <1>4, <1>5 DEF TypeOK

\* What the models of Null and Absent give: no card's data is either.
LEMMA DataFacts ==
  /\ {} \in Data /\ Null \notin Data /\ Absent \notin Data
  /\ \A d \in Data, n \in Names : d \cup {n} \in Data /\ d \ {n} \in Data
  BY NoValueAssumption DEF Data

\* A copy adds to and takes from the races of one id.
LEMMA CopyRacesType ==
  ASSUME races \in [Ids -> SUBSET Races], NEW id \in Ids, NEW cached \in BOOLEAN
  PROVE  CopyRaces(id, cached) \in [Ids -> SUBSET Races]
<1> DEFINE kinds == (IF Window(id) THEN races[id] \cup {"window"}
                     ELSE IF cached THEN races[id] \ {"window", "unflagged"} ELSE races[id])
                    \cup (IF cached THEN {} ELSE {"split"})
                    \cup (IF Deleting(id) \/ (id \in gone /\ ~cached) THEN {"revive"} ELSE {})
<1>1. kinds \in SUBSET Races
  BY DEF Races
<1>2. CopyRaces(id, cached) = [races EXCEPT ![id] = kinds]
  BY DEF CopyRaces
<1> HIDE DEF kinds
<1>3. QED
  BY <1>1, <1>2

LEMMA HandlerTypeOK == ASSUME TypeOK, NEW h \in Handlers, HandlerNext(h) PROVE TypeOK'
<1> USE DEF TypeOK, Data, HandlerPcs, SaverPcs, Races, history
<1>1. ASSUME NEW id \in Ids, Resolve(h, id) PROVE TypeOK'
  BY <1>1 DEF Resolve, NoteLate
<1>2. CASE LoadHit(h)
  BY <1>2 DEF LoadHit
<1>3. CASE LoadMiss(h)
  BY <1>3 DEF LoadMiss
<1>4. ASSUME NEW o \in Objs, Fetch(h, o) PROVE TypeOK'
  <2>1. data' \in [Objs -> Data] /\ saved' \in [Objs -> BOOLEAN]
    <3> HIDE DEF Data
    <3>1. disk[req[h]] # Absent => disk[req[h]] \in Data
      BY <1>4 DEF Fetch
    <3>2. CASE data' = [data EXCEPT ![o] = disk[req[h]]] /\ disk[req[h]] # Absent
                /\ saved' = [saved EXCEPT ![o] = TRUE]
      BY <3>1, <3>2
    <3>3. CASE data' = [data EXCEPT ![o] = {}] /\ saved' = [saved EXCEPT ![o] = FALSE]
      BY <3>3, DataFacts
    <3>4. QED
      BY <1>4, <3>2, <3>3 DEF Fetch
  <2>2. /\ pc' \in [Handlers -> HandlerPcs] /\ held' \in [Handlers -> Objs \cup {Null}]
        /\ \A g \in Handlers \ {h} : pc'[g] = pc[g] /\ held'[g] = held[g]
        /\ pc'[h] = "install" /\ held'[h] = o /\ req[h] \in Ids
    BY <1>4 DEF Fetch
  <2>3. UNCHANGED <<up, cache, disk, req, copy, savePc, toVisit, batch, issued, history>>
    BY <1>4 DEF Fetch
  <2>4. QED
    BY <2>1, <2>2, <2>3
<1>4a. CASE FetchUnreadable(h)
  BY <1>4a DEF FetchUnreadable
<1>5. CASE Install(h)
  BY <1>5 DEF Install, Race, InstallRace
<1>6. CASE Release(h)
  BY <1>6 DEF Release
<1>7. ASSUME NEW n \in Names, Store(h, n) PROVE TypeOK'
  BY <1>7 DEF Store, Race, EditRace
<1>8. ASSUME NEW n \in Names, Delete(h, n) PROVE TypeOK'
  BY <1>8 DEF Delete, Race, EditRace
<1>9. CASE Clear(h)
  BY <1>9 DEF Clear, Race, EditRace
<1>10. CASE SetUnsaved(h)
  BY <1>10 DEF SetUnsaved
<1>11. CASE SaveCopy(h)
  BY <1>11 DEF SaveCopy, CopyRaces
<1>12. CASE SavePuts(h)
  BY <1>12 DEF SavePuts
<1>13. CASE SavePutsFail(h)
  BY <1>13 DEF SavePutsFail, Race
<1>14. CASE SaveMark(h)
  BY <1>14 DEF SaveMark
<1>15. ASSUME NEW c \in Cards, NEW o \in Objs, CharNewPuts(h, c, o) PROVE TypeOK'
  BY <1>15, IdsAssumption DEF CharNewPuts, NoteLate
<1>16. CASE CharNewCache(h)
  BY <1>16 DEF CharNewCache, Race, InstallRace
<1>17. CASE CharDeleteIo(h)
  BY <1>17 DEF CharDeleteIo, Race
<1>18. CASE CharDeleteMissing(h)
  BY <1>18 DEF CharDeleteMissing
<1>19. CASE CharDeleteCache(h)
  BY <1>19 DEF CharDeleteCache, Race
<1>20. QED
  BY <1>1, <1>2, <1>3, <1>4, <1>4a, <1>5, <1>6, <1>7, <1>8, <1>9, <1>10, <1>11, <1>12, <1>13,
     <1>14, <1>15, <1>16, <1>17, <1>18, <1>19 DEF HandlerNext

LEMMA SaverTypeOK == ASSUME TypeOK, NEW s \in Savers, SaverNext(s) PROVE TypeOK'
<1> USE DEF TypeOK, Data, HandlerPcs, SaverPcs, Races, history
<1>1. CASE SaveBegin(s)
  BY <1>1 DEF SaveBegin
<1>2. ASSUME NEW id \in Ids, Visit(s, id) PROVE TypeOK'
  <2>1. batch' \in [Savers -> [Ids -> {Null} \cup Data]]
    <3>1. CASE cache[id] # Null /\ batch' = [batch EXCEPT ![s] = [batch[s] EXCEPT ![id] = data[cache[id]]]]
      <4>1. data[cache[id]] \in Data
        BY <3>1
      <4>2. QED
        BY <3>1, <4>1
    <3>2. QED
      BY <1>2, <3>1 DEF Visit
  <2> HIDE DEF Data, Races
  <2>2. races' \in [Ids -> SUBSET Races]
    <3>1. races' = races \/ races' = CopyRaces(id, TRUE)
      BY <1>2 DEF Visit
    <3>2. CopyRaces(id, TRUE) \in [Ids -> SUBSET Races]
      BY CopyRacesType
    <3>3. QED
      BY <3>1, <3>2
  <2>3. toVisit' \in [Savers -> SUBSET Ids]
    BY <1>2 DEF Visit
  <2>4. QED
    BY <1>2, <2>1, <2>2, <2>3 DEF Visit
<1>3. CASE NothingToSave(s)
  BY <1>3 DEF NothingToSave, SaverReturns
<1>4. CASE PutsAll(s)
  BY <1>4 DEF PutsAll, Batched
<1>5. CASE PutsError(s)
  BY <1>5 DEF PutsError, SaverReturns, NoBatch, Batched
<1>6. ASSUME NEW id \in Ids, Mark(s, id) PROVE TypeOK'
  BY <1>6 DEF Mark, SaverReturns
<1>7. CASE MarkPanics(s)
  BY <1>7 DEF MarkPanics, memory
<1>8. QED
  BY <1>1, <1>2, <1>3, <1>4, <1>5, <1>6, <1>7 DEF SaverNext

LEMMA NextTypeOK == TypeOK /\ [Next]_vars => TypeOK'
<1> SUFFICES ASSUME TypeOK, [Next]_vars PROVE TypeOK'
  OBVIOUS
<1>1. CASE \E h \in Handlers : HandlerNext(h)
  BY <1>1, HandlerTypeOK
<1>2. CASE \E s \in Savers : SaverNext(s)
  BY <1>2, SaverTypeOK
<1>3. CASE Crash
  BY <1>3 DEF Crash, TypeOK, memory, history, Data, HandlerPcs, SaverPcs, Races
<1>4. CASE Restart
  BY <1>4, NoValueAssumption
  DEF Restart, ColdMemory, TypeOK, NoBatch, Data, HandlerPcs, SaverPcs, Races
<1>5. CASE UNCHANGED vars
  BY <1>5 DEF vars, TypeOK, memory, history, Data, HandlerPcs, SaverPcs, Races
<1>6. QED
  BY <1>1, <1>2, <1>3, <1>4, <1>5 DEF Next

\* Every reachable state is one the Go types and the handlers' program order allow.
THEOREM TypeCorrect == Spec => []TypeOK
<1>1. QED
  BY InitTypeOK, NextTypeOK, PTL DEF Spec
-----------------------------------------------------------------------------
LEMMA HandlerOneObject == ASSUME TypeOK, OneObject, NEW h \in Handlers, HandlerNext(h) PROVE OneObject'
<1> USE DEF OneObject, TypeOK, HandlerPcs, SaverPcs, history
<1>1. ASSUME NEW id \in Ids, Resolve(h, id) PROVE OneObject'
  BY <1>1, NoValueAssumption DEF Resolve, NoteLate
<1>2. CASE LoadHit(h)
  BY <1>2, NoValueAssumption DEF LoadHit
<1>3. CASE LoadMiss(h)
  BY <1>3, NoValueAssumption DEF LoadMiss
<1>4. ASSUME NEW o \in Objs, Fetch(h, o) PROVE OneObject'
  BY <1>4, NoValueAssumption DEF Fetch, Free
<1>4a. CASE FetchUnreadable(h)
  BY <1>4a, NoValueAssumption DEF FetchUnreadable
<1>5. CASE Install(h)
  BY <1>5, NoValueAssumption DEF Install
<1>6. CASE Release(h)
  BY <1>6, NoValueAssumption DEF Release
<1>7. ASSUME NEW n \in Names, Store(h, n) PROVE OneObject'
  BY <1>7 DEF Store
<1>8. ASSUME NEW n \in Names, Delete(h, n) PROVE OneObject'
  BY <1>8 DEF Delete
<1>9. CASE Clear(h)
  BY <1>9 DEF Clear
<1>10. CASE SetUnsaved(h)
  BY <1>10 DEF SetUnsaved
<1>11. CASE SaveCopy(h)
  BY <1>11 DEF SaveCopy
<1>12. CASE SavePuts(h)
  BY <1>12 DEF SavePuts
<1>13. CASE SavePutsFail(h)
  BY <1>13, NoValueAssumption DEF SavePutsFail
<1>14. CASE SaveMark(h)
  BY <1>14, NoValueAssumption DEF SaveMark
<1>15. ASSUME NEW c \in Cards, NEW o \in Objs, CharNewPuts(h, c, o) PROVE OneObject'
  BY <1>15, NoValueAssumption DEF CharNewPuts, Free, NoteLate
<1>16. CASE CharNewCache(h)
  BY <1>16, NoValueAssumption DEF CharNewCache
<1>17. CASE CharDeleteIo(h)
  BY <1>17, NoValueAssumption DEF CharDeleteIo
<1>18. CASE CharDeleteMissing(h)
  BY <1>18, NoValueAssumption DEF CharDeleteMissing
<1>19. CASE CharDeleteCache(h)
  BY <1>19, NoValueAssumption DEF CharDeleteCache
<1>20. QED
  BY <1>1, <1>2, <1>3, <1>4, <1>4a, <1>5, <1>6, <1>7, <1>8, <1>9, <1>10, <1>11, <1>12, <1>13, <1>14, <1>15, <1>16, <1>17, <1>18, <1>19 DEF HandlerNext

LEMMA SaverOneObject == ASSUME TypeOK, OneObject, NEW s \in Savers, SaverNext(s) PROVE OneObject'
<1> USE DEF OneObject, TypeOK, HandlerPcs, SaverPcs, history
<1>1. CASE SaveBegin(s)
  BY <1>1 DEF SaveBegin
<1>2. ASSUME NEW id \in Ids, Visit(s, id) PROVE OneObject'
  BY <1>2 DEF Visit
<1>3. CASE NothingToSave(s)
  BY <1>3 DEF NothingToSave, SaverReturns
<1>4. CASE PutsAll(s)
  BY <1>4 DEF PutsAll, Batched
<1>5. CASE PutsError(s)
  BY <1>5 DEF PutsError, SaverReturns, NoBatch, Batched
<1>6. ASSUME NEW id \in Ids, Mark(s, id) PROVE OneObject'
  BY <1>6 DEF Mark, SaverReturns
<1>7. CASE MarkPanics(s)
  BY <1>7 DEF MarkPanics, memory
<1>8. QED
  BY <1>1, <1>2, <1>3, <1>4, <1>5, <1>6, <1>7 DEF SaverNext

LEMMA NextOneObject == TypeOK /\ OneObject /\ [Next]_vars => OneObject'
<1> SUFFICES ASSUME TypeOK, OneObject, [Next]_vars PROVE OneObject'
  OBVIOUS
<1>1. CASE \E h \in Handlers : HandlerNext(h)
  BY <1>1, HandlerOneObject
<1>2. CASE \E s \in Savers : SaverNext(s)
  BY <1>2, SaverOneObject
<1>3. CASE Crash
  BY <1>3 DEF Crash, OneObject, memory
<1>4. CASE Restart
  BY <1>4 DEF Restart, ColdMemory, OneObject
<1>5. CASE UNCHANGED vars
  BY <1>5 DEF vars, OneObject, memory
<1>6. QED
  BY <1>1, <1>2, <1>3, <1>4, <1>5 DEF Next
-----------------------------------------------------------------------------
\* Visit takes a copy of an unsaved card, or changes nothing but its own progress.
VisitEffect(s, id) ==
  /\ UNCHANGED <<up, cache, data, saved, disk, pc, req, held, copy, savePc, issued, removed, gone, late>>
  /\ \/ UNCHANGED <<batch, races>>
     \/ /\ cache[id] \in Objs /\ ~saved[cache[id]] /\ data[cache[id]] \in Data
        /\ \A t \in Savers, i \in Ids :
             batch'[t][i] = IF t = s /\ i = id THEN data[cache[id]] ELSE batch[t][i]
        /\ races' = CopyRaces(id, TRUE)

LEMMA VisitCases ==
  ASSUME TypeOK, NEW s \in Savers, NEW id \in Ids, Visit(s, id)
  PROVE  VisitEffect(s, id)
<1> USE DEF VisitEffect
<1> USE DEF Visit, TypeOK
<1>1. CASE /\ cache[id] # Null /\ ~saved[cache[id]]
           /\ batch' = [batch EXCEPT ![s] = [batch[s] EXCEPT ![id] = data[cache[id]]]]
           /\ races' = CopyRaces(id, TRUE)
  <2>1. cache[id] \in Objs /\ data[cache[id]] \in Data
    BY <1>1
  <2>2. batch' = [batch EXCEPT ![s] = [batch[s] EXCEPT ![id] = data[cache[id]]]]
    BY <1>1
  <2>3. batch[s] \in [Ids -> {Null} \cup Data]
    OBVIOUS
  <2>4. \A t \in Savers, i \in Ids :
          batch'[t][i] = IF t = s /\ i = id THEN data[cache[id]] ELSE batch[t][i]
    BY <2>2, <2>3
  <2>5. QED
    BY <1>1, <2>1, <2>4
<1>2. CASE UNCHANGED <<batch, races>>
  BY <1>2
<1>3. QED
  BY <1>1, <1>2

LEMMA HandlerUnissuedUnknown == ASSUME TypeOK, UnissuedUnknown, NEW h \in Handlers, HandlerNext(h) PROVE UnissuedUnknown'
<1> USE DEF UnissuedUnknown, TypeOK, HandlerPcs, SaverPcs, history
<1>1. ASSUME NEW id \in Ids, Resolve(h, id) PROVE UnissuedUnknown'
  BY <1>1, NoValueAssumption, IdsAssumption DEF Resolve, NoteLate
<1>2. CASE LoadHit(h)
  BY <1>2, NoValueAssumption, IdsAssumption DEF LoadHit
<1>3. CASE LoadMiss(h)
  BY <1>3, NoValueAssumption, IdsAssumption DEF LoadMiss
<1>4. ASSUME NEW o \in Objs, Fetch(h, o) PROVE UnissuedUnknown'
  BY <1>4, NoValueAssumption, IdsAssumption DEF Fetch, Free
<1>4a. CASE FetchUnreadable(h)
  BY <1>4a, NoValueAssumption, IdsAssumption DEF FetchUnreadable
<1>5. CASE Install(h)
  BY <1>5, NoValueAssumption, IdsAssumption DEF Install
<1>6. CASE Release(h)
  BY <1>6, NoValueAssumption, IdsAssumption DEF Release
<1>7. ASSUME NEW n \in Names, Store(h, n) PROVE UnissuedUnknown'
  BY <1>7, NoValueAssumption, IdsAssumption DEF Store
<1>8. ASSUME NEW n \in Names, Delete(h, n) PROVE UnissuedUnknown'
  BY <1>8, NoValueAssumption, IdsAssumption DEF Delete
<1>9. CASE Clear(h)
  BY <1>9, NoValueAssumption, IdsAssumption DEF Clear
<1>10. CASE SetUnsaved(h)
  BY <1>10, NoValueAssumption, IdsAssumption DEF SetUnsaved
<1>11. CASE SaveCopy(h)
  BY <1>11, NoValueAssumption, IdsAssumption DEF SaveCopy
<1>12. CASE SavePuts(h)
  BY <1>12, NoValueAssumption, IdsAssumption DEF SavePuts
<1>13. CASE SavePutsFail(h)
  BY <1>13, NoValueAssumption, IdsAssumption DEF SavePutsFail
<1>14. CASE SaveMark(h)
  BY <1>14, NoValueAssumption, IdsAssumption DEF SaveMark
<1>15. ASSUME NEW c \in Cards, NEW o \in Objs, CharNewPuts(h, c, o) PROVE UnissuedUnknown'
  BY <1>15, NoValueAssumption, IdsAssumption DEF CharNewPuts, Free, NoteLate
<1>16. CASE CharNewCache(h)
  BY <1>16, NoValueAssumption, IdsAssumption DEF CharNewCache
<1>17. CASE CharDeleteIo(h)
  BY <1>17, NoValueAssumption, IdsAssumption DEF CharDeleteIo
<1>18. CASE CharDeleteMissing(h)
  BY <1>18, NoValueAssumption, IdsAssumption DEF CharDeleteMissing
<1>19. CASE CharDeleteCache(h)
  BY <1>19, NoValueAssumption, IdsAssumption DEF CharDeleteCache
<1>20. QED
  BY <1>1, <1>2, <1>3, <1>4, <1>4a, <1>5, <1>6, <1>7, <1>8, <1>9, <1>10, <1>11, <1>12, <1>13, <1>14, <1>15, <1>16, <1>17, <1>18, <1>19 DEF HandlerNext

LEMMA SaverUnissuedUnknown == ASSUME TypeOK, UnissuedUnknown, NEW s \in Savers, SaverNext(s) PROVE UnissuedUnknown'
<1> USE DEF UnissuedUnknown, TypeOK, HandlerPcs, SaverPcs, history
<1>1. CASE SaveBegin(s)
  BY <1>1, NoValueAssumption, IdsAssumption DEF SaveBegin
<1>2. ASSUME NEW id \in Ids, Visit(s, id) PROVE UnissuedUnknown'
  <2> HIDE DEF TypeOK, UnissuedUnknown
  <2>1. VisitEffect(s, id)
    BY <1>2, VisitCases
  <2>2. UNCHANGED <<cache, disk, req, issued, gone>>
    BY <2>1 DEF VisitEffect
  <2>3. ASSUME NEW c \in Cards \ issued, NEW t \in Savers PROVE batch'[t][c] = Null
    <3>1. cache[c] = Null /\ batch[t][c] = Null
      BY DEF UnissuedUnknown
    <3>2. c \in Ids
      BY IdsAssumption
    <3>3. QED
      BY <2>1, <3>1, <3>2, NoValueAssumption DEF VisitEffect
  <2>4. QED
    BY <2>2, <2>3 DEF UnissuedUnknown
<1>3. CASE NothingToSave(s)
  BY <1>3, NoValueAssumption, IdsAssumption DEF NothingToSave, SaverReturns
<1>4. CASE PutsAll(s)
  BY <1>4, NoValueAssumption, IdsAssumption DEF PutsAll, Batched
<1>5. CASE PutsError(s)
  BY <1>5, NoValueAssumption, IdsAssumption DEF PutsError, SaverReturns, NoBatch, Batched
<1>6. ASSUME NEW id \in Ids, Mark(s, id) PROVE UnissuedUnknown'
  BY <1>6, NoValueAssumption, IdsAssumption DEF Mark, SaverReturns
<1>7. CASE MarkPanics(s)
  BY <1>7, NoValueAssumption, IdsAssumption DEF MarkPanics, memory
<1>8. QED
  BY <1>1, <1>2, <1>3, <1>4, <1>5, <1>6, <1>7 DEF SaverNext

LEMMA NextUnissuedUnknown == TypeOK /\ UnissuedUnknown /\ [Next]_vars => UnissuedUnknown'
<1> SUFFICES ASSUME TypeOK, UnissuedUnknown, [Next]_vars PROVE UnissuedUnknown'
  OBVIOUS
<1>1. CASE \E h \in Handlers : HandlerNext(h)
  BY <1>1, HandlerUnissuedUnknown
<1>2. CASE \E s \in Savers : SaverNext(s)
  BY <1>2, SaverUnissuedUnknown
<1>3. CASE Crash
  BY <1>3 DEF Crash, UnissuedUnknown, memory, history
<1>4. CASE Restart
  BY <1>4, IdsAssumption, NoValueAssumption DEF Restart, ColdMemory, UnissuedUnknown, NoBatch, TypeOK
<1>5. CASE UNCHANGED vars
  BY <1>5 DEF vars, UnissuedUnknown, memory, history
<1>6. QED
  BY <1>1, <1>2, <1>3, <1>4, <1>5 DEF Next
-----------------------------------------------------------------------------
LEMMA HandlerDeletionInv == ASSUME TypeOK, UnissuedUnknown, DeletionInv, NEW h \in Handlers, HandlerNext(h) PROVE DeletionInv'
<1> USE DEF DeletionInv, TypeOK, HandlerPcs, SaverPcs, history, Window, Deleting, SavingCard
<1>1. ASSUME NEW id \in Ids, Resolve(h, id) PROVE DeletionInv'
  BY <1>1, NoValueAssumption, IdsAssumption DEF Resolve, NoteLate
<1>2. CASE LoadHit(h)
  BY <1>2, NoValueAssumption, IdsAssumption DEF LoadHit
<1>3. CASE LoadMiss(h)
  BY <1>3, NoValueAssumption, IdsAssumption DEF LoadMiss
<1>4. ASSUME NEW o \in Objs, Fetch(h, o) PROVE DeletionInv'
  BY <1>4, NoValueAssumption, IdsAssumption DEF Fetch, Free
<1>4a. CASE FetchUnreadable(h)
  BY <1>4a, NoValueAssumption, IdsAssumption DEF FetchUnreadable
<1>5. CASE Install(h)
  BY <1>5, NoValueAssumption, IdsAssumption DEF Install, Race, InstallRace
<1>6. CASE Release(h)
  BY <1>6, NoValueAssumption, IdsAssumption DEF Release
<1>7. ASSUME NEW n \in Names, Store(h, n) PROVE DeletionInv'
  BY <1>7, NoValueAssumption, IdsAssumption DEF Store, Race, EditRace
<1>8. ASSUME NEW n \in Names, Delete(h, n) PROVE DeletionInv'
  BY <1>8, NoValueAssumption, IdsAssumption DEF Delete, Race, EditRace
<1>9. CASE Clear(h)
  BY <1>9, NoValueAssumption, IdsAssumption DEF Clear, Race, EditRace
<1>10. CASE SetUnsaved(h)
  BY <1>10, NoValueAssumption, IdsAssumption DEF SetUnsaved
<1>11. CASE SaveCopy(h)
  BY <1>11, NoValueAssumption, IdsAssumption DEF SaveCopy, CopyRaces
<1>12. CASE SavePuts(h)
  BY <1>12, NoValueAssumption, IdsAssumption DEF SavePuts
<1>13. CASE SavePutsFail(h)
  BY <1>13, NoValueAssumption, IdsAssumption DEF SavePutsFail, Race
<1>14. CASE SaveMark(h)
  BY <1>14, NoValueAssumption, IdsAssumption DEF SaveMark
<1>15. ASSUME NEW c \in Cards, NEW o \in Objs, CharNewPuts(h, c, o) PROVE DeletionInv'
  BY <1>15, NoValueAssumption, IdsAssumption DEF CharNewPuts, Free, NoteLate, UnissuedUnknown
<1>16. CASE CharNewCache(h)
  BY <1>16, NoValueAssumption, IdsAssumption DEF CharNewCache, Race, InstallRace
<1>17. CASE CharDeleteIo(h)
  BY <1>17, NoValueAssumption, IdsAssumption DEF CharDeleteIo, Race
<1>18. CASE CharDeleteMissing(h)
  BY <1>18, NoValueAssumption, IdsAssumption DEF CharDeleteMissing
<1>19. CASE CharDeleteCache(h)
  BY <1>19, NoValueAssumption, IdsAssumption DEF CharDeleteCache, Race
<1>20. QED
  BY <1>1, <1>2, <1>3, <1>4, <1>4a, <1>5, <1>6, <1>7, <1>8, <1>9, <1>10, <1>11, <1>12, <1>13, <1>14, <1>15, <1>16, <1>17, <1>18, <1>19 DEF HandlerNext

LEMMA SaverDeletionInv == ASSUME TypeOK, UnissuedUnknown, DeletionInv, NEW s \in Savers, SaverNext(s) PROVE DeletionInv'
<1> USE DEF DeletionInv, TypeOK, HandlerPcs, SaverPcs, history, Window, Deleting, SavingCard
<1>1. CASE SaveBegin(s)
  BY <1>1, NoValueAssumption, IdsAssumption DEF SaveBegin
<1>2. ASSUME NEW id \in Ids, Visit(s, id) PROVE DeletionInv'
  <2> HIDE DEF TypeOK, DeletionInv, Window, Deleting
  <2>1. VisitEffect(s, id)
    BY <1>2, VisitCases
  <2>2. UNCHANGED <<cache, disk, pc, req, gone>>
    BY <2>1 DEF VisitEffect
  <2>3. \A i \in Ids : "revive" \in races[i] \/ (i = id /\ batch' # batch /\ Deleting(i))
          => "revive" \in races'[i]
    BY <2>1 DEF VisitEffect, CopyRaces, TypeOK
  <2>4. ASSUME NEW t \in Savers, NEW i \in Ids, batch'[t][i] # Null, cache[i] = Null
        PROVE  "revive" \in races'[i]
    <3>1. batch[t][i] # Null
      BY <2>1, <2>4, NoValueAssumption DEF VisitEffect
    <3>2. QED
      BY <2>3, <2>4, <3>1 DEF DeletionInv
  <2>5. ASSUME NEW i \in gone, "revive" \notin races'[i]
        PROVE  disk[i] = Absent /\ ~Window(i)' /\ (cache[i] = Null \/ Deleting(i))
    <3>1. i \in Ids
      BY IdsAssumption DEF TypeOK
    <3>2. /\ "revive" \notin races[i]
          /\ disk[i] = Absent /\ ~Window(i) /\ (cache[i] = Null \/ Deleting(i))
      BY <2>3, <2>5, <3>1 DEF DeletionInv
    <3>3. \A t \in Savers : batch'[t][i] = batch[t][i]
      BY <2>1, <2>3, <2>5, <3>1, <3>2, NoValueAssumption DEF VisitEffect
    <3>4. QED
      BY <2>2, <3>2, <3>3 DEF Window, SavingCard
  <2>6. QED
    BY <2>2, <2>4, <2>5 DEF DeletionInv, Deleting
<1>3. CASE NothingToSave(s)
  BY <1>3, NoValueAssumption, IdsAssumption DEF NothingToSave, SaverReturns
<1>4. CASE PutsAll(s)
  BY <1>4, NoValueAssumption, IdsAssumption DEF PutsAll, Batched
<1>5. CASE PutsError(s)
  BY <1>5, NoValueAssumption, IdsAssumption DEF PutsError, SaverReturns, NoBatch, Batched
<1>6. ASSUME NEW id \in Ids, Mark(s, id) PROVE DeletionInv'
  BY <1>6, NoValueAssumption, IdsAssumption DEF Mark, SaverReturns
<1>7. CASE MarkPanics(s)
  BY <1>7, NoValueAssumption, IdsAssumption DEF MarkPanics, memory
<1>8. QED
  BY <1>1, <1>2, <1>3, <1>4, <1>5, <1>6, <1>7 DEF SaverNext

LEMMA NextDeletionInv == TypeOK /\ UnissuedUnknown /\ DeletionInv /\ [Next]_vars => DeletionInv'
<1> SUFFICES ASSUME TypeOK, UnissuedUnknown, DeletionInv, [Next]_vars PROVE DeletionInv'
  OBVIOUS
<1>1. CASE \E h \in Handlers : HandlerNext(h)
  BY <1>1, HandlerDeletionInv
<1>2. CASE \E s \in Savers : SaverNext(s)
  BY <1>2, SaverDeletionInv
<1>3. CASE Crash
  BY <1>3 DEF Crash, DeletionInv, memory, history, Window, Deleting, SavingCard
<1>4. CASE Restart
  BY <1>4, IdsAssumption, NoValueAssumption DEF Restart, ColdMemory, DeletionInv, NoBatch, Window, Deleting, SavingCard, TypeOK
<1>5. CASE UNCHANGED vars
  BY <1>5 DEF vars, DeletionInv, memory, history, Window, Deleting, SavingCard
<1>6. QED
  BY <1>1, <1>2, <1>3, <1>4, <1>5 DEF Next
-----------------------------------------------------------------------------
Quiet(id) == OneCopy(id) /\ CopyCurrent(id) /\ CleanCurrent(id)

\* A step that notes races on card r leaves card i quiet only if it noted none on it.
LEMMA RaceQuiet ==
  ASSUME TypeOK, NEW r \in Ids, NEW kinds, Race(r, kinds), NEW i \in Ids, races'[i] = {}
  PROVE  races[i] = {} /\ (i = r => kinds = {})
  BY DEF Race, TypeOK

\* A copy of card r leaves it quiet only if nothing else is under way on it.
LEMMA CopyQuiet ==
  ASSUME TypeOK, NEW r \in Ids, NEW c \in BOOLEAN, races' = CopyRaces(r, c), NEW i \in Ids, races'[i] = {}
  PROVE  /\ i # r => races[i] = {}
         /\ i = r => c /\ ~Window(r) /\ ~Deleting(r)
<1> USE DEF TypeOK
<1>1. CASE i # r
  BY <1>1 DEF CopyRaces
<1>2. CASE i = r
  <2>1. c
    BY <1>2 DEF CopyRaces
  <2>2. ~Window(r)
    <3> HIDE DEF Window
    <3> QED BY <1>2 DEF CopyRaces
  <2>3. ~Deleting(r)
    BY <1>2 DEF CopyRaces
  <2>4. QED BY <1>2, <2>1, <2>2, <2>3
<1>3. QED BY <1>1, <1>2

LEMMA HandlerQuiet == ASSUME TypeOK, OneObject, UnissuedUnknown, QuietInv, NEW h \in Handlers, HandlerNext(h),
  NEW i \in Ids, races'[i] = {} PROVE Quiet(i)'
<1> USE DEF TypeOK, OneObject, QuietInv, Quiet, OneCopy, CopyCurrent, CleanCurrent, Window, Deleting, SavingCard, HandlerPcs, SaverPcs, history
<1>1. ASSUME NEW id \in Ids, Resolve(h, id) PROVE Quiet(i)'
  BY <1>1, NoValueAssumption, IdsAssumption, SMTT(30) DEF Resolve, NoteLate
<1>2. CASE LoadHit(h)
  BY <1>2, NoValueAssumption, IdsAssumption, SMTT(30) DEF LoadHit
<1>3. CASE LoadMiss(h)
  BY <1>3, NoValueAssumption, IdsAssumption, SMTT(30) DEF LoadMiss
<1>4. ASSUME NEW o \in Objs, Fetch(h, o) PROVE Quiet(i)'
  <2>1. /\ UNCHANGED <<cache, disk, req, copy, savePc, batch, races>>
        /\ pc[h] = "fetch" /\ pc' = [pc EXCEPT ![h] = "install"] /\ held' = [held EXCEPT ![h] = o]
        /\ \A p \in Objs \ {o} : data'[p] = data[p] /\ saved'[p] = saved[p]
    BY <1>4 DEF Fetch
  <2>2. \A j \in Ids : cache[j] # o
    BY <1>4 DEF Fetch, Free
  <2>3. Quiet(i) /\ cache[i] \in Objs \cup {Null}
    BY <2>1
  <2>4. OneCopy(i)'
    BY <2>1, <2>3
  <2>5. CopyCurrent(i)'
    BY <2>1, <2>2, <2>3
  <2>6. CleanCurrent(i)'
    BY <2>1, <2>2, <2>3
  <2>7. QED
    BY <2>4, <2>5, <2>6
<1>4a. CASE FetchUnreadable(h)
  BY <1>4a, NoValueAssumption, IdsAssumption, SMTT(30) DEF FetchUnreadable
<1>5. CASE Install(h)
  <2> DEFINE kinds == InstallRace(req[h], held[h])
  <2>1. Race(req[h], kinds) /\ req[h] \in Ids
    BY <1>5 DEF Install
  <2> HIDE DEF kinds, Quiet
  <2>2. races[i] = {} /\ (i = req[h] => kinds = {})
    BY <2>1, RaceQuiet
  <2>3. QED
    BY <1>5, <2>2, NoValueAssumption, IdsAssumption, SMTT(30) DEF Install, InstallRace, kinds, Quiet
<1>6. CASE Release(h)
  BY <1>6, NoValueAssumption, IdsAssumption, SMTT(30) DEF Release
<1>7. ASSUME NEW n \in Names, Store(h, n) PROVE Quiet(i)'
  <2> DEFINE kinds == EditRace(h)
  <2>1. Race(req[h], kinds) /\ req[h] \in Ids
    BY <1>7 DEF Store
  <2> HIDE DEF kinds, Quiet
  <2>2. races[i] = {} /\ (i = req[h] => kinds = {})
    BY <2>1, RaceQuiet
  <2>3. QED
    BY <1>7, <2>2, NoValueAssumption, IdsAssumption, SMTT(30) DEF Store, EditRace, kinds, Quiet
<1>8. ASSUME NEW n \in Names, Delete(h, n) PROVE Quiet(i)'
  <2> DEFINE kinds == (EditRace(h) \cup (IF cache[req[h]] = held[h] THEN {"unflagged"} ELSE {}))
  <2>1. Race(req[h], kinds) /\ req[h] \in Ids
    BY <1>8 DEF Delete
  <2> HIDE DEF kinds, Quiet
  <2>2. races[i] = {} /\ (i = req[h] => kinds = {})
    BY <2>1, RaceQuiet
  <2>3. QED
    BY <1>8, <2>2, NoValueAssumption, IdsAssumption, SMTT(30) DEF Delete, EditRace, kinds, Quiet
<1>9. CASE Clear(h)
  <2> DEFINE kinds == EditRace(h)
  <2>1. Race(req[h], kinds) /\ req[h] \in Ids
    BY <1>9 DEF Clear
  <2> HIDE DEF kinds, Quiet
  <2>2. races[i] = {} /\ (i = req[h] => kinds = {})
    BY <2>1, RaceQuiet
  <2>3. QED
    BY <1>9, <2>2, NoValueAssumption, IdsAssumption, SMTT(30) DEF Clear, EditRace, kinds, Quiet
<1>10. CASE SetUnsaved(h)
  BY <1>10, NoValueAssumption, IdsAssumption, SMTT(30) DEF SetUnsaved
<1>11. CASE SaveCopy(h)
  <2>1. /\ req[h] \in Ids /\ held[h] \in Objs /\ pc[h] = "hold" /\ data[held[h]] \in Data
        /\ races' = CopyRaces(req[h], cache[req[h]] = held[h])
        /\ pc' = [pc EXCEPT ![h] = "savePuts"] /\ copy' = [copy EXCEPT ![h] = data[held[h]]]
        /\ UNCHANGED <<cache, data, saved, disk, req, held, savePc, batch>>
    BY <1>11 DEF SaveCopy
  <2>2. /\ i # req[h] => races[i] = {}
        /\ i = req[h] => cache[req[h]] = held[h] /\ ~Window(i) /\ ~Deleting(i)
    <3> HIDE DEF Window, Deleting, Quiet, TypeOK
    <3> DEFINE c == (cache[req[h]] = held[h])
    <3>1. c \in BOOLEAN
      OBVIOUS
    <3>2. races' = CopyRaces(req[h], c)
      BY <2>1
    <3> HIDE DEF c
    <3>3. /\ i # req[h] => races[i] = {}
          /\ i = req[h] => c /\ ~Window(req[h]) /\ ~Deleting(req[h])
      BY <2>1, <3>1, <3>2, CopyQuiet
    <3>4. QED
      BY <3>3 DEF c
  <2>3. CASE i # req[h]
    BY <2>1, <2>2, <2>3
  <2>4. CASE i = req[h]
    BY <2>1, <2>2, <2>4, NoValueAssumption
  <2>5. QED
    BY <2>3, <2>4
<1>12. CASE SavePuts(h)
  BY <1>12, NoValueAssumption, IdsAssumption, SMTT(30) DEF SavePuts
<1>13. CASE SavePutsFail(h)
  <2> DEFINE kinds == (IF cache[req[h]] = held[h] THEN {"unflagged"} ELSE {})
  <2>1. Race(req[h], kinds) /\ req[h] \in Ids
    BY <1>13 DEF SavePutsFail
  <2> HIDE DEF kinds, Quiet
  <2>2. races[i] = {} /\ (i = req[h] => kinds = {})
    BY <2>1, RaceQuiet
  <2>3. QED
    BY <1>13, <2>2, NoValueAssumption, IdsAssumption, SMTT(30) DEF SavePutsFail, kinds, Quiet
<1>14. CASE SaveMark(h)
  BY <1>14, NoValueAssumption, IdsAssumption, SMTT(30) DEF SaveMark
<1>15. ASSUME NEW c \in Cards, NEW o \in Objs, CharNewPuts(h, c, o) PROVE Quiet(i)'
  <2>1. /\ o \in Objs /\ c \in Ids /\ Free(o) /\ pc[h] = "idle"
        /\ disk' = [disk EXCEPT ![c] = {}] /\ data' = [data EXCEPT ![o] = {}]
        /\ saved' = [saved EXCEPT ![o] = TRUE] /\ req' = [req EXCEPT ![h] = c]
        /\ held' = [held EXCEPT ![h] = o] /\ pc' = [pc EXCEPT ![h] = "newCache"]
        /\ UNCHANGED <<cache, copy, savePc, batch, races>>
    BY <1>15, IdsAssumption DEF CharNewPuts
  <2>2. \A j \in Ids : cache[j] # o
    BY <2>1 DEF Free
  <2>3. cache[c] = Null /\ (\A t \in Savers : batch[t][c] = Null) /\ \A g \in Handlers : req[g] # c
    BY <1>15 DEF CharNewPuts, UnissuedUnknown
  <2>4. CASE i = c
    BY <2>1, <2>2, <2>3, <2>4, NoValueAssumption
  <2>5. CASE i # c
    BY <2>1, <2>2, <2>5, NoValueAssumption
  <2>6. QED
    BY <2>4, <2>5
<1>16. CASE CharNewCache(h)
  <2> DEFINE kinds == InstallRace(req[h], held[h])
  <2>1. Race(req[h], kinds) /\ req[h] \in Ids
    BY <1>16 DEF CharNewCache
  <2> HIDE DEF kinds, Quiet
  <2>2. races[i] = {} /\ (i = req[h] => kinds = {})
    BY <2>1, RaceQuiet
  <2>3. QED
    BY <1>16, <2>2, NoValueAssumption, IdsAssumption, SMTT(30) DEF CharNewCache, InstallRace, kinds, Quiet
<1>17. CASE CharDeleteIo(h)
  <2> DEFINE kinds == (IF Window(req[h]) THEN {"revive"} ELSE {})
  <2>1. Race(req[h], kinds) /\ req[h] \in Ids
    BY <1>17 DEF CharDeleteIo
  <2> HIDE DEF kinds, Quiet
  <2>2. races[i] = {} /\ (i = req[h] => kinds = {})
    BY <2>1, RaceQuiet
  <2>3. QED
    BY <1>17, <2>2, NoValueAssumption, IdsAssumption, SMTT(30) DEF CharDeleteIo, kinds, Quiet
<1>18. CASE CharDeleteMissing(h)
  BY <1>18, NoValueAssumption, IdsAssumption, SMTT(30) DEF CharDeleteMissing
<1>19. CASE CharDeleteCache(h)
  <2> DEFINE kinds == (IF Window(req[h]) THEN {"revive"} ELSE {})
  <2>1. Race(req[h], kinds) /\ req[h] \in Ids
    BY <1>19 DEF CharDeleteCache
  <2> HIDE DEF kinds, Quiet
  <2>2. races[i] = {} /\ (i = req[h] => kinds = {})
    BY <2>1, RaceQuiet
  <2>3. QED
    BY <1>19, <2>2, NoValueAssumption, IdsAssumption, SMTT(30) DEF CharDeleteCache, kinds, Quiet
<1>20. QED
  BY <1>1, <1>2, <1>3, <1>4, <1>4a, <1>5, <1>6, <1>7, <1>8, <1>9, <1>10, <1>11, <1>12, <1>13, <1>14, <1>15, <1>16, <1>17, <1>18, <1>19 DEF HandlerNext

LEMMA SaverQuiet == ASSUME TypeOK, OneObject, UnissuedUnknown, QuietInv, NEW s \in Savers, SaverNext(s),
  NEW i \in Ids, races'[i] = {} PROVE Quiet(i)'
<1> USE DEF TypeOK, OneObject, QuietInv, Quiet, OneCopy, CopyCurrent, CleanCurrent, Window, Deleting, SavingCard, HandlerPcs, SaverPcs, history
<1>1. CASE SaveBegin(s)
  <2>1. /\ UNCHANGED <<cache, data, saved, disk, pc, req, held, copy, batch, races>>
        /\ \A t \in Savers : savePc'[t] = "mark" => savePc[t] = "mark"
    BY <1>1 DEF SaveBegin
  <2>2. QED
    BY <2>1
<1>2. ASSUME NEW id \in Ids, Visit(s, id) PROVE Quiet(i)'
  <2> HIDE DEF TypeOK, Window, Deleting, Quiet
  <2>1. VisitEffect(s, id)
    BY <1>2, VisitCases
  <2>2. CASE UNCHANGED <<batch, races>>
    BY <1>2, <2>1, <2>2 DEF VisitEffect, Visit, Quiet, Deleting
  <2>3. CASE ~UNCHANGED <<batch, races>>
    <3>1. /\ races' = CopyRaces(id, TRUE)
          /\ cache[id] \in Objs /\ ~saved[cache[id]] /\ data[cache[id]] \in Data
          /\ \A t \in Savers, j \in Ids :
               batch'[t][j] = IF t = s /\ j = id THEN data[cache[id]] ELSE batch[t][j]
          /\ UNCHANGED <<cache, data, saved, disk, pc, req, held, copy, savePc>>
          /\ savePc[s] = "scan"
      BY <1>2, <2>1, <2>3 DEF VisitEffect, Visit
    <3>2. /\ i # id => races[i] = {}
          /\ i = id => ~Window(i) /\ ~Deleting(i)
      BY <3>1, CopyQuiet
    <3>3. CASE i # id
      BY <3>1, <3>2, <3>3 DEF Quiet, Deleting
    <3>4. CASE i = id
      BY <3>1, <3>2, <3>4, NoValueAssumption DEF Quiet, Window, Deleting
    <3>5. QED
      BY <3>3, <3>4
  <2>4. QED
    BY <2>2, <2>3
<1>3. CASE NothingToSave(s)
  BY <1>3, NoValueAssumption, IdsAssumption, SMTT(30) DEF NothingToSave, SaverReturns
<1>4. CASE PutsAll(s)
  BY <1>4, NoValueAssumption, IdsAssumption, SMTT(30) DEF PutsAll, Batched
<1>5. CASE PutsError(s)
  BY <1>5, NoValueAssumption, IdsAssumption, SMTT(30) DEF PutsError, SaverReturns, NoBatch, Batched
<1>6. ASSUME NEW id \in Ids, Mark(s, id) PROVE Quiet(i)'
  <2>1. /\ savePc[s] = "mark" /\ cache[id] \in Objs /\ batch[s][id] # Null
        /\ saved' = [saved EXCEPT ![cache[id]] = TRUE]
        /\ UNCHANGED <<cache, data, disk, pc, req, held, copy, races>>
    BY <1>6 DEF Mark, Batched
  <2>2. \A t \in Savers, j \in Ids : batch'[t][j] = IF t = s /\ j = id THEN Null ELSE batch[t][j]
    <3>1. batch' = [batch EXCEPT ![s] = [batch[s] EXCEPT ![id] = Null]]
      BY <1>6 DEF Mark
    <3>2. batch[s] \in [Ids -> {Null} \cup Data]
      OBVIOUS
    <3>3. QED
      BY <3>1, <3>2
  <2>3. \A t \in Savers : savePc'[t] = "mark" => savePc[t] = "mark"
    BY <1>6 DEF Mark, SaverReturns
  <2>4. races[i] = {} /\ Quiet(i)
    BY <2>1
  <2>5. OneCopy(i)' /\ CopyCurrent(i)'
    BY <2>1, <2>2, <2>3, <2>4
  <2>6. CleanCurrent(i)'
    <3>1. CASE i = id
      BY <2>1, <2>4, <3>1
    <3>2. CASE i # id
      BY <2>1, <2>4, <3>2, NoValueAssumption
    <3>3. QED
      BY <3>1, <3>2
  <2>7. QED
    BY <2>5, <2>6
<1>7. CASE MarkPanics(s)
  BY <1>7, NoValueAssumption, IdsAssumption, SMTT(30) DEF MarkPanics, memory
<1>8. QED
  BY <1>1, <1>2, <1>3, <1>4, <1>5, <1>6, <1>7 DEF SaverNext

LEMMA NextQuietInv == TypeOK /\ OneObject /\ UnissuedUnknown /\ QuietInv /\ [Next]_vars => QuietInv'
<1> SUFFICES ASSUME TypeOK, OneObject, UnissuedUnknown, QuietInv, [Next]_vars,
                    NEW i \in Ids, races'[i] = {}
             PROVE  Quiet(i)'
  BY DEF QuietInv, Quiet
<1>1. CASE \E h \in Handlers : HandlerNext(h)
  BY <1>1, HandlerQuiet
<1>2. CASE \E s \in Savers : SaverNext(s)
  BY <1>2, SaverQuiet
<1>3. CASE Crash
  BY <1>3 DEF Crash, QuietInv, Quiet, OneCopy, CopyCurrent, CleanCurrent, SavingCard, Deleting, memory, history
<1>4. CASE Restart
  BY <1>4, NoValueAssumption
  DEF Restart, ColdMemory, Quiet, OneCopy, CopyCurrent, CleanCurrent, SavingCard, Deleting, NoBatch
<1>5. CASE UNCHANGED vars
  BY <1>5 DEF vars, QuietInv, Quiet, OneCopy, CopyCurrent, CleanCurrent, SavingCard, Deleting, memory, history
<1>6. QED
  BY <1>1, <1>2, <1>3, <1>4, <1>5 DEF Next
-----------------------------------------------------------------------------
IInv == TypeOK /\ OneObject /\ UnissuedUnknown /\ DeletionInv /\ QuietInv

LEMMA InitIInv == Init => IInv
<1> SUFFICES ASSUME Init PROVE IInv
  OBVIOUS
<1>1. TypeOK
  BY InitTypeOK
<1>2. OneObject
  BY NoValueAssumption DEF Init, ColdMemory, OneObject
<1>3. UnissuedUnknown
  <2>1. gone = {} /\ \A c \in Cards \ issued : disk[c] = Absent
    BY DEF Init
  <2>2. /\ \A c \in Cards : cache[c] = Null /\ \A h \in Handlers : req[h] # c
        /\ \A s \in Savers, c \in Cards : batch[s][c] = Null
    BY IdsAssumption, NoValueAssumption DEF Init, ColdMemory, NoBatch
  <2>3. QED
    BY <2>1, <2>2 DEF UnissuedUnknown
<1>4. DeletionInv
  BY DEF Init, ColdMemory, NoBatch, DeletionInv
<1>5. QuietInv
  BY NoValueAssumption DEF Init, ColdMemory, NoBatch, QuietInv, OneCopy, CopyCurrent, CleanCurrent, SavingCard
<1>6. QED
  BY <1>1, <1>2, <1>3, <1>4, <1>5 DEF IInv

LEMMA IInvInvariant == Spec => []IInv
<1>1. IInv /\ [Next]_vars => IInv'
  BY NextTypeOK, NextOneObject, NextUnissuedUnknown, NextDeletionInv, NextQuietInv DEF IInv
<1>2. QED
  BY InitIInv, <1>1, PTL DEF Spec

\* A card the map says is saved is what the store holds, whatever the ids, the names, the
\* handlers and the savers, once no step is under way on it and unless a race is noted.
THEOREM SavedCardsArePersisted == Spec => []CleanMeansPersisted
<1>1. IInv => CleanMeansPersisted
  <2> SUFFICES ASSUME IInv, NEW id \in Ids, cache[id] # Null, saved[cache[id]],
                      AtRest(id), races[id] = {}
               PROVE  disk[id] = data[cache[id]]
    BY DEF CleanMeansPersisted
  <2>1. CleanCurrent(id)
    BY DEF IInv, QuietInv
  <2>2. \A h \in Handlers : held[h] = cache[id] => req[h] = id
    BY NoValueAssumption DEF IInv, OneObject
  <2>3. QED
    BY <2>1, <2>2 DEF CleanCurrent, AtRest, Window, Deleting
<1>2. QED
  BY <1>1, IInvInvariant, PTL

\* A card CharDelete removed is never in the store again, unless a save or a load of it
\* overlapped the deletion.
THEOREM DeletedCardsStayDeleted == Spec => []DeletedStaysDeleted
<1>1. IInv => DeletedStaysDeleted
  BY DEF IInv, DeletionInv, DeletedStaysDeleted
<1>2. QED
  BY <1>1, IInvInvariant, PTL

\* CheckForSave dereferences a nil item only if CharDelete ran since it copied the card.
THEOREM MarksMeetDeletions == Spec => []MarkMeetsDeletion
<1>1. IInv => MarkMeetsDeletion
  BY DEF IInv, DeletionInv, MarkMeetsDeletion
<1>2. QED
  BY <1>1, IInvInvariant, PTL
-----------------------------------------------------------------------------
Whole(id) == races[id] \cap {"split", "revive"} = {}
Keeps(id) == ObjectKeeps(id) /\ ("window" \notin races[id] => CopiesKeep(id))

\* What a step that notes races on card r, or copies it, says of the races of card i before.
LEMMA RaceKeep ==
  ASSUME TypeOK, NEW r \in Ids, NEW kinds, Race(r, kinds), NEW i \in Ids, Whole(i)'
  PROVE  /\ Whole(i)
         /\ i = r => "split" \notin kinds /\ "revive" \notin kinds
         /\ "window" \notin races'[i] => "window" \notin races[i] /\ (i = r => "window" \notin kinds)
  BY DEF Race, TypeOK, Whole

LEMMA CopyKeep ==
  ASSUME TypeOK, NEW r \in Ids, NEW c \in BOOLEAN, races' = CopyRaces(r, c), NEW i \in Ids, Whole(i)'
  PROVE  /\ Whole(i)
         /\ i # r /\ "window" \notin races'[i] => "window" \notin races[i]
         /\ i = r => c /\ ("window" \notin races'[i] => ~Window(i))
<1> USE DEF TypeOK
<1>1. CASE i # r
  BY <1>1 DEF CopyRaces, Whole
<1>2. CASE i = r
  <2> HIDE DEF Window
  <2>1. c
    BY <1>2 DEF CopyRaces, Whole
  <2>2. "window" \notin races'[i] => ~Window(r)
    BY <1>2 DEF CopyRaces
  <2>3. Whole(i)
    BY <1>2 DEF CopyRaces, Whole
  <2>4. QED BY <1>2, <2>1, <2>2, <2>3
<1>3. QED BY <1>1, <1>2

LEMMA HandlerKeep == ASSUME TypeOK, OneObject, UnissuedUnknown, KeepInv, NEW h \in Handlers, HandlerNext(h),
  NEW i \in Ids, Whole(i)' PROVE Keeps(i)'
<1> USE DEF TypeOK, OneObject, KeepInv, Whole, Keeps, ObjectKeeps, CopiesKeep, OneCopy, SavingCard, HandlerPcs, SaverPcs, history
<1>1. ASSUME NEW id \in Ids, Resolve(h, id) PROVE Keeps(i)'
  BY <1>1, NoValueAssumption, SMTT(30) DEF Resolve, NoteLate
<1>2. CASE LoadHit(h)
  BY <1>2, NoValueAssumption, SMTT(30) DEF LoadHit
<1>3. CASE LoadMiss(h)
  BY <1>3, NoValueAssumption, SMTT(30) DEF LoadMiss
<1>4. ASSUME NEW o \in Objs, Fetch(h, o) PROVE Keeps(i)'
  BY <1>4, NoValueAssumption, SMTT(30) DEF Fetch, Free
<1>4a. CASE FetchUnreadable(h)
  BY <1>4a, NoValueAssumption, SMTT(30) DEF FetchUnreadable
<1>5. CASE Install(h)
  <2> DEFINE kinds == InstallRace(req[h], held[h])
  <2>1. Race(req[h], kinds) /\ req[h] \in Ids
    BY <1>5 DEF Install
  <2> HIDE DEF kinds, Keeps, Whole
  <2>2. /\ Whole(i)
        /\ i = req[h] => "split" \notin kinds /\ "revive" \notin kinds
        /\ "window" \notin races'[i] => "window" \notin races[i] /\ (i = req[h] => "window" \notin kinds)
    BY <2>1, RaceKeep
  <2>3. QED
    BY <1>5, <2>2, NoValueAssumption, SMTT(30) DEF Install, InstallRace, Window, kinds, Keeps, Whole
<1>6. CASE Release(h)
  BY <1>6, NoValueAssumption, SMTT(30) DEF Release
<1>7. ASSUME NEW n \in Names, Store(h, n) PROVE Keeps(i)'
  <2> DEFINE kinds == EditRace(h)
  <2>1. Race(req[h], kinds) /\ req[h] \in Ids
    BY <1>7 DEF Store
  <2> HIDE DEF kinds, Keeps, Whole
  <2>2. /\ Whole(i)
        /\ i = req[h] => "split" \notin kinds /\ "revive" \notin kinds
        /\ "window" \notin races'[i] => "window" \notin races[i] /\ (i = req[h] => "window" \notin kinds)
    BY <2>1, RaceKeep
  <2>3. QED
    BY <1>7, <2>2, NoValueAssumption, SMTT(30) DEF Store, EditRace, Window, kinds, Keeps, Whole
<1>8. ASSUME NEW n \in Names, Delete(h, n) PROVE Keeps(i)'
  <2> DEFINE kinds == (EditRace(h) \cup (IF cache[req[h]] = held[h] THEN {"unflagged"} ELSE {}))
  <2>1. Race(req[h], kinds) /\ req[h] \in Ids
    BY <1>8 DEF Delete
  <2> HIDE DEF kinds, Keeps, Whole
  <2>2. /\ Whole(i)
        /\ i = req[h] => "split" \notin kinds /\ "revive" \notin kinds
        /\ "window" \notin races'[i] => "window" \notin races[i] /\ (i = req[h] => "window" \notin kinds)
    BY <2>1, RaceKeep
  <2>3. QED
    BY <1>8, <2>2, NoValueAssumption, SMTT(30) DEF Delete, EditRace, Window, kinds, Keeps, Whole
<1>9. CASE Clear(h)
  <2> DEFINE kinds == EditRace(h)
  <2>1. Race(req[h], kinds) /\ req[h] \in Ids
    BY <1>9 DEF Clear
  <2> HIDE DEF kinds, Keeps, Whole
  <2>2. /\ Whole(i)
        /\ i = req[h] => "split" \notin kinds /\ "revive" \notin kinds
        /\ "window" \notin races'[i] => "window" \notin races[i] /\ (i = req[h] => "window" \notin kinds)
    BY <2>1, RaceKeep
  <2>3. QED
    BY <1>9, <2>2, NoValueAssumption, SMTT(30) DEF Clear, EditRace, Window, kinds, Keeps, Whole
<1>10. CASE SetUnsaved(h)
  BY <1>10, NoValueAssumption, SMTT(30) DEF SetUnsaved
<1>11. CASE SaveCopy(h)
  <2>1. /\ req[h] \in Ids /\ held[h] \in Objs /\ pc[h] = "hold" /\ data[held[h]] \in Data
        /\ races' = CopyRaces(req[h], cache[req[h]] = held[h])
        /\ pc' = [pc EXCEPT ![h] = "savePuts"] /\ copy' = [copy EXCEPT ![h] = data[held[h]]]
        /\ UNCHANGED <<cache, data, saved, disk, req, held, savePc, batch, removed>>
    BY <1>11 DEF SaveCopy
  <2>2. /\ Whole(i)
        /\ i # req[h] /\ "window" \notin races'[i] => "window" \notin races[i]
        /\ i = req[h] => cache[req[h]] = held[h] /\ ("window" \notin races'[i] => ~Window(i))
    <3> HIDE DEF Keeps, Whole, TypeOK
    <3> DEFINE c == (cache[req[h]] = held[h])
    <3>1. c \in BOOLEAN /\ races' = CopyRaces(req[h], c)
      BY <2>1
    <3> HIDE DEF c
    <3>2. /\ Whole(i)
          /\ i # req[h] /\ "window" \notin races'[i] => "window" \notin races[i]
          /\ i = req[h] => c /\ ("window" \notin races'[i] => ~Window(i))
      BY <2>1, <3>1, CopyKeep
    <3>3. QED
      BY <3>2 DEF c
  <2>3. CASE i # req[h]
    BY <2>1, <2>2, <2>3
  <2>4. CASE i = req[h]
    BY <2>1, <2>2, <2>4, NoValueAssumption DEF Window
  <2>5. QED
    BY <2>3, <2>4
<1>12. CASE SavePuts(h)
  BY <1>12, NoValueAssumption, SMTT(30) DEF SavePuts
<1>13. CASE SavePutsFail(h)
  <2> DEFINE kinds == (IF cache[req[h]] = held[h] THEN {"unflagged"} ELSE {})
  <2>1. Race(req[h], kinds) /\ req[h] \in Ids
    BY <1>13 DEF SavePutsFail
  <2> HIDE DEF kinds, Keeps, Whole
  <2>2. /\ Whole(i)
        /\ i = req[h] => "split" \notin kinds /\ "revive" \notin kinds
        /\ "window" \notin races'[i] => "window" \notin races[i] /\ (i = req[h] => "window" \notin kinds)
    BY <2>1, RaceKeep
  <2>3. QED
    BY <1>13, <2>2, NoValueAssumption, SMTT(30) DEF SavePutsFail, kinds, Keeps, Whole
<1>14. CASE SaveMark(h)
  BY <1>14, NoValueAssumption, SMTT(30) DEF SaveMark
<1>15. ASSUME NEW c \in Cards, NEW o \in Objs, CharNewPuts(h, c, o) PROVE Keeps(i)'
  <2>1. /\ o \in Objs /\ c \in Ids /\ pc[h] = "idle" /\ \A j \in Ids : cache[j] # o
        /\ disk' = [disk EXCEPT ![c] = {}] /\ data' = [data EXCEPT ![o] = {}]
        /\ req' = [req EXCEPT ![h] = c] /\ held' = [held EXCEPT ![h] = o] /\ pc' = [pc EXCEPT ![h] = "newCache"]
        /\ UNCHANGED <<cache, copy, savePc, batch, races, removed>>
    BY <1>15, IdsAssumption DEF CharNewPuts, Free
  <2>2. cache[c] = Null /\ (\A t \in Savers : batch[t][c] = Null) /\ \A g \in Handlers : req[g] # c
    BY <1>15 DEF CharNewPuts, UnissuedUnknown
  <2>3. CASE i = c
    BY <2>1, <2>2, <2>3, NoValueAssumption
  <2>4. CASE i # c
    BY <2>1, <2>2, <2>4, NoValueAssumption
  <2>5. QED
    BY <2>3, <2>4
<1>16. CASE CharNewCache(h)
  <2> DEFINE kinds == InstallRace(req[h], held[h])
  <2>1. Race(req[h], kinds) /\ req[h] \in Ids
    BY <1>16 DEF CharNewCache
  <2> HIDE DEF kinds, Keeps, Whole
  <2>2. /\ Whole(i)
        /\ i = req[h] => "split" \notin kinds /\ "revive" \notin kinds
        /\ "window" \notin races'[i] => "window" \notin races[i] /\ (i = req[h] => "window" \notin kinds)
    BY <2>1, RaceKeep
  <2>3. QED
    BY <1>16, <2>2, NoValueAssumption, SMTT(30) DEF CharNewCache, InstallRace, Window, kinds, Keeps, Whole
<1>17. CASE CharDeleteIo(h)
  <2> DEFINE kinds == (IF Window(req[h]) THEN {"revive"} ELSE {})
  <2>1. Race(req[h], kinds) /\ req[h] \in Ids
    BY <1>17 DEF CharDeleteIo
  <2> HIDE DEF kinds, Keeps, Whole
  <2>2. /\ Whole(i)
        /\ i = req[h] => "split" \notin kinds /\ "revive" \notin kinds
        /\ "window" \notin races'[i] => "window" \notin races[i] /\ (i = req[h] => "window" \notin kinds)
    BY <2>1, RaceKeep
  <2>3. QED
    BY <1>17, <2>2, NoValueAssumption, SMTT(30) DEF CharDeleteIo, Window, kinds, Keeps, Whole
<1>18. CASE CharDeleteMissing(h)
  BY <1>18, NoValueAssumption, SMTT(30) DEF CharDeleteMissing
<1>19. CASE CharDeleteCache(h)
  <2> DEFINE kinds == (IF Window(req[h]) THEN {"revive"} ELSE {})
  <2>1. Race(req[h], kinds) /\ req[h] \in Ids
    BY <1>19 DEF CharDeleteCache
  <2> HIDE DEF kinds, Keeps, Whole
  <2>2. /\ Whole(i)
        /\ i = req[h] => "split" \notin kinds /\ "revive" \notin kinds
        /\ "window" \notin races'[i] => "window" \notin races[i] /\ (i = req[h] => "window" \notin kinds)
    BY <2>1, RaceKeep
  <2>3. QED
    BY <1>19, <2>2, NoValueAssumption, SMTT(30) DEF CharDeleteCache, Window, kinds, Keeps, Whole
<1>20. QED
  BY <1>1, <1>2, <1>3, <1>4, <1>4a, <1>5, <1>6, <1>7, <1>8, <1>9, <1>10, <1>11, <1>12, <1>13, <1>14, <1>15, <1>16, <1>17, <1>18, <1>19 DEF HandlerNext

LEMMA SaverKeep == ASSUME TypeOK, OneObject, UnissuedUnknown, KeepInv, NEW s \in Savers, SaverNext(s),
  NEW i \in Ids, Whole(i)' PROVE Keeps(i)'
<1> USE DEF TypeOK, OneObject, KeepInv, Whole, Keeps, ObjectKeeps, CopiesKeep, OneCopy, SavingCard, HandlerPcs, SaverPcs, history
<1>1. CASE SaveBegin(s)
  <2>1. UNCHANGED <<cache, data, saved, disk, pc, req, held, copy, batch, races, removed>>
    BY <1>1 DEF SaveBegin
  <2>2. QED
    BY <2>1
<1>2. ASSUME NEW id \in Ids, Visit(s, id) PROVE Keeps(i)'
  <2> HIDE DEF TypeOK, Keeps, Whole
  <2>1. VisitEffect(s, id)
    BY <1>2, VisitCases
  <2>2. CASE UNCHANGED <<batch, races>>
    BY <1>2, <2>1, <2>2 DEF VisitEffect, Visit, Keeps, Whole
  <2>3. CASE ~UNCHANGED <<batch, races>>
    <3>1. /\ races' = CopyRaces(id, TRUE)
          /\ cache[id] \in Objs /\ data[cache[id]] \in Data
          /\ \A t \in Savers, j \in Ids :
               batch'[t][j] = IF t = s /\ j = id THEN data[cache[id]] ELSE batch[t][j]
          /\ UNCHANGED <<cache, data, disk, pc, req, held, copy, removed>>
      BY <1>2, <2>1, <2>3 DEF VisitEffect, Visit
    <3>2. /\ Whole(i)
          /\ i # id /\ "window" \notin races'[i] => "window" \notin races[i]
          /\ i = id => ("window" \notin races'[i] => ~Window(i))
      BY <3>1, CopyKeep
    <3>3. CASE i # id
      <4>1. \A t \in Savers : batch'[t][i] = batch[t][i]
        BY <3>1, <3>3
      <4>2. ObjectKeeps(i) /\ ("window" \notin races'[i] => CopiesKeep(i))
        BY <3>2, <3>3 DEF Whole
      <4>3. ObjectKeeps(i)'
        BY <3>1, <4>1, <4>2
      <4>4. CopiesKeep(i) => CopiesKeep(i)'
        BY <3>1, <4>1
      <4>5. QED
        BY <4>2, <4>3, <4>4 DEF Keeps
    <3>4. CASE i = id
      <4>1. /\ ObjectKeeps(i) /\ \A t \in Savers : t # s => batch'[t][i] = batch[t][i]
            /\ batch'[s][i] = data[cache[i]] /\ cache[i] # Null
        BY <3>1, <3>2, <3>4, NoValueAssumption DEF Whole
      <4>2. ObjectKeeps(i)'
        BY <3>1, <4>1
      <4>3. ASSUME "window" \notin races'[i] PROVE CopiesKeep(i)'
        <5>1. (\A t \in Savers : batch[t][i] = Null) /\ \A h \in Handlers : ~SavingCard(h, i)
          BY <3>2, <3>4, <4>3 DEF Window
        <5>2. QED
          BY <3>1, <4>1, <5>1
      <4>4. QED
        BY <4>2, <4>3 DEF Keeps
    <3>5. QED
      BY <3>3, <3>4
  <2>4. QED
    BY <2>2, <2>3
<1>3. CASE NothingToSave(s)
  BY <1>3, NoValueAssumption, SMTT(30) DEF NothingToSave, SaverReturns
<1>4. CASE PutsAll(s)
  BY <1>4, NoValueAssumption, SMTT(30) DEF PutsAll, Batched
<1>5. CASE PutsError(s)
  BY <1>5, NoValueAssumption, SMTT(30) DEF PutsError, SaverReturns, NoBatch, Batched
<1>6. ASSUME NEW id \in Ids, Mark(s, id) PROVE Keeps(i)'
  <2>1. UNCHANGED <<cache, data, disk, pc, req, held, copy, races, removed>>
    BY <1>6 DEF Mark
  <2>2. \A t \in Savers, j \in Ids : batch'[t][j] = IF t = s /\ j = id THEN Null ELSE batch[t][j]
    <3>1. batch' = [batch EXCEPT ![s] = [batch[s] EXCEPT ![id] = Null]]
      BY <1>6 DEF Mark
    <3>2. batch[s] \in [Ids -> {Null} \cup Data]
      OBVIOUS
    <3>3. QED
      BY <3>1, <3>2
  <2>3. QED
    BY <2>1, <2>2
<1>7. CASE MarkPanics(s)
  BY <1>7, NoValueAssumption, SMTT(30) DEF MarkPanics, memory
<1>8. QED
  BY <1>1, <1>2, <1>3, <1>4, <1>5, <1>6, <1>7 DEF SaverNext

LEMMA NextKeepInv == TypeOK /\ OneObject /\ UnissuedUnknown /\ KeepInv /\ [Next]_vars => KeepInv'
<1> SUFFICES ASSUME TypeOK, OneObject, UnissuedUnknown, KeepInv, [Next]_vars,
                    NEW i \in Ids, Whole(i)'
             PROVE  Keeps(i)'
  BY DEF KeepInv, Keeps, Whole
<1>1. CASE \E h \in Handlers : HandlerNext(h)
  BY <1>1, HandlerKeep
<1>2. CASE \E s \in Savers : SaverNext(s)
  BY <1>2, SaverKeep
<1>3. CASE Crash
  BY <1>3 DEF Crash, KeepInv, Keeps, Whole, ObjectKeeps, CopiesKeep, OneCopy, SavingCard, memory, history
<1>4. CASE Restart
  BY <1>4, NoValueAssumption
  DEF Restart, ColdMemory, Keeps, ObjectKeeps, CopiesKeep, OneCopy, SavingCard, NoBatch
<1>5. CASE UNCHANGED vars
  BY <1>5 DEF vars, KeepInv, Keeps, Whole, ObjectKeeps, CopiesKeep, OneCopy, SavingCard, memory, history
<1>6. QED
  BY <1>1, <1>2, <1>3, <1>4, <1>5 DEF Next

LEMMA NothingErasedStep ==
  ASSUME IInv, KeepInv, [Next]_vars, NEW id \in Ids, disk[id] # Absent, disk'[id] # Absent,
         races[id] \cap {"window", "split", "revive"} = {}
  PROVE  disk[id] \ removed[id] \subseteq disk'[id]
<1> USE DEF IInv, TypeOK
<1>1. ObjectKeeps(id) /\ CopiesKeep(id)
  BY DEF KeepInv
<1>2. CASE disk' = disk
  BY <1>2
<1>3. ASSUME NEW h \in Handlers, HandlerNext(h), disk' # disk PROVE disk[id] \ removed[id] \subseteq disk'[id]
  <2>1. \/ SavePuts(h) \/ CharDeleteIo(h)
        \/ \E c \in Cards, o \in Objs : CharNewPuts(h, c, o)
    BY <1>3 DEF HandlerNext, Resolve, LoadHit, LoadMiss, Fetch, FetchUnreadable, Install, Release, Store, Delete, Clear, SetUnsaved,
                SaveCopy, SavePutsFail, SaveMark, CharNewCache, CharDeleteMissing, CharDeleteCache
  <2>2. CASE SavePuts(h)
    BY <1>1, <2>2 DEF SavePuts, CopiesKeep, SavingCard
  <2>3. CASE CharDeleteIo(h)
    BY <2>3 DEF CharDeleteIo
  <2>4. CASE \E c \in Cards, o \in Objs : CharNewPuts(h, c, o)
    BY <2>4 DEF CharNewPuts, UnissuedUnknown
  <2>5. QED
    BY <2>1, <2>2, <2>3, <2>4
<1>4. ASSUME NEW s \in Savers, SaverNext(s), disk' # disk PROVE disk[id] \ removed[id] \subseteq disk'[id]
  <2>1. PutsAll(s) \/ PutsError(s)
    BY <1>4 DEF SaverNext, SaveBegin, Visit, NothingToSave, Mark, MarkPanics
  <2>2. \E put \in SUBSET Batched(s) : disk' = [i \in Ids |-> IF i \in put THEN batch[s][i] ELSE disk[i]]
    BY <2>1 DEF PutsAll, PutsError
  <2>3. QED
    BY <1>1, <2>2 DEF CopiesKeep, Batched
<1>5. QED
  BY <1>2, <1>3, <1>4 DEF Next, Crash, Restart, vars

\* No save takes an attribute out of the store that no handler asked to remove, whatever the ids,
\* the names, the handlers and the savers, unless edits and saves of that card overlapped or two
\* objects stood for it.
THEOREM SavesEraseNothing == Spec => NothingErased
<1>1. Init => KeepInv
  BY NoValueAssumption DEF Init, ColdMemory, NoBatch, KeepInv, ObjectKeeps, CopiesKeep, OneCopy, SavingCard
<1>2. IInv /\ KeepInv /\ [Next]_vars => KeepInv'
  BY NextKeepInv DEF IInv
<1>3. IInv /\ KeepInv /\ [Next]_vars =>
        [\A id \in Ids : disk[id] # Absent /\ disk'[id] # Absent /\ races[id] \cap {"window", "split", "revive"} = {}
           => disk[id] \ removed[id] \subseteq disk'[id]]_vars
  BY NothingErasedStep
<1>4. QED
  BY <1>1, <1>2, <1>3, IInvInvariant, PTL DEF Spec, NothingErased
=============================================================================
