---------------------------- MODULE HookRegistry ----------------------------
(***************************************************************************)
(* hookRegistry of dice/hook_registry.go, and the runMessageInHooks,       *)
(* runMessageOutHooks and runEventHooks of dice/dice.go that run a         *)
(* snapshot of it.                                                         *)
(*                                                                         *)
(* register takes its id from an atomic counter before it takes the lock,  *)
(* so two goroutines may insert in the other order than their ids.  A      *)
(* handler runs without the lock: it, and any other goroutine, registers   *)
(* and unregisters hooks while a run is under way.                         *)
(***************************************************************************)
EXTENDS Integers, SequencesExt

CONSTANTS
  Registrars,  \* goroutines calling register
  Runners,     \* goroutines running the hooks for a message, a reply or an event
  Priorities,  \* of HookPriority
  MaxHooks,    \* bound on the registrations of a behaviour
  NoHandle

ASSUME MaxHooksAssumption == MaxHooks \in Nat /\ NoHandle \notin Int
ASSUME PrioritiesAssumption == Priorities \subseteq Int

VARIABLES
  seq,      \* the counter ids come from
  items,    \* the entries, highest priority first
  index,    \* id -> position in items
  drawn,    \* the id a register call has drawn and not inserted yet
  snap,     \* what a run copied
  pos,      \* the position in it the run has come to; 0: no run
  aborted,  \* what the last run of each runner returned
  removed,  \* what the last unregister returned
  time      \* history: counts insertions

vars == <<seq, items, index, drawn, snap, pos, aborted, removed, time>>

Handles == 1..MaxHooks

\* An entry, with the moment it was inserted as history.
Entries == [id : Handles, priority : Priorities, at : Nat]

TypeOK ==
  /\ seq \in 0..MaxHooks
  /\ items \in Seq(Entries)
  /\ DOMAIN index \subseteq Handles /\ \A id \in DOMAIN index : index[id] \in DOMAIN items
  /\ drawn \in [Registrars -> Handles \cup {NoHandle}]
  /\ snap \in [Runners -> Seq(Entries)]
  /\ pos \in [Runners -> Nat] /\ \A r \in Runners : pos[r] <= Len(snap[r])
  /\ aborted \in [Runners -> BOOLEAN]
  /\ removed \in BOOLEAN
  /\ time \in Nat
-----------------------------------------------------------------------------
Init ==
  /\ seq = 0 /\ time = 0
  /\ items = <<>>
  /\ index = <<>>
  /\ drawn = [g \in Registrars |-> NoHandle]
  /\ snap = [r \in Runners |-> <<>>]
  /\ pos = [r \in Runners |-> 0]
  /\ aborted = [r \in Runners |-> FALSE]
  /\ removed = FALSE

\* reindexLocked
Reindexed(ids, its, start) ==
  [id \in ids |-> IF \E i \in start..Len(its) : its[i].id = id
                  THEN CHOOSE i \in start..Len(its) : its[i].id = id
                  ELSE index[id]]

\* Mutant: a hook goes before those of its own priority.
InsertPlaceFirst(p) ==
  CHOOSE i \in 1..Len(items) + 1 :
    /\ \A j \in 1..(i - 1) : p < items[j].priority
    /\ i <= Len(items) => p >= items[i].priority

\* Before the first entry of a lower priority.
InsertPlace(p) ==
  CHOOSE i \in 1..Len(items) + 1 :
    /\ \A j \in 1..(i - 1) : p <= items[j].priority
    /\ i <= Len(items) => p > items[i].priority

Draw(g) ==
  /\ drawn[g] = NoHandle /\ seq < MaxHooks
  /\ seq' = seq + 1
  /\ drawn' = [drawn EXCEPT ![g] = seq + 1]
  /\ UNCHANGED <<items, index, snap, pos, aborted, removed, time>>

Insert(g, p) ==
  /\ drawn[g] # NoHandle
  /\ LET at == InsertPlace(p) IN
     /\ items' = InsertAt(items, at, [id |-> drawn[g], priority |-> p, at |-> time])
     /\ index' = Reindexed(DOMAIN index \cup {drawn[g]}, items', at)
  /\ drawn' = [drawn EXCEPT ![g] = NoHandle]
  /\ time' = time + 1
  /\ UNCHANGED <<seq, snap, pos, aborted, removed>>

\* Handles that register has returned.
Returned == {id \in 1..seq : \A g \in Registrars : drawn[g] # id}

\* Mutant: the entries after the removed one keep their old positions in the index.
UnregisterStale(id) ==
  /\ id \in Returned
  /\ IF id \in DOMAIN index
     THEN /\ items' = RemoveAt(items, index[id])
          /\ index' = [i \in DOMAIN index \ {id} |-> index[i]]
          /\ removed' = TRUE
     ELSE removed' = FALSE /\ UNCHANGED <<items, index>>
  /\ UNCHANGED <<seq, drawn, snap, pos, aborted, time>>

Unregister(id) ==
  /\ id \in Returned
  /\ IF id \in DOMAIN index
     THEN /\ items' = RemoveAt(items, index[id])
          /\ index' = Reindexed(DOMAIN index \ {id}, items', index[id])
          /\ removed' = TRUE
     ELSE removed' = FALSE /\ UNCHANGED <<items, index>>
  /\ UNCHANGED <<seq, drawn, snap, pos, aborted, time>>

\* snapshot; with no hooks the run returns at once.
Begin(r) ==
  /\ pos[r] = 0
  /\ snap' = [snap EXCEPT ![r] = items]
  /\ pos' = [pos EXCEPT ![r] = IF items = <<>> THEN 0 ELSE 1]
  /\ aborted' = [aborted EXCEPT ![r] = FALSE]
  /\ UNCHANGED <<seq, items, index, drawn, removed, time>>

\* Mutant: the run goes one past the last handler.
CallOnePast(r, result) ==
  /\ pos[r] # 0
  /\ pos' = [pos EXCEPT ![r] = IF result = "continue" /\ @ <= Len(snap[r]) THEN @ + 1 ELSE 0]
  /\ aborted' = [aborted EXCEPT ![r] = (result = "abort")]
  /\ UNCHANGED <<seq, items, index, drawn, snap, removed, time>>

\* The handler the run has come to returns.
Call(r, result) ==
  /\ pos[r] # 0
  /\ pos' = [pos EXCEPT ![r] = IF result = "continue" /\ @ < Len(snap[r]) THEN @ + 1 ELSE 0]
  /\ aborted' = [aborted EXCEPT ![r] = (result = "abort")]
  /\ UNCHANGED <<seq, items, index, drawn, snap, removed, time>>

Next ==
  \/ \E g \in Registrars : Draw(g) \/ \E p \in Priorities : Insert(g, p)
  \/ \E id \in Handles : Unregister(id)
  \/ \E r \in Runners : Begin(r) \/ \E result \in {"continue", "stop", "abort"} : Call(r, result)

Spec == Init /\ [][Next]_vars
-----------------------------------------------------------------------------
\* unregister removes the entry it was given and no other: the index holds every entry's
\* own position, after any insertions and removals before it.
IndexExact ==
  /\ DOMAIN index = {items[i].id : i \in DOMAIN items}
  /\ \A i \in DOMAIN items : index[items[i].id] = i

\* What a run has still to call that has come to position k of s.
Rest(s, k) == IF k = 0 THEN {} ELSE {s[i] : i \in k..Len(s)}

Set == INSTANCE HookSet WITH hooks <- ToSet(items), left <- [r \in Runners |-> Rest(snap[r], pos[r])]

\* Whatever is registered and unregistered meanwhile, a run calls exactly the hooks there
\* were when it began, by priority and then by age, until one stops or aborts it; and
\* unregister says TRUE exactly for a hook that was registered.
KeepsPromise == Set!Spec
-----------------------------------------------------------------------------
\* Parts of the inductive invariant of HookRegistryProofs.  An id a register call holds is nobody
\* else's, an entry is older than any to come, and the entries, and those a run copied, are in the
\* order in which runs call them.
IdsOwned ==
  /\ \A i \in DOMAIN items : items[i].id <= seq /\ items[i].at < time
  /\ \A g \in Registrars : drawn[g] # NoHandle =>
       /\ drawn[g] <= seq
       /\ \A i \in DOMAIN items : items[i].id # drawn[g]
       /\ \A h \in Registrars \ {g} : drawn[h] # drawn[g]

Sorted(s) == \A i, j \in DOMAIN s : i < j => Set!Before(s[i], s[j])

RegistryInv == TypeOK /\ IndexExact /\ IdsOwned /\ Sorted(items) /\ \A r \in Runners : Sorted(snap[r])
=============================================================================
