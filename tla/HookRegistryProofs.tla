------------------------- MODULE HookRegistryProofs -------------------------
(***************************************************************************)
(* The index of the registry is exact, and the registry keeps the promise  *)
(* of HookSet, for any number of goroutines, hooks and priorities.  The    *)
(* invariant of both is RegistryInv.                                       *)
(***************************************************************************)
EXTENDS HookRegistry, SequenceTheorems, WellFoundedInduction, TLAPS

(***************************************************************************)
(* Sequences.                                                              *)
(***************************************************************************)
LEMMA Inserted ==
  ASSUME NEW S, NEW s \in Seq(S), NEW k \in 1..Len(s) + 1, NEW e \in S
  PROVE  /\ InsertAt(s, k, e) \in Seq(S)
         /\ Len(InsertAt(s, k, e)) = Len(s) + 1
         /\ \A i \in 1..Len(s) + 1 :
              InsertAt(s, k, e)[i] = IF i < k THEN s[i] ELSE IF i = k THEN e ELSE s[i - 1]
<1>. DEFINE a == SubSeq(s, 1, k - 1)  b == SubSeq(s, k, Len(s))
<1>1. /\ a \in Seq(S) /\ Len(a) = k - 1
      /\ \A i \in 1..k - 1 : a[i] = s[i]
  BY SubSeqProperties
<1>2. /\ b \in Seq(S) /\ Len(b) = Len(s) - k + 1
      /\ \A i \in 1..Len(s) - k + 1 : b[i] = s[k + i - 1]
  BY SubSeqProperties
<1>3. <<e>> \in Seq(S) /\ Len(<<e>>) = 1 /\ <<e>>[1] = e
  OBVIOUS
<1>. HIDE DEF a, b
<1>4. /\ a \o <<e>> \in Seq(S) /\ Len(a \o <<e>>) = k
      /\ \A i \in 1..k : (a \o <<e>>)[i] = IF i < k THEN s[i] ELSE e
  BY <1>1, <1>3, ConcatProperties
<1>5. /\ (a \o <<e>>) \o b \in Seq(S) /\ Len((a \o <<e>>) \o b) = Len(s) + 1
      /\ \A i \in 1..Len(s) + 1 : ((a \o <<e>>) \o b)[i] = IF i <= k THEN (a \o <<e>>)[i] ELSE b[i - k]
  <2>. DEFINE c == a \o <<e>>
  <2>1. c \in Seq(S) /\ Len(c) = k /\ Len(c) + Len(b) = Len(s) + 1
    <3>1. c \in Seq(S) /\ Len(c) = k
      BY <1>4
    <3>2. Len(s) \in Nat /\ k \in Int
      OBVIOUS
    <3>. HIDE DEF c
    <3>3. QED
      BY <3>1, <3>2, <1>2
  <2>. HIDE DEF c
  <2>2. /\ c \o b \in Seq(S) /\ Len(c \o b) = Len(c) + Len(b)
        /\ \A i \in 1..Len(c) + Len(b) : (c \o b)[i] = IF i <= Len(c) THEN c[i] ELSE b[i - Len(c)]
    BY <1>2, <2>1, ConcatProperties
  <2>3. QED
    BY <2>1, <2>2 DEF c
<1>6. InsertAt(s, k, e) = (a \o <<e>>) \o b
  BY DEF InsertAt, a, b
<1>7. ASSUME NEW i \in 1..Len(s) + 1
      PROVE  InsertAt(s, k, e)[i] = IF i < k THEN s[i] ELSE IF i = k THEN e ELSE s[i - 1]
  <2>1. CASE i <= k
    BY <2>1, <1>4, <1>5, <1>6
  <2>2. CASE i > k
    <3>1. i - k \in 1..Len(s) - k + 1 /\ k + (i - k) - 1 = i - 1
      BY <2>2
    <3>2. b[i - k] = s[i - 1]
      BY <3>1, <1>2
    <3>3. QED
      BY <2>2, <3>2, <1>5, <1>6
  <2>3. QED
    BY <2>1, <2>2
<1>8. QED
  BY <1>5, <1>6, <1>7

LEMMA Removed ==
  ASSUME NEW S, NEW s \in Seq(S), NEW k \in 1..Len(s)
  PROVE  /\ RemoveAt(s, k) \in Seq(S)
         /\ Len(RemoveAt(s, k)) = Len(s) - 1
         /\ \A i \in 1..Len(s) - 1 : RemoveAt(s, k)[i] = IF i < k THEN s[i] ELSE s[i + 1]
<1>. DEFINE a == SubSeq(s, 1, k - 1)  b == SubSeq(s, k + 1, Len(s))
<1>1. /\ a \in Seq(S) /\ Len(a) = k - 1
      /\ \A i \in 1..k - 1 : a[i] = s[i]
  BY SubSeqProperties
<1>2. /\ b \in Seq(S) /\ Len(b) = Len(s) - k
      /\ \A i \in 1..Len(s) - k : b[i] = s[k + i]
  BY SubSeqProperties
<1>. HIDE DEF a, b
<1>3. /\ a \o b \in Seq(S) /\ Len(a \o b) = Len(s) - 1
      /\ \A i \in 1..Len(s) - 1 : (a \o b)[i] = IF i <= k - 1 THEN a[i] ELSE b[i - (k - 1)]
  <2>1. /\ a \o b \in Seq(S) /\ Len(a \o b) = Len(a) + Len(b)
        /\ \A i \in 1..Len(a) + Len(b) : (a \o b)[i] = IF i <= Len(a) THEN a[i] ELSE b[i - Len(a)]
    BY <1>1, <1>2, ConcatProperties
  <2>2. Len(a) = k - 1 /\ Len(a) + Len(b) = Len(s) - 1
    BY <1>1, <1>2
  <2>3. QED
    BY <2>1, <2>2
<1>4. RemoveAt(s, k) = a \o b
  BY DEF RemoveAt, a, b
<1>5. ASSUME NEW i \in 1..Len(s) - 1
      PROVE  RemoveAt(s, k)[i] = IF i < k THEN s[i] ELSE s[i + 1]
  <2>1. CASE i < k
    BY <2>1, <1>1, <1>3, <1>4
  <2>2. CASE i >= k
    <3>1. i - (k - 1) \in 1..Len(s) - k /\ k + (i - (k - 1)) = i + 1
      BY <2>2
    <3>2. b[i - (k - 1)] = s[i + 1]
      BY <3>1, <1>2
    <3>3. QED
      BY <2>2, <3>2, <1>3, <1>4
  <2>3. QED
    BY <2>1, <2>2
<1>6. QED
  BY <1>3, <1>4, <1>5

LEMMA EntriesTyped ==
  ASSUME NEW s \in Seq(Entries)
  PROVE  /\ Len(s) \in Nat /\ DOMAIN s = 1..Len(s)
         /\ \A i \in 1..Len(s) : s[i] \in Entries /\ s[i].id \in Handles /\ s[i].id \in Int
                                 /\ s[i].priority \in Int /\ s[i].at \in Nat
<1>1. \A e \in Entries : e.id \in Handles /\ e.id \in Int /\ e.priority \in Int /\ e.at \in Nat
  <2>1. \A e \in Entries : e.id \in Handles /\ e.priority \in Priorities /\ e.at \in Nat
    BY DEF Entries
  <2>2. Handles \subseteq Int /\ Priorities \subseteq Int
    BY MaxHooksAssumption, PrioritiesAssumption DEF Handles
  <2>3. QED
    BY <2>1, <2>2
<1>2. \A i \in 1..Len(s) : s[i] \in Entries
  OBVIOUS
<1>3. QED
  BY <1>1, <1>2

\* The least number of a set.
LEMMA Smallest ==
  ASSUME NEW S, S \subseteq Nat, S # {}
  PROVE  \E n \in S : \A m \in S : n <= m
<1>. DEFINE R == {p \in Nat \X Nat : p[1] < p[2]}
<1>1. IsWellFoundedOn(R, Nat)
  BY NatLessThanWellFounded DEF OpToRel
<1>2. PICK n \in S : \A m \in S : ~ (<<m, n>> \in R)
  <2>. HIDE DEF R
  <2>. QED
    BY <1>1, WFMin
<1>3. ASSUME NEW m \in S PROVE ~ (m < n)
  <2>1. <<m, n>> \notin R /\ <<m, n>> \in Nat \X Nat
    BY <1>2
  <2>2. QED
    BY <2>1
<1>4. QED
  BY <1>3

(***************************************************************************)
(* The place for a new entry, and the index after a shift.                 *)
(***************************************************************************)
LEMMA PlaceFound ==
  ASSUME TypeOK, Sorted(items), NEW p \in Priorities
  PROVE  /\ InsertPlace(p) \in 1..Len(items) + 1
         /\ \A j \in 1..Len(items) : j < InsertPlace(p) => p <= items[j].priority
         /\ \A j \in 1..Len(items) : j >= InsertPlace(p) => p > items[j].priority
<1>. DEFINE Lower == {j \in 1..Len(items) : p > items[j].priority}
            Place(i) == /\ \A j \in 1..(i - 1) : p <= items[j].priority
                        /\ i <= Len(items) => p > items[i].priority
<1>1. /\ items \in Seq(Entries) /\ Len(items) \in Nat /\ p \in Int
      /\ \A j \in 1..Len(items) : items[j] \in Entries /\ items[j].priority \in Int /\ items[j].at \in Nat
  BY PrioritiesAssumption, EntriesTyped DEF TypeOK
<1>2. \E i \in 1..Len(items) + 1 : Place(i)
  <2>1. CASE Lower = {}
    <3>1. Place(Len(items) + 1)
      BY <2>1, <1>1
    <3>2. QED
      BY <3>1, <1>1
  <2>2. CASE Lower # {}
    <3>1. Lower \subseteq Nat
      OBVIOUS
    <3>2. PICK i \in Lower : \A m \in Lower : i <= m
      <4>. HIDE DEF Lower
      <4>. QED
        BY <2>2, <3>1, Smallest
    <3>3. ASSUME NEW j \in 1..(i - 1) PROVE p <= items[j].priority
      BY <3>2, <1>1
    <3>4. QED
      BY <3>2, <3>3, <1>1
  <2>3. QED
    BY <2>1, <2>2
<1>3. InsertPlace(p) \in 1..Len(items) + 1 /\ Place(InsertPlace(p))
  <2>1. InsertPlace(p) = CHOOSE i \in 1..Len(items) + 1 : Place(i)
    BY DEF InsertPlace
  <2>. HIDE DEF Place
  <2>2. QED
    BY <1>2, <2>1
<1>4. ASSUME NEW j \in 1..Len(items), j > InsertPlace(p) PROVE p > items[j].priority
  <2>1. InsertPlace(p) \in DOMAIN items /\ j \in DOMAIN items
    BY <1>1, <1>3, <1>4
  <2>2. Set!Before(items[InsertPlace(p)], items[j])
    BY <1>4, <2>1, <1>1, <1>3 DEF Sorted
  <2>3. QED
    BY <2>1, <2>2, <1>1, <1>3 DEF Set!Before
<1>5. QED
  BY <1>1, <1>3, <1>4

LEMMA IndexShifted ==
  ASSUME NEW its \in Seq(Entries), NEW start \in 1..Len(its) + 1, NEW ids,
         ids = {its[i].id : i \in DOMAIN its},
         \A i, j \in DOMAIN its : its[i].id = its[j].id => i = j,
         \A i \in DOMAIN its : i < start => index[its[i].id] = i
  PROVE  /\ DOMAIN Reindexed(ids, its, start) = {its[i].id : i \in DOMAIN its}
         /\ \A i \in DOMAIN its : Reindexed(ids, its, start)[its[i].id] = i
<1>1. DOMAIN its = 1..Len(its)
  OBVIOUS
<1>2. ASSUME NEW i \in DOMAIN its PROVE Reindexed(ids, its, start)[its[i].id] = i
  <2>1. its[i].id \in ids
    OBVIOUS
  <2>2. CASE i >= start
    <3>1. i \in start..Len(its)
      BY <2>2, <1>1
    <3>2. \A j \in start..Len(its) : its[j].id = its[i].id => j = i
      BY <1>1
    <3>3. (CHOOSE j \in start..Len(its) : its[j].id = its[i].id) = i
      BY <3>1, <3>2
    <3>4. QED
      BY <2>1, <3>1, <3>3 DEF Reindexed
  <2>3. CASE i < start
    <3>1. ~ \E j \in start..Len(its) : its[j].id = its[i].id
      BY <2>3, <1>1
    <3>2. QED
      BY <2>1, <2>3, <3>1 DEF Reindexed
  <2>4. QED
    BY <2>2, <2>3, <1>1
<1>3. QED
  BY <1>2 DEF Reindexed

(***************************************************************************)
(* The steps.                                                              *)
(***************************************************************************)
LEMMA InitInv == Init => RegistryInv
<1>. SUFFICES ASSUME Init PROVE RegistryInv
  OBVIOUS
<1>1. TypeOK
  <2>1. \A r \in Runners : snap[r] = <<>> /\ pos[r] = 0 /\ pos[r] <= Len(snap[r])
    BY DEF Init
  <2>2. items \in Seq(Entries) /\ snap \in [Runners -> Seq(Entries)] /\ DOMAIN index = {}
    BY DEF Init
  <2>3. seq \in 0..MaxHooks /\ time \in Nat /\ pos \in [Runners -> Nat]
    BY MaxHooksAssumption DEF Init
  <2>4. drawn \in [Registrars -> Handles \cup {NoHandle}] /\ aborted \in [Runners -> BOOLEAN] /\ removed \in BOOLEAN
    BY Zenon DEF Init
  <2>5. QED
    BY <2>1, <2>2, <2>3, <2>4 DEF TypeOK
<1>2. IndexExact /\ IdsOwned /\ Sorted(items) /\ \A r \in Runners : Sorted(snap[r])
  BY DEF Init, IndexExact, IdsOwned, Sorted
<1>3. QED
  BY <1>1, <1>2 DEF RegistryInv

LEMMA DrawStep ==
  ASSUME RegistryInv, NEW g \in Registrars, Draw(g)
  PROVE  RegistryInv' /\ UNCHANGED Set!vars
<1>. USE DEF RegistryInv
<1>1. TypeOK'
  BY MaxHooksAssumption DEF Draw, TypeOK, Handles
<1>2. IndexExact' /\ Sorted(items)' /\ (\A r \in Runners : Sorted(snap[r]))'
  BY DEF Draw, IndexExact, Sorted
<1>3. IdsOwned'
  <2>1. seq \in Nat /\ seq' = seq + 1 /\ items' = items /\ time' = time /\ seq + 1 # NoHandle
    BY MaxHooksAssumption DEF Draw, TypeOK
  <2>2. \A i \in DOMAIN items : items[i].id \in Int /\ items[i].id <= seq /\ items[i].at < time
    BY EntriesTyped DEF TypeOK, IdsOwned
  <2>3. \A h \in Registrars : drawn'[h] = IF h = g THEN seq + 1 ELSE drawn[h]
    BY DEF Draw, TypeOK
  <2>4. \A h \in Registrars : drawn[h] # NoHandle => drawn[h] \in Int /\ drawn[h] <= seq
    BY DEF TypeOK, Handles, IdsOwned
  <2>5. ASSUME NEW h \in Registrars, drawn'[h] # NoHandle
        PROVE  /\ drawn'[h] <= seq'
               /\ \A i \in DOMAIN items : items[i].id # drawn'[h]
               /\ \A k \in Registrars \ {h} : drawn'[k] # drawn'[h]
    <3>1. CASE h = g
      BY <3>1, <2>1, <2>2, <2>3, <2>4
    <3>2. CASE h # g
      <4>1. drawn'[h] = drawn[h] /\ drawn[h] <= seq /\ drawn[h] \in Int
        BY <3>2, <2>3, <2>4, <2>5
      <4>2. /\ \A i \in DOMAIN items : items[i].id # drawn[h]
            /\ \A k \in Registrars \ {h} : drawn[k] # drawn[h]
        BY <4>1, <2>5 DEF IdsOwned
      <4>3. QED
        BY <4>1, <4>2, <2>1, <2>3
    <3>3. QED
      BY <3>1, <3>2
  <2>6. QED
    BY <2>1, <2>2, <2>5 DEF IdsOwned
<1>4. UNCHANGED Set!vars
  BY DEF Draw, Set!vars
<1>5. QED
  BY <1>1, <1>2, <1>3, <1>4

\* Entries whose index is exact have different ids.
LEMMA IdsDiffer ==
  ASSUME IndexExact
  PROVE  \A i, j \in DOMAIN items : items[i].id = items[j].id => i = j
BY DEF IndexExact

LEMMA InsertStep ==
  ASSUME RegistryInv, NEW g \in Registrars, NEW p \in Priorities, Insert(g, p)
  PROVE  RegistryInv' /\ drawn[g] \in Handles /\ Set!Register(drawn[g], p)
<1>. DEFINE at == InsertPlace(p)
            e == [id |-> drawn[g], priority |-> p, at |-> time]
            n == Len(items)
<1>1. TypeOK /\ IndexExact /\ IdsOwned /\ Sorted(items) /\ \A r \in Runners : Sorted(snap[r])
  BY DEF RegistryInv
<1>2. /\ items \in Seq(Entries) /\ n \in Nat /\ DOMAIN items = 1..n
      /\ \A i \in 1..n : items[i] \in Entries /\ items[i].id \in Handles /\ items[i].id \in Int
                         /\ items[i].priority \in Int /\ items[i].at \in Nat
  BY <1>1, EntriesTyped DEF TypeOK
<1>3. drawn[g] # NoHandle /\ drawn[g] \in Handles /\ drawn[g] \in Int /\ p \in Int /\ time \in Nat /\ seq \in Nat
  BY <1>1, MaxHooksAssumption, PrioritiesAssumption DEF Insert, TypeOK, Handles
<1>4. /\ at \in 1..n + 1
      /\ \A j \in 1..n : j < at => p <= items[j].priority
      /\ \A j \in 1..n : j >= at => p > items[j].priority
  BY <1>1, PlaceFound
<1>5. e \in Entries /\ e.id = drawn[g] /\ e.priority = p /\ e.at = time
  BY <1>3 DEF Entries
<1>6. /\ items' = InsertAt(items, at, e)
      /\ index' = Reindexed(DOMAIN index \cup {drawn[g]}, items', at)
      /\ drawn' = [drawn EXCEPT ![g] = NoHandle]
      /\ time' = time + 1
      /\ UNCHANGED <<seq, snap, pos, aborted, removed>>
  BY DEF Insert
<1>. HIDE DEF at, e
<1>7. /\ items' \in Seq(Entries) /\ Len(items') = n + 1 /\ DOMAIN items' = 1..n + 1
      /\ \A i \in 1..n + 1 : items'[i] = IF i < at THEN items[i] ELSE IF i = at THEN e ELSE items[i - 1]
  BY <1>2, <1>4, <1>5, <1>6, Inserted
\* Where an entry of the new list comes from.
<1>8. ASSUME NEW i \in 1..n + 1
      PROVE  \/ i = at /\ items'[i] = e
             \/ i < at /\ i \in 1..n /\ items'[i] = items[i]
             \/ i > at /\ i - 1 \in 1..n /\ i - 1 >= at /\ items'[i] = items[i - 1]
  BY <1>2, <1>4, <1>7
<1>9. \A i \in 1..n : items[i].id # drawn[g] /\ items[i].id <= seq /\ items[i].at < time
  BY <1>1, <1>2, <1>3 DEF IdsOwned
<1>10. \A i \in 1..n : IF i < at THEN items'[i] = items[i] ELSE items'[i + 1] = items[i]
  <2>1. ASSUME NEW i \in 1..n, i < at PROVE items'[i] = items[i]
    BY <2>1, <1>2, <1>4, <1>7
  <2>2. ASSUME NEW i \in 1..n, ~ (i < at) PROVE items'[i + 1] = items[i]
    <3>1. i + 1 \in 1..n + 1 /\ ~ (i + 1 < at) /\ i + 1 # at /\ (i + 1) - 1 = i
      BY <2>2, <1>2, <1>4
    <3>2. QED
      BY <3>1, <1>7
  <2>3. QED
    BY <2>1, <2>2
<1>11. ToSet(items') = ToSet(items) \cup {e}
  <2>1. ASSUME NEW x \in ToSet(items') PROVE x \in ToSet(items) \cup {e}
    BY <1>2, <1>7, <1>8 DEF ToSet
  <2>2. ASSUME NEW x \in ToSet(items) PROVE x \in ToSet(items')
    <3>1. PICK i \in 1..n : x = items[i]
      BY <1>2 DEF ToSet
    <3>2. i \in 1..n + 1 /\ i + 1 \in 1..n + 1
      BY <1>2
    <3>3. QED
      BY <3>1, <3>2, <1>7, <1>10 DEF ToSet
  <2>3. e \in ToSet(items')
    <3>1. items'[at] = e
      BY <1>2, <1>4, <1>7
    <3>2. QED
      BY <3>1, <1>4, <1>7 DEF ToSet
  <2>4. QED
    BY <2>1, <2>2, <2>3
<1>12. \A i, j \in DOMAIN items' : items'[i].id = items'[j].id => i = j
  <2>1. ASSUME NEW i \in 1..n + 1, NEW j \in 1..n + 1, items'[i].id = items'[j].id PROVE i = j
    <3>1. \A k, l \in 1..n : items[k].id = items[l].id => k = l
      BY <1>1, <1>2, IdsDiffer
    <3>2. CASE i = at
      <4>1. ASSUME j # at PROVE FALSE
        BY <2>1, <3>2, <4>1, <1>5, <1>8, <1>9
      <4>2. QED
        BY <3>2, <4>1
    <3>3. CASE j = at
      <4>1. ASSUME i # at PROVE FALSE
        BY <2>1, <3>3, <4>1, <1>5, <1>8, <1>9
      <4>2. QED
        BY <3>3, <4>1
    <3>4. CASE i < at /\ j # at
      BY <2>1, <3>1, <3>4, <1>4, <1>8
    <3>5. CASE i > at /\ j # at
      <4>1. i - 1 \in 1..n /\ items'[i] = items[i - 1]
        BY <3>5, <1>4, <1>8
      <4>2. CASE j > at
        <5>1. j - 1 \in 1..n /\ items'[j] = items[j - 1]
          BY <4>2, <1>4, <1>8
        <5>2. i - 1 = j - 1
          BY <2>1, <3>1, <4>1, <5>1
        <5>3. QED
          BY <5>2
      <4>3. CASE j < at
        BY <2>1, <3>1, <3>5, <4>1, <4>3, <1>4, <1>8
      <4>4. QED
        BY <3>5, <4>2, <4>3, <1>4
    <3>6. QED
      BY <3>2, <3>3, <3>4, <3>5, <1>4
  <2>2. QED
    BY <2>1, <1>7
<1>13. IndexExact'
  <2>1. DOMAIN index \cup {drawn[g]} = {items'[i].id : i \in DOMAIN items'}
    <3>1. DOMAIN index = {x.id : x \in ToSet(items)}
      BY <1>1 DEF IndexExact, ToSet
    <3>2. {items'[i].id : i \in DOMAIN items'} = {x.id : x \in ToSet(items')}
      BY DEF ToSet
    <3>3. QED
      BY <3>1, <3>2, <1>5, <1>11
  <2>2. \A i \in DOMAIN items' : i < at => index[items'[i].id] = i
    BY <1>1, <1>2, <1>4, <1>7, <1>8 DEF IndexExact
  <2>3. at \in 1..Len(items') + 1
    BY <1>2, <1>4, <1>7
  <2>4. /\ DOMAIN Reindexed(DOMAIN index \cup {drawn[g]}, items', at) = {items'[i].id : i \in DOMAIN items'}
        /\ \A i \in DOMAIN items' : Reindexed(DOMAIN index \cup {drawn[g]}, items', at)[items'[i].id] = i
    BY <2>1, <2>2, <2>3, <1>7, <1>12, IndexShifted
  <2>5. QED
    BY <2>4, <1>6 DEF IndexExact
<1>14. TypeOK'
  <2>1. \A i \in DOMAIN items' : items'[i].id \in Handles
    BY <1>7, EntriesTyped
  <2>2. DOMAIN index' \subseteq Handles /\ \A id \in DOMAIN index' : index'[id] \in DOMAIN items'
    BY <2>1, <1>13 DEF IndexExact
  <2>3. drawn' \in [Registrars -> Handles \cup {NoHandle}] /\ time' \in Nat
    BY <1>1, <1>3, <1>6 DEF TypeOK
  <2>4. QED
    BY <2>2, <2>3, <1>1, <1>6, <1>7 DEF TypeOK
<1>15. Sorted(items)'
  <2>1. ASSUME NEW i \in 1..n + 1, NEW j \in 1..n + 1, i < j
        PROVE  Set!Before(items'[i], items'[j])
    <3>1. \A k, l \in 1..n : k < l => Set!Before(items[k], items[l])
      BY <1>1, <1>2 DEF Sorted
    <3>2. \A k \in 1..n : k < at => Set!Before(items[k], e)
      BY <1>2, <1>3, <1>4, <1>5, <1>9 DEF Set!Before
    <3>3. \A k \in 1..n : k >= at => Set!Before(e, items[k])
      BY <1>2, <1>3, <1>4, <1>5 DEF Set!Before
    <3>4. CASE i < at
      BY <2>1, <3>1, <3>2, <3>4, <1>2, <1>4, <1>8
    <3>5. CASE i = at
      BY <2>1, <3>3, <3>5, <1>2, <1>4, <1>8
    <3>6. CASE i > at
      <4>1. i - 1 \in 1..n /\ j - 1 \in 1..n /\ i - 1 < j - 1
        BY <2>1, <3>6, <1>2, <1>4
      <4>2. items'[i] = items[i - 1] /\ items'[j] = items[j - 1]
        BY <2>1, <3>6, <1>4, <1>8
      <4>3. QED
        BY <3>1, <4>1, <4>2
    <3>7. QED
      BY <3>4, <3>5, <3>6, <1>4
  <2>2. QED
    BY <2>1, <1>7 DEF Sorted
<1>16. IdsOwned'
  <2>1. ASSUME NEW i \in 1..n + 1 PROVE items'[i].id <= seq' /\ items'[i].at < time'
    <3>1. drawn[g] <= seq
      BY <1>1, <1>3 DEF IdsOwned
    <3>2. QED
      BY <3>1, <1>2, <1>3, <1>5, <1>6, <1>8, <1>9
  <2>2. \A h \in Registrars : drawn'[h] = IF h = g THEN NoHandle ELSE drawn[h]
    BY <1>1, <1>6 DEF TypeOK
  <2>3. ASSUME NEW h \in Registrars, drawn'[h] # NoHandle
        PROVE  /\ drawn'[h] <= seq'
               /\ \A i \in 1..n + 1 : items'[i].id # drawn'[h]
               /\ \A k \in Registrars \ {h} : drawn'[k] # drawn'[h]
    <3>1. h # g /\ drawn'[h] = drawn[h] /\ drawn[h] # NoHandle
      BY <2>2, <2>3
    <3>2. /\ drawn[h] <= seq /\ drawn[g] # drawn[h]
          /\ \A i \in 1..n : items[i].id # drawn[h]
          /\ \A k \in Registrars \ {h} : drawn[k] # drawn[h]
      BY <3>1, <1>1, <1>2 DEF IdsOwned
    <3>3. \A i \in 1..n + 1 : items'[i].id # drawn[h]
      BY <3>2, <1>5, <1>8
    <3>4. QED
      BY <2>2, <3>1, <3>2, <3>3, <1>6
  <2>4. QED
    BY <2>1, <2>3, <1>7 DEF IdsOwned
<1>17. Set!Register(drawn[g], p)
  <2>1. \A x \in ToSet(items) : x.id # drawn[g]
    BY <1>2, <1>9 DEF ToSet
  <2>2. ToSet(items') = ToSet(items) \cup {[id |-> drawn[g], priority |-> p, at |-> time]}
    BY <1>11 DEF e
  <2>3. QED
    BY <2>1, <2>2, <1>6 DEF Set!Register
<1>18. RegistryInv'
  BY <1>1, <1>6, <1>13, <1>14, <1>15, <1>16 DEF RegistryInv, Sorted
<1>19. QED
  BY <1>3, <1>17, <1>18

LEMMA UnregisterStep ==
  ASSUME RegistryInv, NEW id \in Handles, Unregister(id)
  PROVE  RegistryInv' /\ Set!Unregister(id)
<1>. DEFINE n == Len(items)  k == index[id]
<1>1. TypeOK /\ IndexExact /\ IdsOwned /\ Sorted(items) /\ \A r \in Runners : Sorted(snap[r])
  BY DEF RegistryInv
<1>2. /\ items \in Seq(Entries) /\ n \in Nat /\ DOMAIN items = 1..n
      /\ \A i \in 1..n : items[i] \in Entries /\ items[i].id \in Handles /\ items[i].id \in Int
                         /\ items[i].priority \in Int /\ items[i].at \in Nat
  BY <1>1, EntriesTyped DEF TypeOK
<1>3. UNCHANGED <<seq, drawn, snap, pos, aborted, time>>
  BY DEF Unregister
<1>4. CASE id \notin DOMAIN index
  <2>1. UNCHANGED <<items, index>> /\ removed' = FALSE
    BY <1>4 DEF Unregister
  <2>2. RegistryInv'
    <3>1. TypeOK'
      BY <2>1, <1>1, <1>3 DEF TypeOK
    <3>2. IndexExact' /\ IdsOwned' /\ Sorted(items)' /\ (\A r \in Runners : Sorted(snap[r]))'
      BY <2>1, <1>1, <1>3 DEF IndexExact, IdsOwned, Sorted
    <3>3. QED
      BY <3>1, <3>2 DEF RegistryInv
  <2>3. ToSet(items) = {x \in ToSet(items) : x.id # id}
    BY <1>1, <1>4 DEF IndexExact, ToSet
  <2>4. Set!Unregister(id)
    BY <2>1, <2>3, <1>3 DEF Set!Unregister
  <2>5. QED
    BY <2>2, <2>4
<1>5. CASE id \in DOMAIN index
  <2>1. /\ items' = RemoveAt(items, k) /\ removed' = TRUE
        /\ index' = Reindexed(DOMAIN index \ {id}, items', k)
    BY <1>5 DEF Unregister
  <2>2. k \in 1..n /\ items[k].id = id
    BY <1>1, <1>2, <1>5 DEF IndexExact
  <2>. HIDE DEF k
  <2>3. /\ items' \in Seq(Entries) /\ Len(items') = n - 1 /\ DOMAIN items' = 1..n - 1
        /\ \A i \in 1..n - 1 : items'[i] = IF i < k THEN items[i] ELSE items[i + 1]
    <3>1. /\ RemoveAt(items, k) \in Seq(Entries) /\ Len(RemoveAt(items, k)) = n - 1
          /\ \A i \in 1..n - 1 : RemoveAt(items, k)[i] = IF i < k THEN items[i] ELSE items[i + 1]
      BY <1>2, <2>2, Removed
    <3>2. QED
      BY <3>1, <2>1
  <2>4. ASSUME NEW i \in 1..n - 1
        PROVE  \/ i < k /\ i \in 1..n /\ items'[i] = items[i]
               \/ i >= k /\ i + 1 \in 1..n /\ items'[i] = items[i + 1]
    BY <1>2, <2>2, <2>3
  <2>5. \A i, j \in 1..n : items[i].id = items[j].id => i = j
    BY <1>1, <1>2, IdsDiffer
  <2>6. ToSet(items') = {x \in ToSet(items) : x.id # id}
    <3>1. ASSUME NEW x \in ToSet(items') PROVE x \in ToSet(items) /\ x.id # id
      <4>1. PICK i \in 1..n - 1 : x = items'[i]
        BY <2>3 DEF ToSet
      <4>2. PICK j \in 1..n : x = items[j] /\ j # k
        BY <4>1, <2>2, <2>4
      <4>3. QED
        BY <4>2, <1>2, <2>2, <2>5 DEF ToSet
    <3>2. ASSUME NEW x \in ToSet(items), x.id # id PROVE x \in ToSet(items')
      <4>1. PICK j \in 1..n : x = items[j]
        BY <1>2 DEF ToSet
      <4>2. CASE j < k
        <5>1. j \in 1..n - 1 /\ items'[j] = x
          BY <4>1, <4>2, <1>2, <2>2, <2>3
        <5>2. QED
          BY <5>1, <2>3 DEF ToSet
      <4>3. CASE j > k
        <5>1. j - 1 \in 1..n - 1 /\ ~ (j - 1 < k) /\ (j - 1) + 1 = j
          BY <4>3, <1>2, <2>2
        <5>2. items'[j - 1] = x
          BY <4>1, <5>1, <2>3
        <5>3. QED
          BY <5>1, <5>2, <2>3 DEF ToSet
      <4>4. j # k
        BY <3>2, <4>1, <2>2
      <4>5. QED
        BY <4>2, <4>3, <4>4, <1>2, <2>2
    <3>3. QED
      BY <3>1, <3>2
  <2>7. \A i, j \in DOMAIN items' : items'[i].id = items'[j].id => i = j
    <3>1. ASSUME NEW i \in 1..n - 1, NEW j \in 1..n - 1, items'[i].id = items'[j].id PROVE i = j
      <4>1. CASE i < k /\ j < k
        BY <3>1, <4>1, <2>2, <2>4, <2>5
      <4>2. CASE i >= k /\ j >= k
        <5>1. items[i + 1].id = items[j + 1].id /\ i + 1 \in 1..n /\ j + 1 \in 1..n
          BY <3>1, <4>2, <2>2, <2>4
        <5>2. i + 1 = j + 1
          BY <5>1, <2>5
        <5>3. QED
          BY <5>2
      <4>3. CASE i < k /\ j >= k
        <5>1. items[i].id = items[j + 1].id /\ i \in 1..n /\ j + 1 \in 1..n
          BY <3>1, <4>3, <2>2, <2>4
        <5>2. i = j + 1
          BY <5>1, <2>5
        <5>3. QED
          BY <4>3, <5>2, <2>2
      <4>4. CASE i >= k /\ j < k
        <5>1. items[i + 1].id = items[j].id /\ i + 1 \in 1..n /\ j \in 1..n
          BY <3>1, <4>4, <2>2, <2>4
        <5>2. i + 1 = j
          BY <5>1, <2>5
        <5>3. QED
          BY <4>4, <5>2, <2>2
      <4>5. QED
        BY <4>1, <4>2, <4>3, <4>4, <2>2
    <3>2. QED
      BY <3>1, <2>3
  <2>8. IndexExact'
    <3>1. DOMAIN index \ {id} = {items'[i].id : i \in DOMAIN items'}
      <4>1. DOMAIN index = {x.id : x \in ToSet(items)}
        BY <1>1 DEF IndexExact, ToSet
      <4>2. {items'[i].id : i \in DOMAIN items'} = {x.id : x \in ToSet(items')}
        BY DEF ToSet
      <4>3. QED
        BY <4>1, <4>2, <2>6
    <3>2. \A i \in DOMAIN items' : i < k => index[items'[i].id] = i
      <4>1. \A i \in 1..n : index[items[i].id] = i
        BY <1>1, <1>2 DEF IndexExact
      <4>2. ASSUME NEW i \in 1..n - 1, i < k PROVE index[items'[i].id] = i
        BY <4>1, <4>2, <2>2, <2>4
      <4>3. QED
        BY <4>2, <2>3
    <3>3. k \in 1..Len(items') + 1
      BY <1>2, <2>2, <2>3
    <3>4. /\ DOMAIN Reindexed(DOMAIN index \ {id}, items', k) = {items'[i].id : i \in DOMAIN items'}
          /\ \A i \in DOMAIN items' : Reindexed(DOMAIN index \ {id}, items', k)[items'[i].id] = i
      BY <3>1, <3>2, <3>3, <2>3, <2>7, IndexShifted
    <3>5. QED
      BY <3>4, <2>1 DEF IndexExact
  <2>9. TypeOK'
    <3>1. \A i \in DOMAIN items' : items'[i].id \in Handles
      BY <2>3, EntriesTyped
    <3>2. DOMAIN index' \subseteq Handles /\ \A x \in DOMAIN index' : index'[x] \in DOMAIN items'
      BY <3>1, <2>8 DEF IndexExact
    <3>3. removed' \in BOOLEAN
      BY <2>1
    <3>4. QED
      BY <3>2, <3>3, <1>1, <1>3, <2>3 DEF TypeOK
  <2>10. Sorted(items)'
    <3>1. ASSUME NEW i \in 1..n - 1, NEW j \in 1..n - 1, i < j
          PROVE  Set!Before(items'[i], items'[j])
      <4>1. PICK x \in 1..n : x <= i + 1 /\ items'[i] = items[x] /\ (x = i \/ (x = i + 1 /\ i >= k))
        BY <2>2, <2>4
      <4>2. PICK y \in 1..n : items'[j] = items[y] /\ ((y = j /\ j < k) \/ y = j + 1)
        BY <2>2, <2>4
      <4>3. x < y
        BY <3>1, <4>1, <4>2, <2>2
      <4>4. QED
        BY <4>1, <4>2, <4>3, <1>1, <1>2 DEF Sorted
    <3>2. QED
      BY <3>1, <2>3 DEF Sorted
  <2>11. IdsOwned'
    <3>1. ASSUME NEW i \in 1..n - 1 PROVE \E j \in 1..n : items'[i] = items[j]
      BY <2>4
    <3>2. \A i \in 1..n - 1 : items'[i].id <= seq /\ items'[i].at < time
      BY <3>1, <1>1, <1>2 DEF IdsOwned
    <3>3. ASSUME NEW g \in Registrars, drawn[g] # NoHandle
          PROVE  /\ drawn[g] <= seq
                 /\ \A i \in 1..n - 1 : items'[i].id # drawn[g]
                 /\ \A h \in Registrars \ {g} : drawn[h] # drawn[g]
      <4>1. /\ drawn[g] <= seq /\ \A h \in Registrars \ {g} : drawn[h] # drawn[g]
            /\ \A i \in 1..n : items[i].id # drawn[g]
        BY <3>3, <1>1, <1>2 DEF IdsOwned
      <4>2. QED
        BY <4>1, <3>1
    <3>4. QED
      BY <3>2, <3>3, <1>3, <2>3 DEF IdsOwned
  <2>12. ToSet(items') # ToSet(items)
    BY <1>2, <2>2, <2>6 DEF ToSet
  <2>13. Set!Unregister(id)
    BY <1>3, <2>1, <2>6, <2>12 DEF Set!Unregister
  <2>14. QED
    BY <1>1, <1>3, <2>8, <2>9, <2>10, <2>11, <2>13 DEF RegistryInv, Sorted
<1>6. QED
  BY <1>4, <1>5

LEMMA BeginStep ==
  ASSUME RegistryInv, NEW r \in Runners, Begin(r)
  PROVE  RegistryInv' /\ Set!Begin(r)
<1>1. TypeOK /\ IndexExact /\ IdsOwned /\ Sorted(items) /\ \A q \in Runners : Sorted(snap[q])
  BY DEF RegistryInv
<1>2. items \in Seq(Entries) /\ Len(items) \in Nat /\ DOMAIN items = 1..Len(items)
  BY <1>1, EntriesTyped DEF TypeOK
<1>3. /\ pos[r] = 0 /\ UNCHANGED <<seq, items, index, drawn, removed, time>>
      /\ snap' = [snap EXCEPT ![r] = items]
      /\ pos' = [pos EXCEPT ![r] = IF items = <<>> THEN 0 ELSE 1]
      /\ aborted' = [aborted EXCEPT ![r] = FALSE]
  BY DEF Begin
<1>4. /\ snap \in [Runners -> Seq(Entries)] /\ pos \in [Runners -> Nat] /\ aborted \in [Runners -> BOOLEAN]
      /\ \A q \in Runners : pos[q] <= Len(snap[q])
  BY <1>1 DEF TypeOK
<1>5. \A q \in Runners : /\ snap'[q] = IF q = r THEN items ELSE snap[q]
                         /\ pos'[q] = IF q = r THEN IF items = <<>> THEN 0 ELSE 1 ELSE pos[q]
  BY <1>3, <1>4
<1>6. items # <<>> => Len(items) >= 1
  BY <1>2
<1>7. TypeOK'
  <2>1. snap' \in [Runners -> Seq(Entries)] /\ pos' \in [Runners -> Nat]
    BY <1>2, <1>3, <1>4
  <2>2. \A q \in Runners : pos'[q] <= Len(snap'[q])
    <3>1. ASSUME NEW q \in Runners PROVE pos'[q] <= Len(snap'[q])
      <4>1. CASE q = r
        BY <4>1, <1>2, <1>5, <1>6
      <4>2. CASE q # r
        BY <4>2, <1>4, <1>5
      <4>3. QED
        BY <4>1, <4>2
    <3>2. QED
      BY <3>1
  <2>3. aborted' \in [Runners -> BOOLEAN]
    BY <1>3, <1>4
  <2>4. QED
    BY <2>1, <2>2, <2>3, <1>1, <1>3 DEF TypeOK
<1>8. RegistryInv'
  BY <1>1, <1>3, <1>5, <1>7 DEF RegistryInv, IndexExact, IdsOwned, Sorted
<1>9. Set!Begin(r)
  <2>1. Rest(items, IF items = <<>> THEN 0 ELSE 1) = ToSet(items)
    BY <1>2 DEF Rest, ToSet
  <2>2. Rest(snap[r], pos[r]) = {}
    BY <1>3 DEF Rest
  <2>3. [q \in Runners |-> Rest(snap'[q], pos'[q])] = [[q \in Runners |-> Rest(snap[q], pos[q])] EXCEPT ![r] = ToSet(items)]
    BY <1>5, <2>1
  <2>4. QED
    BY <2>2, <2>3, <1>3 DEF Set!Begin
<1>10. QED
  BY <1>8, <1>9

LEMMA CallStep ==
  ASSUME RegistryInv, NEW r \in Runners, NEW result \in {"continue", "stop", "abort"}, Call(r, result)
  PROVE  RegistryInv' /\ \E e \in Rest(snap[r], pos[r]) : Set!Call(r, e, result)
<1>. DEFINE s == snap[r]  m == Len(snap[r])  k == pos[r]  e == s[k]
            next == IF result = "continue" /\ k < m THEN k + 1 ELSE 0
<1>1. TypeOK /\ IndexExact /\ IdsOwned /\ Sorted(items) /\ \A q \in Runners : Sorted(snap[q])
  BY DEF RegistryInv
<1>2. /\ snap \in [Runners -> Seq(Entries)] /\ pos \in [Runners -> Nat] /\ aborted \in [Runners -> BOOLEAN]
      /\ \A q \in Runners : pos[q] <= Len(snap[q])
  BY <1>1 DEF TypeOK
<1>3. /\ pos' = [pos EXCEPT ![r] = next]
      /\ aborted' = [aborted EXCEPT ![r] = (result = "abort")]
      /\ UNCHANGED <<seq, items, index, drawn, snap, removed, time>>
  BY DEF Call
<1>4. /\ s \in Seq(Entries) /\ m \in Nat /\ DOMAIN s = 1..m
      /\ \A i \in 1..m : s[i] \in Entries /\ s[i].priority \in Int /\ s[i].at \in Nat
  BY <1>2, EntriesTyped
<1>5. k \in 1..m
  BY <1>2, <1>4 DEF Call
<1>6. next \in Nat /\ next <= m
  BY <1>4, <1>5
<1>7. \A i, j \in 1..m : i < j => Set!Before(s[i], s[j])
  BY <1>1, <1>4 DEF Sorted
<1>8. \A i, j \in 1..m : i < j => s[i] # s[j]
  BY <1>4, <1>7 DEF Set!Before
<1>9. e \in Rest(s, k) /\ Rest(s, k) = {s[i] : i \in k..m}
  BY <1>4, <1>5 DEF Rest
<1>10. \A f \in Rest(s, k) \ {e} : Set!Before(e, f)
  <2>1. ASSUME NEW i \in k..m, s[i] # e PROVE Set!Before(e, s[i])
    BY <2>1, <1>4, <1>5, <1>7
  <2>2. QED
    BY <2>1, <1>9
<1>11. Rest(s, next) = IF result = "continue" THEN Rest(s, k) \ {e} ELSE {}
  <2>1. CASE result # "continue"
    BY <2>1 DEF Rest
  <2>2. CASE result = "continue" /\ k < m
    <3>1. Rest(s, next) = {s[i] : i \in k + 1..m}
      BY <2>2, <1>4, <1>5 DEF Rest
    <3>2. ASSUME NEW i \in k + 1..m PROVE s[i] \in Rest(s, k) /\ s[i] # e
      BY <1>4, <1>5, <1>8, <1>9
    <3>3. ASSUME NEW f \in Rest(s, k), f # e PROVE f \in {s[i] : i \in k + 1..m}
      <4>1. PICK i \in k..m : f = s[i]
        BY <1>9
      <4>2. i \in k + 1..m
        BY <3>3, <4>1, <1>4, <1>5
      <4>3. QED
        BY <4>1, <4>2
    <3>4. QED
      BY <2>2, <3>1, <3>2, <3>3
  <2>3. CASE result = "continue" /\ k = m
    <3>1. Rest(s, k) = {e}
      <4>1. \A i \in k..m : i = k
        BY <2>3, <1>4, <1>5
      <4>2. QED
        BY <4>1, <1>9
    <3>2. Rest(s, next) = {}
      BY <2>3, <1>4 DEF Rest
    <3>3. QED
      BY <2>3, <3>1, <3>2
  <2>4. QED
    BY <2>1, <2>2, <2>3, <1>4, <1>5
<1>12. [q \in Runners |-> Rest(snap'[q], pos'[q])]
       = [[q \in Runners |-> Rest(snap[q], pos[q])] EXCEPT ![r] = IF result = "continue" THEN @ \ {e} ELSE {}]
  <2>. HIDE DEF e, next
  <2>1. \A q \in Runners : snap'[q] = snap[q] /\ pos'[q] = IF q = r THEN next ELSE pos[q]
    BY <1>2, <1>3
  <2>2. QED
    BY <2>1, <1>11
<1>13. Set!Call(r, e, result)
  <2>1. [q \in Runners |-> Rest(snap[q], pos[q])][r] = Rest(s, k)
    OBVIOUS
  <2>. HIDE DEF s, k, e, next
  <2>2. QED
    BY <2>1, <1>3, <1>9, <1>10, <1>12 DEF Set!Call
<1>14. RegistryInv'
  <2>1. \A q \in Runners : snap'[q] = snap[q] /\ pos'[q] = IF q = r THEN next ELSE pos[q]
    BY <1>2, <1>3
  <2>2. pos' \in [Runners -> Nat] /\ \A q \in Runners : pos'[q] <= Len(snap'[q])
    <3>. HIDE DEF next
    <3>. QED
      BY <2>1, <1>2, <1>3, <1>6
  <2>3. aborted' \in [Runners -> BOOLEAN]
    BY <1>2, <1>3
  <2>4. TypeOK'
    BY <2>2, <2>3, <1>1, <1>3 DEF TypeOK
  <2>5. QED
    BY <2>1, <2>4, <1>1, <1>3 DEF RegistryInv, IndexExact, IdsOwned, Sorted
<1>15. QED
  BY <1>9, <1>13, <1>14

LEMMA NextStep ==
  ASSUME RegistryInv, Next
  PROVE  RegistryInv' /\ [Set!Next]_Set!vars
<1>1. ASSUME NEW g \in Registrars, Draw(g) PROVE RegistryInv' /\ [Set!Next]_Set!vars
  BY <1>1, DrawStep
<1>2. ASSUME NEW g \in Registrars, NEW p \in Priorities, Insert(g, p) PROVE RegistryInv' /\ [Set!Next]_Set!vars
  BY <1>2, InsertStep DEF Set!Next
<1>3. ASSUME NEW id \in Handles, Unregister(id) PROVE RegistryInv' /\ [Set!Next]_Set!vars
  BY <1>3, UnregisterStep DEF Set!Next
<1>4. ASSUME NEW r \in Runners, Begin(r) PROVE RegistryInv' /\ [Set!Next]_Set!vars
  BY <1>4, BeginStep DEF Set!Next
<1>5. ASSUME NEW r \in Runners, NEW result \in {"continue", "stop", "abort"}, Call(r, result)
      PROVE  RegistryInv' /\ [Set!Next]_Set!vars
  <2>1. RegistryInv' /\ \E e \in Rest(snap[r], pos[r]) : Set!Call(r, e, result)
    BY <1>5, CallStep
  <2>2. [q \in Runners |-> Rest(snap[q], pos[q])][r] = Rest(snap[r], pos[r])
    OBVIOUS
  <2>3. QED
    BY <2>1, <2>2 DEF Set!Next
<1>6. QED
  BY <1>1, <1>2, <1>3, <1>4, <1>5 DEF Next

LEMMA RegistryInvariant == Spec => []RegistryInv
<1>1. RegistryInv /\ UNCHANGED vars => RegistryInv'
  BY DEF RegistryInv, vars, TypeOK, IndexExact, IdsOwned, Sorted
<1>2. RegistryInv /\ [Next]_vars => RegistryInv'
  BY <1>1, NextStep
<1>3. QED
  BY InitInv, <1>2, PTL DEF Spec

\* Positions, ids and entries keep their ranges, whatever is registered and unregistered.
THEOREM TypesKept == Spec => []TypeOK
<1>1. RegistryInv => TypeOK
  BY DEF RegistryInv
<1>2. QED
  BY <1>1, RegistryInvariant, PTL

\* The index leads every handle to its own entry, after any insertions and removals in any order
\* of their goroutines: unregister removes what it was given.
THEOREM IndexIsExact == Spec => []IndexExact
<1>1. RegistryInv => IndexExact
  BY DEF RegistryInv
<1>2. QED
  BY <1>1, RegistryInvariant, PTL

\* The registry is the set of hooks it promises to be, and a run calls the hooks there were when it
\* began, by priority and age, whatever handlers and other goroutines register meanwhile.
THEOREM RegistryKeepsPromise == Spec => KeepsPromise
<1>1. Init => Set!Init
  BY DEF Init, Set!Init, ToSet, Rest
<1>2. RegistryInv /\ [Next]_vars => [Set!Next]_Set!vars
  <2>1. UNCHANGED vars => UNCHANGED Set!vars
    BY DEF vars, Set!vars
  <2>2. QED
    BY <2>1, NextStep
<1>3. QED
  BY <1>1, <1>2, RegistryInvariant, PTL DEF Spec, Set!Spec, KeepsPromise
=============================================================================
