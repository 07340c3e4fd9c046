--------------------------- MODULE DndInitiative ---------------------------
(***************************************************************************)
(* The initiative list of dice/exts/ext_dnd5e.go: .ri adds units, .init    *)
(* sets, deletes and clears them, .init ed ends a turn.  The list lies in  *)
(* the group's attributes, and beside it, as attributes of their own, the  *)
(* index of the unit whose turn it is and the value that unit had.         *)
(*                                                                         *)
(* A message is handled in a goroutine of its own: a command loads the     *)
(* list (a copy), looks at and changes the index and the value, and saves  *)
(* the list.  dndRiLock covers a load or a save, not the two together.     *)
(* Those three are a step each.  Names are numbers, in the order of the    *)
(* strings; what was rolled is in the command.                             *)
(***************************************************************************)
EXTENDS Integers, Sequences, FiniteSets

CONSTANTS
  RiHandlers,   \* goroutines handling a message
  Units,        \* names of units, numbers
  Values,       \* initiative values
  NullInit,     \* NULL_INIT_VAL, above every value
  NoUnit,
  RiSends,      \* commands that are sent
  MaxListed,    \* bound on the units listed at first
  MaxItems,     \* bound on the units of a .ri
  MaxRi         \* bound on the commands of a behaviour

ASSUME UnitsAssumption  == Units \subseteq Nat /\ Values \subseteq Int
ASSUME NullInitAssumption == NullInit \in Int /\ \A v \in Values : v < NullInit
ASSUME NoUnitAssumption == NoUnit \notin Units
ASSUME MaxRiAssumption  == MaxRi \in Nat /\ MaxItems \in Nat /\ MaxListed \in Nat

VARIABLES
  riList,       \* attribute riList of the group
  cur,          \* $g当前回合先攻值, the value of the unit whose turn it is
  round,        \* $g回合数, its index, from 0
  riJob,        \* what each handler is doing
  riRan,        \* commands begun
  panicked,     \* an index was out of range
  overlapped,   \* history: two commands were handled at the same time
  revalued      \* history: a listed unit got another value since the turn was last set

riVars == <<riList, cur, round, riJob, riRan, panicked, overlapped, revalued>>

Unit == [name : Units, val : Values]

\* RIList.Less: by value, then by name, both downwards.
Less(x, y) == x.val > y.val \/ (x.val = y.val /\ x.name > y.name)

\* What is at the positions I of a list, each at the place its rank says.
Arranged(lst, I, rank) == [p \in 1..Cardinality(I) |-> lst[CHOOSE i \in I : rank[i] = p]]

\* sort.Sort: after those that are less; equal units cannot be told apart.
Sorted(lst) ==
  Arranged(lst, DOMAIN lst,
           [i \in DOMAIN lst |-> Cardinality({k \in DOMAIN lst : Less(lst[k], lst[i]) \/ (lst[k] = lst[i] /\ k <= i)})])

InOrder(lst) == \A i, k \in DOMAIN lst : i < k => Less(lst[i], lst[k]) /\ lst[i].name # lst[k].name
GetExists(lst, name) == {i \in DOMAIN lst : lst[i].name = name}

NamesOf(lst) == {lst[i].name : i \in DOMAIN lst}

RiCommands ==
  [op : {"ri"}, items : UNION {[1..n -> Unit] : n \in 1..MaxItems}, names : {{}}] \cup
  [op : {"set"}, items : [1..1 -> Unit], names : {{}}] \cup
  [op : {"del"}, items : {<<>>}, names : SUBSET Units] \cup
  [op : {"ed", "clr"}, items : {<<>>}, names : {{}}]

ASSUME RiSendsAssumption == RiSends \subseteq RiCommands

\* lst: the command's copy of the list; next: of .init del, the unit to take the turn, -1 if it stays.
\* History: the index at the command's beginning, and whether a listed unit had another value then.
RiIdle == [pc |-> "idle", op |-> "", items |-> <<>>, names |-> {}, lst |-> <<>>, next |-> -1, was |-> 0, ok |-> FALSE]

RiJobs ==
  [pc : {"idle", "turn", "again", "save", "pass"}, op : {"", "ri", "set", "del", "ed", "clr"}, items : Seq(Unit), names : SUBSET Units,
   lst : Seq(Unit), next : Int, was : Nat, ok : BOOLEAN]

RiTypeOK ==
  /\ riList \in Seq(Unit) /\ cur \in Values \cup {NullInit} /\ round \in Nat
  /\ riJob \in [RiHandlers -> RiJobs] /\ riRan \in 0..MaxRi
  /\ panicked \in BOOLEAN /\ overlapped \in BOOLEAN /\ revalued \in BOOLEAN

\* Any list earlier commands may have left, before the first .init ed or in a turn.
RiInit ==
  /\ riList \in UNION {[1..n -> Unit] : n \in 0..MaxListed} /\ InOrder(riList)
  /\ \/ cur = NullInit /\ round = 0
     \/ \E i \in DOMAIN riList : round = i - 1 /\ cur = riList[i].val
  /\ riJob = [h \in RiHandlers |-> RiIdle] /\ riRan = 0
  /\ panicked = FALSE /\ overlapped = FALSE /\ revalued = FALSE

(***************************************************************************)
(* Adding units.  A new unit with a value above the current one is before  *)
(* it, so the index moves on; a listed unit gets the value.                *)
(***************************************************************************)
\* Mutant: a new unit never moves the index.
AddingInPlace(st, x) ==
  LET at == GetExists(st.lst, x.name)
  IN IF at = {} THEN [st EXCEPT !.lst = Append(@, x)] ELSE [st EXCEPT !.lst = [i \in DOMAIN @ |-> IF i \in at THEN x ELSE @[i]]]

Adding(st, x) ==
  LET at == GetExists(st.lst, x.name)
  IN IF at = {} THEN [lst |-> Append(st.lst, x), round |-> IF x.val > cur THEN st.round + 1 ELSE st.round]
     ELSE [st EXCEPT !.lst = [i \in DOMAIN @ |-> IF i \in at THEN x ELSE @[i]]]

\* .ri works down its items in the order of the list.
Added(lst, items) ==
  LET sorted == Sorted(items)
      after[n \in 0..Len(sorted)] == IF n = 0 THEN [lst |-> lst, round |-> round] ELSE Adding(after[n - 1], sorted[n])
  IN after[Len(sorted)]
Revalues(lst, items) == LET all == lst \o items
                        IN \E i \in DOMAIN all, k \in DOMAIN items : items[k].name = all[i].name /\ items[k].val # all[i].val

(***************************************************************************)
(* Steps of a command.                                                     *)
(***************************************************************************)
\* LoadByCurGroup.  .ri on an empty list forgets the current value; .init ed on one is refused.
LoadByCurGroup(h, c) ==
  /\ riJob[h].pc = "idle" /\ riRan < MaxRi
  /\ riRan' = riRan + 1
  /\ overlapped' = (overlapped \/ \E i \in RiHandlers : riJob[i].pc # "idle")
  /\ cur' = IF c.op = "ri" /\ riList = <<>> THEN NullInit ELSE cur
  /\ riJob' = [riJob EXCEPT ![h] =
       IF c.op \in {"ed", "del"} /\ riList = <<>> THEN RiIdle
       ELSE [pc |-> IF c.op = "clr" THEN "save" ELSE "turn", op |-> c.op, items |-> c.items, names |-> c.names,
             lst |-> IF c.op = "clr" THEN <<>> ELSE riList, next |-> -1, was |-> round, ok |-> ~revalued]]
  /\ UNCHANGED <<riList, round, panicked, revalued>>

Turning(h, ops) == riJob[h].pc = "turn" /\ riJob[h].op \in ops
Then(h, pc, lst) == riJob' = [riJob EXCEPT ![h] = IF pc = "idle" THEN RiIdle ELSE [@ EXCEPT !.pc = pc, !.lst = lst]]

\* setInitNextRoundVars: the value and the index of the unit at i of lst.
SetTurn(lst, i) ==
  IF i + 1 \in DOMAIN lst
    THEN cur' = lst[i + 1].val /\ round' = i /\ revalued' = FALSE /\ UNCHANGED panicked
    ELSE panicked' = TRUE /\ UNCHANGED <<cur, round, revalued>>

Ri(h) ==
  LET j == riJob[h]  st == Added(j.lst, j.items)
  IN /\ Turning(h, {"ri"})
     /\ round' = st.round
     /\ revalued' = (revalued \/ Revalues(j.lst, j.items))
     /\ Then(h, "save", Sorted(st.lst))
     /\ UNCHANGED <<riList, cur, riRan, panicked, overlapped>>

\* .init set is .ri of one unit but for an empty list, of which it knows only here.
InitSet(h) ==
  LET j == riJob[h]  st == Added(j.lst, j.items)
  IN /\ Turning(h, {"set"})
     /\ IF j.lst = <<>> THEN cur' = NullInit /\ UNCHANGED round ELSE round' = st.round /\ UNCHANGED cur
     /\ revalued' = (revalued \/ Revalues(j.lst, j.items))
     /\ Then(h, "save", Sorted(st.lst))
     /\ UNCHANGED <<riList, riRan, panicked, overlapped>>

InitEd(h) ==
  LET j == riJob[h]
  IN /\ Turning(h, {"ed"})
     /\ SetTurn(j.lst, (round + 1) % Len(j.lst))
     /\ Then(h, "idle", <<>>)
     /\ UNCHANGED <<riList, riRan, overlapped>>

\* .init del: the index loses the deleted units before it; lst keeps the list that was loaded.
Kept(lst, names) ==
  LET left == {i \in DOMAIN lst : lst[i].name \notin names}
  IN Arranged(lst, left, [i \in left |-> Cardinality({k \in left : k <= i})])
\* Mutant: behind the last unit the index stays.
DelRoundBehind(lst, names, r) == r - Cardinality({k \in 1..r : k \in DOMAIN lst /\ lst[k].name \in names})

DelRound(lst, names, r) ==
  LET i == r - Cardinality({k \in 1..r : k \in DOMAIN lst /\ lst[k].name \in names})
  IN  IF i >= Len(Kept(lst, names)) THEN 0 ELSE i

\* .init del looks for one unit named by the whole text first, and then for the words of it.
Whole(j) == \E name \in NamesOf(j.lst) : j.names = {name}
Deleting(j) == j.op = "del" /\ (j.pc = "again" \/ (j.pc = "turn" /\ Whole(j)))

\* No unit has that name: what is left is the index within the list.
TryWhole(h) ==
  LET j == riJob[h]
  IN /\ Turning(h, {"del"}) /\ ~Whole(j)
     /\ round' = round % Len(j.lst)
     /\ riJob' = [riJob EXCEPT ![h].pc = "again"]
     /\ UNCHANGED <<riList, cur, riRan, panicked, overlapped, revalued>>

\* Mutant: the index is used as it is.
InitDelStale(h) ==
  LET j == riJob[h]  next == DelRound(j.lst, j.names, round)
  IN /\ Deleting(j)
     /\ IF round + 1 \in DOMAIN j.lst
          THEN /\ round' = next
               /\ riJob' = [riJob EXCEPT ![h] =
                    IF j.names \cap NamesOf(j.lst) = {} THEN RiIdle
                    ELSE [@ EXCEPT !.pc = "save", !.next = IF j.lst[round + 1].name \in j.names THEN next ELSE -1]]
               /\ UNCHANGED panicked
          ELSE panicked' = TRUE /\ Then(h, "idle", <<>>) /\ UNCHANGED round
     /\ UNCHANGED <<riList, cur, riRan, overlapped, revalued>>

InitDel(h) ==
  LET j == riJob[h]  r == round % Len(j.lst)  next == DelRound(j.lst, j.names, r)
  IN /\ Deleting(j)
     /\ IF r + 1 \in DOMAIN j.lst
          THEN /\ round' = next
               /\ riJob' = [riJob EXCEPT ![h] =
                    IF j.names \cap NamesOf(j.lst) = {} THEN RiIdle
                    ELSE [@ EXCEPT !.pc = "save", !.next = IF j.lst[r + 1].name \in j.names THEN next ELSE -1]]
               /\ UNCHANGED panicked
          ELSE panicked' = TRUE /\ Then(h, "idle", <<>>) /\ UNCHANGED round
     /\ UNCHANGED <<riList, cur, riRan, overlapped, revalued>>

SaveToGroup(h) ==
  LET j == riJob[h]
  IN /\ j.pc = "save"
     /\ riList' = Kept(j.lst, j.names)
     /\ Then(h, IF j.op = "clr" \/ j.next >= 0 THEN "pass" ELSE "idle", j.lst)
     /\ UNCHANGED <<cur, round, riRan, panicked, overlapped, revalued>>

\* After the save: .init clr starts over, .init del of the unit whose turn it was passes the turn on.
Clear(h) ==
  /\ riJob[h].pc = "pass" /\ Kept(riJob[h].lst, riJob[h].names) = <<>>
  /\ cur' = NullInit
  /\ round' = IF riJob[h].op = "clr" THEN 0 ELSE round
  /\ revalued' = FALSE
  /\ Then(h, "idle", <<>>)
  /\ UNCHANGED <<riList, riRan, panicked, overlapped>>

PassOn(h) ==
  LET left == Kept(riJob[h].lst, riJob[h].names)
  IN /\ riJob[h].pc = "pass" /\ left # <<>>
     /\ SetTurn(left, riJob[h].next)
     /\ Then(h, "idle", <<>>)
     /\ UNCHANGED <<riList, riRan, overlapped>>

RiSteps(h) == Ri(h) \/ InitSet(h) \/ InitEd(h) \/ TryWhole(h) \/ InitDel(h) \/ SaveToGroup(h) \/ Clear(h) \/ PassOn(h)
RiNext == \E h \in RiHandlers : RiSteps(h) \/ \E c \in RiSends : LoadByCurGroup(h, c)
RiSpec == RiInit /\ [][RiNext]_riVars

(***************************************************************************)
(* Properties.                                                             *)
(***************************************************************************)
RiAtRest == \A h \in RiHandlers : riJob[h].pc = "idle"

\* However commands overlap, the list is in order with every name once, as .init shows it.
ListInOrder == InOrder(riList)

\* However commands overlap, no index runs out of the list it is used on: stale counts are taken modulo.
NoIndexOut == ~panicked

RiSound == RiTypeOK /\ ListInOrder /\ NoIndexOut

\* Without overlap the index is one of the list, 0 when it is empty, and the value beside it is that
\* of the unit it names, or none yet in the first turn; a new value for a listed unit breaks the
\* second until the turn is passed on.
TurnInStep ==
  RiAtRest /\ ~overlapped =>
    /\ round < Len(riList) \/ (round = 0 /\ riList = <<>>)
    /\ riList # <<>> /\ ~revalued => cur = riList[round + 1].val \/ (cur = NullInit /\ round = 0)

\* Whose turn it is, as .init shows it.
TurnOf(lst, r) == IF lst = <<>> THEN NoUnit ELSE lst[IF r < Len(lst) THEN r + 1 ELSE 1].name
Ends(h) == riJob[h].pc # "idle" /\ riJob'[h].pc = "idle" /\ ~overlapped'

\* Once a turn was ended, adding units leaves the turn with the unit that has it, unless one of them
\* has its very value or is named twice (the notes above cmdInit, rules 1 and 6).
AddKeepsTurn(h) ==
  LET j == riJob[h]  items == j.items
  IN /\ Ends(h) /\ j.op \in {"ri", "set"} /\ j.ok /\ riList # <<>> /\ cur # NullInit
     /\ \A k \in DOMAIN items : items[k].val # cur /\ items[k].name \notin NamesOf(riList)
     /\ \A k, l \in DOMAIN items : items[k].name = items[l].name => k = l
     => TurnOf(riList', round') = TurnOf(riList, j.was)

\* Deleting units leaves the turn with the unit that has it; if that one is deleted, the next in the
\* list that is left gets it, the first after the last (rule 3).
NextLeft(lst, r, names) ==
  LET left == {k \in 0..Len(lst) - 1 : lst[((r + k) % Len(lst)) + 1].name \notin names}
  IN  IF left = {} THEN NoUnit ELSE lst[((r + (CHOOSE k \in left : \A l \in left : k <= l)) % Len(lst)) + 1].name

DelKeepsTurn(h) ==
  LET j == riJob[h] IN Ends(h) /\ j.op = "del" => TurnOf(riList', round') = NextLeft(j.lst, j.was, j.names)

\* Without overlap a command of units keeps the turn where it belongs.
TurnKept == [][\A h \in RiHandlers : AddKeepsTurn(h) /\ DelKeepsTurn(h)]_riVars
=============================================================================
