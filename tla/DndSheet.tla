------------------------------ MODULE DndSheet ------------------------------
(***************************************************************************)
(* One player's dnd5e card as the commands of dice/exts/ext_dnd5e.go use   *)
(* it in play: hit points, temporary ones, death saving throws and spell   *)
(* slots (.st, .buff, .ds, .longrest, .ss, .cast).                         *)
(*                                                                         *)
(* Every message is handled in a goroutine of its own, and nothing covers  *)
(* the several loads and stores of a command: a change of hp, a death      *)
(* saving throw and a change of slots take several steps here, between     *)
(* which another command may step.  What was rolled is in the command.     *)
(* Delegation (@) only chooses the card.  The sheet type and the           *)
(* conversion of names before .st are in StCommand; skills are left out,   *)
(* and so are marks that .st writes by their names, DSS and DSF.           *)
(***************************************************************************)
EXTENDS Integers, Sequences

CONSTANTS
  ShHandlers,   \* goroutines handling a message
  None,         \* an attribute that is not there
  Levels,       \* levels of spells
  ShSends,      \* commands that are sent
  MaxSh         \* bound on the commands of a behaviour

Keys == {"hp", "hpmax", "$buff_hp", "$buff_hpmax", "DSS", "DSF"}
Marks == {"DSS", "DSF"}
Signs == {1, -1}

ASSUME NoneAssumption  == None \notin Int
ASSUME MaxShAssumption == MaxSh \in Nat

\* direct: the temporary hit points are passed by, with --over or when the command is written hp-=n.
Change == [level : Levels, num : Int]
ShCommands ==
  [op : {"st"}, sign : Signs, n : Nat, direct : BOOLEAN] \cup
  [op : {"ds"}, total : Int] \cup
  [op : {"mark"}, key : Marks, sign : Signs, n : Nat] \cup
  [op : {"set"}, key : Keys \ Marks, n : Nat] \cup
  [op : {"del"}, key : Keys] \cup
  [op : {"buff"}, key : {"$buff_hp", "$buff_hpmax"}, sign : Signs, n : Nat] \cup
  [op : {"slots"}, items : Seq(Change) \ {<<>>}] \cup
  [op : {"slotset"}, to : [Levels -> Nat \cup {None}]] \cup
  [op : {"stat", "buffclr", "clr", "longrest", "slotclr", "slotrest"}]

ASSUME ShSendsAssumption == ShSends \subseteq ShCommands

VARIABLES
  attr,         \* the attributes Keys
  slot,         \* $法术位_n and $法术位上限_n
  shJob,        \* what each handler is doing
  shRan,        \* commands begun
  shOverlap,    \* history: two commands were handled at the same time
  byHand        \* history: since the marks were last cleared, marks or hp were set other than by play

shVars == <<attr, slot, shJob, shRan, shOverlap, byHand>>

Num(v) == IF v = None THEN 0 ELSE v
Least(a, b) == IF a < b THEN a ELSE b
Most(a, b) == IF a > b THEN a ELSE b

\* old, new: hit points before and after the change, hp: those to store; plus: marks to add, got: their
\* sums; left: changes of slots still to make, to: the number the next one comes to.  was is history: the
\* card at the command's beginning.
NoMarks == [m \in Marks |-> 0]
ShIdle == [pc |-> "idle", cmd |-> [op |-> "none"], old |-> 0, new |-> 0, hp |-> 0, plus |-> NoMarks, got |-> NoMarks,
           left |-> <<>>, to |-> 0, was |-> [k \in Keys |-> None]]

Sheets == [Keys -> Int \cup {None}]
Slots  == [Levels -> [cur : Int \cup {None}, max : Int \cup {None}]]
Jobs == [pc : {"idle", "judge", "marks", "write", "settle", "store", "slots", "spend"}, cmd : ShCommands \cup {ShIdle.cmd},
         old : Int, new : Int, hp : Int, plus : [Marks -> Int], got : [Marks -> Int], left : Seq(Change), to : Int, was : Sheets]

\* Marks are below three, and of the dying; slots are within their limits: see the properties.
Dying(a) == Num(a["hp"]) > 0 => \A m \in Marks : Num(a[m]) = 0
InRange(s) == \A l \in Levels : 0 <= Num(s[l].cur) /\ Num(s[l].cur) <= Num(s[l].max)

\* Any card that play may have left.
ShInit ==
  /\ attr \in Sheets /\ (\A m \in Marks : Num(attr[m]) < 3) /\ Dying(attr)
  /\ slot \in Slots /\ InRange(slot)
  /\ shJob = [h \in ShHandlers |-> ShIdle] /\ shRan = 0
  /\ shOverlap = FALSE /\ byHand = FALSE

ShTypeOK == attr \in Sheets /\ slot \in Slots /\ shJob \in [ShHandlers -> Jobs] /\ shOverlap \in BOOLEAN /\ byHand \in BOOLEAN

\* A command comes in and leaves the handler with job.
Begin(h, c, op, job) ==
  /\ c.op = op /\ shJob[h].pc = "idle" /\ shRan < MaxSh
  /\ shRan' = shRan + 1
  /\ shOverlap' = (shOverlap \/ \E i \in ShHandlers : shJob[i].pc # "idle")
  /\ shJob' = [shJob EXCEPT ![h] = job]

At(h, pc) == shJob[h].pc = pc /\ UNCHANGED <<shRan, shOverlap>>
Goto(h, job) == shJob' = [shJob EXCEPT ![h] = job]
Cleared(a) == [k \in Keys |-> IF k \in Marks THEN None ELSE a[k]]     \* deathSavingStable

(***************************************************************************)
(* .st hp+n, .st hp-n [--over] and .st hp-=n.                              *)
(***************************************************************************)
\* Mutant: neither --over nor -= is looked at.
SoakedOver(a, c) == IF c.sign = 1 \/ Num(a["$buff_hp"]) <= 0 THEN 0 ELSE Least(a["$buff_hp"], c.n)

\* ToMod: the temporary hit points take the damage first, and go when they are used up.  It knows the
\* operator - only, not -=, which cmdStValueMod takes for the same.
Soaked(a, c) == IF c.direct \/ c.sign = 1 \/ Num(a["$buff_hp"]) <= 0 THEN 0 ELSE Least(a["$buff_hp"], c.n)
StHp(h, c) ==
  LET t == Num(attr["$buff_hp"])  s == Soaked(attr, c)
  IN /\ Begin(h, c, "st", [ShIdle EXCEPT !.pc = "judge", !.old = Num(attr["hp"]), !.new = Num(attr["hp"]) + c.sign * (c.n - s),
                                        !.cmd = c, !.was = attr])
     /\ attr' = IF s = 0 THEN attr ELSE [attr EXCEPT !["$buff_hp"] = IF t > s THEN t - s ELSE None]
     /\ UNCHANGED <<slot, byHand>>

Capped(a) == a["hpmax"] # None \/ a["$buff_hpmax"] # None
Limit(a) == Num(a["hpmax"]) + Num(a["$buff_hpmax"])

\* ToModResult.  A blow of a whole limit kills, one at 0 hit points is a failed death save, any hit
\* point above 0 ends the dying.
Judge(h) ==
  LET j == shJob[h]  dead == Capped(attr) /\ -j.new >= Limit(attr)
      store(v) == Goto(h, [j EXCEPT !.pc = "store", !.hp = v])
  IN /\ At(h, "judge") /\ UNCHANGED slot
     /\ \/ j.new <= 0 /\ dead /\ attr' = Cleared(attr) /\ byHand' = FALSE /\ store(0)
        \/ j.new <= 0 /\ ~dead /\ j.old = 0 /\ Goto(h, [j EXCEPT !.pc = "marks", !.plus["DSF"] = 1])
           /\ UNCHANGED <<attr, byHand>>
        \/ j.new <= 0 /\ ~dead /\ j.old # 0 /\ store(0) /\ UNCHANGED <<attr, byHand>>
        \/ j.new > 0 /\ attr' = Cleared(attr) /\ byHand' = FALSE
           /\ store(IF Capped(attr) THEN Least(j.new, Limit(attr)) ELSE j.new)

StoreHp(h) ==
  /\ At(h, "store")
  /\ attr' = [attr EXCEPT !["hp"] = shJob[h].hp]
  /\ Goto(h, ShIdle)
  /\ UNCHANGED <<slot, byHand>>

(***************************************************************************)
(* deathSaving and deathSavingResultCheck.                                 *)
(***************************************************************************)
\* Both marks are read, and made 0 when they are not there.
Assigned(a) == [k \in Keys |-> IF k \in Marks THEN Num(a[k]) ELSE a[k]]
ReadMarks(h) ==
  LET j == shJob[h]
  IN /\ At(h, "marks")
     /\ attr' = Assigned(attr)
     /\ Goto(h, [j EXCEPT !.pc = "write", !.got = [m \in Marks |-> Num(attr[m]) + j.plus[m]]])
     /\ UNCHANGED <<slot, byHand>>

WriteMarks(h) ==
  LET j == shJob[h]
  IN /\ At(h, "write")
     /\ attr' = [k \in Keys |-> IF k \in Marks /\ j.plus[k] # 0 THEN j.got[k] ELSE attr[k]]
     /\ Goto(h, [j EXCEPT !.pc = "settle"])
     /\ UNCHANGED <<slot, byHand>>

\* Mutant: three are not yet the end.
EndedAfter(got) == \E m \in Marks : got[m] > 3

\* Three of a kind end the dying, well or badly.
Ended(got) == \E m \in Marks : got[m] >= 3
Settle(h) ==
  LET j == shJob[h]
  IN /\ At(h, "settle")
     /\ IF Ended(j.got) THEN attr' = Cleared(attr) /\ byHand' = FALSE ELSE UNCHANGED <<attr, byHand>>
     /\ Goto(h, IF j.cmd.op = "st" THEN [j EXCEPT !.pc = "store"] ELSE ShIdle)
     /\ UNCHANGED slot

\* .ds: c.total is the d20 and what was added to it, which is what the code looks at.
Saved(total) == IF total = 1 THEN [NoMarks EXCEPT !["DSF"] = 2] ELSE IF total >= 10 THEN [NoMarks EXCEPT !["DSS"] = 1] ELSE [NoMarks EXCEPT !["DSF"] = 1]
DeathSave(h, c) ==
  /\ c.op = "ds" /\ attr["hp"] # None /\ attr["hp"] <= 0
  /\ IF c.total = 20 THEN Begin(h, c, "ds", [ShIdle EXCEPT !.pc = "store", !.cmd = c, !.hp = 1]) /\ attr' = Cleared(attr) /\ byHand' = FALSE
     ELSE Begin(h, c, "ds", [ShIdle EXCEPT !.pc = "marks", !.cmd = c, !.plus = Saved(c.total)]) /\ UNCHANGED <<attr, byHand>>
  /\ UNCHANGED slot

\* .ds s+n, .ds f-n and the like.
Mark(h, c) ==
  /\ Begin(h, c, "mark", [ShIdle EXCEPT !.pc = "marks", !.cmd = c, !.plus[c.key] = c.sign * c.n])
  /\ byHand' = (byHand \/ c.n # 0)
  /\ UNCHANGED <<attr, slot>>

(***************************************************************************)
(* Commands of one step: .ds stat, .st key:n and .buff key:n, .st del and  *)
(* .buff del, .st clr, .buff key+n, .buff clr, .longrest.                  *)
(***************************************************************************)
Stat(h, c) ==
  /\ Begin(h, c, "stat", ShIdle)
  /\ attr' = Assigned(attr)
  /\ UNCHANGED <<slot, byHand>>

Set(h, c) ==
  /\ Begin(h, c, "set", ShIdle)
  /\ attr' = [attr EXCEPT ![c.key] = c.n]
  /\ byHand' = (byHand \/ c.key = "hp")
  /\ UNCHANGED slot

Del(h, c) ==
  /\ Begin(h, c, "del", ShIdle)
  /\ attr' = [attr EXCEPT ![c.key] = None]
  /\ UNCHANGED <<slot, byHand>>

BuffMod(h, c) ==
  /\ Begin(h, c, "buff", ShIdle)
  /\ attr' = [attr EXCEPT ![c.key] = Num(@) + c.sign * c.n]
  /\ UNCHANGED <<slot, byHand>>

BuffClr(h, c) ==
  /\ Begin(h, c, "buffclr", ShIdle)
  /\ attr' = [attr EXCEPT !["$buff_hp"] = None, !["$buff_hpmax"] = None]
  /\ UNCHANGED <<slot, byHand>>

NoSlot == [cur |-> None, max |-> None]
StClr(h, c) ==
  /\ Begin(h, c, "clr", ShIdle)
  /\ attr' = [k \in Keys |-> None] /\ slot' = [l \in Levels |-> NoSlot]
  /\ byHand' = FALSE

\* spellSlotsRenew
Renew(l) == IF slot[l].max = None THEN slot[l] ELSE [cur |-> slot[l].max, max |-> slot[l].max]

\* The hit points come back to hpmax, without what .buff adds; the marks stay.
LongRest(h, c) ==
  /\ Begin(h, c, "longrest", ShIdle)
  /\ attr' = IF attr["hpmax"] = None THEN attr ELSE [attr EXCEPT !["hp"] = attr["hpmax"]]
  /\ slot' = [l \in Levels |-> Renew(l)]
  /\ byHand' = (byHand \/ attr["hpmax"] # None)

(***************************************************************************)
(* Spell slots.                                                            *)
(***************************************************************************)
\* .ss init and .ss set: c.to gives some levels their number; the others stay.
SlotSet(h, c) ==
  /\ Begin(h, c, "slotset", ShIdle)
  /\ slot' = [l \in Levels |-> IF c.to[l] # None THEN [cur |-> c.to[l], max |-> c.to[l]] ELSE slot[l]]
  /\ UNCHANGED <<attr, byHand>>

SlotClr(h, c) ==
  /\ Begin(h, c, "slotclr", ShIdle)
  /\ slot' = [l \in Levels |-> NoSlot]
  /\ UNCHANGED <<attr, byHand>>

SlotRest(h, c) ==
  /\ Begin(h, c, "slotrest", ShIdle)
  /\ slot' = [l \in Levels |-> Renew(l)]
  /\ UNCHANGED <<attr, byHand>>

\* .ss n环+k and .cast: a list of changes, in its order.
SlotChange(h, c) ==
  /\ Begin(h, c, "slots", [ShIdle EXCEPT !.pc = "slots", !.cmd = c, !.left = c.items])
  /\ UNCHANGED <<attr, slot, byHand>>

\* spellSlotsChange: a change that would go below 0 ends the command, what was changed before stays.
Reload(h) ==
  LET j == shJob[h]  l == Head(j.left).level  new == Num(slot[l].cur) + Head(j.left).num
  IN /\ At(h, "slots")
     /\ Goto(h, IF new < 0 THEN ShIdle ELSE [j EXCEPT !.pc = "spend", !.to = Least(new, Num(slot[l].max))])
     /\ UNCHANGED <<attr, slot, byHand>>

Spend(h) ==
  LET j == shJob[h]  rest == Tail(j.left)
  IN /\ At(h, "spend")
     /\ slot' = [slot EXCEPT ![Head(j.left).level].cur = j.to]
     /\ Goto(h, IF rest = <<>> THEN ShIdle ELSE [j EXCEPT !.pc = "slots", !.left = rest])
     /\ UNCHANGED <<attr, byHand>>

ShCommand(h, c) ==
  \/ StHp(h, c) \/ DeathSave(h, c) \/ Mark(h, c) \/ Stat(h, c) \/ Set(h, c) \/ Del(h, c) \/ BuffMod(h, c) \/ BuffClr(h, c) \/ StClr(h, c)
  \/ LongRest(h, c) \/ SlotSet(h, c) \/ SlotClr(h, c) \/ SlotRest(h, c) \/ SlotChange(h, c)
ShStep(h) == Judge(h) \/ StoreHp(h) \/ ReadMarks(h) \/ WriteMarks(h) \/ Settle(h) \/ Reload(h) \/ Spend(h)
ShNextOn(sends) == \E h \in ShHandlers : ShStep(h) \/ \E c \in sends : ShCommand(h, c)
ShNext == ShNextOn(ShSends)
ShSpec == ShInit /\ [][ShNext]_shVars

(***************************************************************************)
(* Properties.                                                             *)
(***************************************************************************)
ShAtRest == \A h \in ShHandlers : shJob[h].pc = "idle"

\* However commands overlap, no third mark outlives the command that set it: three of a kind are taken
\* away with the end they mean.
MarksBelowThree == ShAtRest => \A m \in Marks : Num(attr[m]) < 3

\* In play only the dying have marks: one who is healed, or struck dead, starts anew.  Overlapping
\* commands, marks set by hand and a long rest break it.
MarksMeanDying == ShAtRest /\ ~shOverlap /\ ~byHand => Dying(attr)

\* Without overlap no level has fewer slots than none or more than its limit.
SlotsInRange == ShAtRest /\ ~shOverlap => InRange(slot)

ShSound == ShTypeOK /\ MarksBelowThree /\ MarksMeanDying /\ SlotsInRange

\* What a .st hp-n did to the card it began with, when its last step stores the hit points.
Proper(a) == Num(a["hp"]) >= 0 /\ Num(a["$buff_hp"]) >= 0 /\ (Capped(a) => Num(a["hp"]) <= Limit(a))
Blow(h) == shJob[h].pc = "store" /\ shJob'[h].pc = "idle" /\ shJob[h].cmd.op = "st" /\ shJob[h].cmd.sign = -1
Taken(c, was) ==
  LET hp == Num(was["hp"])  t == Num(was["$buff_hp"])
  IN IF c.direct THEN attr'["hp"] = Most(0, hp - c.n) /\ Num(attr'["$buff_hp"]) = t
     ELSE attr'["hp"] + Num(attr'["$buff_hp"]) = Most(0, hp + t - c.n)

\* Damage is taken once: what a .st hp-n without overlap takes from hit points and temporary ones
\* together is n, or all there was; with --over, or written -=, the temporary ones are spared.
DamageAccounted ==
  [][\A h \in ShHandlers : Blow(h) /\ ~shOverlap' /\ Proper(shJob[h].was) => Taken(shJob[h].cmd, shJob[h].was)]_shVars
=============================================================================
