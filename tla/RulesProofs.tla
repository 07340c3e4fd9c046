---------------------------- MODULE RulesProofs ----------------------------
(***************************************************************************)
(* Proofs about the rules: DndSheet for any handlers, levels, commands and *)
(* numbers, however the steps of commands interleave; CocChecks for every  *)
(* roll, skill and rule; StCommand for any systems and templates;          *)
(* DndInitiative for any handlers, units and commands.                     *)
(***************************************************************************)
EXTENDS DndSheet, CocChecks, StCommand, DndInitiative, FiniteSetTheorems, SequenceTheorems, TLAPS
-----------------------------------------------------------------------------
(***************************************************************************)
(* DndSheet: marks, slots and damage.                                      *)
(***************************************************************************)
\* What a job is at its steps.
Shape(j) ==
  /\ j.pc = "judge" => j.cmd.op = "st"
  /\ j.pc \in {"judge", "marks", "write", "settle"} => j.hp = 0
  /\ j.pc \in {"slots", "spend"} => j.left # <<>>
Shapes == \A h \in ShHandlers : Shape(shJob[h])

\* A third mark is about to be taken away by the command that set it.
ThirdIsSettled ==
  \A m \in Marks : Num(attr[m]) >= 3 => \E h \in ShHandlers : shJob[h].pc = "settle" /\ shJob[h].got[m] >= 3

\* Without overlap one command at most is under way.
Alone == ~shOverlap => \A h, i \in ShHandlers : shJob[h].pc # "idle" /\ shJob[i].pc # "idle" => h = i

LEMMA NumInt == \A v \in Int \cup {None} : Num(v) \in Int
  BY NoneAssumption DEF Num

LEMMA SendTypes ==
  ASSUME NEW c \in ShSends
  PROVE  /\ c \in ShCommands
         /\ c.op = "st" => c.sign \in Signs /\ c.n \in Nat /\ c.direct \in BOOLEAN
         /\ c.op = "ds" => c.total \in Int
         /\ c.op = "mark" => c.key \in Marks /\ c.sign \in Signs /\ c.n \in Nat
         /\ c.op = "set" => c.key \in Keys \ Marks /\ c.n \in Nat
         /\ c.op = "del" => c.key \in Keys
         /\ c.op = "buff" => c.key \in {"$buff_hp", "$buff_hpmax"} /\ c.sign \in Signs /\ c.n \in Nat
         /\ c.op = "slots" => c.items \in Seq(Change) /\ c.items # <<>>
         /\ c.op = "slotset" => c.to \in [Levels -> Nat \cup {None}]
<1>1. c \in ShCommands
  BY ShSendsAssumption
<1> QED
  BY <1>1 DEF ShCommands

LEMMA IdleTyped == ShIdle \in Jobs
  BY DEF ShIdle, Jobs, NoMarks, Sheets, Change

LEMMA SheetNumbers ==
  ASSUME NEW a \in Sheets, NEW k \in Keys
  PROVE  /\ Num(a[k]) \in Int
         /\ Num(a[k]) # 0 => a[k] = Num(a[k])
  BY NumInt DEF Sheets, Num

LEMMA SoakedInt ==
  ASSUME NEW a \in Sheets, NEW c, c.n \in Nat
  PROVE  Soaked(a, c) \in Int
<1>1. "$buff_hp" \in Keys
  BY DEF Keys
<1> QED
  BY <1>1, SheetNumbers DEF Soaked, Least

LEMMA SheetUpdated ==
  ASSUME NEW a \in Sheets, NEW k \in Keys, NEW v \in Int \cup {None}
  PROVE  [a EXCEPT ![k] = v] \in Sheets
  BY DEF Sheets

\* Reading the marks makes none; it leaves every other attribute alone.
LEMMA AssignedMarks ==
  ASSUME NEW a \in Sheets
  PROVE  /\ Assigned(a) \in Sheets
         /\ \A m \in Marks : Assigned(a)[m] = a[m] \/ Num(Assigned(a)[m]) = 0
         /\ \A k \in Keys : Num(Assigned(a)[k]) = Num(a[k])
         /\ \A k \in Keys \ Marks : Assigned(a)[k] = a[k]
         /\ Assigned(a)["hp"] = a["hp"]
<1>1. \A k \in Keys : Num(a[k]) \in Int /\ a[k] \in Int \cup {None} /\ Num(Num(a[k])) = Num(a[k])
  BY SheetNumbers, NoneAssumption DEF Num, Sheets
<1>2. \A k \in Keys : Assigned(a)[k] = IF k \in Marks THEN Num(a[k]) ELSE a[k]
  BY DEF Assigned
<1>3. Assigned(a) \in Sheets
  BY <1>1 DEF Assigned, Sheets
<1>4. \A m \in Marks : m \in Keys /\ (a[m] = Num(a[m]) \/ Num(a[m]) = 0)
  BY SheetNumbers DEF Marks, Keys
<1>5. "hp" \in Keys \ Marks
  BY DEF Marks, Keys
<1>6. \A k \in Keys : Num(Assigned(a)[k]) = Num(a[k])
  BY <1>1, <1>2
<1>7. \A k \in Keys \ Marks : Assigned(a)[k] = a[k]
  BY <1>2
<1>8. \A m \in Marks : Assigned(a)[m] = a[m] \/ Num(Assigned(a)[m]) = 0
  BY <1>1, <1>2, <1>4, <1>6
<1> QED
  BY <1>3, <1>5, <1>6, <1>7, <1>8

\* The change of slots that is next, and the others.
LEMMA NextChange ==
  ASSUME NEW j \in Jobs, Shape(j), j.pc \in {"slots", "spend"}
  PROVE  /\ Head(j.left) \in Change /\ Head(j.left).level \in Levels /\ Head(j.left).num \in Int
         /\ Tail(j.left) \in Seq(Change)
<1>1. j.left \in Seq(Change) /\ j.left # <<>>
  BY DEF Jobs, Shape
<1> HIDE DEF Jobs
<1>2. Head(j.left) \in Change /\ Tail(j.left) \in Seq(Change)
  BY <1>1, HeadTailProperties
<1> QED
  BY <1>2 DEF Change

LEMMA InitTyped == ShInit => ShTypeOK
  BY IdleTyped DEF ShInit, ShTypeOK

LEMMA CommandTyped ==
  ASSUME ShTypeOK, NEW h \in ShHandlers, NEW c \in ShSends, ShCommand(h, c)
  PROVE  ShTypeOK'
<1> USE IdleTyped DEF ShTypeOK, Begin
<1>1. attr \in Sheets /\ slot \in Slots /\ \A k \in Keys : Num(attr[k]) \in Int
  BY SheetNumbers
<1>2. \A X \in Jobs : shJob' = [shJob EXCEPT ![h] = X] => shJob' \in [ShHandlers -> Jobs]
  OBVIOUS
<1>3. c \in ShCommands /\ (shOverlap \/ \E i \in ShHandlers : shJob[i].pc # "idle") \in BOOLEAN
  BY SendTypes
<1>4. CASE StHp(h, c)
  <2>1. c.op = "st" /\ c.sign \in Signs /\ c.n \in Nat /\ c.direct \in BOOLEAN
    BY <1>4, SendTypes DEF StHp
  <2>2. Soaked(attr, c) \in Int /\ Num(attr["$buff_hp"]) \in Int /\ Num(attr["hp"]) \in Int
    BY <1>1, <2>1, SoakedInt DEF Keys
  <2>3. attr' \in Sheets
    <3>1. "$buff_hp" \in Keys
      BY DEF Keys
    <3>2. (IF Num(attr["$buff_hp"]) > Soaked(attr, c) THEN Num(attr["$buff_hp"]) - Soaked(attr, c) ELSE None) \in Int \cup {None}
      BY <2>2
    <3> QED
      BY <1>1, <1>4, <3>1, <3>2, SheetUpdated DEF StHp
  <2>4. Num(attr["hp"]) + c.sign * (c.n - Soaked(attr, c)) \in Int
    BY <2>1, <2>2 DEF Signs
  <2>5. shJob' \in [ShHandlers -> Jobs]
    BY <1>1, <1>3, <1>4, <2>2, <2>4 DEF StHp, Jobs
  <2> QED
    BY <1>3, <1>4, <2>3, <2>5 DEF StHp
<1>5. CASE DeathSave(h, c)
  <2>1. Saved(c.total) \in [Marks -> Int]
    BY DEF Saved, NoMarks, Marks
  <2>2. Cleared(attr) \in Sheets
    BY <1>1 DEF Cleared, Sheets
  <2>3. shJob' \in [ShHandlers -> Jobs]
    <3>1. [ShIdle EXCEPT !.pc = "store", !.cmd = c, !.hp = 1] \in Jobs
      <4>1. 1 \in Int /\ c \in ShCommands \cup {ShIdle.cmd} /\ ShIdle \in Jobs
        BY <1>3
      <4> QED
        BY ONLY <4>1 DEF Jobs
    <3>2. [ShIdle EXCEPT !.pc = "marks", !.cmd = c, !.plus = Saved(c.total)] \in Jobs
      BY <1>3, <2>1 DEF Jobs
    <3> QED
      BY <1>2, <1>5, <3>1, <3>2 DEF DeathSave
  <2> QED
    BY <1>3, <1>5, <2>2, <2>3 DEF DeathSave
<1>6. CASE Mark(h, c)
  <2>1. c.key \in Marks /\ c.sign * c.n \in Int /\ (byHand \/ c.n # 0) \in BOOLEAN
    BY <1>6, SendTypes DEF Mark, Signs
  <2>2. shJob' \in [ShHandlers -> Jobs]
    BY <1>3, <1>6, <2>1 DEF Mark, Jobs
  <2> QED
    BY <1>3, <1>6, <2>1, <2>2 DEF Mark
<1>7. CASE Stat(h, c) \/ Set(h, c) \/ Del(h, c) \/ BuffMod(h, c) \/ BuffClr(h, c) \/ StClr(h, c)
  <2>1. attr' \in Sheets
    <3>1. CASE Set(h, c)
      BY <1>1, <3>1, SendTypes DEF Set, Sheets
    <3>2. CASE Del(h, c)
      BY <1>1, <3>2, SendTypes DEF Del, Sheets
    <3>3. CASE BuffMod(h, c)
      <4>1. c.key \in Keys /\ c.sign * c.n \in Int
        BY <3>3, SendTypes DEF BuffMod, Keys, Signs
      <4> QED
        BY <1>1, <3>3, <4>1 DEF BuffMod, Sheets
    <3>4. CASE BuffClr(h, c) \/ StClr(h, c)
      BY <1>1, <3>4 DEF BuffClr, StClr, Sheets
    <3>5. CASE Stat(h, c)
      BY <1>1, <3>5, AssignedMarks DEF Stat
    <3> QED
      BY <1>7, <3>1, <3>2, <3>3, <3>4, <3>5
  <2>2. slot' \in Slots
    BY <1>1, <1>7 DEF Stat, Set, Del, BuffMod, BuffClr, StClr, Slots, NoSlot
  <2>3. shJob' \in [ShHandlers -> Jobs]
    BY <1>2, <1>7 DEF Stat, Set, Del, BuffMod, BuffClr, StClr
  <2> QED
    BY <1>3, <1>7, <2>1, <2>2, <2>3 DEF Stat, Set, Del, BuffMod, BuffClr, StClr
<1>8. CASE LongRest(h, c) \/ SlotSet(h, c) \/ SlotClr(h, c) \/ SlotRest(h, c)
  <2>1. slot' \in Slots
    BY <1>1, <1>8, SendTypes DEF LongRest, SlotSet, SlotClr, SlotRest, Renew, Slots, NoSlot
  <2>2. attr' \in Sheets
    <3>1. CASE LongRest(h, c)
      <4>1. attr["hpmax"] \in Int \cup {None} /\ "hp" \in Keys
        BY <1>1 DEF Sheets, Keys
      <4> QED
        BY <1>1, <3>1, <4>1, SheetUpdated DEF LongRest
    <3> QED
      BY <1>1, <1>8, <3>1 DEF SlotSet, SlotClr, SlotRest
  <2>3. shJob' \in [ShHandlers -> Jobs]
    BY <1>2, <1>8 DEF LongRest, SlotSet, SlotClr, SlotRest
  <2> QED
    BY <1>3, <1>8, <2>1, <2>2, <2>3 DEF LongRest, SlotSet, SlotClr, SlotRest
<1>9. CASE SlotChange(h, c)
  <2>1. c.items \in Seq(Change)
    BY <1>9, SendTypes DEF SlotChange
  <2>2. shJob' \in [ShHandlers -> Jobs]
    BY <1>3, <1>9, <2>1 DEF SlotChange, Jobs
  <2> QED
    BY <1>3, <1>9, <2>2 DEF SlotChange
<1> QED
  BY <1>4, <1>5, <1>6, <1>7, <1>8, <1>9 DEF ShCommand

LEMMA StepTyped ==
  ASSUME ShTypeOK, Shapes, NEW h \in ShHandlers, ShStep(h)
  PROVE  ShTypeOK'
<1> DEFINE j == shJob[h]
<1> USE IdleTyped DEF ShTypeOK, At, Goto
<1>1. attr \in Sheets /\ slot \in Slots /\ j \in Jobs /\ Cleared(attr) \in Sheets /\ \A k \in Keys : Num(attr[k]) \in Int
  BY SheetNumbers DEF Cleared, Sheets
<1>2. CASE Judge(h)
  <2>1. Limit(attr) \in Int
    BY <1>1 DEF Limit, Keys
  <2>2. Least(j.new, Limit(attr)) \in Int
    BY <1>1, <2>1 DEF Least, Jobs
  <2>3. shJob' \in [ShHandlers -> Jobs]
    <3>1. \A v \in Int : [j EXCEPT !.pc = "store", !.hp = v] \in Jobs
      BY <1>1 DEF Jobs
    <3>2. [j.plus EXCEPT !["DSF"] = 1] \in [Marks -> Int]
      BY <1>1 DEF Jobs, Marks
    <3>3. [j EXCEPT !.pc = "marks", !.plus["DSF"] = 1] \in Jobs
      BY <1>1, <3>2 DEF Jobs
    <3>4. 0 \in Int /\ (IF Capped(attr) THEN Least(j.new, Limit(attr)) ELSE j.new) \in Int
      BY <1>1, <2>2 DEF Jobs
    <3>5. \E X \in Jobs : shJob' = [shJob EXCEPT ![h] = X]
      <4>1. CASE \E v \in Int : shJob' = [shJob EXCEPT ![h] = [j EXCEPT !.pc = "store", !.hp = v]]
        BY <3>1, <4>1
      <4>2. CASE shJob' = [shJob EXCEPT ![h] = [j EXCEPT !.pc = "marks", !.plus["DSF"] = 1]]
        BY <3>3, <4>2
      <4> QED
        BY <1>2, <3>4, <4>1, <4>2, Zenon DEF Judge
    <3> QED
      BY <3>5
  <2> QED
    BY <1>1, <1>2, <2>3 DEF Judge
<1>3. CASE StoreHp(h)
  BY <1>1, <1>3 DEF StoreHp, Sheets, Jobs
<1>4. CASE ReadMarks(h)
  <2>1. attr' \in Sheets
    BY <1>1, <1>4 DEF ReadMarks, Assigned, Sheets
  <2>2. [m \in Marks |-> Num(attr[m]) + j.plus[m]] \in [Marks -> Int]
    <3>1. j.plus \in [Marks -> Int] /\ Marks \subseteq Keys
      BY <1>1 DEF Jobs, Marks, Keys
    <3>2. \A m \in Marks : Num(attr[m]) \in Int /\ j.plus[m] \in Int
      BY <1>1, <3>1
    <3> QED
      BY <3>2
  <2> QED
    BY <1>1, <1>4, <2>1, <2>2 DEF ReadMarks, Jobs
<1>5. CASE WriteMarks(h)
  <2>1. attr' \in Sheets
    BY <1>1, <1>5 DEF WriteMarks, Sheets, Jobs
  <2> QED
    BY <1>1, <1>5, <2>1 DEF WriteMarks, Jobs
<1>6. CASE Settle(h)
  BY <1>1, <1>6 DEF Settle, Jobs
<1>7. CASE Reload(h)
  <2> DEFINE l == Head(j.left).level
  <2>1. l \in Levels /\ Head(j.left).num \in Int
    BY <1>1, <1>7, NextChange DEF Reload, Shapes
  <2>2. slot[l].cur \in Int \cup {None} /\ slot[l].max \in Int \cup {None}
    BY <1>1, <2>1 DEF Slots
  <2>3. Num(slot[l].cur) \in Int /\ Num(slot[l].max) \in Int
    BY <2>2, NumInt
  <2>4. Least(Num(slot[l].cur) + Head(j.left).num, Num(slot[l].max)) \in Int
    BY <2>1, <2>3 DEF Least
  <2>5. [j EXCEPT !.pc = "spend", !.to = Least(Num(slot[l].cur) + Head(j.left).num, Num(slot[l].max))] \in Jobs
    BY <1>1, <2>4 DEF Jobs
  <2> QED
    BY <1>1, <1>7, <2>5 DEF Reload
<1>8. CASE Spend(h)
  <2>1. Head(j.left).level \in Levels /\ Tail(j.left) \in Seq(Change)
    BY <1>1, <1>8, NextChange DEF Spend, Shapes
  <2>2. slot' \in Slots
    BY <1>1, <1>8, <2>1 DEF Spend, Slots, Jobs
  <2>3. [j EXCEPT !.pc = "slots", !.left = Tail(j.left)] \in Jobs
    BY <1>1, <2>1 DEF Jobs
  <2> QED
    BY <1>1, <1>8, <2>2, <2>3 DEF Spend
<1> QED
  BY <1>2, <1>3, <1>4, <1>5, <1>6, <1>7, <1>8 DEF ShStep

(***************************************************************************)
(* What a step makes of its handler's job.                                 *)
(***************************************************************************)
LEMMA OthersKeep ==
  ASSUME ShTypeOK, NEW h \in ShHandlers, ShStep(h) \/ \E c \in ShSends : ShCommand(h, c)
  PROVE  \A i \in ShHandlers \ {h} : shJob'[i] = shJob[i]
<1>1. ASSUME NEW X, shJob' = [shJob EXCEPT ![h] = X] PROVE \A i \in ShHandlers \ {h} : shJob'[i] = shJob[i]
  BY <1>1 DEF ShTypeOK
<1>2. CASE ShStep(h)
  <2>1. \E X : shJob' = [shJob EXCEPT ![h] = X]
    BY <1>2, Zenon DEF ShStep, Judge, StoreHp, ReadMarks, WriteMarks, Settle, Reload, Spend, Goto
  <2> QED
    BY <1>1, <2>1
<1>3. ASSUME NEW c \in ShSends, ShCommand(h, c) PROVE \E X : shJob' = [shJob EXCEPT ![h] = X]
  BY <1>3, Zenon DEF ShCommand, StHp, DeathSave, Mark, Stat, Set, Del, BuffMod, BuffClr, StClr, LongRest, SlotSet, SlotClr,
                     SlotRest, SlotChange, Begin
<1> QED
  BY <1>1, <1>2, <1>3

LEMMA NewJob ==
  ASSUME ShTypeOK, NEW h \in ShHandlers, NEW X, shJob' = [shJob EXCEPT ![h] = X]
  PROVE  shJob'[h] = X
  BY DEF ShTypeOK

LEMMA StHpJob ==
  ASSUME ShTypeOK, NEW h \in ShHandlers, NEW c \in ShSends, StHp(h, c)
  PROVE  LET k == shJob'[h]
         IN /\ c.op = "st" /\ k.pc = "judge" /\ k.cmd = c /\ k.hp = 0 /\ k.was = attr /\ k.old = Num(attr["hp"])
            /\ k.new = Num(attr["hp"]) + c.sign * (c.n - Soaked(attr, c))
<1> DEFINE old == Num(attr["hp"])
           new == Num(attr["hp"]) + c.sign * (c.n - Soaked(attr, c))
<1>1. c.op = "st" /\ shJob'[h] = [ShIdle EXCEPT !.pc = "judge", !.old = old, !.new = new, !.cmd = c, !.was = attr]
  BY NewJob, Zenon DEF StHp, Begin
<1> HIDE DEF old, new
<1>2. LET k == shJob'[h]
      IN k.pc = "judge" /\ k.cmd = c /\ k.hp = 0 /\ k.was = attr /\ k.old = old /\ k.new = new
  BY <1>1 DEF ShIdle
<1> QED
  BY <1>1, <1>2 DEF old, new

LEMMA DeathSaveJob ==
  ASSUME ShTypeOK, NEW h \in ShHandlers, NEW c \in ShSends, DeathSave(h, c)
  PROVE  LET k == shJob'[h]
         IN /\ c.op = "ds" /\ attr["hp"] # None /\ attr["hp"] <= 0 /\ k.cmd = c /\ k.pc \in {"marks", "store"}
            /\ k.pc = "marks" => k.hp = 0 /\ UNCHANGED <<attr, byHand>>
            /\ k.pc = "store" => k.hp = 1 /\ attr' = Cleared(attr)
<1>1. CASE c.total = 20
  <2>1. shJob'[h] = [ShIdle EXCEPT !.pc = "store", !.cmd = c, !.hp = 1]
    BY <1>1, NewJob, Zenon DEF DeathSave, Begin
  <2> QED
    BY <1>1, <2>1 DEF ShIdle, DeathSave
<1>2. CASE c.total # 20
  <2>1. shJob'[h] = [ShIdle EXCEPT !.pc = "marks", !.cmd = c, !.plus = Saved(c.total)]
    BY <1>2, NewJob, Zenon DEF DeathSave, Begin
  <2> QED
    BY <1>2, <2>1 DEF ShIdle, DeathSave
<1> QED
  BY <1>1, <1>2

LEMMA MarkJob ==
  ASSUME ShTypeOK, NEW h \in ShHandlers, NEW c \in ShSends, Mark(h, c)
  PROVE  LET k == shJob'[h]
         IN /\ c.op = "mark" /\ k.pc = "marks" /\ k.cmd = c /\ k.hp = 0
            /\ c.n = 0 => \A m \in Marks : k.plus[m] = 0
<1>1. shJob'[h] = [ShIdle EXCEPT !.pc = "marks", !.cmd = c, !.plus[c.key] = c.sign * c.n]
  BY NewJob, Zenon DEF Mark, Begin
<1>2. c.op = "mark" /\ c.key \in Marks /\ c.sign \in Int
  BY SendTypes DEF Mark, Begin, Signs
<1> QED
  BY <1>1, <1>2 DEF ShIdle, NoMarks

LEMMA SlotChangeJob ==
  ASSUME ShTypeOK, NEW h \in ShHandlers, NEW c \in ShSends, SlotChange(h, c)
  PROVE  LET k == shJob'[h]
         IN c.op = "slots" /\ k.pc = "slots" /\ k.cmd = c /\ k.left = c.items
<1>1. c.op = "slots" /\ shJob'[h] = [ShIdle EXCEPT !.pc = "slots", !.cmd = c, !.left = c.items]
  BY NewJob, Zenon DEF SlotChange, Begin
<1> QED
  BY <1>1 DEF ShIdle

AtOnce(h, c) ==
  \/ Stat(h, c) \/ Set(h, c) \/ Del(h, c) \/ BuffMod(h, c) \/ BuffClr(h, c) \/ StClr(h, c) \/ LongRest(h, c) \/ SlotSet(h, c)
  \/ SlotClr(h, c) \/ SlotRest(h, c)

LEMMA AtOnceJob ==
  ASSUME ShTypeOK, NEW h \in ShHandlers, NEW c \in ShSends, AtOnce(h, c)
  PROVE  shJob'[h] = ShIdle /\ shJob'[h].pc = "idle" /\ shJob'[h].cmd.op = "none"
<1>1. shJob'[h] = ShIdle
  BY NewJob, Zenon DEF AtOnce, Stat, Set, Del, BuffMod, BuffClr, StClr, LongRest, SlotSet, SlotClr, SlotRest, Begin
<1> QED
  BY <1>1 DEF ShIdle

\* A job after a step is the one before, but for pc and what is named.
LEMMA JudgeJob ==
  ASSUME ShTypeOK, NEW h \in ShHandlers, Judge(h)
  PROVE  LET j == shJob[h]  k == shJob'[h]
         IN /\ k.pc \in {"marks", "store"} /\ k.cmd = j.cmd /\ k.was = j.was
            /\ k.pc = "marks" => j.new <= 0 /\ j.old = 0 /\ k.hp = j.hp /\ UNCHANGED <<attr, byHand>>
            /\ k.pc = "store" => k.hp = IF j.new <= 0 THEN 0 ELSE IF Capped(attr) THEN Least(j.new, Limit(attr)) ELSE j.new
            /\ k.pc = "store" /\ k.hp # 0 => attr' = Cleared(attr)
<1> DEFINE j == shJob[h]
           v == IF Capped(attr) THEN Least(j.new, Limit(attr)) ELSE j.new
<1>0. j \in Jobs /\ j.new \in Int
  BY DEF ShTypeOK, Jobs
<1>1. ASSUME NEW w, shJob' = [shJob EXCEPT ![h] = [j EXCEPT !.pc = "store", !.hp = w]]
      PROVE  shJob'[h].pc = "store" /\ shJob'[h].hp = w /\ shJob'[h].cmd = j.cmd /\ shJob'[h].was = j.was
  <2>1. shJob'[h] = [j EXCEPT !.pc = "store", !.hp = w]
    BY <1>1, NewJob, Zenon
  <2> QED
    BY <1>0, <2>1 DEF Jobs
<1>2. CASE j.new <= 0 /\ shJob' = [shJob EXCEPT ![h] = [j EXCEPT !.pc = "store", !.hp = 0]]
  BY <1>1, <1>2
<1>3. CASE j.new > 0 /\ attr' = Cleared(attr) /\ shJob' = [shJob EXCEPT ![h] = [j EXCEPT !.pc = "store", !.hp = v]]
  <2>1. shJob'[h].pc = "store" /\ shJob'[h].hp = v /\ shJob'[h].cmd = j.cmd /\ shJob'[h].was = j.was
    BY <1>1, <1>3, Zenon
  <2>2. ~(j.new <= 0)
    BY <1>0, <1>3
  <2> QED
    BY <1>3, <2>1, <2>2
<1>4. CASE /\ j.new <= 0 /\ j.old = 0 /\ UNCHANGED <<attr, byHand>>
           /\ shJob' = [shJob EXCEPT ![h] = [j EXCEPT !.pc = "marks", !.plus["DSF"] = 1]]
  <2>1. shJob'[h] = [j EXCEPT !.pc = "marks", !.plus["DSF"] = 1]
    BY <1>4, NewJob, Zenon
  <2>2. shJob'[h].pc = "marks" /\ shJob'[h].cmd = j.cmd /\ shJob'[h].was = j.was /\ shJob'[h].hp = j.hp
    BY <1>0, <2>1 DEF Jobs
  <2> QED
    BY <1>4, <2>2
<1> QED
  BY <1>2, <1>3, <1>4, Zenon DEF Judge, Goto

LEMMA ReadMarksJob ==
  ASSUME ShTypeOK, NEW h \in ShHandlers, ReadMarks(h)
  PROVE  LET j == shJob[h]  k == shJob'[h]
         IN /\ j.pc = "marks" /\ k.pc = "write" /\ k.cmd = j.cmd /\ k.was = j.was /\ k.hp = j.hp /\ k.plus = j.plus
            /\ \A m \in Marks : k.got[m] = Num(attr[m]) + j.plus[m]
<1> DEFINE j == shJob[h]
<1>1. shJob'[h] = [j EXCEPT !.pc = "write", !.got = [m \in Marks |-> Num(attr[m]) + j.plus[m]]]
  BY NewJob, Zenon DEF ReadMarks, Goto
<1>2. j \in Jobs /\ j.pc = "marks"
  BY DEF ReadMarks, At, ShTypeOK
<1> QED
  BY <1>1, <1>2 DEF Jobs

LEMMA WriteMarksJob ==
  ASSUME ShTypeOK, NEW h \in ShHandlers, WriteMarks(h)
  PROVE  LET j == shJob[h]  k == shJob'[h]
         IN j.pc = "write" /\ k.pc = "settle" /\ k.cmd = j.cmd /\ k.was = j.was /\ k.hp = j.hp /\ k.plus = j.plus /\ k.got = j.got
<1>1. shJob'[h] = [shJob[h] EXCEPT !.pc = "settle"]
  BY NewJob, Zenon DEF WriteMarks, Goto
<1>2. shJob[h] \in Jobs /\ shJob[h].pc = "write"
  BY DEF WriteMarks, At, ShTypeOK
<1> QED
  BY <1>1, <1>2 DEF Jobs

LEMMA SettleJob ==
  ASSUME ShTypeOK, NEW h \in ShHandlers, Settle(h)
  PROVE  LET j == shJob[h]  k == shJob'[h]
         IN /\ j.pc = "settle"
            /\ j.cmd.op = "st" => k.pc = "store" /\ k.cmd = j.cmd /\ k.was = j.was /\ k.hp = j.hp
            /\ j.cmd.op # "st" => k = ShIdle
<1>1. shJob'[h] = IF shJob[h].cmd.op = "st" THEN [shJob[h] EXCEPT !.pc = "store"] ELSE ShIdle
  BY NewJob, Zenon DEF Settle, Goto
<1>2. shJob[h] \in Jobs /\ shJob[h].pc = "settle"
  BY DEF Settle, At, ShTypeOK
<1> QED
  BY <1>1, <1>2 DEF Jobs

LEMMA StoreHpJob ==
  ASSUME ShTypeOK, NEW h \in ShHandlers, StoreHp(h)
  PROVE  shJob[h].pc = "store" /\ shJob'[h] = ShIdle
  BY NewJob DEF StoreHp, At, Goto

LEMMA ReloadJob ==
  ASSUME ShTypeOK, NEW h \in ShHandlers, Reload(h)
  PROVE  LET j == shJob[h]  k == shJob'[h]  l == Head(j.left).level  new == Num(slot[l].cur) + Head(j.left).num
         IN /\ j.pc = "slots"
            /\ \/ k = ShIdle
               \/ ~(new < 0) /\ k.pc = "spend" /\ k.to = Least(new, Num(slot[l].max)) /\ k.left = j.left
                  /\ k.cmd = j.cmd /\ k.was = j.was /\ k.hp = j.hp
<1> DEFINE j == shJob[h]  l == Head(j.left).level  new == Num(slot[l].cur) + Head(j.left).num
<1>1. shJob'[h] = IF new < 0 THEN ShIdle ELSE [j EXCEPT !.pc = "spend", !.to = Least(new, Num(slot[l].max))]
  BY NewJob, Zenon DEF Reload, Goto
<1>2. j \in Jobs /\ j.pc = "slots"
  BY DEF Reload, At, ShTypeOK
<1> HIDE DEF new, l
<1> QED
  BY <1>1, <1>2 DEF Jobs, new, l

LEMMA SpendJob ==
  ASSUME ShTypeOK, NEW h \in ShHandlers, Spend(h)
  PROVE  LET j == shJob[h]  k == shJob'[h]
         IN /\ j.pc = "spend"
            /\ \/ k = ShIdle
               \/ Tail(j.left) # <<>> /\ k.pc = "slots" /\ k.left = Tail(j.left) /\ k.cmd = j.cmd /\ k.was = j.was /\ k.hp = j.hp
<1> DEFINE rest == Tail(shJob[h].left)
<1>1. shJob'[h] = IF rest = <<>> THEN ShIdle ELSE [shJob[h] EXCEPT !.pc = "slots", !.left = rest]
  BY NewJob, Zenon DEF Spend, Goto
<1>2. shJob[h] \in Jobs /\ shJob[h].pc = "spend"
  BY DEF Spend, At, ShTypeOK
<1> HIDE DEF rest
<1> QED
  BY <1>1, <1>2 DEF Jobs, rest

(***************************************************************************)
(* Shapes and three marks of a kind.                                       *)
(***************************************************************************)
LEMMA IdleShaped == ShIdle.pc = "idle" /\ ShIdle.cmd.op = "none" /\ Shape(ShIdle)
  BY DEF Shape, ShIdle

LEMMA InitShaped == ShInit => Shapes /\ ThirdIsSettled
<1>1. ShInit => Shapes
  BY IdleShaped DEF ShInit, Shapes
<1>2. ASSUME ShInit PROVE ThirdIsSettled
  <2>1. \A m \in Marks : Num(attr[m]) \in Int /\ Num(attr[m]) < 3
    BY <1>2, SheetNumbers DEF ShInit, Marks, Keys
  <2> QED
    BY <2>1 DEF ThirdIsSettled
<1> QED
  BY <1>1, <1>2

LEMMA CommandShaped ==
  ASSUME ShTypeOK, Shapes, NEW h \in ShHandlers, NEW c \in ShSends, ShCommand(h, c)
  PROVE  Shapes'
<1>1. SUFFICES Shape(shJob'[h])
  BY <1>1, OthersKeep DEF Shapes
<1>2. CASE StHp(h, c)
  BY <1>2, StHpJob DEF Shape
<1>3. CASE DeathSave(h, c)
  BY <1>3, DeathSaveJob DEF Shape
<1>4. CASE Mark(h, c)
  BY <1>4, MarkJob DEF Shape
<1>5. CASE SlotChange(h, c)
  BY <1>5, SlotChangeJob, SendTypes DEF Shape
<1>6. CASE AtOnce(h, c)
  BY <1>6, AtOnceJob, IdleShaped
<1> QED
  BY <1>2, <1>3, <1>4, <1>5, <1>6 DEF ShCommand, AtOnce

LEMMA StepShaped ==
  ASSUME ShTypeOK, Shapes, NEW h \in ShHandlers, ShStep(h)
  PROVE  Shapes'
<1>1. SUFFICES Shape(shJob'[h])
  BY <1>1, OthersKeep DEF Shapes
<1>2. Shape(shJob[h])
  BY DEF Shapes
<1>3. CASE Judge(h)
  <2>1. shJob[h].pc = "judge"
    BY <1>3 DEF Judge, At
  <2> QED
    BY <1>2, <1>3, <2>1, JudgeJob DEF Shape
<1>4. CASE ReadMarks(h)
  BY <1>2, <1>4, ReadMarksJob DEF Shape
<1>5. CASE WriteMarks(h)
  BY <1>2, <1>5, WriteMarksJob DEF Shape
<1>6. CASE Settle(h)
  <2>1. CASE shJob[h].cmd.op = "st"
    BY <1>6, <2>1, SettleJob DEF Shape
  <2> QED
    BY <1>6, <2>1, SettleJob, IdleShaped
<1>7. CASE StoreHp(h)
  BY <1>7, StoreHpJob, IdleShaped
<1>8. CASE Reload(h)
  BY <1>2, <1>8, ReloadJob, IdleShaped DEF Shape
<1>9. CASE Spend(h)
  BY <1>9, SpendJob, IdleShaped DEF Shape
<1> QED
  BY <1>3, <1>4, <1>5, <1>6, <1>7, <1>8, <1>9 DEF ShStep

\* Who settles keeps settling while another steps, so a step that makes no third mark leaves ThirdIsSettled.
LEMMA ThirdKept ==
  ASSUME ShTypeOK, ThirdIsSettled, NEW h \in ShHandlers, ShStep(h) \/ \E c \in ShSends : ShCommand(h, c),
         \A m \in Marks : /\ attr'[m] = attr[m] \/ Num(attr'[m]) = Num(attr[m]) \/ Num(attr'[m]) = 0
                          /\ shJob[h].pc # "settle" \/ shJob[h].got[m] < 3 \/ Num(attr'[m]) = 0
  PROVE  ThirdIsSettled'
<1> SUFFICES ASSUME NEW m \in Marks, Num(attr'[m]) >= 3
             PROVE  \E i \in ShHandlers : shJob'[i].pc = "settle" /\ shJob'[i].got[m] >= 3
  BY DEF ThirdIsSettled, Num
<1>1. m \in Keys /\ Num(attr[m]) >= 3 /\ (shJob[h].pc # "settle" \/ shJob[h].got[m] < 3)
  BY DEF Marks, Keys
<1>2. PICK i \in ShHandlers : shJob[i].pc = "settle" /\ shJob[i].got[m] >= 3
  BY <1>1 DEF ThirdIsSettled
<1>3. shJob[i].got[m] \in Int
  BY DEF ShTypeOK, Jobs
<1>4. i # h
  BY <1>1, <1>2, <1>3
<1> QED
  BY <1>2, <1>4, OthersKeep

LEMMA ClearedMarks ==
  ASSUME NEW a
  PROVE  /\ \A m \in Marks : Num(Cleared(a)[m]) = 0
         /\ \A k \in Keys \ Marks : Cleared(a)[k] = a[k]
  BY DEF Cleared, Num, Marks, Keys

LEMMA CommandThird ==
  ASSUME ShTypeOK, ThirdIsSettled, NEW h \in ShHandlers, NEW c \in ShSends, ShCommand(h, c)
  PROVE  ThirdIsSettled'
<1>1. shJob[h].pc = "idle"
  BY DEF ShCommand, StHp, DeathSave, Mark, Stat, Set, Del, BuffMod, BuffClr, StClr, LongRest, SlotSet, SlotClr, SlotRest,
         SlotChange, Begin
<1>2. SUFFICES \A m \in Marks : attr'[m] = attr[m] \/ Num(attr'[m]) = 0
  BY <1>1, <1>2, ThirdKept
<1>3. attr \in Sheets
  BY DEF ShTypeOK
<1>4. CASE StHp(h, c)
  BY <1>3, <1>4 DEF StHp, Sheets, Marks, Keys
<1>5. CASE DeathSave(h, c)
  BY <1>5, DeathSaveJob, ClearedMarks
<1>6. CASE Mark(h, c) \/ SlotChange(h, c) \/ SlotSet(h, c) \/ SlotClr(h, c) \/ SlotRest(h, c)
  BY <1>6 DEF Mark, SlotChange, SlotSet, SlotClr, SlotRest
<1>7. CASE Set(h, c)
  BY <1>3, <1>7, SendTypes DEF Set, Begin, Sheets, Marks, Keys
<1>8. CASE Del(h, c)
  BY <1>3, <1>8, SendTypes DEF Del, Begin, Sheets, Marks, Keys, Num
<1>8a. CASE Stat(h, c)
  BY <1>3, <1>8a, AssignedMarks DEF Stat
<1>9. CASE BuffMod(h, c)
  <2>1. c.key \in Keys \ Marks
    BY <1>9, SendTypes DEF BuffMod, Begin, Marks, Keys
  <2> QED
    BY <1>3, <1>9, <2>1 DEF BuffMod, Sheets
<1>10. CASE BuffClr(h, c) \/ StClr(h, c) \/ LongRest(h, c)
  BY <1>3, <1>10 DEF BuffClr, StClr, LongRest, Sheets, Marks, Keys, Num
<1> QED
  BY <1>4, <1>5, <1>6, <1>7, <1>8, <1>8a, <1>9, <1>10 DEF ShCommand

LEMMA StepThird ==
  ASSUME ShTypeOK, ThirdIsSettled, NEW h \in ShHandlers, ShStep(h)
  PROVE  ThirdIsSettled'
<1>1. attr \in Sheets /\ shJob[h] \in Jobs
  BY DEF ShTypeOK
<1>2. CASE Judge(h)
  BY <1>2, ThirdKept, ClearedMarks DEF Judge, At
<1>3. CASE StoreHp(h)
  BY <1>1, <1>3, ThirdKept DEF StoreHp, At, Sheets, Marks, Keys
<1>4. CASE ReadMarks(h)
  <2>1. \A m \in Marks : Num(attr'[m]) = Num(attr[m])
    BY <1>1, <1>4, NumInt, NoneAssumption DEF ReadMarks, Assigned, Sheets, Marks, Keys, Num
  <2> QED
    BY <1>4, <2>1, ThirdKept DEF ReadMarks, At
<1>5. CASE WriteMarks(h)
  <2> SUFFICES ASSUME NEW m \in Marks, Num(attr'[m]) >= 3
               PROVE  \E i \in ShHandlers : shJob'[i].pc = "settle" /\ shJob'[i].got[m] >= 3
    BY DEF ThirdIsSettled, Num
  <2>1. CASE shJob[h].plus[m] # 0
    <3>1. attr'[m] = shJob[h].got[m] /\ shJob[h].got[m] \in Int
      BY <1>1, <1>5, <2>1 DEF WriteMarks, Marks, Keys, Jobs
    <3>2. shJob'[h].pc = "settle" /\ shJob'[h].got = shJob[h].got
      BY <1>5, WriteMarksJob
    <3> QED
      BY <3>1, <3>2, NoneAssumption DEF Num
  <2>2. CASE shJob[h].plus[m] = 0
    <3>1. attr'[m] = attr[m]
      BY <1>5, <2>2 DEF WriteMarks, Marks, Keys
    <3>2. PICK i \in ShHandlers : shJob[i].pc = "settle" /\ shJob[i].got[m] >= 3
      BY <3>1 DEF ThirdIsSettled
    <3>3. i # h
      BY <1>5, <3>2, WriteMarksJob
    <3> QED
      BY <3>2, <3>3, OthersKeep
  <2> QED
    BY <2>1, <2>2
<1>6. CASE Settle(h)
  <2>1. CASE Ended(shJob[h].got)
    BY <1>6, <2>1, ThirdKept, ClearedMarks DEF Settle
  <2>2. CASE ~Ended(shJob[h].got)
    <3>1. \A m \in Marks : shJob[h].got[m] < 3
      BY <1>1, <2>2 DEF Ended, Jobs
    <3> QED
      BY <1>6, <2>2, <3>1, ThirdKept DEF Settle
  <2> QED
    BY <2>1, <2>2
<1>7. CASE Reload(h) \/ Spend(h)
  BY <1>7, ThirdKept DEF Reload, Spend, At
<1> QED
  BY <1>2, <1>3, <1>4, <1>5, <1>6, <1>7 DEF ShStep

\* The type invariant holds, and however commands overlap the marks are below three when all are at rest.
MarksInv == ShTypeOK /\ Shapes /\ ThirdIsSettled

LEMMA NextCases ==
  ASSUME ShNext
  PROVE  \E h \in ShHandlers : ShStep(h) \/ \E c \in ShSends : ShCommand(h, c)
  BY DEF ShNext, ShNextOn

LEMMA MarksStep == MarksInv /\ [ShNext]_shVars => MarksInv'
<1> SUFFICES ASSUME MarksInv, [ShNext]_shVars PROVE MarksInv'
  OBVIOUS
<1>1. CASE ShNext
  BY <1>1, NextCases, CommandTyped, StepTyped, CommandShaped, StepShaped, CommandThird, StepThird DEF MarksInv
<1>2. CASE UNCHANGED shVars
  BY <1>2 DEF MarksInv, ShTypeOK, Shapes, Shape, ThirdIsSettled, shVars, Num
<1> QED
  BY <1>1, <1>2

(***************************************************************************)
(* Without overlap.                                                        *)
(***************************************************************************)
Solo(h) == \A i \in ShHandlers \ {h} : shJob[i].pc = "idle"

LEMMA SoloStep ==
  ASSUME MarksInv, Alone, NEW h \in ShHandlers, ShStep(h), ~shOverlap'
  PROVE  ~shOverlap /\ Solo(h) /\ Solo(h)' /\ shJob[h].pc # "idle"
<1>1. ~shOverlap /\ shJob[h].pc # "idle"
  BY DEF ShStep, Judge, StoreHp, ReadMarks, WriteMarks, Settle, Reload, Spend, At
<1>2. Solo(h)
  BY <1>1 DEF Alone, Solo
<1> QED
  BY <1>1, <1>2, OthersKeep DEF Solo, MarksInv

LEMMA SoloCommand ==
  ASSUME MarksInv, Alone, NEW h \in ShHandlers, NEW c \in ShSends, ShCommand(h, c), ~shOverlap'
  PROVE  ~shOverlap /\ Solo(h)' /\ ShAtRest
<1>1. ~shOverlap /\ ShAtRest
  BY DEF ShCommand, StHp, DeathSave, Mark, Stat, Set, Del, BuffMod, BuffClr, StClr, LongRest, SlotSet, SlotClr, SlotRest,
         SlotChange, Begin, ShAtRest
<1> QED
  BY <1>1, OthersKeep DEF Solo, ShAtRest, MarksInv

LEMMA AloneStep == MarksInv /\ Alone /\ [ShNext]_shVars => Alone'
<1> SUFFICES ASSUME MarksInv, Alone, [ShNext]_shVars, ~shOverlap'
             PROVE  \A h, i \in ShHandlers : shJob'[h].pc # "idle" /\ shJob'[i].pc # "idle" => h = i
  BY DEF Alone
<1>1. CASE ShNext
  <2>1. PICK h \in ShHandlers : ShStep(h) \/ \E c \in ShSends : ShCommand(h, c)
    BY <1>1, NextCases
  <2>2. Solo(h)'
    BY <2>1, SoloStep, SoloCommand
  <2> QED
    BY <2>2 DEF Solo
<1>2. CASE UNCHANGED shVars
  BY <1>2 DEF Alone, shVars
<1> QED
  BY <1>1, <1>2

\* Marks and hit points, for the command that is under way or for none.
NoMark(a) == \A m \in Marks : Num(a[m]) = 0
InPlay(a, j) ==
  /\ j.pc \in {"idle", "judge", "slots", "spend"} => Dying(a)
  /\ j.pc \in {"marks", "write", "settle"} => Num(a["hp"]) <= 0 \/ (NoMark(a) /\ \A m \in Marks : j.plus[m] = 0)
  /\ j.pc = "store" /\ j.hp > 0 => NoMark(a)
Playing == ~shOverlap /\ ~byHand => (ShAtRest => Dying(attr)) /\ \A h \in ShHandlers : shJob[h].pc # "idle" => InPlay(attr, shJob[h])

LEMMA PlayFrom ==
  ASSUME Playing, ~shOverlap, ~byHand, NEW h \in ShHandlers, Solo(h)
  PROVE  InPlay(attr, shJob[h])
<1>1. CASE shJob[h].pc = "idle"
  BY <1>1 DEF Playing, Solo, ShAtRest, InPlay
<1> QED
  BY <1>1 DEF Playing

LEMMA PlayTo ==
  ASSUME NEW h \in ShHandlers, Solo(h)', ~byHand' => InPlay(attr', shJob'[h])
  PROVE  Playing'
  BY DEF Playing, Solo, ShAtRest, InPlay, Dying, NoMark, Num

LEMMA DyingCleared == \A a : Dying(Cleared(a)) /\ NoMark(Cleared(a))
  BY ClearedMarks DEF Dying, NoMark

LEMMA DyingKept ==
  ASSUME NEW a, NEW b, Dying(a), b["hp"] = a["hp"] \/ Num(b["hp"]) = 0, \A m \in Marks : b[m] = a[m] \/ Num(b[m]) = 0
  PROVE  Dying(b)
  BY DEF Dying, Num

LEMMA CommandPlay ==
  ASSUME MarksInv, Alone, Playing, NEW h \in ShHandlers, NEW c \in ShSends, ShCommand(h, c), ~shOverlap'
  PROVE  Playing'
<1>1. ShTypeOK /\ attr \in Sheets /\ ~shOverlap /\ Solo(h)' /\ ShAtRest /\ (~byHand => Dying(attr))
  BY SoloCommand DEF MarksInv, ShTypeOK, Playing
<1>2. SUFFICES ASSUME ~byHand' PROVE InPlay(attr', shJob'[h])
  BY <1>1, <1>2, PlayTo
<1>3. CASE StHp(h, c)
  <2>1. Dying(attr)
    BY <1>1, <1>2, <1>3 DEF StHp
  <2>2. attr'["hp"] = attr["hp"] /\ \A m \in Marks : attr'[m] = attr[m]
    BY <1>1, <1>3 DEF StHp, Sheets, Marks, Keys
  <2> QED
    BY <1>1, <1>3, <2>1, <2>2, DyingKept, StHpJob DEF InPlay
<1>4. CASE DeathSave(h, c)
  <2>1. CASE shJob'[h].pc = "marks"
    BY <1>1, <1>4, <2>1, DeathSaveJob DEF InPlay, Num
  <2>2. CASE shJob'[h].pc = "store"
    BY <1>1, <1>4, <2>2, DeathSaveJob, DyingCleared DEF InPlay
  <2> QED
    BY <1>1, <1>4, <2>1, <2>2, DeathSaveJob
<1>5. CASE Mark(h, c)
  <2>1. c.n = 0 /\ ~byHand /\ attr' = attr
    BY <1>2, <1>5 DEF Mark
  <2>2. Dying(attr) /\ Num(attr["hp"]) \in Int
    BY <1>1, <2>1, SheetNumbers DEF Keys
  <2>3. Num(attr["hp"]) <= 0 \/ NoMark(attr)
    BY <2>2 DEF Dying, NoMark
  <2>4. shJob'[h].pc = "marks" /\ \A m \in Marks : shJob'[h].plus[m] = 0
    BY <1>1, <1>5, <2>1, MarkJob
  <2> QED
    BY <2>1, <2>3, <2>4 DEF InPlay
<1>6. CASE SlotChange(h, c)
  BY <1>1, <1>2, <1>6, SlotChangeJob DEF InPlay, SlotChange
<1>7. CASE AtOnce(h, c)
  <2>1. SUFFICES Dying(attr')
    BY <1>1, <1>7, <2>1, AtOnceJob DEF InPlay
  <2>2. CASE StClr(h, c)
    BY <2>2 DEF StClr, Dying, Num, Marks, Keys
  <2>3. CASE ~StClr(h, c)
    <3>1. ~byHand /\ Dying(attr)
      <4>1. CASE Set(h, c) \/ LongRest(h, c)
        BY <1>1, <1>2, <4>1 DEF Set, LongRest
      <4>2. CASE Stat(h, c) \/ Del(h, c) \/ BuffMod(h, c) \/ BuffClr(h, c) \/ SlotSet(h, c) \/ SlotClr(h, c) \/ SlotRest(h, c)
        <5>1. byHand' = byHand
          BY <4>2, Zenon DEF Stat, Del, BuffMod, BuffClr, SlotSet, SlotClr, SlotRest
        <5> QED
          BY <1>1, <1>2, <5>1
      <4> QED
        BY <1>7, <2>3, <4>1, <4>2 DEF AtOnce
    <3>2. SUFFICES /\ attr'["hp"] = attr["hp"] \/ Num(attr'["hp"]) = 0
                   /\ \A m \in Marks : attr'[m] = attr[m] \/ Num(attr'[m]) = 0
      BY <3>1, <3>2, DyingKept
    <3>3. CASE Set(h, c)
      BY <1>1, <1>2, <3>3, SendTypes DEF Set, Begin, Sheets, Marks, Keys
    <3>4. CASE Del(h, c)
      BY <1>1, <3>4, SendTypes DEF Del, Begin, Sheets, Marks, Keys, Num
    <3>4a. CASE Stat(h, c)
      BY <1>1, <3>4a, AssignedMarks DEF Stat
    <3>5. CASE BuffMod(h, c)
      <4>1. c.key \in {"$buff_hp", "$buff_hpmax"}
        BY <3>5, SendTypes DEF BuffMod, Begin
      <4> QED
        BY <1>1, <3>5, <4>1 DEF BuffMod, Sheets, Marks, Keys
    <3>6. CASE BuffClr(h, c)
      BY <1>1, <3>6 DEF BuffClr, Sheets, Marks, Keys
    <3>7. CASE LongRest(h, c) \/ SlotSet(h, c) \/ SlotClr(h, c) \/ SlotRest(h, c)
      BY <1>2, <3>7 DEF LongRest, SlotSet, SlotClr, SlotRest
    <3> QED
      BY <1>7, <2>3, <3>3, <3>4, <3>4a, <3>5, <3>6, <3>7 DEF AtOnce
  <2> QED
    BY <2>2, <2>3
<1> QED
  BY <1>3, <1>4, <1>5, <1>6, <1>7 DEF ShCommand, AtOnce

LEMMA MarksRead ==
  ASSUME ShTypeOK, NEW h, ReadMarks(h)
  PROVE  \A k \in Keys : Num(attr'[k]) = Num(attr[k])
  BY NumInt, NoneAssumption DEF ShTypeOK, ReadMarks, Assigned, Sheets, Marks, Keys, Num

\* The hit points that .st changed are the card's while it is judged.
Judging == ~shOverlap => \A h \in ShHandlers : shJob[h].pc = "judge" => shJob[h].old = Num(attr["hp"])

LEMMA StepPlay ==
  ASSUME MarksInv, Alone, Judging, Playing, NEW h \in ShHandlers, ShStep(h), ~shOverlap'
  PROVE  Playing'
<1> DEFINE j == shJob[h]  k == shJob'[h]
<1>1. ShTypeOK /\ attr \in Sheets /\ j \in Jobs /\ ~shOverlap /\ Solo(h)' /\ (~byHand => InPlay(attr, j))
  BY SoloStep, PlayFrom DEF MarksInv, ShTypeOK
<1>2. SUFFICES ASSUME ~byHand' PROVE InPlay(attr', k)
  BY <1>1, <1>2, PlayTo
<1>3. Num(attr["hp"]) \in Int /\ \A m \in Marks : Num(attr[m]) \in Int
  BY <1>1, SheetNumbers DEF Marks, Keys
<1>4. CASE Judge(h)
  <2>1. CASE k.pc = "marks"
    <3>1. j.old = 0 /\ attr' = attr /\ j.old = Num(attr["hp"])
      BY <1>1, <1>4, <2>1, JudgeJob DEF Judging, Judge, At
    <3> QED
      BY <2>1, <3>1 DEF InPlay
  <2>2. CASE k.pc = "store"
    BY <1>1, <1>4, <2>2, JudgeJob, DyingCleared DEF InPlay
  <2> QED
    BY <1>1, <1>4, <2>1, <2>2, JudgeJob
<1>5. CASE StoreHp(h)
  <2>1. j.pc = "store" /\ k.pc = "idle" /\ ~byHand /\ attr' = [attr EXCEPT !["hp"] = j.hp] /\ j.hp \in Int
    BY <1>1, <1>2, <1>5, StoreHpJob, IdleShaped DEF StoreHp, Jobs
  <2>2. Num(attr'["hp"]) = j.hp /\ \A m \in Marks : attr'[m] = attr[m]
    BY <1>1, <2>1, NoneAssumption DEF Sheets, Marks, Keys, Num
  <2> QED
    BY <1>1, <2>1, <2>2 DEF InPlay, Dying, NoMark
<1>6. CASE ReadMarks(h)
  <2>1. ~byHand /\ \A key \in Keys : Num(attr'[key]) = Num(attr[key])
    BY <1>1, <1>2, <1>6, MarksRead DEF ReadMarks
  <2>2. Num(attr'["hp"]) = Num(attr["hp"]) /\ (NoMark(attr') <=> NoMark(attr))
    BY <2>1 DEF NoMark, Marks, Keys
  <2>3. Num(attr["hp"]) <= 0 \/ (NoMark(attr) /\ \A m \in Marks : j.plus[m] = 0)
    BY <1>1, <1>6, <2>1, ReadMarksJob DEF InPlay
  <2>4. k.pc = "write" /\ k.plus = j.plus
    BY <1>1, <1>6, ReadMarksJob
  <2> QED
    BY <2>2, <2>3, <2>4 DEF InPlay
<1>7. CASE WriteMarks(h)
  <2>1. ~byHand /\ j.pc = "write" /\ k.pc = "settle" /\ k.plus = j.plus
    BY <1>1, <1>2, <1>7, WriteMarksJob DEF WriteMarks
  <2>2. attr'["hp"] = attr["hp"] /\ \A m \in Marks : j.plus[m] = 0 => attr'[m] = attr[m]
    BY <1>1, <1>7 DEF WriteMarks, Sheets, Marks, Keys
  <2>3. CASE Num(attr["hp"]) <= 0
    BY <2>1, <2>2, <2>3 DEF InPlay
  <2>4. CASE NoMark(attr) /\ \A m \in Marks : j.plus[m] = 0
    BY <2>1, <2>2, <2>4 DEF InPlay, NoMark
  <2> QED
    BY <1>1, <2>1, <2>3, <2>4 DEF InPlay
<1>8. CASE Settle(h)
  <2>1. CASE Ended(j.got)
    <3>1. attr' = Cleared(attr)
      BY <1>8, <2>1 DEF Settle
    <3> QED
      BY <1>1, <1>8, <3>1, SettleJob, DyingCleared, IdleShaped DEF InPlay
  <2>2. CASE ~Ended(j.got)
    <3>1. ~byHand /\ attr' = attr /\ j.pc = "settle" /\ j.hp = 0
      BY <1>1, <1>2, <1>8, <2>2, SettleJob DEF Settle, MarksInv, Shapes, Shape
    <3>2. Dying(attr)
      BY <1>1, <1>3, <3>1 DEF InPlay, Dying, NoMark
    <3> QED
      BY <1>1, <1>8, <3>1, <3>2, SettleJob, IdleShaped DEF InPlay
  <2> QED
    BY <2>1, <2>2
<1>9. CASE Reload(h) \/ Spend(h)
  <2>1. UNCHANGED <<attr, byHand>>
    BY <1>9, Zenon DEF Reload, Spend
  <2>2. j.pc \in {"slots", "spend"} /\ k.pc \in {"idle", "slots", "spend"}
    <3>1. CASE Reload(h)
      BY <1>1, <3>1, ReloadJob, IdleShaped
    <3>2. CASE Spend(h)
      BY <1>1, <3>2, SpendJob, IdleShaped
    <3> QED
      BY <1>9, <3>1, <3>2
  <2> QED
    BY <1>1, <1>2, <2>1, <2>2 DEF InPlay
<1> QED
  BY <1>4, <1>5, <1>6, <1>7, <1>8, <1>9 DEF ShStep

(***************************************************************************)
(* Slots.                                                                  *)
(***************************************************************************)
InSpend(s, j) == j.pc = "spend" => 0 <= j.to /\ j.to <= Num(s[Head(j.left).level].max)
Spending == ~shOverlap => InRange(slot) /\ \A h \in ShHandlers : InSpend(slot, shJob[h])

LEMMA SpendTo ==
  ASSUME NEW h \in ShHandlers, Solo(h)', InRange(slot'), InSpend(slot', shJob'[h])
  PROVE  Spending'
  BY DEF Spending, Solo, InSpend, InRange, Num

LEMMA RangeKept ==
  ASSUME slot \in Slots, InRange(slot), slot' \in Slots,
         \A l \in Levels : \/ slot'[l] = slot[l]
                           \/ Num(slot'[l].cur) = 0 /\ Num(slot'[l].max) = 0
                           \/ slot'[l].cur = slot'[l].max /\ slot'[l].max = slot[l].max
                           \/ slot'[l].cur \in Nat /\ slot'[l].max = slot'[l].cur
  PROVE  InRange(slot')
<1> SUFFICES ASSUME NEW l \in Levels PROVE 0 <= Num(slot'[l].cur) /\ Num(slot'[l].cur) <= Num(slot'[l].max)
  BY DEF InRange, Num
<1>1. Num(slot[l].cur) \in Int /\ Num(slot[l].max) \in Int /\ 0 <= Num(slot[l].cur) /\ Num(slot[l].cur) <= Num(slot[l].max)
  BY NumInt DEF InRange, Slots
<1> QED
  BY <1>1, NoneAssumption DEF Num

LEMMA CommandSpend ==
  ASSUME MarksInv, ShTypeOK', Alone, Spending, NEW h \in ShHandlers, NEW c \in ShSends, ShCommand(h, c), ~shOverlap'
  PROVE  Spending'
<1>1. ShTypeOK /\ slot \in Slots /\ slot' \in Slots /\ InRange(slot) /\ Solo(h)'
  BY SoloCommand DEF MarksInv, ShTypeOK, Spending
<1>2. shJob'[h].pc # "spend"
  <2>1. CASE AtOnce(h, c)
    BY <1>1, <2>1, AtOnceJob
  <2> QED
    BY <1>1, <2>1, StHpJob, DeathSaveJob, MarkJob, SlotChangeJob DEF ShCommand, AtOnce
<1>3. InRange(slot')
  <2>1. CASE SlotSet(h, c)
    <3>1. c.to \in [Levels -> Nat \cup {None}]
      BY <2>1, SendTypes DEF SlotSet, Begin
    <3> QED
      BY <1>1, <2>1, <3>1, RangeKept DEF SlotSet
  <2>2. CASE SlotClr(h, c) \/ StClr(h, c)
    BY <1>1, <2>2, RangeKept DEF SlotClr, StClr, NoSlot, Num
  <2>3. CASE SlotRest(h, c) \/ LongRest(h, c)
    BY <1>1, <2>3, RangeKept DEF SlotRest, LongRest, Renew
  <2>4. CASE slot' = slot
    BY <1>1, <2>4
  <2> QED
    BY <2>1, <2>2, <2>3, <2>4 DEF ShCommand, StHp, DeathSave, Mark, Stat, Set, Del, BuffMod, BuffClr, SlotChange
<1> QED
  BY <1>1, <1>2, <1>3, SpendTo DEF InSpend

LEMMA StepSpend ==
  ASSUME MarksInv, ShTypeOK', Alone, Spending, NEW h \in ShHandlers, ShStep(h), ~shOverlap'
  PROVE  Spending'
<1> DEFINE j == shJob[h]  k == shJob'[h]  l == Head(j.left).level
<1>1. /\ ShTypeOK /\ slot \in Slots /\ slot' \in Slots /\ InRange(slot) /\ InSpend(slot, j) /\ Solo(h)'
      /\ j \in Jobs /\ Shape(j)
  BY SoloStep DEF MarksInv, ShTypeOK, Shapes, Spending
<1>2. CASE Reload(h)
  <2>1. j.pc = "slots" /\ l \in Levels /\ Head(j.left).num \in Int /\ slot' = slot
    BY <1>1, <1>2, ReloadJob, NextChange DEF Reload
  <2>2. Num(slot[l].cur) \in Int /\ Num(slot[l].max) \in Int /\ 0 <= Num(slot[l].cur) /\ Num(slot[l].cur) <= Num(slot[l].max)
    BY <1>1, <2>1, NumInt DEF InRange, Slots
  <2>3. InSpend(slot, k)
    <3>1. CASE k = ShIdle
      BY <3>1, IdleShaped DEF InSpend
    <3>2. CASE /\ ~(Num(slot[l].cur) + Head(j.left).num < 0) /\ k.pc = "spend" /\ k.left = j.left
               /\ k.to = Least(Num(slot[l].cur) + Head(j.left).num, Num(slot[l].max))
      BY <2>1, <2>2, <3>2 DEF InSpend, Least
    <3> QED
      BY <1>1, <1>2, <3>1, <3>2, ReloadJob, Zenon
  <2> QED
    BY <1>1, <2>1, <2>3, SpendTo
<1>3. CASE Spend(h)
  <2>1. j.pc = "spend" /\ k.pc # "spend"
    BY <1>1, <1>3, SpendJob, IdleShaped
  <2>2. l \in Levels /\ j.to \in Int /\ slot' = [slot EXCEPT ![l].cur = j.to]
    BY <1>1, <1>3, <2>1, NextChange DEF Spend, Jobs
  <2>3. /\ \A m \in Levels \ {l} : slot'[m] = slot[m]
        /\ slot'[l].cur = j.to /\ slot'[l].max = slot[l].max
    BY <1>1, <2>2 DEF Slots
  <2>4. InRange(slot')
    BY <1>1, <2>1, <2>2, <2>3, NoneAssumption DEF InRange, InSpend, Num
  <2> QED
    BY <1>1, <2>1, <2>4, SpendTo DEF InSpend
<1>4. CASE ~(Reload(h) \/ Spend(h))
  <2>1. slot' = slot
    BY <1>4, Zenon DEF ShStep, Judge, StoreHp, ReadMarks, WriteMarks, Settle
  <2>2. k.pc # "spend"
    <3>1. CASE Settle(h)
      BY <1>1, <3>1, SettleJob, IdleShaped
    <3> QED
      BY <1>1, <1>4, <3>1, JudgeJob, ReadMarksJob, WriteMarksJob, StoreHpJob, IdleShaped DEF ShStep
  <2> QED
    BY <1>1, <2>1, <2>2, SpendTo DEF InSpend
<1> QED
  BY <1>2, <1>3, <1>4

(***************************************************************************)
(* Damage.                                                                 *)
(***************************************************************************)
\* What a .st hp+n or .st hp-n has done to the card so far, and is to do.
InBlow(a, j) ==
  LET s == Soaked(j.was, j.cmd)
      hit == Num(j.was["hp"]) + j.cmd.sign * (j.cmd.n - s)
  IN /\ Num(a["$buff_hp"]) = Num(j.was["$buff_hp"]) - s
     /\ j.pc = "judge" => /\ j.old = Num(a["hp"]) /\ j.new = hit
                          /\ a["hpmax"] = j.was["hpmax"] /\ a["$buff_hpmax"] = j.was["$buff_hpmax"]
     /\ j.pc # "judge" /\ j.cmd.sign = -1 /\ Proper(j.was) => j.hp = Most(0, hit)
Blows == ~shOverlap => \A h \in ShHandlers : shJob[h].pc # "idle" /\ shJob[h].cmd.op = "st" => InBlow(attr, shJob[h])

LEMMA StCommandType ==
  ASSUME NEW c \in ShCommands \cup {ShIdle.cmd}, c.op = "st"
  PROVE  c.sign \in Signs /\ c.n \in Nat /\ c.direct \in BOOLEAN
  BY IdleShaped DEF ShCommands

LEMMA SoakedBounds ==
  ASSUME NEW a \in Sheets, NEW c, c.n \in Nat
  PROVE  /\ Soaked(a, c) \in Int /\ 0 <= Soaked(a, c) /\ Soaked(a, c) <= c.n
         /\ Soaked(a, c) # 0 => Soaked(a, c) <= Num(a["$buff_hp"])
<1>1. "$buff_hp" \in Keys
  BY DEF Keys
<1>2. CASE c.direct \/ c.sign = 1 \/ Num(a["$buff_hp"]) <= 0
  BY <1>2 DEF Soaked
<1>3. CASE ~(c.direct \/ c.sign = 1 \/ Num(a["$buff_hp"]) <= 0)
  <2>1. Soaked(a, c) = Least(a["$buff_hp"], c.n)
    BY <1>3 DEF Soaked
  <2>2. Num(a["$buff_hp"]) \in Int /\ Num(a["$buff_hp"]) > 0 /\ a["$buff_hp"] = Num(a["$buff_hp"])
    BY <1>1, <1>3, SheetNumbers
  <2> QED
    BY <2>1, <2>2 DEF Least
<1> QED
  BY <1>2, <1>3

LEMMA BlowsJudging == MarksInv /\ Blows => Judging
  BY DEF MarksInv, Shapes, Shape, Blows, InBlow, Judging

LEMMA BlowTo ==
  ASSUME NEW h \in ShHandlers, Solo(h)', shJob'[h].pc # "idle" /\ shJob'[h].cmd.op = "st" => InBlow(attr', shJob'[h])
  PROVE  Blows'
<1>1. ASSUME NEW i \in ShHandlers, shJob'[i].pc # "idle", shJob'[i].cmd.op = "st" PROVE InBlow(attr', shJob'[i])
  BY <1>1 DEF Solo
<1> QED
  BY <1>1 DEF Blows, InBlow, Soaked, Proper, Capped, Limit, Num

LEMMA CommandBlow ==
  ASSUME MarksInv, Alone, NEW h \in ShHandlers, NEW c \in ShSends, ShCommand(h, c), ~shOverlap'
  PROVE  Blows'
<1>1. ShTypeOK /\ attr \in Sheets /\ Solo(h)'
  BY SoloCommand DEF MarksInv, ShTypeOK
<1>2. CASE StHp(h, c)
  <2> DEFINE k == shJob'[h]  s == Soaked(attr, c)  t == Num(attr["$buff_hp"])
  <2>1. /\ c.op = "st" /\ k.pc = "judge" /\ k.cmd = c /\ k.was = attr /\ k.old = Num(attr["hp"])
        /\ k.new = Num(attr["hp"]) + c.sign * (c.n - s)
    BY <1>1, <1>2, StHpJob
  <2>2. c.n \in Nat /\ t \in Int /\ s \in Int /\ 0 <= s /\ (s # 0 => s <= t)
    BY <1>1, <2>1, SendTypes, SoakedBounds, SheetNumbers DEF Keys
  <2>3. /\ attr'["hp"] = attr["hp"] /\ attr'["hpmax"] = attr["hpmax"] /\ attr'["$buff_hpmax"] = attr["$buff_hpmax"]
        /\ attr'["$buff_hp"] = IF s = 0 THEN attr["$buff_hp"] ELSE IF t > s THEN t - s ELSE None
    BY <1>1, <1>2 DEF StHp, Sheets, Keys
  <2>4. Num(attr'["$buff_hp"]) = t - s
    <3>1. CASE s = 0
      BY <2>2, <2>3, <3>1
    <3>2. CASE s # 0 /\ t > s
      BY <2>2, <2>3, <3>2, NoneAssumption DEF Num
    <3>3. CASE s # 0 /\ ~(t > s)
      BY <2>2, <2>3, <3>3 DEF Num
    <3> QED
      BY <3>1, <3>2, <3>3
  <2>5. InBlow(attr', k)
    BY <2>1, <2>3, <2>4 DEF InBlow
  <2> QED
    BY <1>1, <2>5, BlowTo
<1>3. CASE AtOnce(h, c)
  BY <1>1, <1>3, AtOnceJob, BlowTo
<1>4. CASE DeathSave(h, c) \/ Mark(h, c) \/ SlotChange(h, c)
  <2>1. shJob'[h].cmd.op # "st"
    BY <1>1, <1>4, DeathSaveJob, MarkJob, SlotChangeJob
  <2> QED
    BY <1>1, <2>1, BlowTo
<1> QED
  BY <1>2, <1>3, <1>4 DEF ShCommand, AtOnce

LEMMA StepBlow ==
  ASSUME MarksInv, Alone, Blows, NEW h \in ShHandlers, ShStep(h), ~shOverlap'
  PROVE  Blows'
<1> DEFINE j == shJob[h]  k == shJob'[h]
<1>1. ShTypeOK /\ attr \in Sheets /\ j \in Jobs /\ Shape(j) /\ Solo(h)' /\ (j.cmd.op = "st" => InBlow(attr, j))
  BY SoloStep DEF MarksInv, ShTypeOK, Shapes, Blows
<1>2. SUFFICES ASSUME k.pc # "idle", k.cmd.op = "st" PROVE InBlow(attr', k)
  BY <1>1, <1>2, BlowTo
<1>3. CASE Judge(h)
  <2> DEFINE s == Soaked(j.was, j.cmd)  hit == Num(j.was["hp"]) + j.cmd.sign * (j.cmd.n - s)
  <2>1. j.pc = "judge" /\ j.cmd.op = "st" /\ j.hp = 0 /\ k.cmd = j.cmd /\ k.was = j.was /\ k.pc \in {"marks", "store"}
    BY <1>1, <1>3, JudgeJob DEF Judge, At, Shape
  <2>2. attr'["$buff_hp"] = attr["$buff_hp"]
    BY <1>3, ClearedMarks DEF Judge, Keys, Marks
  <2>3. ASSUME j.cmd.sign = -1, Proper(j.was) PROVE k.hp = Most(0, hit)
    <3>1. j.new = hit /\ Limit(attr) = Limit(j.was) /\ (Capped(attr) <=> Capped(j.was))
      BY <1>1, <2>1 DEF InBlow, Limit, Capped
    <3>2. j.was \in Sheets /\ j.cmd.n \in Nat
      BY <1>1, <2>1, StCommandType DEF Jobs
    <3>3. Num(j.was["hp"]) \in Int /\ Limit(j.was) \in Int /\ s \in Int /\ 0 <= s /\ s <= j.cmd.n
      BY <3>2, SoakedBounds, SheetNumbers DEF Limit, Keys
    <3> HIDE DEF s
    <3>4. hit \in Int /\ hit <= Num(j.was["hp"])
      BY <2>3, <3>2, <3>3
    <3>5. Capped(attr) => hit <= Limit(attr)
      BY <2>3, <3>1, <3>3, <3>4 DEF Proper
    <3>6. CASE hit <= 0
      BY <1>1, <1>3, <2>1, <3>1, <3>4, <3>6, JudgeJob DEF Most
    <3>7. CASE ~(hit <= 0)
      <4>1. k.pc = "store" /\ k.hp = IF Capped(attr) THEN Least(hit, Limit(attr)) ELSE hit
        BY <1>1, <1>3, <2>1, <3>1, <3>7, JudgeJob
      <4> QED
        BY <3>1, <3>3, <3>4, <3>5, <3>7, <4>1 DEF Most, Least
    <3> QED
      BY <3>6, <3>7
  <2> QED
    BY <1>1, <2>1, <2>2, <2>3 DEF InBlow
<1>4. CASE ReadMarks(h) \/ WriteMarks(h) \/ Settle(h)
  <2>1. j.pc \in {"marks", "write", "settle"} /\ k.pc # "judge" /\ k.cmd = j.cmd /\ k.was = j.was /\ k.hp = j.hp
    BY <1>1, <1>2, <1>4, ReadMarksJob, WriteMarksJob, SettleJob, IdleShaped
  <2>2. attr'["$buff_hp"] = attr["$buff_hp"]
    <3>1. CASE Settle(h)
      BY <3>1, ClearedMarks DEF Settle, Keys, Marks
    <3> QED
      BY <1>4, <3>1 DEF ReadMarks, Assigned, WriteMarks, Keys, Marks
  <2>3. k.cmd.op = "st" /\ InBlow(attr, j)
    BY <1>1, <1>2, <2>1
  <2> QED
    BY <2>1, <2>2, <2>3 DEF InBlow
<1>5. CASE StoreHp(h)
  BY <1>1, <1>2, <1>5, StoreHpJob, IdleShaped
<1>6. CASE Reload(h) \/ Spend(h)
  <2>1. attr' = attr /\ j.pc \in {"slots", "spend"}
    BY <1>6 DEF Reload, Spend, At
  <2>2. k.pc # "judge" /\ k.cmd = j.cmd /\ k.was = j.was /\ k.hp = j.hp
    BY <1>1, <1>2, <1>6, ReloadJob, SpendJob, IdleShaped
  <2> QED
    BY <1>1, <1>2, <2>1, <2>2 DEF InBlow
<1> QED
  BY <1>3, <1>4, <1>5, <1>6 DEF ShStep

(***************************************************************************)
(* Theorems.                                                               *)
(***************************************************************************)
SheetInv == MarksInv /\ Alone /\ Playing /\ Spending /\ Blows

LEMMA InitSheet == ShInit => SheetInv
<1> SUFFICES ASSUME ShInit PROVE SheetInv
  OBVIOUS
<1>1. MarksInv
  BY InitTyped, InitShaped DEF MarksInv
<1>2. \A h \in ShHandlers : shJob[h].pc = "idle"
  BY IdleShaped DEF ShInit
<1>3. Dying(attr) /\ InRange(slot)
  BY DEF ShInit
<1> QED
  BY <1>1, <1>2, <1>3 DEF SheetInv, Alone, Playing, Spending, InSpend, Blows

LEMMA SheetStep == SheetInv /\ [ShNext]_shVars => SheetInv'
<1> SUFFICES ASSUME SheetInv, [ShNext]_shVars PROVE SheetInv'
  OBVIOUS
<1>1. MarksInv /\ Alone /\ Playing /\ Spending /\ Blows /\ Judging /\ MarksInv' /\ Alone' /\ ShTypeOK'
  BY MarksStep, AloneStep, BlowsJudging DEF SheetInv, MarksInv
<1>2. CASE ShNext /\ ~shOverlap'
  <2>1. PICK h \in ShHandlers : ShStep(h) \/ \E c \in ShSends : ShCommand(h, c)
    BY <1>2, NextCases
  <2>2. CASE ShStep(h)
    BY <1>1, <1>2, <2>2, StepPlay, StepSpend, StepBlow DEF SheetInv
  <2>3. CASE \E c \in ShSends : ShCommand(h, c)
    BY <1>1, <1>2, <2>3, CommandPlay, CommandSpend, CommandBlow DEF SheetInv
  <2> QED
    BY <2>1, <2>2, <2>3
<1>3. CASE shOverlap'
  BY <1>1, <1>3 DEF SheetInv, Playing, Spending, Blows
<1>4. CASE UNCHANGED shVars
  <2>1. shOverlap' = shOverlap /\ byHand' = byHand /\ attr' = attr /\ slot' = slot /\ shJob' = shJob
    BY <1>4 DEF shVars
  <2>2. Playing'
    BY <1>1, <2>1 DEF Playing, ShAtRest, InPlay, Dying, NoMark, Num
  <2>3. Spending'
    BY <1>1, <2>1 DEF Spending, InRange, InSpend, Num
  <2>4. Blows'
    BY <1>1, <2>1 DEF Blows, InBlow, Soaked, Proper, Capped, Limit, Num
  <2> QED
    BY <1>1, <2>2, <2>3, <2>4 DEF SheetInv
<1> QED
  BY <1>2, <1>3, <1>4

LEMMA SheetSound == SheetInv => ShSound
<1> SUFFICES ASSUME SheetInv PROVE ShSound
  OBVIOUS
<1>1. ShTypeOK /\ attr \in Sheets
  BY DEF SheetInv, MarksInv, ShTypeOK
<1>2. MarksBelowThree
  <2> SUFFICES ASSUME ShAtRest, NEW m \in Marks PROVE Num(attr[m]) < 3
    BY DEF MarksBelowThree
  <2>1. Num(attr[m]) \in Int
    BY <1>1, SheetNumbers DEF Marks, Keys
  <2>2. ~(Num(attr[m]) >= 3)
    BY DEF SheetInv, MarksInv, ThirdIsSettled, ShAtRest
  <2> QED
    BY <2>1, <2>2
<1>3. MarksMeanDying /\ SlotsInRange
  BY DEF SheetInv, Playing, Spending, MarksMeanDying, SlotsInRange
<1> QED
  BY <1>1, <1>2, <1>3 DEF ShSound

\* However commands interleave: the types, no third mark outlives its command (deathSavingResultCheck), and, as long as
\* commands have not overlapped, only the dying have marks and slots are within their limits (spellSlotsChange).
THEOREM SheetIsSound == ShSpec => []ShSound
<1>1. SheetInv /\ [ShNext]_shVars => SheetInv'
  BY SheetStep
<1> QED
  BY InitSheet, <1>1, SheetSound, PTL DEF ShSpec

LEMMA DamageStep ==
  ASSUME SheetInv, NEW h \in ShHandlers, ShStep(h),
         Blow(h), ~shOverlap', Proper(shJob[h].was)
  PROVE  Taken(shJob[h].cmd, shJob[h].was)
<1> DEFINE j == shJob[h]  hp == Num(j.was["hp"])  t == Num(j.was["$buff_hp"])  s == Soaked(j.was, j.cmd)
<1>1. /\ ~shOverlap /\ ShTypeOK /\ attr \in Sheets /\ j \in Jobs
      /\ j.pc = "store" /\ j.cmd.op = "st" /\ j.cmd.sign = -1 /\ Proper(j.was)
  BY SoloStep DEF SheetInv, MarksInv, ShTypeOK, Blow
<1>2. InBlow(attr, j)
  BY <1>1 DEF SheetInv, Blows
<1>3. attr' = [attr EXCEPT !["hp"] = j.hp]
  BY <1>1 DEF ShStep, Judge, StoreHp, ReadMarks, WriteMarks, Settle, Reload, Spend, At
<1>4. j.was \in Sheets /\ j.cmd.n \in Nat
  BY <1>1, StCommandType DEF Jobs
<1>5. hp \in Int /\ t \in Int /\ s \in Int /\ 0 <= s /\ s <= j.cmd.n /\ hp >= 0 /\ t >= 0
  BY <1>1, <1>4, SoakedBounds, SheetNumbers DEF Proper, Keys
<1>6. attr'["hp"] = Most(0, hp - (j.cmd.n - s)) /\ Num(attr'["$buff_hp"]) = t - s
  <2>1. attr'["hp"] = j.hp /\ attr'["$buff_hp"] = attr["$buff_hp"]
    BY <1>1, <1>3 DEF Sheets, Keys
  <2>2. hp + j.cmd.sign * (j.cmd.n - s) = hp - (j.cmd.n - s)
    BY <1>1, <1>4, <1>5
  <2> QED
    BY <1>1, <1>2, <2>1, <2>2 DEF InBlow
<1>7. CASE j.cmd.direct \/ t <= 0
  <2>1. s = 0
    BY <1>7 DEF Soaked
  <2> QED
    BY <1>4, <1>5, <1>6, <1>7, <2>1 DEF Taken, Most
<1>8. CASE ~j.cmd.direct /\ t > 0
  <2>1. j.was["$buff_hp"] = t /\ s = Least(t, j.cmd.n)
    BY <1>1, <1>4, <1>5, <1>8, SheetNumbers DEF Soaked, Keys
  <2> QED
    BY <1>4, <1>5, <1>6, <1>8, <2>1 DEF Taken, Most, Least
<1> QED
  BY <1>5, <1>7, <1>8

\* Whatever the numbers, a .st hp-n that no other command overlaps takes n from hit points and temporary ones together,
\* or all there was, and with --over from the hit points alone (ToMod, ToModResult and the store after them).
THEOREM DamageIsAccounted == ShSpec => DamageAccounted
<1> DEFINE Told(h) == Blow(h) /\ ~shOverlap' /\ Proper(shJob[h].was) => Taken(shJob[h].cmd, shJob[h].was)
<1>1. SheetInv /\ [ShNext]_shVars => [\A h \in ShHandlers : Told(h)]_shVars
  <2> SUFFICES ASSUME SheetInv, ShNext, NEW h \in ShHandlers, Blow(h), ~shOverlap', Proper(shJob[h].was)
               PROVE  Taken(shJob[h].cmd, shJob[h].was)
    OBVIOUS
  <2>1. PICK i \in ShHandlers : ShStep(i) \/ \E c \in ShSends : ShCommand(i, c)
    BY NextCases
  <2>2. i = h
    BY <2>1, OthersKeep DEF SheetInv, MarksInv, Blow
  <2>3. shJob[h].pc # "idle"
    BY DEF Blow
  <2>4. ShStep(h)
    BY <2>1, <2>2, <2>3 DEF ShCommand, StHp, DeathSave, Mark, Stat, Set, Del, BuffMod, BuffClr, StClr, LongRest, SlotSet, SlotClr,
                            SlotRest, SlotChange, Begin
  <2> QED
    BY <2>4, DamageStep
<1>2. SheetInv /\ [ShNext]_shVars => SheetInv'
  BY SheetStep
<1> QED
  BY InitSheet, <1>1, <1>2, PTL DEF ShSpec, DamageAccounted
-----------------------------------------------------------------------------
(***************************************************************************)
(* CocChecks: a roll has the rank its rule's text gives it, and what the   *)
(* commands answer follows.                                                *)
(***************************************************************************)
RuleNumbers == (0..5) \cup {11}
Rolls == 1..100
Ranks == {-2, -1, 1, 2, 3, 4}

\* Division by a number, as the inequalities the solver needs.
LEMMA Halves ==
  ASSUME NEW v \in Nat
  PROVE  /\ v \div 2 \in Nat /\ 2 * (v \div 2) <= v /\ v < 2 * (v \div 2) + 2
         /\ v \div 5 \in Nat /\ 5 * (v \div 5) <= v /\ v < 5 * (v \div 5) + 5
         /\ v \div 10 \in Nat /\ 10 * (v \div 10) <= v /\ v < 10 * (v \div 10) + 10
  OBVIOUS

LEMMA Fives ==
  ASSUME NEW v \in Nat, NEW d \in Nat
  PROVE  /\ d <= v \div 5 <=> 5 * d <= v
         /\ d <= v \div 2 <=> 2 * d <= v
         /\ d <= v \div 10 <=> 10 * d <= v
  BY Halves

LEMMA SameDigitsEnds == SameDigits(100) /\ SameDigits(1) \in BOOLEAN
  BY DEF SameDigits

LEMMA LevelRank ==
  ASSUME NEW d, NEW v, NEW check, NEW critical, NEW fumble
  PROVE  Level(d, v, check, critical, fumble) \in Ranks
  BY DEF Level, Ranks

LEMMA RankType ==
  ASSUME NEW r, NEW d, NEW v, NEW require
  PROVE  ResultCheckBase(r, d, v, require) \in Ranks
  BY LevelRank DEF ResultCheckBase, Ranks

\* A roll without a required level.
LEMMA RankRuled ==
  ASSUME NEW r \in RuleNumbers, NEW d \in Rolls, NEW v \in Nat, v < 99
  PROVE  ResultCheckBase(r, d, v, 0) = Ruled(r, d, v)
<1> DEFINE critical == CriticalValue(r, v)  fumble == FumbleValue(r, v, v)
<1>1. CheckVal(v, 0) = v
  BY DEF CheckVal
<1>2. /\ v \div 2 \in Nat /\ v \div 5 \in Nat /\ v \div 10 \in Nat
      /\ (d <= v \div 5 <=> 5 * d <= v) /\ (d <= v \div 2 <=> 2 * d <= v) /\ (d <= v \div 10 <=> 10 * d <= v)
  BY Halves, Fives DEF Rolls
<1>3. CASE r = 0
  BY <1>1, <1>2, <1>3 DEF ResultCheckBase, Level, CriticalValue, FumbleValue, Ruled, RuledCritical, RuledFumble, Rolls
<1>4. CASE r = 1
  BY <1>1, <1>2, <1>4 DEF ResultCheckBase, Level, CriticalValue, FumbleValue, Ruled, RuledCritical, RuledFumble, Rolls
<1>5. CASE r = 2
  BY <1>1, <1>2, <1>5 DEF ResultCheckBase, Level, CriticalValue, FumbleValue, Ruled, RuledCritical, RuledFumble, Rolls, Smaller
<1>6. CASE r = 3
  BY <1>1, <1>2, <1>6 DEF ResultCheckBase, Level, CriticalValue, FumbleValue, Ruled, RuledCritical, RuledFumble, Rolls
<1>7. CASE r = 4
  BY <1>1, <1>2, <1>7, Halves DEF ResultCheckBase, Level, CriticalValue, FumbleValue, Ruled, RuledCritical, RuledFumble, Rolls, Smaller
<1>8. CASE r = 5
  BY <1>1, <1>2, <1>8 DEF ResultCheckBase, Level, CriticalValue, FumbleValue, Ruled, RuledCritical, RuledFumble, Rolls, Smaller
<1>9. CASE r = 11
  BY <1>1, <1>2, <1>9, SameDigitsEnds DEF ResultCheckBase, Level, CriticalValue, FumbleValue, Ruled, RuledCritical, RuledFumble, Rolls
<1> QED
  BY <1>3, <1>4, <1>5, <1>6, <1>7, <1>8, <1>9 DEF RuleNumbers

\* A roll that must be hard, extreme or critical passes when its rank without that is as high.
LEMMA RequireRuled ==
  ASSUME NEW r \in 0..5, NEW d \in Rolls, NEW v \in Nat, v < 99, NEW require \in 2..4
  PROVE  Passes(ResultCheckBase(r, d, v, require), require) <=> Passes(Ruled(r, d, v), require)
<1> DEFINE ranked(n) == ResultCheckBase(r, d, v, n)
<1>1. /\ v \div 2 \in Nat /\ v \div 5 \in Nat /\ v \div 5 <= v \div 2 /\ v \div 2 <= v
      /\ CheckVal(v, 0) = v
      /\ CheckVal(v, require) = IF require = 2 THEN v \div 2 ELSE IF require = 3 THEN v \div 5 ELSE 1
  BY Halves DEF CheckVal
<1>2. CriticalValue(r, v) \in Int
  BY Halves DEF CriticalValue, Smaller
<1>3. \A n \in {0, require} : FumbleValue(r, v, CheckVal(v, n)) >= 96 /\ FumbleValue(r, v, CheckVal(v, n)) \in Int
  BY <1>1, Halves DEF FumbleValue, Smaller
<1>4. Passes(ranked(require), require) <=> Passes(ranked(0), require)
  <2>1. \A n \in {0, require} : ranked(n) \in Ranks
    BY RankType
  <2>2. CASE (r = 0 /\ d = 100) \/ (r \in {0, 1, 2} /\ d = 1) \/ (r = 3 /\ d >= 96)
    BY <2>2 DEF ResultCheckBase, FumbleValue
  <2>3. CASE ~((r = 0 /\ d = 100) \/ (r \in {0, 1, 2} /\ d = 1) \/ (r = 3 /\ d >= 96))
    <3>1. \A n \in {0, require} : ranked(n) = Level(d, v, CheckVal(v, n), CriticalValue(r, v), FumbleValue(r, v, CheckVal(v, n)))
      BY <2>3 DEF ResultCheckBase, FumbleValue
    <3>2. CASE d <= CriticalValue(r, v)
      BY <3>1, <3>2 DEF Level
    <3>3. CASE ~(d <= CriticalValue(r, v))
      BY <1>1, <3>1, <3>3 DEF Level, Passes, Rolls
    <3> QED
      BY <3>2, <3>3
  <2> QED
    BY <2>2, <2>3
<1> QED
  BY <1>4, RankRuled DEF RuleNumbers

\* From 6 to 95 a roll succeeds exactly when the skill covers it.
LEMMA MiddleRolls ==
  ASSUME NEW r \in RuleNumbers, NEW d \in 6..95, NEW v \in Nat
  PROVE  ResultCheckBase(r, d, v, 0) <= 0 <=> d > v
<1>1. CheckVal(v, 0) = v
  BY DEF CheckVal
<1>2. CriticalValue(r, v) \in Int /\ CriticalValue(r, v) <= 5
  BY Halves DEF CriticalValue, Smaller
<1>3. FumbleValue(r, v, v) \in Int /\ (r = 3 => FumbleValue(r, v, v) = 96)
  BY Halves DEF FumbleValue, Smaller
<1>4. LET level == Level(d, v, v, CriticalValue(r, v), FumbleValue(r, v, v)) IN level \in Ranks /\ (level <= 0 <=> d > v)
  <2>1. Level(d, v, v, CriticalValue(r, v), FumbleValue(r, v, v)) \in Ranks
    BY LevelRank
  <2>2. ~(d <= CriticalValue(r, v))
    BY <1>2
  <2> QED
    BY <2>1, <2>2 DEF Level
<1> HIDE DEF RuleNumbers
<1> QED
  BY <1>1, <1>3, <1>4 DEF ResultCheckBase, Ranks

(***************************************************************************)
(* Commands.                                                               *)
(***************************************************************************)
CocTypeOK == rule \in Rules /\ skill \in Nat \cup {Absent} /\ san \in Nat
CocInv == CocTypeOK /\ CheckAsRuled

LEMMA CocSendTypes ==
  ASSUME NEW c \in CocSends
  PROVE  /\ c.op = "ra" => c.d \in Rolls /\ c.v \in Nat /\ c.require \in 0..4
         /\ c.op = "rav" => c.a \in Checks /\ c.b \in Checks
         /\ c.op = "sc" => /\ c.d \in Rolls /\ c.given \in Nat \cup {Absent} /\ c.cap \in Nat
                           /\ c.loss \in [success : Nat, failure : Nat, worst : Nat]
         /\ c.op = "en" => c.items \in Seq([d : Rolls, given : Nat \cup {Absent}, gain : Nat, lose : Nat])
<1>1. c \in CocCommands
  BY CocSendsAssumption
<1> QED
  BY <1>1 DEF CocCommands, Rolls

LEMMA RuleKept ==
  ASSUME CocTypeOK, NEW c
  PROVE  RuleOf(c) \in RuleNumbers /\ rule \in RuleNumbers
  BY RulesAssumption DEF CocTypeOK, RuleOf, RuleNumbers

LEMMA RaStep ==
  ASSUME CocInv, NEW c \in CocSends, Ra(c)
  PROVE  CocInv'
<1>1. told' = [op |-> "ra", cmd |-> c, rule |-> RuleOf(c), answer |-> ResultCheckBase(RuleOf(c), c.d, c.v, c.require)]
  BY DEF Ra, Answered
<1>2. c.d \in Rolls /\ c.v \in Nat /\ c.require \in 0..4 /\ RuleOf(c) \in RuleNumbers
  BY CocSendTypes, RuleKept DEF Ra, CocInv
<1>3. CocTypeOK'
  BY DEF Ra, Answered, CocInv, CocTypeOK
<1>4. ASSUME c.v < 99, c.require = 0 PROVE ResultCheckBase(RuleOf(c), c.d, c.v, c.require) = Ruled(RuleOf(c), c.d, c.v)
  BY <1>2, <1>4, RankRuled
<1>5. ASSUME c.v < 99, c.require > 1, RuleOf(c) # 11
      PROVE  Passes(ResultCheckBase(RuleOf(c), c.d, c.v, c.require), c.require) <=> Passes(Ruled(RuleOf(c), c.d, c.v), c.require)
  <2>1. RuleOf(c) \in 0..5 /\ c.require \in 2..4
    BY <1>2, <1>5 DEF RuleNumbers
  <2> QED
    BY <1>2, <1>5, <2>1, RequireRuled
<1>6. RankAsRuled'
  BY <1>1, <1>4, <1>5, Zenon DEF RankAsRuled
<1>7. OpposedFair' /\ SanityTold' /\ GrowthAsRuled'
  BY <1>1 DEF OpposedFair, SanityTold, GrowthAsRuled
<1> QED
  BY <1>3, <1>6, <1>7 DEF CocInv, CheckAsRuled

\* The opposed check without the ranks' computation: who passes, and by how much.
LEMMA OpposedCases ==
  ASSUME NEW r, NEW a \in Checks, NEW b \in Checks, NEW p \in Ranks, NEW q \in Ranks,
         p = ResultCheckBase(r, a.d, a.v, 0), q = ResultCheckBase(r, b.d, b.v, 0)
  PROVE  /\ Opposed(r, b, a) = -Opposed(r, a, b)
         /\ Opposed(r, a, b) < 0 => Passes(p, a.require) /\ (Passes(q, b.require) => p >= q)
         /\ Opposed(r, a, b) > 0 => Passes(q, b.require) /\ (Passes(p, a.require) => q >= p)
         /\ Opposed(r, a, b) \in {-1, 0, 1}
<1>1. a.d \in Int /\ b.d \in Int /\ p \in Int /\ q \in Int
  BY DEF Checks, Ranks
<1>2. /\ Opposed(r, a, b) = CASE Passes(p, a.require) /\ Passes(q, b.require) ->
                                   IF p # q THEN Sign(q - p) ELSE IF r = 11 THEN Sign(a.d - b.d) ELSE 0
                              [] Passes(p, a.require) /\ ~Passes(q, b.require) -> -1
                              [] ~Passes(p, a.require) /\ Passes(q, b.require) -> 1
                              [] OTHER -> 0
      /\ Opposed(r, b, a) = CASE Passes(q, b.require) /\ Passes(p, a.require) ->
                                   IF q # p THEN Sign(p - q) ELSE IF r = 11 THEN Sign(b.d - a.d) ELSE 0
                              [] Passes(q, b.require) /\ ~Passes(p, a.require) -> -1
                              [] ~Passes(q, b.require) /\ Passes(p, a.require) -> 1
                              [] OTHER -> 0
  BY DEF Opposed
<1>3. CASE Passes(p, a.require) /\ Passes(q, b.require)
  BY <1>1, <1>2, <1>3 DEF Sign
<1>4. CASE ~(Passes(p, a.require) /\ Passes(q, b.require))
  BY <1>2, <1>4
<1> QED
  BY <1>3, <1>4

LEMMA RavStep ==
  ASSUME CocInv, NEW c \in CocSends, Rav(c)
  PROVE  CocInv'
<1> DEFINE r == RuleOf(c)  win == Opposed(r, c.a, c.b)
<1>1. told' = [op |-> "rav", cmd |-> c, rule |-> r, answer |-> win]
  BY DEF Rav, Answered
<1>2. c.a \in Checks /\ c.b \in Checks /\ r \in RuleNumbers
  BY CocSendTypes, RuleKept DEF Rav, CocInv
<1>3. CocTypeOK'
  BY DEF Rav, Answered, CocInv, CocTypeOK
<1>4. ASSUME c.a.v < 99, c.b.v < 99
      PROVE  /\ Opposed(r, c.b, c.a) = -win
             /\ win < 0 => /\ Passes(Ruled(r, c.a.d, c.a.v), c.a.require)
                           /\ Passes(Ruled(r, c.b.d, c.b.v), c.b.require) => Ruled(r, c.a.d, c.a.v) >= Ruled(r, c.b.d, c.b.v)
             /\ win > 0 => /\ Passes(Ruled(r, c.b.d, c.b.v), c.b.require)
                           /\ Passes(Ruled(r, c.a.d, c.a.v), c.a.require) => Ruled(r, c.b.d, c.b.v) >= Ruled(r, c.a.d, c.a.v)
             /\ win \in {-1, 0, 1}
  <2>1. \A x \in Checks : x.v < 99 => ResultCheckBase(r, x.d, x.v, 0) = Ruled(r, x.d, x.v) /\ ResultCheckBase(r, x.d, x.v, 0) \in Ranks
    BY <1>2, RankRuled, RankType DEF Checks, Rolls
  <2> HIDE DEF r
  <2> QED
    BY <1>2, <1>4, <2>1, OpposedCases
<1>5. OpposedFair'
  <2> HIDE DEF r
  <2>1. SUFFICES ASSUME c.a.v < 99, c.b.v < 99
        PROVE LET rank(x) == Ruled(r, x.d, x.v)  winner == IF win < 0 THEN c.a ELSE c.b  loser == IF win < 0 THEN c.b ELSE c.a
              IN /\ Opposed(r, c.b, c.a) = -win
                 /\ win # 0 => /\ Passes(rank(winner), winner.require)
                               /\ Passes(rank(loser), loser.require) => rank(winner) >= rank(loser)
    BY <1>1, <2>1, Zenon DEF OpposedFair
  <2> HIDE DEF win
  <2>2. CASE win < 0
    BY <1>4, <2>1, <2>2
  <2>3. CASE win > 0
    BY <1>4, <2>1, <2>3
  <2>4. CASE win = 0
    BY <1>4, <2>1, <2>4
  <2> QED
    BY <1>4, <2>1, <2>2, <2>3, <2>4
<1>6. RankAsRuled' /\ SanityTold' /\ GrowthAsRuled'
  BY <1>1 DEF RankAsRuled, SanityTold, GrowthAsRuled
<1> QED
  BY <1>3, <1>5, <1>6 DEF CocInv, CheckAsRuled

LEMMA ScStep ==
  ASSUME CocInv, NEW c \in CocSends, Sc(c)
  PROVE  CocInv'
<1> DEFINE old == IF c.given = Absent THEN san ELSE c.given
           loss == Loss(c, ResultCheckBase(rule, c.d, old, 0))
           new == Larger(0, old - loss)
           crazy == IF new = 0 THEN "permanent" ELSE IF loss >= 5 THEN "temporary" ELSE "no"
<1>1. told' = [op |-> "sc", cmd |-> c, rule |-> rule, answer |-> [old |-> old, new |-> new, crazy |-> crazy]] /\ san' = new
  BY DEF Sc, Answered
<1>2. /\ c.given \in Nat \cup {Absent} /\ c.cap \in Nat
      /\ c.loss.success \in Nat /\ c.loss.failure \in Nat /\ c.loss.worst \in Nat
  BY CocSendTypes DEF Sc
<1>3. old \in Nat
  BY <1>2 DEF CocInv, CocTypeOK
<1>4. loss \in Nat /\ (c.cap > 0 => loss <= c.cap)
  BY <1>2 DEF Loss, Smaller
<1> HIDE DEF old, loss
<1>5. new \in Nat /\ new <= old /\ (new # 0 => new = old - loss)
  BY <1>3, <1>4 DEF Larger
<1>6. CocTypeOK'
  BY <1>1, <1>5 DEF Sc, Answered, CocInv, CocTypeOK
<1>7. SanityTold'
  <2>1. old - new <= loss
    BY <1>3, <1>4, <1>5 DEF Larger
  <2> HIDE DEF new
  <2>2. /\ 0 <= new /\ new <= old
        /\ c.cap > 0 => old - new <= c.cap
        /\ (crazy = "permanent" <=> new = 0) /\ (new > 0 /\ old - new >= 5 => crazy = "temporary")
    BY <1>2, <1>3, <1>4, <1>5, <2>1
  <2> HIDE DEF crazy
  <2> QED
    BY <1>1, <2>2 DEF SanityTold
<1>8. RankAsRuled' /\ OpposedFair' /\ GrowthAsRuled'
  BY <1>1 DEF RankAsRuled, OpposedFair, GrowthAsRuled
<1> QED
  BY <1>6, <1>7, <1>8 DEF CocInv, CheckAsRuled

LEMMA GrowStep ==
  ASSUME CocInv, NEW c \in CocSends, Grow(c)
  PROVE  CocInv'
<1> DEFINE entered == {i \in DOMAIN c.items : Old(c.items[i]) # Absent}
           answer == [i \in entered |-> [old |-> Old(c.items[i]), new |-> Grown(c.items[i])]]
<1>1. c.op = "en" /\ told' = [op |-> "en", cmd |-> c, rule |-> rule, answer |-> answer] /\ san' = san /\ rule' = rule
  BY DEF Grow, Answered
<1>2. ASSUME NEW i \in entered
      PROVE  /\ c.items[i].d \in Rolls /\ c.items[i].gain \in Nat /\ c.items[i].lose \in Nat
             /\ Old(c.items[i]) \in Nat /\ Grown(c.items[i]) \in Nat
  <2>1. c.items[i] \in [d : Rolls, given : Nat \cup {Absent}, gain : Nat, lose : Nat]
    <3> DEFINE S == [d : Rolls, given : Nat \cup {Absent}, gain : Nat, lose : Nat]
    <3>1. c.items \in Seq(S)
      BY <1>1, CocSendTypes
    <3>2. i \in 1..Len(c.items)
      BY <3>1, LenProperties
    <3> HIDE DEF S
    <3>3. c.items[i] \in S
      BY <3>1, <3>2, ElementOfSeq
    <3> QED
      BY <3>3 DEF S
  <2>2. Old(c.items[i]) \in Nat
    BY <2>1, ScoresAssumption DEF Old, CocInv, CocTypeOK
  <2> QED
    BY <2>1, <2>2 DEF Grown
<1>3. CocTypeOK'
  <2>1. skill' \in Nat \cup {Absent}
    BY <1>2 DEF Grow, CocInv, CocTypeOK
  <2> QED
    BY <1>1, <2>1 DEF CocInv, CocTypeOK
<1>4. ASSUME NEW i \in entered, c.items[i].d > 5
      PROVE  Grown(c.items[i]) = Old(c.items[i]) + IF c.items[i].d > Old(c.items[i]) \/ c.items[i].d > 95
                                                   THEN c.items[i].gain ELSE c.items[i].lose
  <2>1. c.items[i].d > 95 \/ c.items[i].d \in 6..95
    BY <1>2, <1>4 DEF Rolls
  <2>2. rule \in RuleNumbers
    BY RuleKept DEF CocInv
  <2> QED
    BY <1>2, <2>1, <2>2, MiddleRolls DEF Grown, Grows
<1>5. GrowthAsRuled'
  BY <1>1, <1>4, Zenon DEF GrowthAsRuled
<1>6. RankAsRuled' /\ OpposedFair' /\ SanityTold'
  BY <1>1 DEF RankAsRuled, OpposedFair, SanityTold
<1> QED
  BY <1>3, <1>5, <1>6 DEF CocInv, CheckAsRuled

\* Every answer of .ra, .rc, .rav, .rcv, .sc and .en is what the rule in force says (ResultCheckBase and the commands
\* that use it), for all rolls and skills below 99, whatever the card holds and the commands before were.
THEOREM ChecksAreRuled == CocSpec => []CheckAsRuled
<1>1. CocInit => CocInv
  BY ScoresAssumption DEF CocInit, CocInv, CocTypeOK, CheckAsRuled, RankAsRuled, OpposedFair, SanityTold, GrowthAsRuled, Nothing
<1>2. CocInv /\ [CocNext]_cocVars => CocInv'
  <2> SUFFICES ASSUME CocInv, [CocNext]_cocVars PROVE CocInv'
    OBVIOUS
  <2>1. CASE CocNext
    BY <2>1, RaStep, RavStep, ScStep, GrowStep DEF CocNext, CocNextOn
  <2>2. CASE UNCHANGED cocVars
    BY <2>2 DEF cocVars, CocInv, CocTypeOK, CheckAsRuled, RankAsRuled, OpposedFair, SanityTold, GrowthAsRuled
  <2> QED
    BY <2>1, <2>2
<1>3. CocInv => CheckAsRuled
  BY DEF CocInv
<1> QED
  BY <1>1, <1>2, <1>3, PTL DEF CocSpec
-----------------------------------------------------------------------------
(***************************************************************************)
(* StCommand: conversions between any number of systems.                   *)
(***************************************************************************)
\* While the card was only converted, a safe attribute of the first card is under its name in the
\* system of the last conversion, and the others are under names it never has.
Follows(n) ==
  /\ sheet.attrs[Alias[by][n]] = first.attrs[n]
  /\ \E others \in SUBSET Names :
       /\ Closed(others) /\ \A s \in Systems : Alias[s][n] \notin others
       /\ \A m \in Names \ {Alias[by][n]} : sheet.attrs[m] # Missing => m \in others
StInv ==
  /\ StTypeOK /\ Canonical(first.type, first.attrs)
  /\ edits = 0 => \A n \in Names : first.attrs[n] # Missing /\ Safe(n) => Follows(n)

LEMMA AliasType == \A s \in Systems, n \in Names : Alias[s][n] \in Names /\ Alias[s][Alias[s][n]] = Alias[s][n]
  BY NamesAssumption

\* A conversion chooses the last value of each name.
LEMMA FormatsFacts ==
  ASSUME NEW s \in Systems, NEW a \in [Names -> Int \cup {Missing}], NEW r \in Formats(s, a)
  PROVE  /\ r \in [Names -> Int \cup {Missing}]
         /\ \E w \in SUBSET Moving(s, a) :
              /\ \A k \in Moving(s, a) : \E m \in w : Alias[s][m] = Alias[s][k]
              /\ \A n \in Names : IF \E m \in w : Alias[s][m] = n THEN \E m \in w : Alias[s][m] = n /\ r[n] = a[m] ELSE r[n] = Missing
<1>1. PICK w \in SUBSET Moving(s, a) :
        /\ \A k \in Moving(s, a) : \E m \in w : Alias[s][m] = Alias[s][k]
        /\ r = [n \in Names |-> IF \E m \in w : Alias[s][m] = n THEN a[CHOOSE m \in w : Alias[s][m] = n] ELSE Missing]
  BY DEF Formats
<1>2. w \subseteq Names
  BY DEF Moving
<1>3. ASSUME NEW n \in Names
      PROVE  IF \E m \in w : Alias[s][m] = n THEN \E m \in w : Alias[s][m] = n /\ r[n] = a[m] ELSE r[n] = Missing
  <2>1. CASE \E m \in w : Alias[s][m] = n
    <3> DEFINE c == CHOOSE m \in w : Alias[s][m] = n
    <3>1. c \in w /\ Alias[s][c] = n
      BY <2>1
    <3>2. r[n] = a[c]
      BY <1>1, <2>1
    <3>3. QED
      BY <2>1, <3>1, <3>2
  <2>2. CASE ~\E m \in w : Alias[s][m] = n
    BY <1>1, <2>2
  <2>3. QED
    BY <2>1, <2>2
<1>4. \A n \in Names : r[n] \in Int \cup {Missing}
  BY <1>2, <1>3
<1>5. r \in [Names -> Int \cup {Missing}]
  BY <1>1, <1>4
<1>6. QED
  BY <1>1, <1>3, <1>5

\* A conversion by the template of t keeps what is safe.
LEMMA FormatsKeep ==
  ASSUME StTypeOK, NEW t \in Systems, NEW r \in Formats(t, sheet.attrs), NEW n \in Names, first.attrs[n] # Missing, Safe(n), Follows(n)
  PROVE  /\ r[Alias[t][n]] = first.attrs[n]
         /\ \E others \in SUBSET Names :
              /\ Closed(others) /\ \A s \in Systems : Alias[s][n] \notin others
              /\ \A m \in Names \ {Alias[t][n]} : r[m] # Missing => m \in others
<1> DEFINE a == sheet.attrs
           p == Alias[by][n]
           q == Alias[t][n]
<1>1. by \in Systems /\ a \in [Names -> Int \cup {Missing}]
  BY DEF StTypeOK, Cards
<1>2. p \in Names /\ q \in Names
  BY <1>1, AliasType
<1>3. Alias[t][p] = q /\ a[p] = first.attrs[n] /\ a[p] # Default[t][q]
  BY <1>1 DEF Safe, Follows
<1>4. PICK others \in SUBSET Names :
        /\ \A s \in Systems : \A m \in others : Alias[s][m] \in others
        /\ \A s \in Systems : Alias[s][n] \notin others
        /\ \A m \in Names \ {p} : a[m] # Missing => m \in others
  BY DEF Follows, Closed
<1>5. PICK w \in SUBSET Moving(t, a) :
        /\ \A k \in Moving(t, a) : \E m \in w : Alias[t][m] = Alias[t][k]
        /\ \A k \in Names : IF \E m \in w : Alias[t][m] = k THEN \E m \in w : Alias[t][m] = k /\ r[k] = a[m] ELSE r[k] = Missing
  BY <1>1, FormatsFacts
<1>6. p \in Moving(t, a)
  BY <1>2, <1>3 DEF Moving
<1>7. \A m \in w : m = p \/ (m \in others /\ Alias[t][m] \in others)
  BY <1>4, <1>5 DEF Moving
<1>8. q \notin others
  BY <1>4
<1> HIDE DEF a, p, q
<1>9. \E m \in w : Alias[t][m] = q
  BY <1>3, <1>5, <1>6
<1>10. r[q] = a[p]
  <2>1. PICK m \in w : Alias[t][m] = q /\ r[q] = a[m]
    BY <1>2, <1>5, <1>9
  <2>2. QED
    BY <1>7, <1>8, <2>1
<1>11. ASSUME NEW k \in Names \ {q}, r[k] # Missing PROVE k \in others
  <2>1. PICK m \in w : Alias[t][m] = k
    BY <1>5, <1>11
  <2>2. QED
    BY <1>3, <1>7, <2>1
<1>12. QED
  BY <1>3, <1>4, <1>10, <1>11 DEF q, Closed

LEMMA StInitInv == StInit => StInv
<1> SUFFICES ASSUME StInit PROVE StInv
  OBVIOUS
<1>1. PICK s \in Systems, a \in [Names -> Typed \cup {Missing}] : Canonical(s, a) /\ sheet = [type |-> s, attrs |-> a] /\ by = s
  BY DEF StInit
<1>2. system \in Systems /\ answers = system /\ first = sheet /\ edits = 0 /\ stRan = 0
  BY DEF StInit
<1>3. a \in [Names -> Int \cup {Missing}]
  BY NamesAssumption
<1>4. sheet \in Cards /\ sheet.attrs = a
  BY <1>1, <1>3 DEF Cards
<1>5. StTypeOK
  BY <1>1, <1>2, <1>4, MaxStAssumption DEF StTypeOK
<1>6. ASSUME NEW n \in Names, first.attrs[n] # Missing, Safe(n) PROVE Follows(n)
  <2>1. Alias[by][n] = n
    BY <1>1, <1>2, <1>4, <1>6 DEF Canonical
  <2>2. QED
    BY <1>2, <1>6, <2>1 DEF Safe, Follows
<1>7. QED
  BY <1>1, <1>2, <1>4, <1>5, <1>6 DEF StInv

\* The names and numbers of commands are such.
LEMMA FormatTyped ==
  ASSUME StTypeOK, NEW t \in Systems, NEW r \in Formats(t, sheet.attrs)
  PROVE  r \in [Names -> Int \cup {Missing}]
<1>1. sheet.attrs \in [Names -> Int \cup {Missing}]
  BY DEF StTypeOK, Cards
<1>2. QED
  BY <1>1, FormatsFacts

LEMMA RealType ==
  ASSUME NEW s \in Systems, NEW a \in [Names -> Int \cup {Missing}], NEW n \in Names
  PROVE  Real(s, a, n) \in Int
<1>1. a[n] \in Int \cup {Missing} /\ Default[s][n] \in Int \cup {Missing}
  BY NamesAssumption
<1>2. QED
  BY <1>1 DEF Real

\* A command that changes a value; one that only converts.
LEMMA EditStep ==
  ASSUME StInv, Edited, Counted, sheet' \in Cards, by' \in Systems, UNCHANGED <<system, answers>>
  PROVE  StInv'
<1>1. edits < MaxEdits /\ edits' = edits + 1 /\ stRan < MaxSt /\ stRan' = stRan + 1 /\ first' = first
  BY DEF Edited, Counted
<1>2. edits \in 0..MaxEdits /\ stRan \in 0..MaxSt /\ MaxEdits \in Nat /\ MaxSt \in Nat
  BY MaxStAssumption DEF StTypeOK, StInv
<1>3. edits' \in 0..MaxEdits /\ stRan' \in 0..MaxSt /\ edits' # 0
  BY <1>1, <1>2
<1>4. StTypeOK'
  BY <1>1, <1>3 DEF StTypeOK, StInv
<1>5. QED
  BY <1>1, <1>3, <1>4 DEF StInv, Canonical

LEMMA FormatStep ==
  ASSUME StInv, NEW t \in Systems, Format(t), Counted, UNCHANGED <<system, answers, edits>>
  PROVE  StInv'
<1>1. PICK r \in Formats(t, sheet.attrs) : sheet' = [type |-> system, attrs |-> r]
  BY DEF Format
<1>2. by' = t /\ stRan < MaxSt /\ stRan' = stRan + 1 /\ first' = first
  BY DEF Format, Counted
<1>3. StTypeOK
  BY DEF StInv
<1>4. stRan' \in 0..MaxSt
  <2>1. stRan \in 0..MaxSt /\ MaxSt \in Nat
    BY <1>3, MaxStAssumption DEF StTypeOK
  <2>2. QED
    BY <1>2, <2>1
<1>5. sheet' \in Cards /\ sheet'.attrs = r
  BY <1>1, <1>3, FormatTyped DEF Cards, StTypeOK
<1>6. StTypeOK'
  BY <1>2, <1>3, <1>4, <1>5 DEF StTypeOK
<1>7. ASSUME edits' = 0, NEW n \in Names, (first.attrs[n] # Missing)', Safe(n)'
      PROVE  Follows(n)'
  <2>1. first.attrs[n] # Missing /\ Safe(n) /\ edits = 0
    BY <1>2, <1>7 DEF Safe
  <2>2. Follows(n)
    BY <2>1 DEF StInv
  <2>3. /\ r[Alias[t][n]] = first.attrs[n]
        /\ \E others \in SUBSET Names :
             /\ Closed(others) /\ \A s \in Systems : Alias[s][n] \notin others
             /\ \A m \in Names \ {Alias[t][n]} : r[m] # Missing => m \in others
    BY <1>3, <2>1, <2>2, FormatsKeep
  <2>4. QED
    BY <1>2, <1>5, <2>3 DEF Follows
<1>8. QED
  BY <1>2, <1>6, <1>7 DEF StInv, Canonical

\* A change of the group's.
LEMMA GroupStep ==
  ASSUME StInv, Counted, UNCHANGED <<sheet, edits, by>>, system' \in Systems, answers' \in Systems
  PROVE  StInv'
<1>1. first' = first /\ stRan < MaxSt /\ stRan' = stRan + 1
  BY DEF Counted
<1>2. StTypeOK
  BY DEF StInv
<1>3. stRan' \in 0..MaxSt
  <2>1. stRan \in 0..MaxSt /\ MaxSt \in Nat
    BY <1>2, MaxStAssumption DEF StTypeOK
  <2>2. QED
    BY <1>1, <2>1
<1>4. StTypeOK'
  BY <1>1, <1>2, <1>3 DEF StTypeOK
<1>5. QED
  BY <1>1, <1>4 DEF StInv, Safe, Follows, Canonical

LEMMA StStep == StInv /\ [StNext]_stVars => StInv'
<1> SUFFICES ASSUME StInv, [StNext]_stVars PROVE StInv'
  OBVIOUS
<1>1. StTypeOK /\ system \in Systems /\ answers \in Systems /\ by \in Systems
  BY DEF StInv, StTypeOK
<1>2. Templates \subseteq Systems
  BY <1>1, SystemsAssumption DEF Templates, Template
<1>3. Typed \subseteq Int /\ sheet.attrs \in [Names -> Int \cup {Missing}] /\ sheet.type \in Systems \cup {Untyped}
  BY <1>1, NamesAssumption DEF StTypeOK, Cards
<1>4. ASSUME NEW t \in Templates, StBadText(t) \/ StFmt(t) PROVE StInv'
  BY <1>2, <1>4, FormatStep DEF StBadText, StFmt
<1>5. ASSUME NEW t \in Templates, NEW n \in Names, StDel(t, n) PROVE StInv'
  <2>1. sheet' = [sheet EXCEPT !.attrs[Alias[t][n]] = Missing] /\ by' = by
    BY <1>5 DEF StDel
  <2>2. [sheet.attrs EXCEPT ![Alias[t][n]] = Missing] \in [Names -> Int \cup {Missing}]
    BY <1>3
  <2>3. sheet' = [type |-> sheet.type, attrs |-> [sheet.attrs EXCEPT ![Alias[t][n]] = Missing]]
    BY <1>1, <2>1 DEF StTypeOK, Cards
  <2>4. sheet' \in Cards
    BY <1>3, <2>2, <2>3 DEF Cards
  <2>5. QED
    BY <1>1, <1>5, <2>1, <2>4, EditStep DEF StDel
<1>6. ASSUME NEW t \in Templates, NEW n \in Names, NEW v \in Typed, StSet(t, n, v) PROVE StInv'
  <2>1. PICK r \in Formats(t, sheet.attrs) : sheet' = [type |-> t, attrs |-> SetItem(t, r, Alias[t][n], v)]
    BY <1>6 DEF StSet
  <2>2. r \in [Names -> Int \cup {Missing}]
    BY <1>1, <1>2, FormatTyped
  <2>3. SetItem(t, r, Alias[t][n], v) \in [Names -> Int \cup {Missing}]
    BY <1>3, <2>2 DEF SetItem
  <2>4. sheet' \in Cards
    BY <1>2, <2>1, <2>3 DEF Cards
  <2>5. QED
    BY <1>1, <1>2, <1>6, <2>4, EditStep DEF StSet
<1>7. ASSUME NEW t \in Templates, NEW n \in Names, NEW v \in Typed, StMod(t, n, v) PROVE StInv'
  <2> DEFINE c == Alias[t][n]
  <2>1. PICK r \in Formats(t, sheet.attrs) : sheet' = [type |-> t, attrs |-> [r EXCEPT ![c] = Real(t, r, c) + v]]
    BY <1>7 DEF StMod
  <2>2. r \in [Names -> Int \cup {Missing}] /\ c \in Names
    BY <1>1, <1>2, FormatTyped, AliasType
  <2> HIDE DEF c
  <2>3. Real(t, r, c) + v \in Int
    BY <1>2, <1>3, <2>2, RealType
  <2>4. [r EXCEPT ![c] = Real(t, r, c) + v] \in [Names -> Int \cup {Missing}]
    BY <2>2, <2>3
  <2>5. sheet' \in Cards
    BY <1>2, <2>1, <2>4 DEF Cards
  <2>6. QED
    BY <1>1, <1>2, <1>7, <2>5, EditStep DEF StMod
<1>8. ASSUME NEW n \in Names, NEW v \in Typed, En(n, v) PROVE StInv'
  <2>1. PICK r \in Formats(system, sheet.attrs) : sheet' = [type |-> system, attrs |-> [r EXCEPT ![n] = v]]
    BY <1>8 DEF En
  <2>2. r \in [Names -> Int \cup {Missing}]
    BY <1>1, FormatTyped
  <2>3. [r EXCEPT ![n] = v] \in [Names -> Int \cup {Missing}]
    BY <1>3, <2>2
  <2>4. sheet' \in Cards
    BY <1>1, <2>1, <2>3 DEF Cards
  <2>5. QED
    BY <1>1, <1>8, <2>4, EditStep DEF En
<1>9. ASSUME StClear PROVE StInv'
  <2>1. sheet' \in Cards
    BY <1>9 DEF StClear, Cards
  <2>2. QED
    BY <1>1, <1>9, <2>1, EditStep DEF StClear
<1>10. ASSUME Check PROVE StInv'
  BY <1>1, <1>10, FormatStep DEF Check
<1>11. ASSUME NEW s \in Systems, StSystem(s) \/ StExtOn(s) PROVE StInv'
  BY <1>1, <1>11, GroupStep DEF StSystem, StExtOn
<1>12. CASE UNCHANGED stVars
  <2>1. UNCHANGED <<system, answers, sheet, stRan, first, edits, by>>
    BY <1>12 DEF stVars
  <2>2. QED
    BY <2>1 DEF StInv, StTypeOK, Safe, Follows, Canonical
<1>13. QED
  BY <1>4, <1>5, <1>6, <1>7, <1>8, <1>9, <1>10, <1>11, <1>12 DEF StNext

\* However often the systems are switched and a card is converted between them, any number of them
\* with any templates, its safe attributes read as they did.
THEOREM ConversionReadsSame == StSpec => []StSound
<1>1. StInv => StSound
  <2> SUFFICES ASSUME StInv, edits = 0, by = first.type, NEW n \in Names, first.attrs[n] # Missing, Safe(n)
               PROVE  Real(first.type, sheet.attrs, n) = first.attrs[n]
    BY DEF StSound, StInv, ConvertedReadsSame
  <2>1. Follows(n)
    BY DEF StInv
  <2>2. Alias[first.type][n] = n
    BY DEF StInv, Canonical
  <2>3. QED
    BY <2>1, <2>2 DEF Follows, Real
<1>2. QED
  BY <1>1, StInitInv, StStep, PTL DEF StSpec
-----------------------------------------------------------------------------
(***************************************************************************)
(* The initiative list.  Sorting and filtering a list put what is at some  *)
(* of its positions where a rank says: a rank that tells the positions     *)
(* apart, and counts within their number, reaches every place.             *)
(***************************************************************************)
\* A set with a member more has more members.
LEMMA Fewer ==
  ASSUME NEW T, IsFiniteSet(T), NEW S \in SUBSET T, NEW x \in T \ S
  PROVE  Cardinality(S) \in Nat /\ Cardinality(T) \in Nat /\ Cardinality(S) < Cardinality(T)
<1>1. IsFiniteSet(S) /\ Cardinality(S) <= Cardinality(T) /\ (Cardinality(S) = Cardinality(T) => S = T)
  BY FS_Subset
<1>2. Cardinality(S) \in Nat /\ Cardinality(T) \in Nat
  BY <1>1, FS_CardinalityType
<1>3. QED
  BY <1>1, <1>2

LEMMA FirstCount ==
  ASSUME NEW n \in Nat
  PROVE  IsFiniteSet(1..n) /\ Cardinality(1..n) = n
<1>1. IsFiniteSet(1..n) /\ Cardinality(1..n) = IF 1 > n THEN 0 ELSE n - 1 + 1
  BY FS_Interval
<1>2. QED
  BY <1>1

\* Every place has a position.
LEMMA EveryPlace ==
  ASSUME NEW I, IsFiniteSet(I), NEW rank \in [I -> 1..Cardinality(I)], \A i, k \in I : rank[i] = rank[k] => i = k
  PROVE  \A p \in 1..Cardinality(I) : \E i \in I : rank[i] = p
<1>1. Cardinality(I) \in Nat
  BY FS_CardinalityType
<1>2. IsFiniteSet(1..Cardinality(I)) /\ Cardinality(1..Cardinality(I)) = Cardinality(I)
  BY <1>1, FirstCount
<1>3. rank \in Injection(I, 1..Cardinality(I))
  BY DEF Injection, IsInjective
<1>4. rank \in Surjection(I, 1..Cardinality(I))
  BY <1>2, <1>3, FS_Injection
<1>5. QED
  BY <1>4 DEF Surjection

LEMMA ArrangedFacts ==
  ASSUME NEW lst, NEW I, IsFiniteSet(I), NEW rank \in [I -> 1..Cardinality(I)], \A i, k \in I : rank[i] = rank[k] => i = k
  PROVE  /\ DOMAIN Arranged(lst, I, rank) = 1..Cardinality(I)
         /\ \A i \in I : Arranged(lst, I, rank)[rank[i]] = lst[i]
         /\ \A p \in 1..Cardinality(I) : \E i \in I : rank[i] = p /\ Arranged(lst, I, rank)[p] = lst[i]
         /\ \A V : (\A i \in I : lst[i] \in V) => Arranged(lst, I, rank) \in Seq(V) /\ Len(Arranged(lst, I, rank)) = Cardinality(I)
<1>1. Cardinality(I) \in Nat
  BY FS_CardinalityType
<1>2. \A p \in 1..Cardinality(I) : \E i \in I : rank[i] = p
  BY EveryPlace
<1>3. \A i \in I : (CHOOSE k \in I : rank[k] = rank[i]) = i
  OBVIOUS
<1>4. \A p \in 1..Cardinality(I) : Arranged(lst, I, rank)[p] = lst[CHOOSE i \in I : rank[i] = p]
  BY DEF Arranged
<1>5. \A i \in I : Arranged(lst, I, rank)[rank[i]] = lst[i]
  BY <1>3, <1>4
<1>6. \A p \in 1..Cardinality(I) : \E i \in I : rank[i] = p /\ Arranged(lst, I, rank)[p] = lst[i]
  BY <1>2, <1>5
<1>7. ASSUME NEW V, \A i \in I : lst[i] \in V
      PROVE  Arranged(lst, I, rank) \in Seq(V) /\ Len(Arranged(lst, I, rank)) = Cardinality(I)
  <2>1. Arranged(lst, I, rank) \in [1..Cardinality(I) -> V]
    BY <1>6, <1>7 DEF Arranged
  <2>2. QED
    BY <1>1, <2>1
<1>8. DOMAIN Arranged(lst, I, rank) = 1..Cardinality(I)
  BY DEF Arranged
<1>9. QED
  BY <1>5, <1>6, <1>7, <1>8

(***************************************************************************)
(* Filtering: what is left is in the order it was in.                      *)
(***************************************************************************)
Left(lst, names) == {i \in DOMAIN lst : lst[i].name \notin names}
UpTo(I, i) == {k \in I : k <= i}
Place(lst, names, i) == Cardinality(UpTo(Left(lst, names), i))

LEMMA LeftFacts ==
  ASSUME NEW lst \in Seq(Unit), NEW names
  PROVE  /\ Left(lst, names) \subseteq 1..Len(lst) /\ IsFiniteSet(Left(lst, names)) /\ Cardinality(Left(lst, names)) \in Nat
         /\ \A i \in Left(lst, names) : Place(lst, names, i) \in 1..Cardinality(Left(lst, names))
         /\ \A i, k \in Left(lst, names) : i < k => Place(lst, names, i) < Place(lst, names, k)
<1> DEFINE I == Left(lst, names)
<1>1. I \subseteq 1..Len(lst) /\ Len(lst) \in Nat
  BY DEF Left
<1>2. IsFiniteSet(I) /\ Cardinality(I) \in Nat
  <2>1. IsFiniteSet(1..Len(lst))
    BY <1>1, FirstCount
  <2>2. IsFiniteSet(I)
    BY <1>1, <2>1, FS_Subset
  <2>3. QED
    BY <2>2, FS_CardinalityType
<1> HIDE DEF I
<1>3. \A i \in I : IsFiniteSet(UpTo(I, i)) /\ Cardinality(UpTo(I, i)) \in Nat /\ Cardinality(UpTo(I, i)) <= Cardinality(I)
  BY <1>2, FS_Subset, FS_CardinalityType DEF UpTo
<1>4. ASSUME NEW i \in I, NEW k \in I, i < k PROVE Cardinality(UpTo(I, i)) < Cardinality(UpTo(I, k))
  <2>1. UpTo(I, i) \subseteq UpTo(I, k) /\ k \in UpTo(I, k) \ UpTo(I, i)
    <3>1. i \in Nat /\ k \in Nat /\ \A l \in I : l \in Nat
      BY <1>1
    <3>2. \A l \in I : l <= i => l <= k
      BY <1>4, <3>1
    <3>3. k <= k /\ ~(k <= i)
      BY <1>4, <3>1
    <3>4. QED
      BY <3>2, <3>3 DEF UpTo
  <2>2. QED
    BY <1>3, <2>1, Fewer
<1>5. ASSUME NEW i \in I PROVE Cardinality(UpTo(I, i)) # 0
  <2>1. i \in UpTo(I, i)
    BY <1>1 DEF UpTo
  <2>2. QED
    BY <1>3, <2>1, FS_EmptySet
<1>6. QED
  BY <1>1, <1>2, <1>3, <1>4, <1>5 DEF I, Place

LEMMA KeptFacts ==
  ASSUME NEW lst \in Seq(Unit), NEW names
  PROVE  /\ Kept(lst, names) \in Seq(Unit) /\ Len(Kept(lst, names)) = Cardinality(Left(lst, names))
         /\ \A i \in Left(lst, names) : Kept(lst, names)[Place(lst, names, i)] = lst[i]
         /\ \A p \in 1..Len(Kept(lst, names)) : \E i \in Left(lst, names) : Place(lst, names, i) = p /\ Kept(lst, names)[p] = lst[i]
<1> DEFINE I == Left(lst, names)
           rank == [i \in I |-> Place(lst, names, i)]
<1>1. rank \in [I -> 1..Cardinality(I)] /\ IsFiniteSet(I)
  BY LeftFacts
<1>2. I \subseteq Nat /\ \A i, k \in I : rank[i] = rank[k] => i = k
  <2>1. I \subseteq Nat /\ \A i \in I : rank[i] \in Nat
    BY LeftFacts
  <2>2. QED
    BY <2>1, LeftFacts
<1>3. Kept(lst, names) = Arranged(lst, I, rank)
  BY DEF Kept, Left, Place, UpTo
<1>4. \A i \in I : lst[i] \in Unit
  BY DEF Left
<1>5. \A i \in I : rank[i] = Place(lst, names, i)
  OBVIOUS
<1> HIDE DEF I, rank
<1>6. /\ \A i \in I : Arranged(lst, I, rank)[rank[i]] = lst[i]
      /\ \A p \in 1..Cardinality(I) : \E i \in I : rank[i] = p /\ Arranged(lst, I, rank)[p] = lst[i]
      /\ Arranged(lst, I, rank) \in Seq(Unit) /\ Len(Arranged(lst, I, rank)) = Cardinality(I)
  <2>1. \A i, k \in I : rank[i] = rank[k] => i = k
    BY <1>2
  <2>2. QED
    BY <1>1, <1>4, <2>1, ArrangedFacts
<1>7. QED
  BY <1>3, <1>5, <1>6 DEF I

\* A list stays in order.
LEMMA KeptInOrder ==
  ASSUME NEW lst \in Seq(Unit), NEW names, InOrder(lst)
  PROVE  InOrder(Kept(lst, names))
<1> SUFFICES ASSUME NEW p \in DOMAIN Kept(lst, names), NEW q \in DOMAIN Kept(lst, names), p < q
             PROVE  Less(Kept(lst, names)[p], Kept(lst, names)[q]) /\ Kept(lst, names)[p].name # Kept(lst, names)[q].name
  BY DEF InOrder
<1>1. p \in 1..Len(Kept(lst, names)) /\ q \in 1..Len(Kept(lst, names))
  BY KeptFacts
<1>2. PICK i \in Left(lst, names) : Place(lst, names, i) = p /\ Kept(lst, names)[p] = lst[i]
  BY <1>1, KeptFacts
<1>3. PICK k \in Left(lst, names) : Place(lst, names, k) = q /\ Kept(lst, names)[q] = lst[k]
  BY <1>1, KeptFacts
<1>4. i \in 1..Len(lst) /\ k \in 1..Len(lst) /\ Len(lst) \in Nat /\ DOMAIN lst = 1..Len(lst)
  BY LeftFacts
<1>5. i < k
  <2>1. i = k => p = q
    BY <1>2, <1>3
  <2>2. k < i => q < p
    BY <1>2, <1>3, LeftFacts
  <2>3. QED
    BY <1>1, <1>4, <2>1, <2>2
<1>6. QED
  BY <1>2, <1>3, <1>4, <1>5 DEF InOrder

\* Nothing to delete: the list stays.
LEMMA KeptAll ==
  ASSUME NEW lst \in Seq(Unit), NEW names, Left(lst, names) = DOMAIN lst
  PROVE  Kept(lst, names) = lst
<1>1. DOMAIN lst = 1..Len(lst) /\ Len(lst) \in Nat
  OBVIOUS
<1>2. Cardinality(1..Len(lst)) = Len(lst)
  BY <1>1, FirstCount
<1>3. ASSUME NEW i \in 1..Len(lst) PROVE Place(lst, names, i) = i
  <2>1. UpTo(Left(lst, names), i) = 1..i /\ i \in Nat
    BY <1>1 DEF UpTo
  <2>2. Cardinality(1..i) = i
    BY <2>1, FirstCount
  <2>3. QED
    BY <2>1, <2>2 DEF Place
<1>4. Kept(lst, names) \in Seq(Unit) /\ Len(Kept(lst, names)) = Len(lst) /\ \A i \in 1..Len(lst) : Kept(lst, names)[i] = lst[i]
  BY <1>1, <1>2, <1>3, KeptFacts
<1>5. QED
  BY <1>1, <1>4

(***************************************************************************)
(* Sorting.                                                                *)
(***************************************************************************)
Distinct(lst) == \A i, k \in DOMAIN lst : lst[i].name = lst[k].name => i = k
Higher(lst, x) == {k \in DOMAIN lst : Less(lst[k], x)}
Before(lst, i) == {k \in DOMAIN lst : Less(lst[k], lst[i]) \/ (lst[k] = lst[i] /\ k <= i)}
Rank(lst, i) == Cardinality(Before(lst, i))

\* Less orders the units.
LEMMA LessOrders ==
  /\ \A x \in Unit : ~Less(x, x)
  /\ \A x, y \in Unit : x = y \/ Less(x, y) \/ Less(y, x)
  /\ \A x, y, z \in Unit : Less(x, y) /\ Less(y, z) => Less(x, z)
<1>1. \A x \in Unit : x.val \in Int /\ x.name \in Int
  <2>1. \A x \in Unit : x.val \in Values /\ x.name \in Units
    BY DEF Unit
  <2>2. (\A v \in Values : v \in Int) /\ \A n \in Units : n \in Int
    BY UnitsAssumption
  <2>3. QED
    BY <2>1, <2>2
<1>2. \A x, y \in Unit : x.val = y.val /\ x.name = y.name => x = y
  BY DEF Unit
<1>3. QED
  BY <1>1, <1>2 DEF Less

\* The positions of a list are finitely many.
LEMMA Positions ==
  ASSUME NEW lst \in Seq(Unit), NEW I \in SUBSET DOMAIN lst
  PROVE  /\ DOMAIN lst = 1..Len(lst) /\ Len(lst) \in Nat /\ IsFiniteSet(DOMAIN lst) /\ Cardinality(DOMAIN lst) = Len(lst)
         /\ IsFiniteSet(I) /\ Cardinality(I) \in 0..Len(lst)
<1>1. DOMAIN lst = 1..Len(lst) /\ Len(lst) \in Nat
  OBVIOUS
<1>2. IsFiniteSet(DOMAIN lst) /\ Cardinality(DOMAIN lst) = Len(lst)
  BY <1>1, FirstCount
<1>3. IsFiniteSet(I) /\ Cardinality(I) <= Cardinality(DOMAIN lst)
  BY <1>2, FS_Subset
<1>4. Cardinality(I) \in Nat
  BY <1>3, FS_CardinalityType
<1>5. QED
  BY <1>1, <1>2, <1>3, <1>4

\* Of two positions one has the lesser rank, that of the lesser unit.
LEMMA RankFacts ==
  ASSUME NEW lst \in Seq(Unit)
  PROVE  /\ \A i \in DOMAIN lst : Rank(lst, i) \in 1..Len(lst)
         /\ \A i, k \in DOMAIN lst : i # k => Less(lst[i], lst[k]) \/ Less(lst[k], lst[i]) \/ lst[i] = lst[k]
         /\ \A i, k \in DOMAIN lst : Less(lst[i], lst[k]) => Rank(lst, i) < Rank(lst, k)
         /\ \A i, k \in DOMAIN lst : Rank(lst, i) = Rank(lst, k) => i = k
<1>1. DOMAIN lst = 1..Len(lst) /\ Len(lst) \in Nat /\ \A i \in DOMAIN lst : i \in Nat /\ lst[i] \in Unit
  OBVIOUS
<1>2. \A i \in DOMAIN lst : Before(lst, i) \subseteq DOMAIN lst /\ i \in Before(lst, i)
  BY <1>1 DEF Before
<1>3. \A i \in DOMAIN lst : IsFiniteSet(Before(lst, i)) /\ Rank(lst, i) \in 0..Len(lst)
  BY <1>2, Positions DEF Rank
<1>4. \A i \in DOMAIN lst : Rank(lst, i) # 0
  BY <1>2, <1>3, FS_EmptySet DEF Rank
<1>5. ASSUME NEW i \in DOMAIN lst, NEW k \in DOMAIN lst, Less(lst[i], lst[k]) \/ (lst[i] = lst[k] /\ i < k)
      PROVE  Rank(lst, i) < Rank(lst, k)
  <2>1. k \notin Before(lst, i)
    BY <1>1, <1>5, LessOrders DEF Before
  <2>2. ASSUME NEW l \in Before(lst, i) PROVE l \in Before(lst, k)
    <3>1. l \in DOMAIN lst /\ l \in Nat /\ i \in Nat /\ k \in Nat /\ lst[l] \in Unit /\ lst[i] \in Unit /\ lst[k] \in Unit
      BY <1>1, <2>2 DEF Before
    <3>2. Less(lst[l], lst[i]) \/ (lst[l] = lst[i] /\ l <= i)
      BY <2>2 DEF Before
    <3>3. Less(lst[l], lst[k]) \/ (lst[l] = lst[k] /\ l <= k)
      BY <1>5, <3>1, <3>2, LessOrders
    <3>4. QED
      BY <3>1, <3>3 DEF Before
  <2>3. QED
    BY <1>2, <1>3, <2>1, <2>2, Fewer DEF Rank
<1>6. \A i, k \in DOMAIN lst : i # k => Less(lst[i], lst[k]) \/ Less(lst[k], lst[i]) \/ lst[i] = lst[k]
  BY <1>1, LessOrders
<1>7. \A i, k \in DOMAIN lst : Rank(lst, i) = Rank(lst, k) => i = k
  <2> SUFFICES ASSUME NEW i \in DOMAIN lst, NEW k \in DOMAIN lst, Rank(lst, i) = Rank(lst, k), i # k PROVE FALSE
    OBVIOUS
  <2>1. i < k \/ k < i
    BY <1>1
  <2>2. ~(Rank(lst, i) < Rank(lst, k)) /\ ~(Rank(lst, k) < Rank(lst, i))
    BY <1>3
  <2>3. QED
    BY <1>5, <1>6, <2>1, <2>2
<1>8. QED
  BY <1>1, <1>3, <1>4, <1>5, <1>6, <1>7

LEMMA SortedFacts ==
  ASSUME NEW lst \in Seq(Unit)
  PROVE  /\ Sorted(lst) \in Seq(Unit) /\ Len(Sorted(lst)) = Len(lst)
         /\ \A i \in DOMAIN lst : Sorted(lst)[Rank(lst, i)] = lst[i]
         /\ \A p \in 1..Len(lst) : \E i \in DOMAIN lst : Rank(lst, i) = p /\ Sorted(lst)[p] = lst[i]
<1> DEFINE I == DOMAIN lst
           rank == [i \in I |-> Rank(lst, i)]
<1>1. IsFiniteSet(I) /\ Cardinality(I) = Len(lst)
  BY Positions
<1>2. rank \in [I -> 1..Cardinality(I)] /\ \A i, k \in I : rank[i] = rank[k] => i = k
  <2>1. \A i \in I : rank[i] = Rank(lst, i)
    OBVIOUS
  <2>2. QED
    BY <1>1, <2>1, RankFacts
<1>3. Sorted(lst) = Arranged(lst, I, rank)
  BY DEF Sorted, Rank, Before
<1>4. \A i \in I : lst[i] \in Unit
  OBVIOUS
<1>5. \A i \in I : rank[i] = Rank(lst, i)
  OBVIOUS
<1> HIDE DEF I, rank
<1>6. /\ \A i \in I : Arranged(lst, I, rank)[rank[i]] = lst[i]
      /\ \A p \in 1..Cardinality(I) : \E i \in I : rank[i] = p /\ Arranged(lst, I, rank)[p] = lst[i]
      /\ Arranged(lst, I, rank) \in Seq(Unit) /\ Len(Arranged(lst, I, rank)) = Cardinality(I)
  <2>1. \A i, k \in I : rank[i] = rank[k] => i = k
    BY <1>2
  <2>2. IsFiniteSet(I) /\ rank \in [I -> 1..Cardinality(I)]
    BY <1>1, <1>2
  <2>3. QED
    BY <1>4, <2>1, <2>2, ArrangedFacts
<1>7. QED
  BY <1>1, <1>3, <1>5, <1>6 DEF I

\* A unit whose name is not twice in the list stands after those that are less.
LEMMA SortedPlace ==
  ASSUME NEW lst \in Seq(Unit), Distinct(lst), NEW i \in DOMAIN lst
  PROVE  /\ Higher(lst, lst[i]) \subseteq DOMAIN lst /\ Cardinality(Higher(lst, lst[i])) \in 0..Len(lst) - 1
         /\ Rank(lst, i) = Cardinality(Higher(lst, lst[i])) + 1
         /\ Sorted(lst)[Cardinality(Higher(lst, lst[i])) + 1] = lst[i]
<1>1. Higher(lst, lst[i]) \subseteq DOMAIN lst /\ IsFiniteSet(Higher(lst, lst[i])) /\ Cardinality(Higher(lst, lst[i])) \in 0..Len(lst)
  <2>1. Higher(lst, lst[i]) \subseteq DOMAIN lst
    BY DEF Higher
  <2>2. QED
    BY <2>1, Positions
<1>2. Before(lst, i) = Higher(lst, lst[i]) \cup {i}
  <2>1. i \in Nat
    OBVIOUS
  <2>2. \A k \in DOMAIN lst : lst[k] = lst[i] => k = i
    BY DEF Distinct
  <2>3. QED
    BY <2>1, <2>2 DEF Before, Higher
<1>3. i \notin Higher(lst, lst[i])
  <2>1. lst[i] \in Unit
    OBVIOUS
  <2>2. QED
    BY <2>1, LessOrders DEF Higher
<1>4. Rank(lst, i) = Cardinality(Higher(lst, lst[i])) + 1
  BY <1>1, <1>2, <1>3, FS_AddElement DEF Rank
<1>5. Rank(lst, i) \in 1..Len(lst) /\ Sorted(lst)[Rank(lst, i)] = lst[i]
  BY RankFacts, SortedFacts
<1>6. Len(lst) \in Nat
  OBVIOUS
<1>7. QED
  BY <1>1, <1>4, <1>5, <1>6

LEMMA SortedInOrder ==
  ASSUME NEW lst \in Seq(Unit), Distinct(lst)
  PROVE  InOrder(Sorted(lst))
<1> SUFFICES ASSUME NEW p \in DOMAIN Sorted(lst), NEW q \in DOMAIN Sorted(lst), p < q
             PROVE  Less(Sorted(lst)[p], Sorted(lst)[q]) /\ Sorted(lst)[p].name # Sorted(lst)[q].name
  BY DEF InOrder
<1>1. p \in 1..Len(lst) /\ q \in 1..Len(lst) /\ Len(lst) \in Nat
  BY SortedFacts
<1>2. PICK i \in DOMAIN lst : Rank(lst, i) = p /\ Sorted(lst)[p] = lst[i]
  BY <1>1, SortedFacts
<1>3. PICK k \in DOMAIN lst : Rank(lst, k) = q /\ Sorted(lst)[q] = lst[k]
  BY <1>1, SortedFacts
<1>4. i # k /\ ~(Rank(lst, k) < Rank(lst, i))
  BY <1>1, <1>2, <1>3
<1>5. lst[i].name # lst[k].name
  BY <1>4 DEF Distinct
<1>6. Less(lst[i], lst[k])
  BY <1>4, <1>5, RankFacts
<1>7. QED
  BY <1>2, <1>3, <1>5, <1>6

\* A list in order has every name once.
LEMMA OrderDistinct ==
  ASSUME NEW lst \in Seq(Unit), InOrder(lst)
  PROVE  Distinct(lst)
<1> SUFFICES ASSUME NEW i \in DOMAIN lst, NEW k \in DOMAIN lst, lst[i].name = lst[k].name, i # k PROVE FALSE
  BY DEF Distinct
<1>1. i < k \/ k < i
  OBVIOUS
<1>2. QED
  BY <1>1 DEF InOrder

(***************************************************************************)
(* Adding units, one after the other.  What holds at first and stays with  *)
(* every unit holds at the end.                                            *)
(***************************************************************************)
States == [lst : Seq(Unit), round : Nat]
Start(lst) == [lst |-> lst, round |-> round]

\* The least number of a set.
LEMMA Smallest ==
  ASSUME NEW S, S \subseteq Nat, S # {}
  PROVE  \E n \in S : \A m \in S : n <= m
<1>. DEFINE R == {p \in Nat \X Nat : p[1] < p[2]}
<1>1. IsWellFoundedOn(R, Nat)
  BY NatLessThanWellFounded DEF OpToRel
<1>2. PICK n \in S : \A m \in S : ~ (<<m, n>> \in R)
  <2>. HIDE DEF R
  <2>. QED
    BY <1>1, WFMin
<1>3. ASSUME NEW m \in S PROVE ~ (m < n)
  <2>1. <<m, n>> \notin R /\ <<m, n>> \in Nat \X Nat
    BY <1>2
  <2>2. QED
    BY <2>1
<1>4. QED
  BY <1>3

\* Step by step to n.
LEMMA Upwards ==
  ASSUME NEW n \in Nat, NEW S, 0 \in S, \A m \in Nat : m < n /\ m \in S => m + 1 \in S
  PROVE  \A m \in 0..n : m \in S
<1> DEFINE T == {m \in 0..n : m \notin S}
<1> SUFFICES ASSUME T # {} PROVE FALSE
  OBVIOUS
<1>1. T \subseteq Nat
  OBVIOUS
<1>2. PICK t \in T : \A m \in T : t <= m
  BY <1>1, Smallest
<1>3. t \in Nat /\ t <= n /\ t \notin S /\ t # 0
  OBVIOUS
<1>4. t - 1 \in Nat /\ t - 1 < n /\ t - 1 \in S /\ (t - 1) + 1 = t
  BY <1>2, <1>3
<1>5. QED
  BY <1>3, <1>4

\* The units are added: there is what the definition of Added describes.
LEMMA AddingEnds ==
  ASSUME NEW s \in Seq(Unit), NEW a
  PROVE  \E f : f = [n \in 0..Len(s) |-> IF n = 0 THEN a ELSE Adding(f[n - 1], s[n])]
<1> DEFINE Steps(n, f) == [m \in 0..n |-> IF m = 0 THEN a ELSE Adding(f[m - 1], s[m])]
           S == {n \in Nat : \E f : f = Steps(n, f)}
<1>1. 0 \in S
  <2> DEFINE f == [m \in 0..0 |-> a]
  <2>1. f = Steps(0, f)
    OBVIOUS
  <2>2. QED
    BY <2>1
<1>2. ASSUME NEW n \in Nat, n \in S PROVE n + 1 \in S
  <2>1. PICK f : f = Steps(n, f)
    BY <1>2
  <2> DEFINE g == [m \in 0..n + 1 |-> IF m = n + 1 THEN Adding(f[n], s[n + 1]) ELSE f[m]]
  <2>2. \A m \in 0..n : g[m] = f[m] /\ f[m] = IF m = 0 THEN a ELSE Adding(f[m - 1], s[m])
    BY <2>1
  <2>3. \A m \in 0..n + 1 : g[m] = IF m = 0 THEN a ELSE Adding(g[m - 1], s[m])
    <3> SUFFICES ASSUME NEW m \in 0..n + 1 PROVE g[m] = IF m = 0 THEN a ELSE Adding(g[m - 1], s[m])
      OBVIOUS
    <3>1. CASE m = n + 1
      <4>1. m # 0 /\ m - 1 = n /\ n \in 0..n /\ g[m] = Adding(f[n], s[m])
        BY <3>1
      <4>2. g[m - 1] = f[n]
        BY <2>2, <4>1
      <4>3. QED
        BY <4>1, <4>2
    <3>2. CASE m # n + 1
      <4>1. m \in 0..n /\ (m # 0 => m - 1 \in 0..n)
        BY <3>2
      <4>2. m # 0 => g[m - 1] = f[m - 1]
        BY <2>2, <4>1
      <4>3. g[m] = IF m = 0 THEN a ELSE Adding(f[m - 1], s[m])
        BY <2>2, <4>1
      <4>4. QED
        BY <4>2, <4>3
    <3>3. QED
      BY <3>1, <3>2
  <2>4. g = Steps(n + 1, g)
    <3>1. g = [m \in 0..n + 1 |-> g[m]]
      OBVIOUS
    <3> HIDE DEF g
    <3>2. QED
      BY <2>3, <3>1
  <2>5. \E e : e = Steps(n + 1, e)
    <3> HIDE DEF g, Steps
    <3>1. QED
      BY <2>4
  <2>6. QED
    BY <2>5
<1> HIDE DEF S
<1>3. Len(s) \in Nat /\ Len(s) \in 0..Len(s)
  OBVIOUS
<1>4. Len(s) \in S
  BY <1>1, <1>2, <1>3, Upwards
<1>5. QED
  BY <1>4 DEF S

LEMMA AddedReached ==
  ASSUME NEW lst, NEW items \in Seq(Unit), NEW Q, Start(lst) \in Q,
         \A st \in Q : \A k \in DOMAIN Sorted(items) : Adding(st, Sorted(items)[k]) \in Q
  PROVE  /\ Added(lst, items) \in Q
         /\ items # <<>> => \E st \in Q : \E k \in DOMAIN Sorted(items) : Added(lst, items) = Adding(st, Sorted(items)[k])
<1> DEFINE s == Sorted(items)
           Steps(f) == [n \in 0..Len(s) |-> IF n = 0 THEN [lst |-> lst, round |-> round] ELSE Adding(f[n - 1], s[n])]
           after == CHOOSE f : f = Steps(f)
<1>1. s \in Seq(Unit) /\ Len(s) = Len(items) /\ Len(s) \in Nat /\ DOMAIN s = 1..Len(s)
  BY SortedFacts
<1>2. Added(lst, items) = after[Len(s)]
  BY DEF Added
<1>3. after = Steps(after)
  BY <1>1, AddingEnds
<1> HIDE DEF after, s
<1>4. after[0] = Start(lst) /\ \A n \in 1..Len(s) : after[n] = Adding(after[n - 1], s[n])
  BY <1>1, <1>3 DEF Start
<1> DEFINE S == {n \in 0..Len(s) : after[n] \in Q}
<1>5. 0 \in S
  BY <1>1, <1>4
<1>6. ASSUME NEW m \in Nat, m < Len(s), m \in S PROVE m + 1 \in S
  <2>1. m + 1 \in 1..Len(s) /\ (m + 1) - 1 = m /\ after[m] \in Q
    BY <1>1, <1>6
  <2>2. after[m + 1] = Adding(after[m], s[m + 1])
    BY <1>4, <2>1
  <2>3. QED
    BY <1>1, <2>1, <2>2 DEF s
<1> HIDE DEF S
<1>7. \A m \in 0..Len(s) : m \in S
  BY <1>1, <1>5, <1>6, Upwards
<1>8. \A m \in 0..Len(s) : after[m] \in Q
  BY <1>7 DEF S
<1>9. ASSUME items # <<>> PROVE \E st \in Q : \E k \in DOMAIN s : Added(lst, items) = Adding(st, s[k])
  <2>1. Len(s) \in 1..Len(s) /\ Len(s) - 1 \in 0..Len(s)
    BY <1>1, <1>9
  <2>2. QED
    BY <1>1, <1>2, <1>4, <1>8, <2>1
<1>10. QED
  BY <1>1, <1>2, <1>8, <1>9 DEF s

\* One unit: it comes last, or takes the place of the one of its name.
LEMMA AddingFacts ==
  ASSUME NEW st \in States, Distinct(st.lst), NEW x \in Unit
  PROVE  /\ Adding(st, x) \in States /\ Distinct(Adding(st, x).lst) /\ Adding(st, x).lst # <<>>
         /\ Len(st.lst) <= Len(Adding(st, x).lst)
         /\ \/ /\ x.name \notin NamesOf(st.lst) /\ Adding(st, x).lst = Append(st.lst, x)
               /\ Adding(st, x).round = IF x.val > cur THEN st.round + 1 ELSE st.round
            \/ /\ x.name \in NamesOf(st.lst) /\ Adding(st, x).round = st.round /\ DOMAIN Adding(st, x).lst = DOMAIN st.lst
               /\ \E i \in DOMAIN st.lst : /\ st.lst[i].name = x.name /\ Adding(st, x).lst = [st.lst EXCEPT ![i] = x]
                                           /\ st.lst[i] = x => Adding(st, x) = st
<1> DEFINE l == st.lst
<1>1. l \in Seq(Unit) /\ Len(l) \in Nat /\ DOMAIN l = 1..Len(l) /\ st.round \in Nat /\ st = [lst |-> l, round |-> st.round]
  BY DEF States
<1>2. CASE GetExists(l, x.name) = {}
  <2>1. Adding(st, x) = [lst |-> Append(l, x), round |-> IF x.val > cur THEN st.round + 1 ELSE st.round]
    BY <1>2 DEF Adding
  <2>2. x.name \notin NamesOf(l)
    BY <1>2 DEF GetExists, NamesOf
  <2>3. /\ Append(l, x) \in Seq(Unit) /\ Len(Append(l, x)) = Len(l) + 1 /\ Append(l, x)[Len(l) + 1] = x
        /\ \A i \in DOMAIN l : Append(l, x)[i] = l[i]
    BY <1>1
  <2>4. \A i \in DOMAIN l : l[i].name # x.name
    BY <2>2 DEF NamesOf
  <2>5. DOMAIN Append(l, x) = DOMAIN l \cup {Len(l) + 1}
    BY <1>1, <2>3
  <2>6. Distinct(Append(l, x))
    <3> SUFFICES ASSUME NEW i \in DOMAIN Append(l, x), NEW k \in DOMAIN Append(l, x), Append(l, x)[i].name = Append(l, x)[k].name
                 PROVE  i = k
      BY DEF Distinct
    <3>1. QED
      BY <2>3, <2>4, <2>5 DEF Distinct
  <2>7. Adding(st, x) \in States
    BY <1>1, <2>1, <2>3 DEF States
  <2>8. QED
    BY <1>1, <2>1, <2>2, <2>3, <2>6, <2>7
<1>3. CASE GetExists(l, x.name) # {}
  <2>1. PICK i \in DOMAIN l : l[i].name = x.name
    BY <1>3 DEF GetExists
  <2>2. GetExists(l, x.name) = {i}
    BY <2>1 DEF GetExists, Distinct
  <2>3. Adding(st, x) = [lst |-> [l EXCEPT ![i] = x], round |-> st.round]
    <3>1. [k \in DOMAIN l |-> IF k \in {i} THEN x ELSE l[k]] = [l EXCEPT ![i] = x]
      BY <1>1
    <3>2. Adding(st, x) = [st EXCEPT !.lst = [k \in DOMAIN @ |-> IF k \in {i} THEN x ELSE @[k]]]
      BY <2>2 DEF Adding
    <3>3. QED
      BY <1>1, <3>1, <3>2
  <2>4. x.name \in NamesOf(l)
    BY <2>1 DEF NamesOf
  <2>5. [l EXCEPT ![i] = x] \in Seq(Unit) /\ Len([l EXCEPT ![i] = x]) = Len(l) /\ DOMAIN [l EXCEPT ![i] = x] = DOMAIN l
    BY <1>1
  <2>6. Distinct([l EXCEPT ![i] = x])
    BY <1>1, <2>1 DEF Distinct
  <2>7. Adding(st, x) \in States
    BY <1>1, <2>3, <2>5 DEF States
  <2>8. l[i] = x => Adding(st, x) = st
    BY <1>1, <2>3
  <2>9. [l EXCEPT ![i] = x] # <<>>
    BY <2>1, <2>5
  <2>10. Adding(st, x).lst = [l EXCEPT ![i] = x] /\ Adding(st, x).round = st.round
    BY <2>3
  <2>11. Distinct(Adding(st, x).lst) /\ Adding(st, x).lst # <<>> /\ Len(l) <= Len(Adding(st, x).lst) /\ DOMAIN Adding(st, x).lst = DOMAIN l
    <3> DEFINE r == Adding(st, x).lst
    <3>1. r = [l EXCEPT ![i] = x]
      BY <2>10
    <3>2. Len(r) = Len(l)
      BY <2>5, <3>1
    <3>3. Len(l) <= Len(r)
      BY <1>1, <3>2
    <3>4. Distinct(r) /\ r # <<>> /\ DOMAIN r = DOMAIN l
      BY <2>5, <2>6, <2>9, <3>1
    <3>5. QED
      BY <3>3, <3>4
  <2>12. \E k \in DOMAIN l : l[k].name = x.name /\ Adding(st, x).lst = [l EXCEPT ![k] = x] /\ (l[k] = x => Adding(st, x) = st)
    BY <2>1, <2>8, <2>10
  <2>13. QED
    BY <2>4, <2>7, <2>10, <2>11, <2>12
<1>4. QED
  BY <1>2, <1>3

(***************************************************************************)
(* What adding does to the turn.  Units are counted by their positions.    *)
(***************************************************************************)
Hits(lst, V) == {i \in DOMAIN lst : lst[i] \in V}
Above(v) == {y \in Unit : y.val > v}
AtLeast(v) == {y \in Unit : y.val >= v}
Ahead(u) == {y \in Unit : Less(y, u)}

LEMMA UnitFacts ==
  /\ \A x \in Unit : x.val \in Int /\ x.val \in Values /\ x.name \in Int /\ x.name \in Units /\ x.val < NullInit /\ ~(x.val > NullInit)
  /\ \A x, y \in Unit : x.val = y.val /\ x.name = y.name => x = y
  /\ \A v \in Values \cup {NullInit} : v \in Int
<1>1. (\A v \in Values : v \in Int /\ v < NullInit) /\ (\A n \in Units : n \in Int) /\ NullInit \in Int
  BY UnitsAssumption, NullInitAssumption
<1>2. \A x \in Unit : x.val \in Values /\ x.name \in Units
  BY DEF Unit
<1>3. \A x, y \in Unit : x.val = y.val /\ x.name = y.name => x = y
  BY DEF Unit
<1>4. QED
  BY <1>1, <1>2, <1>3

LEMMA HitsFacts ==
  ASSUME NEW lst \in Seq(Unit), NEW V
  PROVE  Hits(lst, V) \subseteq DOMAIN lst /\ IsFiniteSet(Hits(lst, V)) /\ Cardinality(Hits(lst, V)) \in 0..Len(lst)
<1>1. Hits(lst, V) \subseteq DOMAIN lst
  BY DEF Hits
<1>2. QED
  BY <1>1, Positions

\* A unit at the end counts once.
LEMMA HitsAppend ==
  ASSUME NEW lst \in Seq(Unit), NEW x \in Unit, NEW V
  PROVE  Cardinality(Hits(Append(lst, x), V)) = IF x \in V THEN Cardinality(Hits(lst, V)) + 1 ELSE Cardinality(Hits(lst, V))
<1>1. /\ Len(lst) \in Nat /\ DOMAIN lst = 1..Len(lst) /\ DOMAIN Append(lst, x) = 1..Len(lst) + 1
      /\ Append(lst, x)[Len(lst) + 1] = x /\ \A i \in DOMAIN lst : Append(lst, x)[i] = lst[i]
  OBVIOUS
<1>2. DOMAIN Append(lst, x) = DOMAIN lst \cup {Len(lst) + 1} /\ Len(lst) + 1 \notin DOMAIN lst
  BY <1>1
<1>3. Hits(Append(lst, x), V) = IF x \in V THEN Hits(lst, V) \cup {Len(lst) + 1} ELSE Hits(lst, V)
  BY <1>1, <1>2 DEF Hits
<1>4. IsFiniteSet(Hits(lst, V)) /\ Len(lst) + 1 \notin Hits(lst, V)
  BY <1>2, HitsFacts DEF Hits
<1>5. Cardinality(Hits(lst, V) \cup {Len(lst) + 1}) = Cardinality(Hits(lst, V)) + 1
  BY <1>4, FS_AddElement
<1>6. QED
  BY <1>3, <1>5

\* Of a list in order, those before a unit are ahead of it.
LEMMA OrderCounts ==
  ASSUME NEW lst \in Seq(Unit), InOrder(lst), NEW r \in Nat, r < Len(lst)
  PROVE  /\ Cardinality(Hits(lst, Ahead(lst[r + 1]))) = r
         /\ Cardinality(Hits(lst, Above(lst[r + 1].val))) <= r
         /\ r < Cardinality(Hits(lst, AtLeast(lst[r + 1].val)))
<1> DEFINE u == lst[r + 1]
<1>1. /\ Len(lst) \in Nat /\ DOMAIN lst = 1..Len(lst) /\ r + 1 \in DOMAIN lst /\ u \in Unit
      /\ \A i \in DOMAIN lst : i \in Nat /\ lst[i] \in Unit
  OBVIOUS
<1>2. \A i \in DOMAIN lst : (i < r + 1 => Less(lst[i], u)) /\ (r + 1 < i => Less(u, lst[i]))
  BY <1>1 DEF InOrder
<1>3. \A i \in DOMAIN lst : Less(lst[i], u) <=> i \in 1..r
  <2> SUFFICES ASSUME NEW i \in DOMAIN lst PROVE Less(lst[i], u) <=> i \in 1..r
    OBVIOUS
  <2>1. i < r + 1 \/ i = r + 1 \/ r + 1 < i
    BY <1>1
  <2>2. ~Less(u, u) /\ ~(Less(u, lst[i]) /\ Less(lst[i], u))
    BY <1>1, LessOrders
  <2>3. QED
    BY <1>1, <1>2, <2>1, <2>2
<1>4. 1..r \subseteq DOMAIN lst /\ 1..r + 1 \subseteq DOMAIN lst /\ r + 1 \in Nat
  BY <1>1
<1> HIDE DEF u
<1>5. Hits(lst, Ahead(u)) = 1..r
  BY <1>1, <1>3, <1>4 DEF Hits, Ahead
<1>6. Cardinality(1..r) = r /\ IsFiniteSet(1..r) /\ Cardinality(1..r + 1) = r + 1
  BY <1>4, FirstCount
<1>7. Hits(lst, Above(u.val)) \subseteq 1..r
  <2>1. \A y \in Unit : y.val > u.val => Less(y, u)
    BY DEF Less
  <2>2. QED
    BY <1>1, <1>3, <2>1 DEF Hits, Above
<1>8. 1..r + 1 \subseteq Hits(lst, AtLeast(u.val))
  <2>1. \A y \in Unit : Less(y, u) => y.val >= u.val
    BY <1>1, UnitFacts DEF Less
  <2>2. u.val >= u.val
    BY <1>1, UnitFacts
  <2>3. \A i \in 1..r + 1 : i \in 1..r \/ i = r + 1
    BY <1>4
  <2>4. \A i \in 1..r + 1 : lst[i].val >= u.val
    BY <1>1, <1>3, <1>4, <2>1, <2>2, <2>3 DEF u
  <2>5. QED
    BY <1>1, <1>4, <2>4 DEF Hits, AtLeast
<1>9. Cardinality(Hits(lst, Above(u.val))) <= r
  BY <1>6, <1>7, FS_Subset
<1>10. r + 1 <= Cardinality(Hits(lst, AtLeast(u.val)))
  BY <1>6, <1>8, HitsFacts, FS_Subset
<1>11. Cardinality(Hits(lst, AtLeast(u.val))) \in Nat
  BY HitsFacts
<1>12. QED
  BY <1>5, <1>6, <1>9, <1>10, <1>11 DEF u

LEMMA SortedItem ==
  ASSUME NEW items \in Seq(Unit), NEW k \in DOMAIN Sorted(items)
  PROVE  Sorted(items)[k] \in Unit /\ \E l \in DOMAIN items : Sorted(items)[k] = items[l]
<1>1. k \in 1..Len(items)
  BY SortedFacts
<1>2. QED
  BY <1>1, SortedFacts

\* Whatever is added: every name is in the list once, and the index stays in the list.
LEMMA AddedTyped ==
  ASSUME NEW lst \in Seq(Unit), Distinct(lst), NEW items \in Seq(Unit), items # <<>>, round \in Nat
  PROVE  /\ Added(lst, items) \in States /\ Distinct(Added(lst, items).lst) /\ Added(lst, items).lst # <<>>
         /\ round < Len(lst) => Added(lst, items).round < Len(Added(lst, items).lst)
         /\ cur = NullInit => Added(lst, items).round = round
<1> DEFINE Q == {st \in States : /\ Distinct(st.lst)
                                 /\ round < Len(lst) => st.round < Len(st.lst)
                                 /\ cur = NullInit => st.round = round}
<1>1. Start(lst) \in Q
  BY DEF Start, States
<1>2. ASSUME NEW st \in Q, NEW k \in DOMAIN Sorted(items)
      PROVE  Adding(st, Sorted(items)[k]) \in Q /\ Adding(st, Sorted(items)[k]).lst # <<>>
  <2> DEFINE x == Sorted(items)[k]
  <2>1. x \in Unit
    BY SortedItem
  <2> HIDE DEF x
  <2>2. st \in States /\ Distinct(st.lst) /\ st.round \in Nat /\ st.lst \in Seq(Unit) /\ Len(st.lst) \in Nat
    BY DEF States
  <2>3. ~(x.val > NullInit)
    BY <2>1, UnitFacts
  <2>4. Adding(st, x).lst = Append(st.lst, x) => Len(Adding(st, x).lst) = Len(st.lst) + 1
    BY <2>1, <2>2
  <2>5. /\ Adding(st, x) \in States /\ Distinct(Adding(st, x).lst) /\ Adding(st, x).lst # <<>>
        /\ Len(st.lst) <= Len(Adding(st, x).lst)
        /\ \/ Adding(st, x).lst = Append(st.lst, x) /\ Adding(st, x).round = IF x.val > cur THEN st.round + 1 ELSE st.round
           \/ Adding(st, x).round = st.round
    BY <2>1, <2>2, AddingFacts
  <2>6. cur = NullInit => Adding(st, x).round = round
    BY <2>3, <2>5
  <2>7. Len(Adding(st, x).lst) \in Nat
    BY <2>5 DEF States
  <2>8. round < Len(lst) => Adding(st, x).round < Len(Adding(st, x).lst)
    BY <2>2, <2>4, <2>5, <2>7
  <2>9. QED
    BY <2>5, <2>6, <2>8 DEF x
<1> HIDE DEF Q
<1>3. Added(lst, items) \in Q /\ \E st \in Q : \E k \in DOMAIN Sorted(items) : Added(lst, items) = Adding(st, Sorted(items)[k])
  BY <1>1, <1>2, AddedReached
<1>4. Added(lst, items).lst # <<>>
  BY <1>2, <1>3
<1>5. QED
  BY <1>3, <1>4 DEF Q

LEMMA AppendFacts ==
  ASSUME NEW lst \in Seq(Unit), NEW x \in Unit
  PROVE  /\ \A i \in DOMAIN Append(lst, x) : Append(lst, x)[i] = x \/ (i \in DOMAIN lst /\ Append(lst, x)[i] = lst[i])
         /\ \A i \in DOMAIN lst : i \in DOMAIN Append(lst, x) /\ Append(lst, x)[i] = lst[i]
<1>1. /\ Len(lst) \in Nat /\ DOMAIN lst = 1..Len(lst) /\ DOMAIN Append(lst, x) = 1..Len(lst) + 1
      /\ Append(lst, x)[Len(lst) + 1] = x /\ \A i \in DOMAIN lst : Append(lst, x)[i] = lst[i]
  OBVIOUS
<1>2. QED
  BY <1>1

LEMMA AddingCases ==
  ASSUME NEW st \in States, Distinct(st.lst), NEW x \in Unit
  PROVE  /\ Adding(st, x) \in States /\ Distinct(Adding(st, x).lst)
         /\ \/ /\ Adding(st, x).lst = Append(st.lst, x)
               /\ Adding(st, x).round = IF x.val > cur THEN st.round + 1 ELSE st.round
            \/ \E i \in DOMAIN st.lst : st.lst[i].name = x.name /\ (st.lst[i] = x => Adding(st, x) = st)
<1>1. CASE x.name \in NamesOf(st.lst)
  <2>1. \E i \in DOMAIN st.lst : st.lst[i].name = x.name /\ (st.lst[i] = x => Adding(st, x) = st)
    BY <1>1, AddingFacts
  <2>2. QED
    BY <2>1, AddingFacts
<1>2. CASE x.name \notin NamesOf(st.lst)
  BY <1>2, AddingFacts
<1>3. QED
  BY <1>1, <1>2

\* The units a command has to do with.
Met(lst, items) == {lst[i] : i \in DOMAIN lst} \cup {items[i] : i \in DOMAIN items}

\* No unit got another value: the units of one name are one.
LEMMA SameUnit ==
  ASSUME NEW lst \in Seq(Unit), NEW items \in Seq(Unit), ~Revalues(lst, items), NEW k \in DOMAIN items, NEW y \in Met(lst, items),
         y.name = items[k].name
  PROVE  y = items[k]
<1> DEFINE all == lst \o items
<1>1. /\ Len(lst) \in Nat /\ Len(items) \in Nat /\ DOMAIN lst = 1..Len(lst) /\ DOMAIN items = 1..Len(items)
      /\ DOMAIN all = 1..Len(lst) + Len(items)
      /\ \A i \in 1..Len(lst) : all[i] = lst[i]
      /\ \A i \in 1..Len(items) : all[i + Len(lst)] = items[i]
  OBVIOUS
<1> HIDE DEF all
<1>2. \A i \in DOMAIN lst : i \in DOMAIN all
  BY <1>1
<1>3. \A i \in DOMAIN items : i + Len(lst) \in DOMAIN all
  BY <1>1
<1>4. \E i \in DOMAIN all : all[i] = y
  <2>1. CASE \E i \in DOMAIN lst : y = lst[i]
    BY <1>1, <1>2, <2>1
  <2>2. CASE \E i \in DOMAIN items : y = items[i]
    BY <1>1, <1>3, <2>2
  <2>3. QED
    BY <2>1, <2>2 DEF Met
<1>5. items[k].val = y.val
  BY <1>4 DEF Revalues, all
<1>6. y \in Unit /\ items[k] \in Unit
  BY DEF Met
<1>7. QED
  BY <1>5, <1>6, UnitFacts

\* The place the index names has the current value still.
LEMMA AddedFits ==
  ASSUME NEW lst \in Seq(Unit), InOrder(lst), NEW items \in Seq(Unit), items # <<>>, round \in Nat, round < Len(lst),
         lst[round + 1].val = cur, ~Revalues(lst, items)
  PROVE  Sorted(Added(lst, items).lst)[Added(lst, items).round + 1].val = cur
<1> DEFINE Fit(st) == Cardinality(Hits(st.lst, Above(cur))) <= st.round /\ st.round < Cardinality(Hits(st.lst, AtLeast(cur)))
           Q == {st \in States : Distinct(st.lst) /\ (\A i \in DOMAIN st.lst : st.lst[i] \in Met(lst, items)) /\ Fit(st)}
<1>1. cur \in Int /\ lst[round + 1] \in Unit
  <2>1. lst[round + 1] \in Unit
    OBVIOUS
  <2>2. QED
    BY <2>1, UnitFacts
<1>2. Start(lst) \in Q
  <2>1. Start(lst) \in States /\ Start(lst).lst = lst /\ Start(lst).round = round
    BY DEF Start, States
  <2>2. Fit(Start(lst))
    BY <2>1, OrderCounts
  <2>3. QED
    BY <2>1, <2>2, OrderDistinct DEF Met
<1>3. ASSUME NEW st \in Q, NEW k \in DOMAIN Sorted(items)
      PROVE  Adding(st, Sorted(items)[k]) \in Q
  <2> DEFINE x == Sorted(items)[k]
  <2>1. PICK l \in DOMAIN items : x = items[l] /\ x \in Unit
    BY SortedItem
  <2> HIDE DEF x
  <2>2. /\ st \in States /\ Distinct(st.lst) /\ st.round \in Nat /\ st.lst \in Seq(Unit) /\ Fit(st)
        /\ \A i \in DOMAIN st.lst : st.lst[i] \in Met(lst, items)
    BY DEF States
  <2>3. /\ Adding(st, x) \in States /\ Distinct(Adding(st, x).lst)
        /\ \/ /\ Adding(st, x).lst = Append(st.lst, x)
              /\ Adding(st, x).round = IF x.val > cur THEN st.round + 1 ELSE st.round
           \/ \E i \in DOMAIN st.lst : st.lst[i].name = x.name /\ (st.lst[i] = x => Adding(st, x) = st)
    BY <2>1, <2>2, AddingCases
  <2>4. CASE Adding(st, x).lst = Append(st.lst, x) /\ Adding(st, x).round = IF x.val > cur THEN st.round + 1 ELSE st.round
    <3>1. x.val \in Int /\ (x \in Above(cur) <=> x.val > cur) /\ (x \in AtLeast(cur) <=> x.val >= cur)
      BY <2>1, UnitFacts DEF Above, AtLeast
    <3>2. /\ Cardinality(Hits(Append(st.lst, x), Above(cur)))
             = IF x \in Above(cur) THEN Cardinality(Hits(st.lst, Above(cur))) + 1 ELSE Cardinality(Hits(st.lst, Above(cur)))
          /\ Cardinality(Hits(Append(st.lst, x), AtLeast(cur)))
             = IF x \in AtLeast(cur) THEN Cardinality(Hits(st.lst, AtLeast(cur))) + 1 ELSE Cardinality(Hits(st.lst, AtLeast(cur)))
      BY <2>1, <2>2, HitsAppend
    <3>3. Cardinality(Hits(st.lst, Above(cur))) \in Nat /\ Cardinality(Hits(st.lst, AtLeast(cur))) \in Nat
      BY <2>2, HitsFacts
    <3>4. Fit(Adding(st, x))
      BY <1>1, <2>2, <2>4, <3>1, <3>2, <3>3
    <3>5. \A i \in DOMAIN Append(st.lst, x) : Append(st.lst, x)[i] = x \/ (i \in DOMAIN st.lst /\ Append(st.lst, x)[i] = st.lst[i])
      BY <2>1, <2>2, AppendFacts
    <3>6. \A i \in DOMAIN Adding(st, x).lst : Adding(st, x).lst[i] \in Met(lst, items)
      BY <2>1, <2>2, <2>4, <3>5 DEF Met
    <3>7. QED
      BY <2>3, <3>4, <3>6 DEF x
  <2>5. CASE \E i \in DOMAIN st.lst : st.lst[i].name = x.name /\ (st.lst[i] = x => Adding(st, x) = st)
    <3>1. PICK i \in DOMAIN st.lst : st.lst[i].name = x.name /\ (st.lst[i] = x => Adding(st, x) = st)
      BY <2>5
    <3>2. st.lst[i] = x
      BY <2>1, <2>2, <3>1, SameUnit
    <3>3. QED
      BY <3>1, <3>2 DEF x
  <2>6. QED
    BY <2>3, <2>4, <2>5
<1> HIDE DEF Q
<1>4. Added(lst, items) \in Q
  BY <1>2, <1>3, AddedReached
<1> DEFINE l == Added(lst, items).lst
           r == Added(lst, items).round
<1>5. /\ l \in Seq(Unit) /\ Distinct(l) /\ r \in Nat
      /\ Cardinality(Hits(l, Above(cur))) <= r /\ r < Cardinality(Hits(l, AtLeast(cur)))
  BY <1>4 DEF Q, States
<1> HIDE DEF l, r
<1>6. r + 1 \in 1..Len(l)
  <2>1. Cardinality(Hits(l, AtLeast(cur))) \in 0..Len(l) /\ Len(l) \in Nat
    BY <1>5, HitsFacts
  <2>2. QED
    BY <1>5, <2>1
<1>7. PICK i \in DOMAIN l : Rank(l, i) = r + 1 /\ Sorted(l)[r + 1] = l[i]
  BY <1>5, <1>6, SortedFacts
<1>8. Rank(l, i) = Cardinality(Hits(l, Ahead(l[i]))) + 1 /\ l[i] \in Unit
  <2>1. l[i] \in Unit /\ \A k \in DOMAIN l : l[k] \in Unit
    BY <1>5
  <2>2. Higher(l, l[i]) = Hits(l, Ahead(l[i]))
    BY <2>1 DEF Higher, Hits, Ahead
  <2>3. QED
    BY <1>5, <2>1, <2>2, SortedPlace
<1>9. Cardinality(Hits(l, Ahead(l[i]))) = r
  <2>1. Cardinality(Hits(l, Ahead(l[i]))) \in Nat
    BY <1>5, HitsFacts
  <2>2. QED
    BY <1>5, <1>7, <1>8, <2>1
<1>10. ~(l[i].val > cur)
  <2> SUFFICES ASSUME l[i].val > cur PROVE FALSE
    OBVIOUS
  <2>1. i \in Hits(l, Above(cur)) /\ i \notin Hits(l, Ahead(l[i]))
    BY <1>8, LessOrders DEF Hits, Above, Ahead
  <2>2. \A y \in Unit : Less(y, l[i]) => y.val > cur
    <3>1. \A y \in Unit : Less(y, l[i]) => y.val >= l[i].val
      BY <1>8, UnitFacts DEF Less
    <3>2. QED
      BY <1>1, <1>8, <3>1, UnitFacts
  <2>3. Hits(l, Ahead(l[i])) \subseteq Hits(l, Above(cur))
    BY <2>2 DEF Hits, Ahead, Above
  <2>4. Cardinality(Hits(l, Ahead(l[i]))) < Cardinality(Hits(l, Above(cur))) /\ Cardinality(Hits(l, Above(cur))) \in Nat
    BY <1>5, <2>1, <2>3, HitsFacts, Fewer
  <2>5. QED
    BY <1>5, <1>9, <2>4
<1>11. ~(l[i].val < cur)
  <2> SUFFICES ASSUME l[i].val < cur PROVE FALSE
    OBVIOUS
  <2>1. \A y \in Unit : y.val >= cur => Less(y, l[i])
    BY <1>1, <1>8, UnitFacts DEF Less
  <2>2. Hits(l, AtLeast(cur)) \subseteq Hits(l, Ahead(l[i]))
    BY <2>1 DEF Hits, Ahead, AtLeast
  <2>3. Cardinality(Hits(l, AtLeast(cur))) <= Cardinality(Hits(l, Ahead(l[i]))) /\ Cardinality(Hits(l, AtLeast(cur))) \in Nat
    BY <1>5, <2>2, HitsFacts, FS_Subset
  <2>4. QED
    BY <1>5, <1>9, <2>3
<1>12. l[i].val = cur
  BY <1>1, <1>8, <1>10, <1>11, UnitFacts
<1>13. QED
  BY <1>7, <1>12 DEF l, r

\* The unit whose turn it is keeps it, when the new units have other names and other values.
LEMMA AddedKeeps ==
  ASSUME NEW lst \in Seq(Unit), InOrder(lst), NEW items \in Seq(Unit), items # <<>>, round \in Nat, round < Len(lst),
         lst[round + 1].val = cur,
         \A k \in DOMAIN items : items[k].val # cur /\ items[k].name \notin NamesOf(lst),
         \A k, l \in DOMAIN items : items[k].name = items[l].name => k = l
  PROVE  Sorted(Added(lst, items).lst)[Added(lst, items).round + 1] = lst[round + 1]
<1> DEFINE u == lst[round + 1]
           Q == {st \in States : /\ Distinct(st.lst) /\ \A i \in DOMAIN st.lst : st.lst[i] \in Met(lst, items)
                                 /\ Cardinality(Hits(st.lst, Ahead(u))) = st.round
                                 /\ round + 1 \in DOMAIN st.lst /\ st.lst[round + 1] = u}
<1>1. u \in Unit /\ u.val = cur /\ cur \in Int /\ round + 1 \in DOMAIN lst
  <2>1. u \in Unit /\ u.val = cur /\ round + 1 \in DOMAIN lst
    OBVIOUS
  <2>2. QED
    BY <2>1, UnitFacts
<1>2. Start(lst) \in Q
  <2>1. Start(lst) \in States /\ Start(lst).lst = lst /\ Start(lst).round = round
    BY DEF Start, States
  <2>2. Cardinality(Hits(lst, Ahead(u))) = round
    BY OrderCounts
  <2>3. QED
    BY <1>1, <2>1, <2>2, OrderDistinct DEF Met
<1> HIDE DEF u
<1>3. ASSUME NEW st \in Q, NEW k \in DOMAIN Sorted(items)
      PROVE  Adding(st, Sorted(items)[k]) \in Q
  <2> DEFINE x == Sorted(items)[k]
  <2>1. PICK l \in DOMAIN items : x = items[l] /\ x \in Unit
    BY SortedItem
  <2> HIDE DEF x
  <2>2. /\ st \in States /\ Distinct(st.lst) /\ st.round \in Nat /\ st.lst \in Seq(Unit)
        /\ Cardinality(Hits(st.lst, Ahead(u))) = st.round
        /\ \A i \in DOMAIN st.lst : st.lst[i] \in Met(lst, items)
        /\ round + 1 \in DOMAIN st.lst /\ st.lst[round + 1] = u
    BY DEF States
  <2>3. /\ Adding(st, x) \in States /\ Distinct(Adding(st, x).lst)
        /\ \/ /\ Adding(st, x).lst = Append(st.lst, x)
              /\ Adding(st, x).round = IF x.val > cur THEN st.round + 1 ELSE st.round
           \/ \E i \in DOMAIN st.lst : st.lst[i].name = x.name /\ (st.lst[i] = x => Adding(st, x) = st)
    BY <2>1, <2>2, AddingCases
  <2>4. CASE Adding(st, x).lst = Append(st.lst, x) /\ Adding(st, x).round = IF x.val > cur THEN st.round + 1 ELSE st.round
    <3>1. x \in Ahead(u) <=> x.val > cur
      <4>1. x.val # cur /\ x.val \in Int
        BY <2>1, UnitFacts
      <4>2. QED
        BY <1>1, <2>1, <4>1 DEF Ahead, Less
    <3>2. Cardinality(Hits(Append(st.lst, x), Ahead(u)))
          = IF x \in Ahead(u) THEN Cardinality(Hits(st.lst, Ahead(u))) + 1 ELSE Cardinality(Hits(st.lst, Ahead(u)))
      BY <2>1, <2>2, HitsAppend
    <3>3. Cardinality(Hits(Adding(st, x).lst, Ahead(u))) = Adding(st, x).round
      BY <2>2, <2>4, <3>1, <3>2
    <3>4. /\ \A i \in DOMAIN Append(st.lst, x) : Append(st.lst, x)[i] = x \/ (i \in DOMAIN st.lst /\ Append(st.lst, x)[i] = st.lst[i])
          /\ \A i \in DOMAIN st.lst : i \in DOMAIN Append(st.lst, x) /\ Append(st.lst, x)[i] = st.lst[i]
      BY <2>1, <2>2, AppendFacts
    <3>5. \A i \in DOMAIN Adding(st, x).lst : Adding(st, x).lst[i] \in Met(lst, items)
      <4>1. x \in Met(lst, items)
        BY <2>1 DEF Met
      <4>2. \A i \in DOMAIN Append(st.lst, x) : Append(st.lst, x)[i] \in Met(lst, items)
        BY <2>2, <3>4, <4>1
      <4>3. QED
        BY <2>4, <4>2
    <3>6. round + 1 \in DOMAIN Adding(st, x).lst /\ Adding(st, x).lst[round + 1] = u
      BY <2>2, <2>4, <3>4
    <3>7. QED
      BY <2>3, <3>3, <3>5, <3>6 DEF x
  <2>5. CASE \E i \in DOMAIN st.lst : st.lst[i].name = x.name /\ (st.lst[i] = x => Adding(st, x) = st)
    <3>1. PICK i \in DOMAIN st.lst : st.lst[i].name = x.name /\ (st.lst[i] = x => Adding(st, x) = st)
      BY <2>5
    <3>2. st.lst[i] \in Met(lst, items)
      BY <2>2
    <3>3. x.name \notin NamesOf(lst)
      BY <2>1
    <3>4. PICK m \in DOMAIN items : st.lst[i] = items[m]
      BY <3>1, <3>2, <3>3 DEF Met, NamesOf
    <3>5. st.lst[i] = x
      BY <2>1, <3>1, <3>4
    <3>6. QED
      BY <3>1, <3>5 DEF x
  <2>6. QED
    BY <2>3, <2>4, <2>5
<1> HIDE DEF Q
<1>4. Added(lst, items) \in Q
  BY <1>2, <1>3, AddedReached
<1> DEFINE l == Added(lst, items).lst
           r == Added(lst, items).round
<1>5. l \in Seq(Unit) /\ Distinct(l) /\ r \in Nat /\ Cardinality(Hits(l, Ahead(u))) = r /\ round + 1 \in DOMAIN l /\ l[round + 1] = u
  BY <1>4 DEF Q, States
<1> HIDE DEF l, r
<1>6. Higher(l, u) = Hits(l, Ahead(u))
  BY <1>5 DEF Higher, Hits, Ahead
<1>7. Sorted(l)[Cardinality(Higher(l, u)) + 1] = u
  BY <1>5, SortedPlace
<1>8. QED
  BY <1>5, <1>6, <1>7 DEF l, r, u

(***************************************************************************)
(* What deleting does to the turn.                                         *)
(***************************************************************************)
LEMMA Modulo ==
  ASSUME NEW n \in Nat, n > 0, NEW a \in Nat
  PROVE  a % n \in 0..n - 1 /\ (a < n => a % n = a) /\ (n <= a /\ a < n + n => a % n = a - n)
<1>1. a % n \in 0..n - 1
  OBVIOUS
<1>2. ASSUME a < n PROVE a % n = a
  BY <1>2
<1>3. ASSUME n <= a, a < n + n PROVE a % n = a - n
  BY <1>3
<1>4. QED
  BY <1>1, <1>2, <1>3

\* The index loses the deleted units before it: how many are left of them.
LeftUpTo(lst, names, r) == Cardinality(UpTo(Left(lst, names), r))

LEMMA LeftBefore ==
  ASSUME NEW lst \in Seq(Unit), NEW names, NEW r \in Nat, r < Len(lst)
  PROVE  /\ r - Cardinality({k \in 1..r : k \in DOMAIN lst /\ lst[k].name \in names}) = LeftUpTo(lst, names, r)
         /\ LeftUpTo(lst, names, r) \in Nat /\ LeftUpTo(lst, names, r) <= Cardinality(Left(lst, names))
<1> DEFINE I == Left(lst, names)
           G == {k \in 1..r : k \in DOMAIN lst /\ lst[k].name \in names}
<1>1. DOMAIN lst = 1..Len(lst) /\ Len(lst) \in Nat /\ 1..r \subseteq DOMAIN lst
  OBVIOUS
<1>2. (1..r) \ G = UpTo(I, r) /\ (1..r) \cap G = G
  <2>1. \A k \in DOMAIN lst : k <= r <=> k \in 1..r
    BY <1>1
  <2>2. QED
    BY <1>1, <2>1 DEF UpTo, Left
<1>3. IsFiniteSet(1..r) /\ Cardinality(1..r) = r
  BY FirstCount
<1> HIDE DEF G
<1>4. Cardinality((1..r) \ G) = Cardinality(1..r) - Cardinality((1..r) \cap G)
  BY <1>3, FS_Difference
<1>5. UpTo(I, r) \subseteq I
  BY DEF UpTo
<1>6. IsFiniteSet(UpTo(I, r)) /\ Cardinality(UpTo(I, r)) <= Cardinality(I) /\ Cardinality(UpTo(I, r)) \in Nat /\ Cardinality(I) \in Nat
  BY <1>5, LeftFacts, FS_Subset, FS_CardinalityType
<1>7. LeftUpTo(lst, names, r) = Cardinality(UpTo(I, r))
  BY DEF LeftUpTo
<1>8. Cardinality(UpTo(I, r)) = r - Cardinality(G)
  BY <1>2, <1>3, <1>4
<1>9. QED
  BY <1>6, <1>7, <1>8 DEF G

LEMMA DelRoundFacts ==
  ASSUME NEW lst \in Seq(Unit), NEW names, NEW r \in Nat, r < Len(lst)
  PROVE  /\ DelRound(lst, names, r) = IF LeftUpTo(lst, names, r) >= Len(Kept(lst, names)) THEN 0 ELSE LeftUpTo(lst, names, r)
         /\ DelRound(lst, names, r) \in Nat
         /\ Kept(lst, names) = <<>> => DelRound(lst, names, r) = 0
         /\ Kept(lst, names) # <<>> => DelRound(lst, names, r) < Len(Kept(lst, names))
<1>1. DelRound(lst, names, r) = IF LeftUpTo(lst, names, r) >= Len(Kept(lst, names)) THEN 0 ELSE LeftUpTo(lst, names, r)
  BY LeftBefore DEF DelRound
<1>2. /\ Kept(lst, names) \in Seq(Unit) /\ Len(Kept(lst, names)) \in Nat
      /\ LeftUpTo(lst, names, r) \in Nat /\ LeftUpTo(lst, names, r) <= Len(Kept(lst, names))
  BY KeptFacts, LeftFacts, LeftBefore
<1>3. Kept(lst, names) = <<>> => Len(Kept(lst, names)) = 0
  BY <1>2
<1>4. Kept(lst, names) # <<>> => Len(Kept(lst, names)) > 0
  BY <1>2
<1>5. QED
  BY <1>1, <1>2, <1>3, <1>4

\* The least of a set of positions, that comes after n of them.
LEMMA NextPlace ==
  ASSUME NEW lst \in Seq(Unit), NEW names, NEW r \in Nat, r < Len(lst), NEW i \in Left(lst, names), r < i,
         \A k \in Left(lst, names) : r < k => i <= k
  PROVE  /\ LeftUpTo(lst, names, r) < Cardinality(Left(lst, names))
         /\ Kept(lst, names)[LeftUpTo(lst, names, r) + 1] = lst[i]
<1> DEFINE I == Left(lst, names)
<1>1. I \subseteq Nat /\ IsFiniteSet(I) /\ i \in I /\ i \in Nat
  BY LeftFacts
<1>2. Place(lst, names, i) = LeftUpTo(lst, names, r) + 1
  <2>1. UpTo(I, i) = UpTo(I, r) \cup {i}
    <3>1. \A k \in I : k <= i <=> (k <= r \/ k = i)
      BY <1>1
    <3>2. QED
      BY <1>1, <3>1 DEF UpTo
  <2>2. i \notin UpTo(I, r)
    BY <1>1 DEF UpTo
  <2>3. UpTo(I, r) \subseteq I
    BY DEF UpTo
  <2>4. IsFiniteSet(UpTo(I, r))
    BY <1>1, <2>3, FS_Subset
  <2>5. QED
    BY <2>1, <2>2, <2>4, FS_AddElement DEF Place, LeftUpTo
<1>3. Place(lst, names, i) \in 1..Cardinality(I) /\ Kept(lst, names)[Place(lst, names, i)] = lst[i]
  BY LeftFacts, KeptFacts
<1>4. LeftUpTo(lst, names, r) \in Nat /\ Cardinality(I) \in Nat
  BY LeftBefore, LeftFacts
<1>5. QED
  BY <1>2, <1>3, <1>4

LEMMA DelNext ==
  ASSUME NEW lst \in Seq(Unit), NEW names, NEW r \in Nat, r < Len(lst), NEW i \in Left(lst, names), r < i,
         \A k \in Left(lst, names) : r < k => i <= k
  PROVE  /\ DelRound(lst, names, r) < Len(Kept(lst, names))
         /\ Kept(lst, names)[DelRound(lst, names, r) + 1] = lst[i]
<1>1. LeftUpTo(lst, names, r) < Len(Kept(lst, names)) /\ LeftUpTo(lst, names, r) \in Nat /\ Len(Kept(lst, names)) \in Nat
  <2>1. Len(Kept(lst, names)) = Cardinality(Left(lst, names)) /\ Cardinality(Left(lst, names)) \in Nat
    BY KeptFacts, LeftFacts
  <2>2. LeftUpTo(lst, names, r) < Cardinality(Left(lst, names)) /\ LeftUpTo(lst, names, r) \in Nat
    BY NextPlace, LeftBefore
  <2>3. QED
    BY <2>1, <2>2
<1>2. DelRound(lst, names, r) = LeftUpTo(lst, names, r)
  BY <1>1, DelRoundFacts
<1>3. QED
  BY <1>1, <1>2, NextPlace

\* With nobody left after the index, the first of all is next.
LEMMA DelFirst ==
  ASSUME NEW lst \in Seq(Unit), NEW names, NEW r \in Nat, r < Len(lst), NEW i \in Left(lst, names),
         \A k \in Left(lst, names) : k <= r /\ i <= k
  PROVE  /\ DelRound(lst, names, r) < Len(Kept(lst, names))
         /\ Kept(lst, names)[DelRound(lst, names, r) + 1] = lst[i]
<1> DEFINE I == Left(lst, names)
<1>1. I \subseteq Nat /\ IsFiniteSet(I) /\ i \in I /\ i \in Nat /\ Cardinality(I) \in Nat
  BY LeftFacts
<1>2. UpTo(I, r) = I
  BY DEF UpTo
<1>3. Len(Kept(lst, names)) = Cardinality(I) /\ LeftUpTo(lst, names, r) = Cardinality(I)
  BY <1>2, KeptFacts DEF LeftUpTo
<1>4. DelRound(lst, names, r) = 0
  BY <1>1, <1>3, DelRoundFacts
<1>5. Place(lst, names, i) = 1
  <2>1. UpTo(I, i) = {i}
    BY <1>1 DEF UpTo
  <2>2. QED
    BY <2>1, FS_Singleton DEF Place
<1>6. Kept(lst, names)[1] = lst[i] /\ 1 \in 1..Cardinality(I)
  BY <1>5, LeftFacts, KeptFacts
<1>7. QED
  BY <1>1, <1>3, <1>4, <1>6

\* The unit whose turn it is stays at the index while it is not deleted.
LEMMA DelStays ==
  ASSUME NEW lst \in Seq(Unit), NEW names, NEW r \in Nat, r < Len(lst), lst[r + 1].name \notin names
  PROVE  /\ DelRound(lst, names, r) < Len(Kept(lst, names))
         /\ Kept(lst, names)[DelRound(lst, names, r) + 1] = lst[r + 1]
         /\ r = 0 => DelRound(lst, names, r) = 0
<1>1. r + 1 \in Left(lst, names) /\ Left(lst, names) \subseteq Nat
  BY LeftFacts DEF Left
<1>2. \A k \in Left(lst, names) : r < k => r + 1 <= k
  BY <1>1
<1>3. DelRound(lst, names, r) < Len(Kept(lst, names)) /\ Kept(lst, names)[DelRound(lst, names, r) + 1] = lst[r + 1]
  BY <1>1, <1>2, DelNext
<1>4. ASSUME r = 0 PROVE DelRound(lst, names, r) = 0
  <2>1. UpTo(Left(lst, names), r) = {}
    <3>1. \A k \in Left(lst, names) : ~(k <= 0)
      BY LeftFacts
    <3>2. QED
      BY <1>4, <3>1 DEF UpTo
  <2>2. LeftUpTo(lst, names, r) = 0
    BY <2>1, FS_EmptySet DEF LeftUpTo
  <2>3. QED
    BY <2>2, DelRoundFacts
<1>5. QED
  BY <1>3, <1>4

\* Whoever comes next in turn among those that are left has the turn.
LEMMA DelTurn ==
  ASSUME NEW lst \in Seq(Unit), NEW names, NEW r \in Nat, r < Len(lst)
  PROVE  TurnOf(Kept(lst, names), DelRound(lst, names, r)) = NextLeft(lst, r, names)
<1> DEFINE L == Len(lst)
           at(k) == ((r + k) % L) + 1
           left == {k \in 0..L - 1 : lst[at(k)].name \notin names}
           I == Left(lst, names)
<1>1. L \in Nat /\ L > 0 /\ DOMAIN lst = 1..L
  OBVIOUS
<1>2. ASSUME NEW k \in 0..L - 1
      PROVE  at(k) \in 1..L /\ (r + k < L => at(k) = r + k + 1) /\ (r + k >= L => at(k) = r + k + 1 - L)
  <2>1. r + k \in Nat /\ r + k < L + L
    BY <1>1
  <2> HIDE DEF L
  <2>2. (r + k) % L \in 0..L - 1 /\ (r + k < L => (r + k) % L = r + k) /\ (r + k >= L => (r + k) % L = r + k - L)
    BY <1>1, <2>1, Modulo
  <2>3. QED
    BY <1>1, <2>1, <2>2
<1> HIDE DEF at
<1>3. \A k \in 0..L - 1 : k \in left <=> at(k) \in I
  BY <1>1, <1>2 DEF Left
<1>4. I \subseteq 1..L
  BY LeftFacts
<1>5. ASSUME NEW i \in I
      PROVE  \E k \in 0..L - 1 : at(k) = i /\ k \in left /\ k = (IF r < i THEN i - 1 - r ELSE i - 1 - r + L)
  <2> DEFINE k == IF r < i THEN i - 1 - r ELSE i - 1 - r + L
  <2>1. i \in 1..L
    BY <1>4
  <2>2. k \in 0..L - 1 /\ (r < i => r + k < L /\ r + k + 1 = i) /\ (~(r < i) => r + k >= L /\ r + k + 1 - L = i)
    BY <1>1, <2>1
  <2>3. at(k) = i
    <3> HIDE DEF k, L
    <3>1. QED
      BY <1>2, <2>2
  <2>4. k \in left
    BY <1>3, <2>2, <2>3
  <2>5. QED
    BY <2>2, <2>3, <2>4
<1>6. NextLeft(lst, r, names) = IF left = {} THEN NoUnit ELSE lst[at(CHOOSE k \in left : \A l \in left : k <= l)].name
  BY DEF NextLeft, at
<1>7. Kept(lst, names) \in Seq(Unit) /\ Len(Kept(lst, names)) = Cardinality(I) /\ IsFiniteSet(I)
  BY KeptFacts, LeftFacts
<1>8. CASE I = {}
  <2>1. left = {}
    BY <1>3, <1>8
  <2>2. Len(Kept(lst, names)) = 0
    BY <1>7, <1>8, FS_EmptySet
  <2>3. Kept(lst, names) = <<>>
    BY <1>7, <2>2
  <2>4. QED
    BY <1>6, <2>1, <2>3 DEF TurnOf
<1>9. CASE I # {}
  <2>1. left # {} /\ left \subseteq 0..L - 1
    BY <1>5, <1>9
  <2> DEFINE m == CHOOSE k \in left : \A l \in left : k <= l
  <2>2. m \in left /\ \A l \in left : m <= l
    <3>1. left \subseteq Nat
      BY <1>1
    <3> HIDE DEF left
    <3>2. \E k \in left : \A l \in left : k <= l
      BY <2>1, <3>1, Smallest
    <3>3. QED
      BY <3>2
  <2> HIDE DEF m
  <2>3. m \in 0..L - 1 /\ at(m) \in I /\ at(m) \in 1..L
    BY <1>2, <1>3, <2>1, <2>2
  <2>4. ASSUME NEW i \in I PROVE m <= IF r < i THEN i - 1 - r ELSE i - 1 - r + L
    BY <1>5, <2>2
  <2>5. DelRound(lst, names, r) < Len(Kept(lst, names)) /\ Kept(lst, names)[DelRound(lst, names, r) + 1] = lst[at(m)]
    <3>1. CASE r + m < L
      <4>1. at(m) = r + m + 1 /\ r < at(m)
        BY <1>1, <1>2, <2>3, <3>1
      <4>2. \A k \in I : r < k => at(m) <= k
        <5> SUFFICES ASSUME NEW k \in I, r < k PROVE at(m) <= k
          OBVIOUS
        <5>1. m <= k - 1 - r /\ k \in Nat
          BY <1>4, <2>4
        <5>2. QED
          BY <1>1, <2>3, <4>1, <5>1
      <4>3. QED
        BY <2>3, <4>1, <4>2, DelNext
    <3>2. CASE ~(r + m < L)
      <4>1. at(m) = r + m + 1 - L
        BY <1>1, <1>2, <2>3, <3>2
      <4>2. \A k \in I : k <= r /\ at(m) <= k
        <5> SUFFICES ASSUME NEW k \in I PROVE k <= r /\ at(m) <= k
          OBVIOUS
        <5>1. k \in 1..L
          BY <1>4
        <5>2. k <= r
          BY <1>1, <2>3, <2>4, <3>2, <5>1
        <5>3. m <= k - 1 - r + L
          BY <1>1, <2>4, <5>1, <5>2
        <5>4. QED
          BY <1>1, <2>3, <4>1, <5>1, <5>2, <5>3
      <4>3. QED
        BY <2>3, <4>2, DelFirst
    <3>3. QED
      BY <3>1, <3>2
  <2>6. Kept(lst, names) # <<>>
    <3>1. Cardinality(I) # 0
      BY <1>7, <1>9, FS_EmptySet
    <3>2. QED
      BY <1>7, <3>1
  <2>7. NextLeft(lst, r, names) = lst[at(m)].name
    BY <1>6, <2>1 DEF m
  <2>8. QED
    BY <2>5, <2>6, <2>7 DEF TurnOf
<1>10. QED
  BY <1>8, <1>9

(***************************************************************************)
(* Whatever overlaps: the list and every copy of it are in order, and who  *)
(* is to have the turn next is in the list that is left.                   *)
(***************************************************************************)
RiJobSound(j) ==
  LET left == Kept(j.lst, j.names) IN
  /\ j.pc # "idle" => InOrder(j.lst)
  /\ j.pc \in {"turn", "again"} => /\ j.next = -1
                                   /\ \/ j.op \in {"ri", "set"} /\ j.items # <<>> /\ j.names = {}
                                      \/ j.op \in {"ed", "del"} /\ j.lst # <<>>
  /\ j.pc \in {"save", "pass"} =>
       \/ j.op \in {"ri", "set"} /\ j.next = -1 /\ j.names = {} /\ j.pc = "save"
       \/ j.op = "clr" /\ j.lst = <<>> /\ j.next = -1
       \/ j.op = "del" /\ (left # <<>> => j.next < Len(left)) /\ (left = <<>> => j.next <= 0) /\ (j.pc = "pass" => j.next >= 0)

RiInv == RiTypeOK /\ InOrder(riList) /\ ~panicked /\ \A h \in RiHandlers : RiJobSound(riJob[h])

LEMMA EmptyFacts ==
  /\ <<>> \in Seq(Unit) /\ InOrder(<<>>) /\ Len(<<>>) = 0
  /\ \A names : Kept(<<>>, names) = <<>>
<1>1. <<>> \in Seq(Unit) /\ InOrder(<<>>) /\ Len(<<>>) = 0
  BY DEF InOrder
<1>2. ASSUME NEW names PROVE Kept(<<>>, names) = <<>>
  <2>1. Left(<<>>, names) = DOMAIN <<>>
    BY DEF Left
  <2>2. QED
    BY <1>1, <2>1, KeptAll
<1>3. QED
  BY <1>1, <1>2

LEMMA NothingDeleted ==
  ASSUME NEW lst \in Seq(Unit)
  PROVE  Kept(lst, {}) = lst
<1>1. Left(lst, {}) = DOMAIN lst
  BY DEF Left
<1>2. QED
  BY <1>1, KeptAll

LEMMA IdleSound == RiIdle \in RiJobs /\ RiJobSound(RiIdle) /\ RiIdle.pc = "idle"
<1>1. RiIdle.pc = "idle"
  BY DEF RiIdle
<1>2. RiJobSound(RiIdle)
  BY <1>1 DEF RiJobSound
<1>3. <<>> \in Seq(Unit)
  BY EmptyFacts
<1>4. RiIdle \in RiJobs
  <2> DEFINE none == <<>>
  <2>1. none \in Seq(Unit) /\ {} \in SUBSET Units /\ -1 \in Int /\ 0 \in Nat
    BY <1>3
  <2>2. RiIdle = [pc |-> "idle", op |-> "", items |-> none, names |-> {}, lst |-> none, next |-> -1, was |-> 0, ok |-> FALSE]
    BY DEF RiIdle
  <2> HIDE DEF none
  <2>3. QED
    BY <2>1, <2>2 DEF RiJobs
<1>5. QED
  BY <1>1, <1>2, <1>4

\* A step of handler h: the others' jobs stay.
LEMMA JobsStep ==
  ASSUME RiInv, NEW h \in RiHandlers, NEW j \in RiJobs, RiJobSound(j), riJob' = [riJob EXCEPT ![h] = j]
  PROVE  riJob' \in [RiHandlers -> RiJobs] /\ \A i \in RiHandlers : RiJobSound(riJob'[i])
<1>1. riJob \in [RiHandlers -> RiJobs] /\ \A i \in RiHandlers : RiJobSound(riJob[i])
  BY DEF RiInv, RiTypeOK
<1>2. \A i \in RiHandlers : riJob'[i] = IF i = h THEN j ELSE riJob[i]
  BY <1>1
<1>3. QED
  BY <1>1, <1>2

LEMMA JobFields ==
  ASSUME RiInv, NEW h \in RiHandlers
  PROVE  /\ riJob[h] \in RiJobs /\ RiJobSound(riJob[h]) /\ riJob \in [RiHandlers -> RiJobs]
         /\ riJob[h].lst \in Seq(Unit) /\ riJob[h].items \in Seq(Unit) /\ riJob[h].names \in SUBSET Units
         /\ riJob[h].next \in Int /\ riJob[h].was \in Nat /\ riJob[h].ok \in BOOLEAN
         /\ riJob[h].pc \in {"idle", "turn", "again", "save", "pass"} /\ riJob[h].op \in {"", "ri", "set", "del", "ed", "clr"}
<1>1. riJob[h] \in RiJobs /\ RiJobSound(riJob[h]) /\ riJob \in [RiHandlers -> RiJobs]
  BY DEF RiInv, RiTypeOK
<1>2. QED
  BY <1>1 DEF RiJobs

LEMMA InitRiInv == RiInit => RiInv
<1> SUFFICES ASSUME RiInit PROVE RiInv
  OBVIOUS
<1>1. PICK n \in 0..MaxListed : riList \in [1..n -> Unit]
  BY DEF RiInit
<1>2. riList \in Seq(Unit) /\ InOrder(riList)
  BY <1>1, MaxRiAssumption DEF RiInit
<1>3. cur \in Values \cup {NullInit} /\ round \in Nat
  <2>1. CASE cur = NullInit /\ round = 0
    BY <2>1
  <2>2. CASE \E i \in DOMAIN riList : round = i - 1 /\ cur = riList[i].val
    BY <1>2, <2>2, UnitFacts
  <2>3. QED
    BY <2>1, <2>2 DEF RiInit
<1>4. riJob \in [RiHandlers -> RiJobs] /\ \A h \in RiHandlers : riJob[h] = RiIdle
  BY IdleSound DEF RiInit
<1>5. riRan \in 0..MaxRi /\ panicked = FALSE /\ overlapped = FALSE /\ revalued = FALSE
  BY MaxRiAssumption DEF RiInit
<1>6. QED
  BY <1>2, <1>3, <1>4, <1>5, IdleSound DEF RiInv, RiTypeOK

\* The steps of a command.

LEMMA SomeUnits ==
  ASSUME NEW n \in Nat, n > 0, NEW f \in [1..n -> Unit]
  PROVE  f \in Seq(Unit) /\ f # <<>>
OBVIOUS

LEMMA LoadStep ==
  ASSUME RiInv, NEW h \in RiHandlers, NEW c \in RiSends, LoadByCurGroup(h, c)
  PROVE  RiInv'
<1> DEFINE j == [pc |-> IF c.op = "clr" THEN "save" ELSE "turn", op |-> c.op, items |-> c.items, names |-> c.names,
                 lst |-> IF c.op = "clr" THEN <<>> ELSE riList, next |-> -1, was |-> round, ok |-> ~revalued]
<1>1. /\ c.op \in {"ri", "set", "del", "ed", "clr"} /\ c.items \in Seq(Unit) /\ c.names \in SUBSET Units
      /\ c.op \in {"ri", "set"} => c.items # <<>> /\ c.names = {}
  <2>1. c \in RiCommands
    BY RiSendsAssumption
  <2>2. CASE c \in [op : {"ri"}, items : UNION {[1..n -> Unit] : n \in 1..MaxItems}, names : {{}}]
    <3>1. PICK n \in 1..MaxItems : c.items \in [1..n -> Unit]
      BY <2>2
    <3>2. c.items \in Seq(Unit) /\ c.items # <<>>
      BY <3>1, MaxRiAssumption
    <3>3. QED
      BY <2>2, <3>2
  <2>3. CASE c \in [op : {"set"}, items : [1..1 -> Unit], names : {{}}]
    <3>1. c.items \in [1..1 -> Unit] /\ c.op = "set" /\ c.names = {}
      BY <2>3
    <3>2. c.items \in Seq(Unit) /\ c.items # <<>>
      <4> DEFINE one == 1
      <4>1. one \in Nat /\ one > 0 /\ c.items \in [1..one -> Unit]
        BY <3>1
      <4> HIDE DEF one
      <4>2. QED
        BY <4>1, SomeUnits
    <3>3. QED
      BY <3>1, <3>2
  <2>4. CASE c \in [op : {"del"}, items : {<<>>}, names : SUBSET Units]
    BY <2>4, EmptyFacts
  <2>5. CASE c \in [op : {"ed", "clr"}, items : {<<>>}, names : {{}}]
    BY <2>5, EmptyFacts
  <2>6. QED
    BY <2>1, <2>2, <2>3, <2>4, <2>5 DEF RiCommands
<1>2. /\ riList \in Seq(Unit) /\ InOrder(riList) /\ round \in Nat /\ revalued \in BOOLEAN /\ cur \in Values \cup {NullInit}
      /\ riRan \in 0..MaxRi /\ overlapped \in BOOLEAN /\ panicked = FALSE
  BY DEF RiInv, RiTypeOK
<1>3. j \in RiJobs
  <2> DEFINE none == <<>>
             pc == IF c.op = "clr" THEN "save" ELSE "turn"
             lst == IF c.op = "clr" THEN none ELSE riList
             ok == ~revalued
  <2>1. none \in Seq(Unit)
    BY EmptyFacts
  <2> HIDE DEF none
  <2>2. pc \in {"turn", "save"} /\ lst \in Seq(Unit) /\ ok \in BOOLEAN /\ -1 \in Int
    BY <1>2, <2>1
  <2>3. j = [pc |-> pc, op |-> c.op, items |-> c.items, names |-> c.names, lst |-> lst, next |-> -1, was |-> round, ok |-> ok]
    BY DEF none
  <2> HIDE DEF pc, lst, ok, j
  <2>4. QED
    BY <1>1, <1>2, <2>2, <2>3 DEF RiJobs
<1>4. ~(c.op \in {"ed", "del"} /\ riList = <<>>) => RiJobSound(j)
  <2> SUFFICES ASSUME ~(c.op \in {"ed", "del"} /\ riList = <<>>) PROVE RiJobSound(j)
    OBVIOUS
  <2>1. /\ j.pc = (IF c.op = "clr" THEN "save" ELSE "turn") /\ j.op = c.op /\ j.items = c.items /\ j.names = c.names
        /\ j.lst = (IF c.op = "clr" THEN <<>> ELSE riList) /\ j.next = -1
    OBVIOUS
  <2> HIDE DEF j
  <2>2. InOrder(j.lst)
    BY <1>2, <2>1, EmptyFacts
  <2>3. QED
    BY <1>1, <2>1, <2>2 DEF RiJobSound
<1>5. riJob' \in [RiHandlers -> RiJobs] /\ \A i \in RiHandlers : RiJobSound(riJob'[i])
  <2>1. CASE c.op \in {"ed", "del"} /\ riList = <<>>
    <3>1. riJob' = [riJob EXCEPT ![h] = RiIdle]
      BY <2>1 DEF LoadByCurGroup
    <3>2. QED
      BY <3>1, IdleSound, JobsStep
  <2>2. CASE ~(c.op \in {"ed", "del"} /\ riList = <<>>)
    <3>1. riJob' = [riJob EXCEPT ![h] = j]
      BY <2>2 DEF LoadByCurGroup
    <3> HIDE DEF j
    <3>2. QED
      BY <1>3, <1>4, <2>2, <3>1, JobsStep
  <2>3. QED
    BY <2>1, <2>2
<1>6. cur' \in Values \cup {NullInit} /\ riRan' \in 0..MaxRi /\ overlapped' \in BOOLEAN
  BY <1>2, MaxRiAssumption DEF LoadByCurGroup
<1>7. riList' = riList /\ round' = round /\ panicked' = panicked /\ revalued' = revalued
  BY DEF LoadByCurGroup
<1>8. QED
  BY <1>2, <1>5, <1>6, <1>7 DEF RiInv, RiTypeOK

\* .ri and .init set leave a sorted list with every name once.
LEMMA AddStep ==
  ASSUME RiInv, NEW h \in RiHandlers, Ri(h) \/ InitSet(h)
  PROVE  RiInv'
<1> DEFINE j == riJob[h]
           st == Added(j.lst, j.items)
           n == [j EXCEPT !.pc = "save", !.lst = Sorted(st.lst)]
<1>1. /\ j.pc = "turn" /\ j.op \in {"ri", "set"} /\ riJob' = [riJob EXCEPT ![h] = n]
      /\ riList' = riList /\ riRan' = riRan /\ panicked' = panicked /\ overlapped' = overlapped
      /\ revalued' = (revalued \/ Revalues(j.lst, j.items))
      /\ round' \in {round, st.round} /\ cur' \in {cur, NullInit}
  BY DEF Ri, InitSet, Turning, Then
<1>2. /\ j \in RiJobs /\ RiJobSound(j) /\ j.lst \in Seq(Unit) /\ j.items \in Seq(Unit)
      /\ InOrder(j.lst) /\ j.items # <<>> /\ j.names = {} /\ j.next = -1
  BY <1>1, JobFields DEF RiJobSound
<1> HIDE DEF j
<1>3. round \in Nat
  BY DEF RiInv, RiTypeOK
<1>4. st \in States /\ Distinct(st.lst)
  BY <1>2, <1>3, OrderDistinct, AddedTyped
<1> HIDE DEF st
<1>5. st.round \in Nat /\ st.lst \in Seq(Unit)
  BY <1>4 DEF States
<1>6. Sorted(st.lst) \in Seq(Unit) /\ InOrder(Sorted(st.lst))
  BY <1>4, <1>5, SortedFacts, SortedInOrder
<1>7. n \in RiJobs /\ n.pc = "save" /\ n.lst = Sorted(st.lst) /\ n.op = j.op /\ n.next = j.next /\ n.names = j.names
  BY <1>2, <1>6 DEF RiJobs
<1> HIDE DEF n
<1>8. RiJobSound(n)
  BY <1>1, <1>2, <1>6, <1>7 DEF RiJobSound
<1>9. riJob' \in [RiHandlers -> RiJobs] /\ \A i \in RiHandlers : RiJobSound(riJob'[i])
  BY <1>1, <1>7, <1>8, JobsStep
<1>10. /\ riList \in Seq(Unit) /\ InOrder(riList) /\ round' \in Nat /\ revalued' \in BOOLEAN /\ cur' \in Values \cup {NullInit}
       /\ riRan' \in 0..MaxRi /\ overlapped' \in BOOLEAN /\ panicked' = FALSE
  BY <1>1, <1>3, <1>5 DEF RiInv, RiTypeOK
<1>11. QED
  BY <1>1, <1>9, <1>10 DEF RiInv, RiTypeOK

LEMMA TurnSet ==
  ASSUME RiInv, NEW lst \in Seq(Unit), NEW i \in Nat, i < Len(lst), SetTurn(lst, i)
  PROVE  /\ cur' = lst[i + 1].val /\ cur' \in Values /\ round' = i /\ round' \in Nat
         /\ revalued' = FALSE /\ panicked' = panicked
<1>1. i + 1 \in DOMAIN lst /\ lst[i + 1] \in Unit
  OBVIOUS
<1>2. QED
  BY <1>1, UnitFacts DEF SetTurn

\* .init ed takes the next index modulo the length of its copy, which is not empty.
LEMMA EdStep ==
  ASSUME RiInv, NEW h \in RiHandlers, InitEd(h)
  PROVE  RiInv'
<1> DEFINE j == riJob[h]
           i == (round + 1) % Len(j.lst)
<1>1. /\ j.pc = "turn" /\ j.op = "ed" /\ SetTurn(j.lst, i) /\ riJob' = [riJob EXCEPT ![h] = RiIdle]
      /\ riList' = riList /\ riRan' = riRan /\ overlapped' = overlapped
  BY DEF InitEd, Turning, Then
<1>2. RiJobSound(j) /\ j.lst \in Seq(Unit)
  BY JobFields
<1> HIDE DEF j
<1>3. j.lst # <<>>
  BY <1>1, <1>2 DEF RiJobSound
<1>4. round \in Nat /\ Len(j.lst) \in Nat /\ Len(j.lst) > 0
  BY <1>2, <1>3 DEF RiInv, RiTypeOK
<1>5. i \in Nat /\ i < Len(j.lst)
  <2> DEFINE len == Len(j.lst)
             a == round + 1
  <2>1. len \in Nat /\ len > 0 /\ a \in Nat
    BY <1>4
  <2> HIDE DEF len, a
  <2>2. a % len \in 0..len - 1
    BY <2>1, Modulo
  <2>3. QED
    BY <2>1, <2>2 DEF len, a
<1> HIDE DEF i
<1>6. cur' \in Values /\ round' \in Nat /\ revalued' = FALSE /\ panicked' = panicked
  BY <1>1, <1>2, <1>5, TurnSet
<1>7. riJob' \in [RiHandlers -> RiJobs] /\ \A k \in RiHandlers : RiJobSound(riJob'[k])
  BY <1>1, IdleSound, JobsStep
<1>8. QED
  BY <1>1, <1>6, <1>7 DEF RiInv, RiTypeOK

\* What .init del leaves when no unit has the whole text as its name.
LEMMA TryFacts ==
  ASSUME RiInv, NEW h \in RiHandlers, TryWhole(h)
  PROVE  /\ riJob[h].pc = "turn" /\ riJob[h].op = "del" /\ riJob[h].lst # <<>>
         /\ UNCHANGED <<riList, cur, riRan, panicked, overlapped, revalued>>
         /\ round' \in Nat /\ (round < Len(riJob[h].lst) => round' = round)
         /\ riJob' = [riJob EXCEPT ![h] = [riJob[h] EXCEPT !.pc = "again"]]
         /\ [riJob[h] EXCEPT !.pc = "again"] \in RiJobs
<1> DEFINE j == riJob[h]
           len == Len(j.lst)
<1>1. /\ j.pc = "turn" /\ j.op = "del" /\ round' = round % len
      /\ UNCHANGED <<riList, cur, riRan, panicked, overlapped, revalued>>
      /\ riJob' = [riJob EXCEPT ![h].pc = "again"]
  BY DEF TryWhole, Turning
<1>2. j \in RiJobs /\ RiJobSound(j) /\ j.lst \in Seq(Unit) /\ riJob \in [RiHandlers -> RiJobs]
  BY JobFields
<1>3. [j EXCEPT !.pc = "again"] \in RiJobs
  BY <1>2 DEF RiJobs
<1>4. riJob' = [riJob EXCEPT ![h] = [riJob[h] EXCEPT !.pc = "again"]]
  BY <1>1, <1>2
<1>5. j.lst # <<>>
  BY <1>1, <1>2 DEF RiJobSound
<1>6. round \in Nat /\ len \in Nat /\ len > 0
  BY <1>2, <1>5 DEF RiInv, RiTypeOK
<1> HIDE DEF len
<1>7. round % len \in 0..len - 1 /\ (round < len => round % len = round)
  BY <1>6, Modulo
<1>8. round' \in Nat /\ (round < len => round' = round)
  BY <1>1, <1>7
<1>9. QED
  BY <1>1, <1>3, <1>4, <1>5, <1>8 DEF len

LEMMA TryStep ==
  ASSUME RiInv, NEW h \in RiHandlers, TryWhole(h)
  PROVE  RiInv'
<1> DEFINE n == [riJob[h] EXCEPT !.pc = "again"]
<1>1. /\ riJob' = [riJob EXCEPT ![h] = n] /\ n \in RiJobs /\ round' \in Nat
      /\ UNCHANGED <<riList, cur, riRan, panicked, overlapped, revalued>>
  BY TryFacts
<1>2. n.pc = "again" /\ n.lst = riJob[h].lst /\ n.op = "del" /\ n.next = riJob[h].next /\ n.names = riJob[h].names
  BY TryFacts, JobFields DEF RiJobs
<1>3. riJob[h].pc = "turn" /\ riJob[h].lst # <<>> /\ RiJobSound(riJob[h])
  BY TryFacts, JobFields
<1> HIDE DEF n
<1>4. RiJobSound(n)
  BY <1>2, <1>3 DEF RiJobSound
<1>5. riJob' \in [RiHandlers -> RiJobs] /\ \A k \in RiHandlers : RiJobSound(riJob'[k])
  BY <1>1, <1>4, JobsStep
<1>6. QED
  BY <1>1, <1>5 DEF RiInv, RiTypeOK

\* .init del takes the index modulo the length of its copy; the index it leaves is one of what is left.
LEMMA DelStep ==
  ASSUME RiInv, NEW h \in RiHandlers, InitDel(h)
  PROVE  RiInv'
<1> DEFINE j == riJob[h]
           r == round % Len(j.lst)
           next == DelRound(j.lst, j.names, r)
           over == j.names \cap NamesOf(j.lst) = {}
           passed == IF j.lst[r + 1].name \in j.names THEN next ELSE -1
           n == [j EXCEPT !.pc = "save", !.next = passed]
<1>1. /\ j.pc \in {"turn", "again"} /\ j.op = "del"
      /\ riList' = riList /\ cur' = cur /\ riRan' = riRan /\ overlapped' = overlapped /\ revalued' = revalued
      /\ r + 1 \in DOMAIN j.lst => /\ round' = next /\ panicked' = panicked
                                   /\ riJob' = [riJob EXCEPT ![h] = IF over THEN RiIdle ELSE n]
  BY DEF InitDel, Deleting
<1>2. j \in RiJobs /\ RiJobSound(j) /\ j.lst \in Seq(Unit)
  BY JobFields
<1> HIDE DEF j
<1>3. j.lst # <<>>
  BY <1>1, <1>2 DEF RiJobSound
<1>4. round \in Nat /\ Len(j.lst) \in Nat /\ Len(j.lst) > 0
  BY <1>2, <1>3 DEF RiInv, RiTypeOK
<1>5. r \in Nat /\ r < Len(j.lst)
  <2> DEFINE len == Len(j.lst)
  <2>1. len \in Nat /\ len > 0
    BY <1>4
  <2> HIDE DEF len
  <2>2. round % len \in 0..len - 1
    BY <1>4, <2>1, Modulo
  <2>3. QED
    BY <2>1, <2>2 DEF len
<1> HIDE DEF r
<1>6. /\ r + 1 \in DOMAIN j.lst /\ next \in Nat
      /\ Kept(j.lst, j.names) = <<>> => next = 0
      /\ Kept(j.lst, j.names) # <<>> => next < Len(Kept(j.lst, j.names))
  BY <1>2, <1>5, DelRoundFacts
<1> HIDE DEF next
<1>7. passed = next \/ passed = -1
  OBVIOUS
<1> HIDE DEF passed, over
<1>8. passed \in Int
  BY <1>6, <1>7
<1>9. n \in RiJobs /\ n.pc = "save" /\ n.lst = j.lst /\ n.op = "del" /\ n.next = passed /\ n.names = j.names
  BY <1>1, <1>2, <1>8 DEF RiJobs
<1> HIDE DEF n
<1>10. Kept(j.lst, j.names) \in Seq(Unit)
  BY <1>2, KeptFacts
<1>11. RiJobSound(n)
  <2>1. InOrder(j.lst)
    BY <1>1, <1>2 DEF RiJobSound
  <2>2. Len(Kept(j.lst, j.names)) \in Nat
    BY <1>10
  <2>3. Kept(j.lst, j.names) # <<>> => passed < Len(Kept(j.lst, j.names))
    BY <1>6, <1>7, <2>2
  <2>4. Kept(j.lst, j.names) = <<>> => passed <= 0
    BY <1>6, <1>7
  <2>5. QED
    BY <1>9, <2>1, <2>3, <2>4 DEF RiJobSound
<1>12. riJob' \in [RiHandlers -> RiJobs] /\ \A k \in RiHandlers : RiJobSound(riJob'[k])
  <2>1. CASE over
    BY <1>1, <1>6, <2>1, IdleSound, JobsStep
  <2>2. CASE ~over
    BY <1>1, <1>6, <1>9, <1>11, <2>2, JobsStep
  <2>3. QED
    BY <2>1, <2>2
<1>13. QED
  BY <1>1, <1>6, <1>12 DEF RiInv, RiTypeOK

LEMMA SaveStep ==
  ASSUME RiInv, NEW h \in RiHandlers, SaveToGroup(h)
  PROVE  RiInv'
<1> DEFINE j == riJob[h]
           more == j.op = "clr" \/ j.next >= 0
           n == [j EXCEPT !.pc = "pass", !.lst = j.lst]
<1>1. /\ j.pc = "save" /\ riList' = Kept(j.lst, j.names)
      /\ more => riJob' = [riJob EXCEPT ![h] = n]
      /\ ~more => riJob' = [riJob EXCEPT ![h] = RiIdle]
      /\ cur' = cur /\ round' = round /\ riRan' = riRan /\ overlapped' = overlapped /\ revalued' = revalued /\ panicked' = panicked
  BY DEF SaveToGroup, Then
<1>2. j \in RiJobs /\ RiJobSound(j) /\ j.lst \in Seq(Unit)
  BY JobFields
<1>3. n \in RiJobs /\ n.pc = "pass" /\ n.lst = j.lst /\ n.op = j.op /\ n.next = j.next /\ n.names = j.names
  BY <1>2 DEF RiJobs
<1> HIDE DEF j, n
<1>4. InOrder(j.lst)
  BY <1>1, <1>2 DEF RiJobSound
<1>5. riList' \in Seq(Unit) /\ InOrder(riList')
  BY <1>1, <1>2, <1>4, KeptFacts, KeptInOrder
<1>6. more => RiJobSound(n)
  BY <1>1, <1>2, <1>3, <1>4 DEF RiJobSound
<1>7. riJob' \in [RiHandlers -> RiJobs] /\ \A k \in RiHandlers : RiJobSound(riJob'[k])
  <2>1. CASE more
    BY <1>1, <1>3, <1>6, <2>1, JobsStep
  <2>2. CASE ~more
    BY <1>1, <2>2, IdleSound, JobsStep
  <2>3. QED
    BY <2>1, <2>2
<1>8. QED
  BY <1>1, <1>5, <1>7 DEF RiInv, RiTypeOK

LEMMA ClearStep ==
  ASSUME RiInv, NEW h \in RiHandlers, Clear(h)
  PROVE  RiInv'
<1>1. /\ riJob' = [riJob EXCEPT ![h] = RiIdle] /\ cur' = NullInit /\ round' \in {0, round} /\ revalued' = FALSE
      /\ riList' = riList /\ riRan' = riRan /\ overlapped' = overlapped /\ panicked' = panicked
  BY DEF Clear, Then
<1>2. riJob' \in [RiHandlers -> RiJobs] /\ \A k \in RiHandlers : RiJobSound(riJob'[k])
  BY <1>1, IdleSound, JobsStep
<1>3. /\ riList \in Seq(Unit) /\ InOrder(riList) /\ riRan \in 0..MaxRi /\ overlapped \in BOOLEAN /\ panicked = FALSE
      /\ round \in Nat
  BY DEF RiInv, RiTypeOK
<1>4. cur' \in Values \cup {NullInit} /\ round' \in Nat
  BY <1>1, <1>3
<1>5. QED
  BY <1>1, <1>2, <1>3, <1>4 DEF RiInv, RiTypeOK

\* Only .init del passes the turn on, to an index of the list that is left.
LEMMA PassStep ==
  ASSUME RiInv, NEW h \in RiHandlers, PassOn(h)
  PROVE  RiInv'
<1> DEFINE j == riJob[h]
           left == Kept(j.lst, j.names)
<1>1. /\ j.pc = "pass" /\ left # <<>> /\ SetTurn(left, j.next) /\ riJob' = [riJob EXCEPT ![h] = RiIdle]
      /\ riList' = riList /\ riRan' = riRan /\ overlapped' = overlapped
  BY DEF PassOn, Then
<1>2. j \in RiJobs /\ RiJobSound(j) /\ j.lst \in Seq(Unit) /\ j.next \in Int
  BY JobFields
<1> HIDE DEF j
<1>3. j.next \in Nat /\ j.next < Len(left) /\ left \in Seq(Unit)
  BY <1>1, <1>2, EmptyFacts, KeptFacts DEF RiJobSound
<1>4. cur' \in Values /\ round' \in Nat /\ revalued' = FALSE /\ panicked' = panicked
  BY <1>1, <1>3, TurnSet
<1>5. riJob' \in [RiHandlers -> RiJobs] /\ \A k \in RiHandlers : RiJobSound(riJob'[k])
  BY <1>1, IdleSound, JobsStep
<1>6. QED
  BY <1>1, <1>4, <1>5 DEF RiInv, RiTypeOK

LEMMA RiInvStep == RiInv /\ [RiNext]_riVars => RiInv'
<1> SUFFICES ASSUME RiInv, [RiNext]_riVars PROVE RiInv'
  OBVIOUS
<1>1. CASE UNCHANGED riVars
  BY <1>1 DEF riVars, RiInv, RiTypeOK
<1>2. ASSUME NEW h \in RiHandlers, RiSteps(h) PROVE RiInv'
  BY <1>2, AddStep, EdStep, TryStep, DelStep, SaveStep, ClearStep, PassStep DEF RiSteps
<1>3. ASSUME NEW h \in RiHandlers, NEW c \in RiSends, LoadByCurGroup(h, c) PROVE RiInv'
  BY <1>3, LoadStep
<1>4. QED
  BY <1>1, <1>2, <1>3 DEF RiNext

\* However commands overlap, the list stays in order with every name once, and no index runs out of it.
THEOREM RiIsSound == RiSpec => []RiSound
<1>1. RiInv => RiSound
  BY DEF RiInv, RiSound, ListInOrder, NoIndexOut
<1>2. QED
  BY InitRiInv, RiInvStep, <1>1, PTL DEF RiSpec

(***************************************************************************)
(* Without overlap: what a command knows of the turn at each of its steps. *)
(***************************************************************************)
Fits(lst, r, v, rev) ==
  /\ r < Len(lst) \/ (r = 0 /\ lst = <<>>)
  /\ lst # <<>> /\ ~rev => v = lst[r + 1].val \/ (v = NullInit /\ r = 0)

Undisturbed(j, lst, v) ==
  /\ j.ok /\ lst # <<>> /\ v # NullInit
  /\ \A k \in DOMAIN j.items : j.items[k].val # v /\ j.items[k].name \notin NamesOf(lst)
  /\ \A k, l \in DOMAIN j.items : j.items[k].name = j.items[l].name => k = l

Passed(j, r) == TurnOf(Kept(j.lst, j.names), r) = NextLeft(j.lst, j.was, j.names)

Knows(j, lst, r, v, rev) ==
  /\ j.pc \in {"turn", "again"} =>
       /\ j.lst = lst /\ j.was = r /\ (j.ok <=> ~rev) /\ Fits(lst, r, v, rev)
       /\ j.op = "ri" /\ lst = <<>> => v = NullInit
  /\ j.pc = "save" /\ j.op \in {"ri", "set"} => /\ Fits(j.lst, r, v, rev)
                                                /\ Undisturbed(j, lst, v) => TurnOf(j.lst, r) = TurnOf(lst, j.was)
  /\ j.pc = "save" /\ j.op = "del" => /\ Passed(j, r)
                                      /\ j.next = -1 => Fits(Kept(j.lst, j.names), r, v, rev)
                                      /\ j.next # -1 => r = j.next
  /\ j.pc = "pass" => lst = Kept(j.lst, j.names) /\ (j.op = "del" => r = j.next /\ Passed(j, r))

OneCommand == \A h, i \in RiHandlers : riJob[h].pc # "idle" /\ riJob[i].pc # "idle" => h = i

TurnInv ==
  ~overlapped => /\ OneCommand
                 /\ RiAtRest => Fits(riList, round, cur, revalued)
                 /\ \A h \in RiHandlers : Knows(riJob[h], riList, round, cur, revalued)

TurnKeeps == \A h \in RiHandlers : AddKeepsTurn(h) /\ DelKeepsTurn(h)

\* What the end of command j must leave: list lst and index r, when list was had value v.
Leaves(j, was, v, lst, r) ==
  /\ j.op \in {"ri", "set"} /\ Undisturbed(j, was, v) => TurnOf(lst, r) = TurnOf(was, j.was)
  /\ j.op = "del" => TurnOf(lst, r) = NextLeft(j.lst, j.was, j.names)

\* A step of handler h other than its first, when no command overlapped.
LEMMA OneCommandStep ==
  ASSUME RiInv, TurnInv, NEW h \in RiHandlers, riJob[h].pc # "idle", NEW n, riJob' = [riJob EXCEPT ![h] = n],
         overlapped' = overlapped,
         ~overlapped => /\ n.pc = "idle" => /\ Fits(riList', round', cur', revalued')
                                            /\ Leaves(riJob[h], riList, cur, riList', round')
                        /\ n.pc # "idle" => Knows(n, riList', round', cur', revalued')
  PROVE  TurnInv' /\ TurnKeeps
<1>1. riJob'[h] = n /\ \A i \in RiHandlers : i # h => riJob'[i] = riJob[i]
  BY DEF RiInv, RiTypeOK
<1>2. ~overlapped => \A i \in RiHandlers : i # h => riJob[i].pc = "idle"
  BY DEF TurnInv, OneCommand
<1>3. TurnInv'
  <2> SUFFICES ASSUME ~overlapped
               PROVE  /\ OneCommand'
                      /\ RiAtRest' => Fits(riList', round', cur', revalued')
                      /\ \A i \in RiHandlers : Knows(riJob'[i], riList', round', cur', revalued')
    BY DEF TurnInv
  <2>1. OneCommand'
    BY <1>1, <1>2 DEF OneCommand
  <2>2. RiAtRest' => Fits(riList', round', cur', revalued')
    BY <1>1 DEF RiAtRest
  <2>3. ASSUME NEW i \in RiHandlers PROVE Knows(riJob'[i], riList', round', cur', revalued')
    <3>1. CASE riJob'[i].pc = "idle"
      BY <3>1 DEF Knows
    <3>2. CASE riJob'[i].pc # "idle"
      BY <1>1, <1>2, <3>2
    <3>3. QED
      BY <3>1, <3>2
  <2>4. QED
    BY <2>1, <2>2, <2>3
<1>4. ASSUME NEW i \in RiHandlers PROVE AddKeepsTurn(i) /\ DelKeepsTurn(i)
  <2>1. CASE i # h
    <3>1. ~Ends(i)
      BY <1>1, <2>1 DEF Ends
    <3>2. QED
      BY <3>1 DEF AddKeepsTurn, DelKeepsTurn
  <2>2. CASE i = h
    <3>1. Ends(i) => ~overlapped /\ n.pc = "idle"
      BY <1>1, <2>2 DEF Ends
    <3>2. Ends(i) => Leaves(riJob[h], riList, cur, riList', round')
      BY <3>1
    <3>3. AddKeepsTurn(i)
      BY <2>2, <3>2 DEF AddKeepsTurn, Leaves, Undisturbed
    <3>4. DelKeepsTurn(i)
      BY <2>2, <3>2 DEF DelKeepsTurn, Leaves
    <3>5. QED
      BY <3>3, <3>4
  <2>3. QED
    BY <2>1, <2>2
<1>5. QED
  BY <1>3, <1>4 DEF TurnKeeps

LEMMA InitTurnInv == RiInit => TurnInv
<1> SUFFICES ASSUME RiInit PROVE TurnInv
  OBVIOUS
<1>1. \A h \in RiHandlers : riJob[h].pc = "idle"
  BY IdleSound DEF RiInit
<1>2. riList \in Seq(Unit) /\ Len(riList) \in Nat /\ DOMAIN riList = 1..Len(riList)
  BY InitRiInv DEF RiInv, RiTypeOK
<1>3. Fits(riList, round, cur, revalued)
  <2>1. CASE cur = NullInit /\ round = 0
    <3>1. riList = <<>> \/ 0 < Len(riList)
      BY <1>2
    <3>2. QED
      BY <2>1, <3>1 DEF Fits
  <2>2. CASE \E i \in DOMAIN riList : round = i - 1 /\ cur = riList[i].val
    <3>1. PICK i \in DOMAIN riList : round = i - 1 /\ cur = riList[i].val
      BY <2>2
    <3>2. round < Len(riList) /\ round + 1 = i
      BY <1>2, <3>1
    <3>3. QED
      BY <3>1, <3>2 DEF Fits
  <2>3. QED
    BY <2>1, <2>2 DEF RiInit
<1>4. OneCommand /\ \A h \in RiHandlers : Knows(riJob[h], riList, round, cur, revalued)
  BY <1>1 DEF OneCommand, Knows
<1>5. QED
  BY <1>3, <1>4 DEF TurnInv

LEMMA LoadTurn ==
  ASSUME RiInv, TurnInv, NEW h \in RiHandlers, NEW c \in RiSends, LoadByCurGroup(h, c)
  PROVE  TurnInv' /\ TurnKeeps
<1> DEFINE j == [pc |-> IF c.op = "clr" THEN "save" ELSE "turn", op |-> c.op, items |-> c.items, names |-> c.names,
                 lst |-> IF c.op = "clr" THEN <<>> ELSE riList, next |-> -1, was |-> round, ok |-> ~revalued]
           n == IF c.op \in {"ed", "del"} /\ riList = <<>> THEN RiIdle ELSE j
<1>1. /\ riJob[h].pc = "idle" /\ riJob' = [riJob EXCEPT ![h] = n] /\ riList' = riList /\ round' = round /\ revalued' = revalued
      /\ overlapped' = (overlapped \/ \E i \in RiHandlers : riJob[i].pc # "idle")
      /\ cur' = IF c.op = "ri" /\ riList = <<>> THEN NullInit ELSE cur
  BY DEF LoadByCurGroup
<1>2. /\ j.pc = (IF c.op = "clr" THEN "save" ELSE "turn") /\ j.op = c.op /\ j.was = round /\ (j.ok <=> ~revalued)
      /\ c.op # "clr" => j.lst = riList
  OBVIOUS
<1>3. n = RiIdle \/ n = j
  OBVIOUS
<1>4. c.op \in {"ri", "set", "del", "ed", "clr"}
  BY RiSendsAssumption DEF RiCommands
<1> HIDE DEF j, n
<1>5. riJob'[h] = n /\ \A i \in RiHandlers : i # h => riJob'[i] = riJob[i]
  BY <1>1 DEF RiInv, RiTypeOK
<1>6. TurnInv'
  <2> SUFFICES ASSUME ~overlapped'
               PROVE  /\ OneCommand'
                      /\ RiAtRest' => Fits(riList', round', cur', revalued')
                      /\ \A i \in RiHandlers : Knows(riJob'[i], riList', round', cur', revalued')
    BY DEF TurnInv
  <2>1. ~overlapped /\ \A i \in RiHandlers : riJob[i].pc = "idle"
    BY <1>1
  <2>2. Fits(riList, round, cur, revalued)
    BY <2>1 DEF TurnInv, RiAtRest
  <2>3. Fits(riList', round', cur', revalued')
    BY <1>1, <2>2 DEF Fits
  <2>4. OneCommand'
    BY <1>5, <2>1 DEF OneCommand
  <2>5. Knows(j, riList', round', cur', revalued')
    BY <1>1, <1>2, <1>4, <2>3 DEF Knows
  <2>6. ASSUME NEW i \in RiHandlers PROVE Knows(riJob'[i], riList', round', cur', revalued')
    <3>1. riJob'[i].pc = "idle" \/ riJob'[i] = j
      BY <1>3, <1>5, <2>1, IdleSound
    <3>2. QED
      BY <2>5, <3>1 DEF Knows
  <2>7. QED
    BY <2>3, <2>4, <2>6
<1>7. \A i \in RiHandlers : ~Ends(i)
  BY <1>1, <1>5 DEF Ends
<1>8. QED
  BY <1>6, <1>7 DEF TurnKeeps, AddKeepsTurn, DelKeepsTurn

\* What is known of a handler's command, when no command overlapped.
LEMMA KnownJob ==
  ASSUME RiInv, TurnInv, ~overlapped, NEW h \in RiHandlers
  PROVE  Knows(riJob[h], riList, round, cur, revalued)
BY DEF TurnInv

\* .ri and .init set: the list saved is sorted, and the turn is where it was.
LEMMA AddTurn ==
  ASSUME RiInv, TurnInv, NEW h \in RiHandlers, Ri(h) \/ InitSet(h)
  PROVE  TurnInv' /\ TurnKeeps
<1> DEFINE j == riJob[h]
           st == Added(j.lst, j.items)
           n == [j EXCEPT !.pc = "save", !.lst = Sorted(st.lst)]
<1>1. /\ j.pc = "turn" /\ j.op \in {"ri", "set"} /\ riJob' = [riJob EXCEPT ![h] = n]
      /\ riList' = riList /\ overlapped' = overlapped
      /\ revalued' = (revalued \/ Revalues(j.lst, j.items))
      /\ j.lst # <<>> \/ j.op = "ri" => round' = st.round /\ cur' = cur
      /\ j.lst = <<>> /\ j.op = "set" => round' = round /\ cur' = NullInit
  BY DEF Ri, InitSet, Turning, Then
<1>2. /\ j \in RiJobs /\ RiJobSound(j) /\ j.lst \in Seq(Unit) /\ j.items \in Seq(Unit)
      /\ InOrder(j.lst) /\ j.items # <<>> /\ j.names = {}
  BY <1>1, JobFields DEF RiJobSound
<1>3. ~overlapped => /\ j.lst = riList /\ j.was = round /\ (j.ok <=> ~revalued) /\ Fits(riList, round, cur, revalued)
                     /\ j.op = "ri" /\ riList = <<>> => cur = NullInit
  BY <1>1, KnownJob DEF Knows
<1> HIDE DEF j
<1>4. round \in Nat
  BY DEF RiInv, RiTypeOK
<1>5. /\ st \in States /\ Distinct(st.lst) /\ st.lst # <<>>
      /\ round < Len(j.lst) => st.round < Len(st.lst)
      /\ cur = NullInit => st.round = round
  BY <1>2, <1>4, OrderDistinct, AddedTyped
<1>6. /\ ~Revalues(j.lst, j.items) /\ round < Len(j.lst) /\ j.lst[round + 1].val = cur
         => Sorted(st.lst)[st.round + 1].val = cur
  BY <1>2, <1>4, AddedFits
<1>7. Undisturbed(j, j.lst, cur) /\ round < Len(j.lst) /\ j.lst[round + 1].val = cur
      => Sorted(st.lst)[st.round + 1] = j.lst[round + 1]
  BY <1>2, <1>4, AddedKeeps DEF Undisturbed
<1> HIDE DEF st
<1>8. st.round \in Nat /\ st.lst \in Seq(Unit)
  BY <1>5 DEF States
<1>9. Sorted(st.lst) \in Seq(Unit) /\ Len(Sorted(st.lst)) = Len(st.lst) /\ Sorted(st.lst) # <<>>
  BY <1>5, <1>8, SortedFacts
<1>10. /\ n.pc = "save" /\ n.lst = Sorted(st.lst) /\ n.op = j.op /\ n.names = j.names /\ n.items = j.items
       /\ n.was = j.was /\ n.ok = j.ok
  BY <1>2 DEF RiJobs
<1> HIDE DEF n
<1>11. ~overlapped => Fits(Sorted(st.lst), round', cur', revalued')
  <2> SUFFICES ASSUME ~overlapped PROVE Fits(Sorted(st.lst), round', cur', revalued')
    OBVIOUS
  <2>1. CASE j.lst = <<>>
    <3>1. Len(j.lst) = 0
      BY <2>1
    <3>2. round = 0
      BY <1>3, <1>4, <2>1, <3>1 DEF Fits
    <3>3. round' = 0 /\ cur' = NullInit
      BY <1>1, <1>3, <1>5, <2>1, <3>2
    <3>4. 0 < Len(Sorted(st.lst))
      BY <1>9
    <3>5. QED
      BY <3>3, <3>4 DEF Fits
  <2>2. CASE j.lst # <<>>
    <3>1. round < Len(j.lst) /\ (~revalued => cur = j.lst[round + 1].val \/ (cur = NullInit /\ round = 0))
      BY <1>3, <2>2 DEF Fits
    <3>2. round' = st.round /\ cur' = cur /\ round' < Len(Sorted(st.lst))
      BY <1>1, <1>5, <1>9, <2>2, <3>1
    <3>3. ~revalued' => cur = Sorted(st.lst)[st.round + 1].val \/ (cur = NullInit /\ st.round = 0)
      BY <1>1, <1>5, <1>6, <3>1
    <3>4. QED
      BY <3>2, <3>3 DEF Fits
  <2>3. QED
    BY <2>1, <2>2
<1>12. ~overlapped /\ Undisturbed(n, riList, cur') => TurnOf(Sorted(st.lst), round') = TurnOf(riList, n.was)
  <2> SUFFICES ASSUME ~overlapped, Undisturbed(n, riList, cur')
               PROVE  TurnOf(Sorted(st.lst), round') = TurnOf(riList, n.was)
    OBVIOUS
  <2>1. j.lst = riList /\ riList # <<>> /\ j.ok /\ cur' # NullInit
    BY <1>3, <1>10 DEF Undisturbed
  <2>2. round' = st.round /\ cur' = cur
    BY <1>1, <2>1
  <2>3. round < Len(j.lst) /\ cur = j.lst[round + 1].val
    BY <1>3, <2>1, <2>2 DEF Fits
  <2>4. Undisturbed(j, j.lst, cur)
    BY <1>10, <2>1, <2>2 DEF Undisturbed
  <2>5. Sorted(st.lst)[st.round + 1] = j.lst[round + 1] /\ st.round < Len(Sorted(st.lst))
    BY <1>5, <1>7, <1>9, <2>3, <2>4
  <2>6. QED
    BY <1>3, <1>9, <1>10, <2>1, <2>2, <2>3, <2>5 DEF TurnOf
<1>13. ~overlapped => Knows(n, riList', round', cur', revalued')
  BY <1>1, <1>10, <1>11, <1>12 DEF Knows
<1>14. QED
  BY <1>1, <1>10, <1>13, OneCommandStep DEF j

LEMMA EdTurn ==
  ASSUME RiInv, TurnInv, NEW h \in RiHandlers, InitEd(h)
  PROVE  TurnInv' /\ TurnKeeps
<1> DEFINE j == riJob[h]
           i == (round + 1) % Len(j.lst)
<1>1. /\ j.pc = "turn" /\ j.op = "ed" /\ SetTurn(j.lst, i) /\ riJob' = [riJob EXCEPT ![h] = RiIdle]
      /\ riList' = riList /\ overlapped' = overlapped
  BY DEF InitEd, Turning, Then
<1>2. RiJobSound(j) /\ j.lst \in Seq(Unit)
  BY JobFields
<1>3. ~overlapped => j.lst = riList
  BY <1>1, KnownJob DEF Knows
<1> HIDE DEF j
<1>4. j.lst # <<>>
  BY <1>1, <1>2 DEF RiJobSound
<1>5. i \in Nat /\ i < Len(j.lst)
  <2> DEFINE len == Len(j.lst)
             a == round + 1
  <2>1. len \in Nat /\ len > 0 /\ a \in Nat
    BY <1>2, <1>4 DEF RiInv, RiTypeOK
  <2> HIDE DEF len, a
  <2>2. a % len \in 0..len - 1
    BY <2>1, Modulo
  <2>3. QED
    BY <2>1, <2>2 DEF len, a
<1> HIDE DEF i
<1>6. cur' = j.lst[i + 1].val /\ round' = i
  BY <1>1, <1>2, <1>5, TurnSet
<1>7. ~overlapped => Fits(riList', round', cur', revalued')
  BY <1>1, <1>3, <1>5, <1>6 DEF Fits
<1>8. Leaves(j, riList, cur, riList', round')
  BY <1>1 DEF Leaves
<1>9. QED
  BY <1>1, <1>7, <1>8, OneCommandStep, IdleSound DEF j

LEMMA TryTurn ==
  ASSUME RiInv, TurnInv, NEW h \in RiHandlers, TryWhole(h)
  PROVE  TurnInv' /\ TurnKeeps
<1> DEFINE n == [riJob[h] EXCEPT !.pc = "again"]
<1>1. /\ riJob' = [riJob EXCEPT ![h] = n] /\ riJob[h].pc = "turn" /\ riJob[h].op = "del" /\ riJob[h].lst # <<>>
      /\ UNCHANGED <<riList, cur, overlapped, revalued>>
      /\ round < Len(riJob[h].lst) => round' = round
  BY TryFacts
<1>2. n.pc = "again" /\ n.lst = riJob[h].lst /\ n.op = "del" /\ n.was = riJob[h].was /\ n.ok = riJob[h].ok
  BY TryFacts, JobFields DEF RiJobs
<1> HIDE DEF n
<1>3. ~overlapped => Knows(riJob[h], riList, round, cur, revalued)
  BY DEF TurnInv
<1>4. ~overlapped => round' = round
  BY <1>1, <1>3 DEF Knows, Fits
<1>5. ~overlapped => Knows(n, riList', round', cur', revalued')
  BY <1>1, <1>2, <1>3, <1>4 DEF Knows
<1>6. QED
  BY <1>1, <1>2, <1>5, OneCommandStep

LEMMA DeleteTurn ==
  ASSUME RiInv, TurnInv, NEW h \in RiHandlers, InitDel(h)
  PROVE  TurnInv' /\ TurnKeeps
<1> DEFINE j == riJob[h]
           r == round % Len(j.lst)
           next == DelRound(j.lst, j.names, r)
           left == Kept(j.lst, j.names)
           over == j.names \cap NamesOf(j.lst) = {}
           passed == IF j.lst[r + 1].name \in j.names THEN next ELSE -1
           n == [j EXCEPT !.pc = "save", !.next = passed]
<1>1. /\ j.pc \in {"turn", "again"} /\ j.op = "del" /\ riList' = riList /\ cur' = cur /\ overlapped' = overlapped /\ revalued' = revalued
      /\ r + 1 \in DOMAIN j.lst => round' = next /\ riJob' = [riJob EXCEPT ![h] = IF over THEN RiIdle ELSE n]
  BY DEF InitDel, Deleting
<1>2. j \in RiJobs /\ RiJobSound(j) /\ j.lst \in Seq(Unit)
  BY JobFields
<1>3. ~overlapped => j.lst = riList /\ j.was = round /\ Fits(riList, round, cur, revalued)
  BY <1>1, KnownJob DEF Knows
<1> HIDE DEF j
<1>4. j.lst # <<>> /\ round \in Nat /\ Len(j.lst) \in Nat /\ Len(j.lst) > 0
  BY <1>1, <1>2 DEF RiJobSound, RiInv, RiTypeOK
<1>5. r \in Nat /\ r < Len(j.lst) /\ (round < Len(j.lst) => r = round)
  <2> DEFINE len == Len(j.lst)
  <2>1. len \in Nat /\ len > 0
    BY <1>4
  <2> HIDE DEF len
  <2>2. round % len \in 0..len - 1 /\ (round < len => round % len = round)
    BY <1>4, <2>1, Modulo
  <2>3. QED
    BY <2>1, <2>2 DEF len
<1> HIDE DEF r
<1>6. /\ r + 1 \in DOMAIN j.lst /\ next \in Nat /\ TurnOf(left, next) = NextLeft(j.lst, r, j.names)
      /\ j.lst[r + 1].name \notin j.names => /\ next < Len(left) /\ left[next + 1] = j.lst[r + 1] /\ (r = 0 => next = 0)
  BY <1>2, <1>5, DelRoundFacts, DelTurn, DelStays
<1>7. over => left = j.lst /\ j.lst[r + 1].name \notin j.names
  <2> SUFFICES ASSUME over PROVE left = j.lst /\ j.lst[r + 1].name \notin j.names
    OBVIOUS
  <2>1. \A i \in DOMAIN j.lst : j.lst[i].name \notin j.names
    BY DEF NamesOf
  <2>2. Left(j.lst, j.names) = DOMAIN j.lst
    BY <2>1 DEF Left
  <2>3. QED
    BY <1>2, <1>6, <2>1, <2>2, KeptAll
<1> HIDE DEF next, left, over
<1>8. passed = IF j.lst[r + 1].name \in j.names THEN next ELSE -1
  OBVIOUS
<1> HIDE DEF passed
<1>9. n.pc = "save" /\ n.lst = j.lst /\ n.op = "del" /\ n.next = passed /\ n.names = j.names /\ n.was = j.was
  BY <1>1, <1>2 DEF RiJobs
<1> HIDE DEF n
<1>10. ~overlapped => r = round /\ Passed(j, round') /\ TurnOf(left, round') = NextLeft(j.lst, j.was, j.names)
  BY <1>1, <1>3, <1>4, <1>5, <1>6 DEF Passed, Fits, left
<1>11. ~overlapped /\ j.lst[r + 1].name \notin j.names => Fits(left, round', cur', revalued')
  <2> SUFFICES ASSUME ~overlapped, j.lst[r + 1].name \notin j.names PROVE Fits(left, round', cur', revalued')
    OBVIOUS
  <2>1. round' = next /\ cur' = cur /\ revalued' = revalued /\ next < Len(left) /\ left[next + 1] = j.lst[round + 1]
        /\ (round = 0 => next = 0)
    BY <1>1, <1>6, <1>10
  <2>2. ~revalued => cur = j.lst[round + 1].val \/ (cur = NullInit /\ round = 0)
    BY <1>3, <1>4 DEF Fits
  <2>3. QED
    BY <2>1, <2>2 DEF Fits
<1>12. CASE over
  <2>1. riJob' = [riJob EXCEPT ![h] = RiIdle]
    BY <1>1, <1>6, <1>12
  <2>2. ~overlapped => Fits(riList', round', cur', revalued')
    BY <1>1, <1>3, <1>7, <1>11, <1>12
  <2>3. ~overlapped => Leaves(j, riList, cur, riList', round')
    BY <1>1, <1>3, <1>7, <1>10, <1>12 DEF Leaves
  <2>4. QED
    BY <1>1, <2>1, <2>2, <2>3, OneCommandStep, IdleSound DEF j
<1>13. CASE ~over
  <2>1. riJob' = [riJob EXCEPT ![h] = n]
    BY <1>1, <1>6, <1>13
  <2>2. next # -1 /\ round' = next
    BY <1>1, <1>6
  <2>3. ~overlapped => Passed(n, round')
    BY <1>9, <1>10 DEF Passed
  <2>4. ~overlapped /\ n.next = -1 => Fits(Kept(n.lst, n.names), round', cur', revalued')
    BY <1>8, <1>9, <1>11, <2>2 DEF left
  <2>5. n.next # -1 => round' = n.next
    BY <1>8, <1>9, <2>2
  <2>6. ~overlapped => Knows(n, riList', round', cur', revalued')
    BY <1>9, <2>3, <2>4, <2>5 DEF Knows
  <2>7. QED
    BY <1>1, <1>9, <2>1, <2>6, OneCommandStep DEF j
<1>14. QED
  BY <1>12, <1>13

LEMMA SaveTurn ==
  ASSUME RiInv, TurnInv, NEW h \in RiHandlers, SaveToGroup(h)
  PROVE  TurnInv' /\ TurnKeeps
<1> DEFINE j == riJob[h]
           left == Kept(j.lst, j.names)
           more == j.op = "clr" \/ j.next >= 0
           n == [j EXCEPT !.pc = "pass", !.lst = j.lst]
<1>1. /\ j.pc = "save" /\ riList' = left
      /\ more => riJob' = [riJob EXCEPT ![h] = n]
      /\ ~more => riJob' = [riJob EXCEPT ![h] = RiIdle]
      /\ cur' = cur /\ round' = round /\ overlapped' = overlapped /\ revalued' = revalued
  BY DEF SaveToGroup, Then
<1>2. j \in RiJobs /\ RiJobSound(j) /\ j.lst \in Seq(Unit) /\ j.next \in Int /\ round \in Nat
  BY JobFields DEF RiInv, RiTypeOK
<1>3. ~overlapped => Knows(j, riList, round, cur, revalued)
  BY KnownJob
<1>4. n.pc = "pass" /\ n.lst = j.lst /\ n.op = j.op /\ n.next = j.next /\ n.names = j.names /\ n.was = j.was
  BY <1>2 DEF RiJobs
<1> HIDE DEF j, n
<1>5. \/ j.op \in {"ri", "set"} /\ j.next = -1 /\ j.names = {}
      \/ j.op = "clr" /\ j.next = -1
      \/ j.op = "del"
  BY <1>1, <1>2 DEF RiJobSound
<1>6. j.op \in {"ri", "set"} => left = j.lst
  BY <1>2, <1>5, NothingDeleted
<1> HIDE DEF left
<1>7. CASE more
  <2>1. j.op \in {"clr", "del"} /\ (j.op = "del" => j.next # -1)
    BY <1>2, <1>5, <1>7
  <2>2. ~overlapped => riList' = Kept(n.lst, n.names) /\ (n.op = "del" => round' = n.next /\ Passed(n, round'))
    BY <1>1, <1>3, <1>4, <2>1 DEF Knows, Passed, left
  <2>3. ~overlapped => Knows(n, riList', round', cur', revalued')
    BY <1>4, <2>2 DEF Knows
  <2>4. QED
    BY <1>1, <1>4, <1>7, <2>3, OneCommandStep DEF j
<1>8. CASE ~more
  <2>1. j.op \in {"ri", "set", "del"} /\ j.next < 0
    BY <1>2, <1>5, <1>8
  <2>2. ~overlapped /\ j.op = "del" => j.next = -1
    BY <1>1, <1>2, <1>3, <2>1 DEF Knows
  <2>3. ~overlapped => Fits(riList', round', cur', revalued')
    BY <1>1, <1>3, <1>6, <2>1, <2>2 DEF Knows, left
  <2>4. ~overlapped => Leaves(j, riList, cur, riList', round')
    BY <1>1, <1>3, <1>6, <2>1 DEF Knows, Leaves, Passed, left
  <2>5. QED
    BY <1>1, <1>8, <2>3, <2>4, OneCommandStep, IdleSound DEF j
<1>9. QED
  BY <1>7, <1>8

LEMMA ClearTurn ==
  ASSUME RiInv, TurnInv, NEW h \in RiHandlers, Clear(h)
  PROVE  TurnInv' /\ TurnKeeps
<1> DEFINE j == riJob[h]
<1>1. /\ j.pc = "pass" /\ Kept(j.lst, j.names) = <<>> /\ riJob' = [riJob EXCEPT ![h] = RiIdle] /\ cur' = NullInit
      /\ round' = (IF j.op = "clr" THEN 0 ELSE round) /\ revalued' = FALSE /\ riList' = riList /\ overlapped' = overlapped
  BY DEF Clear, Then
<1>2. RiJobSound(j) /\ j.next \in Int
  BY JobFields
<1>3. ~overlapped => Knows(j, riList, round, cur, revalued)
  BY KnownJob
<1> HIDE DEF j
<1>4. j.op = "clr" \/ (j.op = "del" /\ j.next >= 0 /\ j.next <= 0)
  BY <1>1, <1>2 DEF RiJobSound
<1>5. ~overlapped => riList' = <<>> /\ round' = 0
  BY <1>1, <1>2, <1>3, <1>4 DEF Knows
<1>6. ~overlapped => Fits(riList', round', cur', revalued')
  BY <1>5 DEF Fits
<1>7. ~overlapped => Leaves(j, riList, cur, riList', round')
  BY <1>1, <1>3, <1>4, <1>5 DEF Knows, Leaves, Passed, TurnOf
<1>8. QED
  BY <1>1, <1>6, <1>7, OneCommandStep, IdleSound DEF j

LEMMA PassTurn ==
  ASSUME RiInv, TurnInv, NEW h \in RiHandlers, PassOn(h)
  PROVE  TurnInv' /\ TurnKeeps
<1> DEFINE j == riJob[h]
           left == Kept(j.lst, j.names)
<1>1. /\ j.pc = "pass" /\ left # <<>> /\ SetTurn(left, j.next) /\ riJob' = [riJob EXCEPT ![h] = RiIdle]
      /\ riList' = riList /\ overlapped' = overlapped
  BY DEF PassOn, Then
<1>2. RiJobSound(j) /\ j.lst \in Seq(Unit) /\ j.next \in Int
  BY JobFields
<1>3. ~overlapped => Knows(j, riList, round, cur, revalued)
  BY KnownJob
<1> HIDE DEF j
<1>4. j.op = "del" /\ j.next \in Nat /\ j.next < Len(left) /\ left \in Seq(Unit)
  BY <1>1, <1>2, EmptyFacts, KeptFacts DEF RiJobSound
<1> HIDE DEF left
<1>5. cur' = left[j.next + 1].val /\ round' = j.next
  BY <1>1, <1>4, TurnSet
<1>6. ~overlapped => riList' = left /\ round' = round
  BY <1>1, <1>3, <1>4, <1>5 DEF Knows, left
<1>7. ~overlapped => Fits(riList', round', cur', revalued')
  BY <1>4, <1>5, <1>6 DEF Fits
<1>8. ~overlapped => Leaves(j, riList, cur, riList', round')
  BY <1>1, <1>3, <1>4, <1>6 DEF Knows, Leaves, Passed, left
<1>9. QED
  BY <1>1, <1>7, <1>8, OneCommandStep, IdleSound DEF j

LEMMA TurnStep == RiInv /\ TurnInv /\ [RiNext]_riVars => TurnInv' /\ [TurnKeeps]_riVars
<1> SUFFICES ASSUME RiInv, TurnInv, [RiNext]_riVars PROVE TurnInv' /\ [TurnKeeps]_riVars
  OBVIOUS
<1>1. CASE UNCHANGED riVars
  BY <1>1 DEF riVars, TurnInv, OneCommand, RiAtRest
<1>2. ASSUME NEW h \in RiHandlers, RiSteps(h) PROVE TurnInv' /\ TurnKeeps
  BY <1>2, AddTurn, EdTurn, TryTurn, DeleteTurn, SaveTurn, ClearTurn, PassTurn DEF RiSteps
<1>3. ASSUME NEW h \in RiHandlers, NEW c \in RiSends, LoadByCurGroup(h, c) PROVE TurnInv' /\ TurnKeeps
  BY <1>3, LoadTurn
<1>4. QED
  BY <1>1, <1>2, <1>3 DEF RiNext

\* Between commands that do not overlap the index is one of the list, and the value beside it is that of
\* the unit it names.
THEOREM TurnIsInStep == RiSpec => []TurnInStep
<1>1. TurnInv => TurnInStep
  BY DEF TurnInv, TurnInStep, Fits
<1>2. QED
  BY InitRiInv, InitTurnInv, RiInvStep, TurnStep, <1>1, PTL DEF RiSpec

\* Adding and deleting units leaves the turn where it belongs.
THEOREM TurnIsKept == RiSpec => TurnKept
<1>1. [TurnKeeps]_riVars => [\A h \in RiHandlers : AddKeepsTurn(h) /\ DelKeepsTurn(h)]_riVars
  BY DEF TurnKeeps
<1>2. QED
  BY InitRiInv, InitTurnInv, RiInvStep, TurnStep, <1>1, PTL DEF RiSpec, TurnKept
=============================================================================
