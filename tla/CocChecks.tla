----------------------------- MODULE CocChecks -----------------------------
(***************************************************************************)
(* The checks of dice/exts/ext_coc7.go: .ra and .rc, the opposed .rav and  *)
(* .rcv, the sanity roll .sc and the growth of skills .en, under the house *)
(* rules of .setcoc.  What was rolled, and the numbers the expressions in  *)
(* the text have, are inputs; skills and sanity are not negative.          *)
(*                                                                         *)
(* ResultCheckBase says how good a roll is; beside it stands Ruled, which  *)
(* says it again from the text the program shows for each rule.            *)
(***************************************************************************)
EXTENDS Integers, Sequences

CONSTANTS
  Rules,        \* indexes of the rules: 0 to 5, and 11 for Delta Green
  CocSends,     \* commands that are sent
  Scores,       \* values of the skill and of sanity at first
  Absent,       \* the skill is not on the card
  SkillDefault, \* its default, or Absent
  MaxCoc        \* bound on the commands of a behaviour

ASSUME RulesAssumption  == Rules \subseteq (0..5) \cup {11}
ASSUME ScoresAssumption == Scores \subseteq Nat /\ Absent \notin Nat /\ SkillDefault \in Nat \cup {Absent}
ASSUME MaxCocAssumption == MaxCoc \in Nat

VARIABLES
  rule,         \* group.CocRuleIndex
  skill,        \* a skill on the card
  san,          \* its sanity
  told,         \* the last command, the rule it went by and what was answered
  cocRan        \* commands so far

cocVars == <<rule, skill, san, told, cocRan>>

Nothing == [op |-> "none"]

\* Losses and gains are dice and numbers, none of them negative.
Checks == [d : 1..100, v : Nat, require : 0..4]
CocCommands ==
  [op : {"ra"}, book : BOOLEAN, d : 1..100, v : Nat, require : 0..4] \cup
  [op : {"rav"}, book : BOOLEAN, a : Checks, b : Checks] \cup
  [op : {"sc"}, d : 1..100, given : Nat \cup {Absent}, cap : Nat, loss : [success : Nat, failure : Nat, worst : Nat]] \cup
  [op : {"en"}, items : Seq([d : 1..100, given : Nat \cup {Absent}, gain : Nat, lose : Nat])]

ASSUME CocSendsAssumption == CocSends \subseteq CocCommands

CocInit == rule \in Rules /\ skill \in Scores \cup {Absent} /\ san \in Scores /\ told = Nothing /\ cocRan = 0

Smaller(a, b) == IF a < b THEN a ELSE b
Larger(a, b) == IF a > b THEN a ELSE b

(***************************************************************************)
(* ResultCheckBase.  Ranks: -2 fumble, -1 failure, 1 success, 2 hard, 3    *)
(* extreme, 4 critical.  require: 0 or 1 none, 2 hard, 3 extreme, 4        *)
(* critical.                                                               *)
(***************************************************************************)
CheckVal(v, require) == CASE require = 2 -> v \div 2 [] require = 3 -> v \div 5 [] require = 4 -> 1 [] OTHER -> v

\* Mutant: rule 1 asks for more than 50.
CriticalValueAbove(r, v) ==
  CASE r = 1 -> IF v > 50 THEN 5 ELSE 1
    [] r = 2 -> Smaller(5, v)
    [] r = 3 -> 5
    [] r = 4 -> Smaller(5, v \div 10)
    [] r = 5 -> Smaller(2, v \div 5)
    [] OTHER -> 1

CriticalValue(r, v) ==
  CASE r = 1 -> IF v >= 50 THEN 5 ELSE 1
    [] r = 2 -> Smaller(5, v)
    [] r = 3 -> 5
    [] r = 4 -> Smaller(5, v \div 10)
    [] r = 5 -> Smaller(2, v \div 5)
    [] OTHER -> 1

FumbleValue(r, v, check) ==
  CASE r = 0 -> IF check < 50 THEN 96 ELSE 100
    [] r = 1 -> IF v < 50 THEN 96 ELSE 100
    [] r = 2 -> IF v >= 96 THEN Smaller(v + 1, 100) ELSE 96
    [] r = 3 -> 96
    [] r = 4 -> Smaller(96 + v \div 10, 100)
    [] r = 5 -> IF v < 50 THEN 96 ELSE 99
    [] OTHER -> 100

\* The level before the rules overrule it.
Level(d, v, check, critical, fumble) ==
  IF d <= critical THEN 4
  ELSE IF d <= check THEN IF d <= v \div 5 THEN 3 ELSE IF d <= v \div 2 THEN 2 ELSE 1
  ELSE IF d >= fumble THEN -2 ELSE -1

SameDigits(d) == d % 10 = (d % 100) \div 10

ResultCheckBase(r, d, v, require) ==
  LET check == CheckVal(v, require)
      critical == CriticalValue(r, v)
      fumble == FumbleValue(r, v, check)
      level == Level(d, v, check, critical, fumble)
  IN CASE r = 0 /\ d = 100 -> -2
       [] r \in {0, 1, 2} /\ d = 1 -> 4
       [] r = 3 /\ d >= fumble -> -2
       [] r = 11 -> IF d = 1 THEN 4
                    ELSE IF level > 0 THEN IF SameDigits(d) THEN 4 ELSE 1
                    ELSE IF SameDigits(d) THEN -2 ELSE -1
       [] OTHER -> level

Passes(rank, require) == rank >= require

(***************************************************************************)
(* Commands.  c.book: .rc and .rcv use the rule of the book, 0.            *)
(***************************************************************************)
RuleOf(c) == IF c.book THEN 0 ELSE rule
Answered(c, r, answer) ==
  /\ cocRan' = cocRan + 1
  /\ told' = [op |-> c.op, cmd |-> c, rule |-> r, answer |-> answer]
  /\ UNCHANGED rule

Ra(c) ==
  /\ c.op = "ra"
  /\ Answered(c, RuleOf(c), ResultCheckBase(RuleOf(c), c.d, c.v, c.require))
  /\ UNCHANGED <<skill, san>>

\* The opposed check: -1 the first wins, 1 the second, 0 none.  Delta Green breaks ties by the rolls.
Sign(n) == IF n < 0 THEN -1 ELSE IF n > 0 THEN 1 ELSE 0
Opposed(r, a, b) ==
  LET rank(x) == ResultCheckBase(r, x.d, x.v, 0)  pass(x) == Passes(rank(x), x.require)
  IN CASE pass(a) /\ pass(b) -> IF rank(a) # rank(b) THEN Sign(rank(b) - rank(a)) ELSE IF r = 11 THEN Sign(a.d - b.d) ELSE 0
       [] pass(a) /\ ~pass(b) -> -1
       [] ~pass(a) /\ pass(b) -> 1
       [] OTHER -> 0

Rav(c) ==
  /\ c.op = "rav"
  /\ Answered(c, RuleOf(c), Opposed(RuleOf(c), c.a, c.b))
  /\ UNCHANGED <<skill, san>>

\* .sc: c.given overrides the sanity of the card; the worst loss is the fumble's, whose dice are all at
\* their highest; c.cap bounds the loss unless it is 0.
Loss(c, rank) ==
  LET n == IF rank > 0 THEN c.loss.success ELSE IF rank = -2 THEN c.loss.worst ELSE c.loss.failure
  IN  IF c.cap > 0 THEN Smaller(n, c.cap) ELSE n
Sc(c) ==
  LET old == IF c.given = Absent THEN san ELSE c.given
      loss == Loss(c, ResultCheckBase(rule, c.d, old, 0))
      new == Larger(0, old - loss)
  IN /\ c.op = "sc"
     /\ Answered(c, rule, [old |-> old, new |-> new,
                           crazy |-> IF new = 0 THEN "permanent" ELSE IF loss >= 5 THEN "temporary" ELSE "no"])
     /\ san' = new
     /\ UNCHANGED skill

\* .en: every item is checked against the card as it was, then the results are stored in order: the
\* last stays.  Items of a skill that has no number are left out.
Old(item) == IF item.given # Absent THEN item.given ELSE IF skill # Absent THEN skill ELSE SkillDefault
Grows(item) == item.d > 95 \/ ResultCheckBase(rule, item.d, Old(item), 0) <= 0
Grown(item) == Old(item) + IF Grows(item) THEN item.gain ELSE item.lose
Grow(c) ==
  LET entered == {i \in DOMAIN c.items : Old(c.items[i]) # Absent}
  IN /\ c.op = "en"
     /\ Answered(c, rule, [i \in entered |-> [old |-> Old(c.items[i]), new |-> Grown(c.items[i])]])
     /\ \/ entered = {} /\ UNCHANGED skill
        \/ \E i \in entered : (\A k \in entered : k <= i) /\ skill' = Grown(c.items[i])
     /\ UNCHANGED san

CocNextOn(sends) == cocRan < MaxCoc /\ \E c \in sends : Ra(c) \/ Rav(c) \/ Sc(c) \/ Grow(c)
CocNext == CocNextOn(CocSends)
CocSpec == CocInit /\ [][CocNext]_cocVars

(***************************************************************************)
(* Properties.                                                             *)
(***************************************************************************)
\* SetCocRuleText, and the notes in ResultCheckBase: which rolls are critical, which fumbles.
RuledCritical(r, d, v) ==
  CASE r = 0 -> d = 1
    [] r = 1 -> d = 1 \/ (v >= 50 /\ d <= 5)
    [] r = 2 -> d = 1 \/ (d <= 5 /\ d <= v)
    [] r = 3 -> d <= 5
    [] r = 4 -> d <= 5 /\ 10 * d <= v
    [] r = 5 -> d <= 2 /\ 5 * d <= v
    [] r = 11 -> d = 1 \/ (d <= v /\ SameDigits(d))
RuledFumble(r, d, v) ==
  CASE r \in {0, 1} -> d = 100 \/ (v < 50 /\ d >= 96)
    [] r = 2 -> d >= 96 /\ d > v
    [] r = 3 -> d >= 96
    [] r = 4 -> d = 100 \/ (v < 50 /\ d >= 96 + v \div 10)
    [] r = 5 -> d >= 99 \/ (v < 50 /\ d >= 96)
    [] r = 11 -> d = 100 \/ (d > v /\ SameDigits(d))
Ruled(r, d, v) ==
  IF RuledCritical(r, d, v) THEN 4
  ELSE IF RuledFumble(r, d, v) THEN -2
  ELSE IF d > v THEN -1
  ELSE IF r = 11 THEN 1 ELSE IF 5 * d <= v THEN 3 ELSE IF 2 * d <= v THEN 2 ELSE 1

\* Every roll against a skill below 99 has the rank the rule's text gives it, and one that must be hard or
\* better passes exactly when its rank without that is as high.  From 99 on rolls the skill covers are no
\* fumbles, whatever the texts of rules 1, 4, 5 and Delta Green say; Delta Green has no hard success.
RankAsRuled ==
  told.op = "ra" /\ told.cmd.v < 99 =>
    LET c == told.cmd  ruled == Ruled(told.rule, c.d, c.v)
    IN /\ c.require = 0 => told.answer = ruled
       /\ c.require > 1 /\ told.rule # 11 => (Passes(told.answer, c.require) <=> Passes(ruled, c.require))

\* An opposed check is fair: with the sides exchanged the same one wins, and who wins has passed and is
\* not outranked by one who passed.
OpposedFair ==
  told.op = "rav" /\ told.cmd.a.v < 99 /\ told.cmd.b.v < 99 =>
    LET a == told.cmd.a  b == told.cmd.b  win == told.answer
        rank(x) == Ruled(told.rule, x.d, x.v)  winner == IF win < 0 THEN a ELSE b  loser == IF win < 0 THEN b ELSE a
    IN /\ Opposed(told.rule, b, a) = -win
       /\ win # 0 => /\ Passes(rank(winner), winner.require)
                     /\ Passes(rank(loser), loser.require) => rank(winner) >= rank(loser)

\* A sanity roll takes no more than the cap, never leaves less than none, and none is madness for good.
SanityTold ==
  told.op = "sc" =>
    LET old == told.answer.old  new == told.answer.new  crazy == told.answer.crazy  cap == told.cmd.cap
    IN /\ 0 <= new /\ new <= old /\ san = new
       /\ cap > 0 => old - new <= cap
       /\ (crazy = "permanent" <=> new = 0) /\ (new > 0 /\ old - new >= 5 => crazy = "temporary")

\* A skill grows by its gain when the roll is above it or above 95 (the note in cmdEn), and not by a
\* roll it covers; rolls up to 5 may be critical above it and are left open.
GrowthAsRuled ==
  told.op = "en" => \A i \in DOMAIN told.answer : LET item == told.cmd.items[i]  old == told.answer[i].old IN
    item.d > 5 => told.answer[i].new = old + IF item.d > old \/ item.d > 95 THEN item.gain ELSE item.lose

CheckAsRuled == RankAsRuled /\ OpposedFair /\ SanityTold /\ GrowthAsRuled
=============================================================================
