----------------------------- MODULE StCommand -----------------------------
(***************************************************************************)
(* The frame of .st (dice/exts/ext_st_helper.go) and the rule system a     *)
(* card belongs to: a card has a sheet type, a group a system, and each    *)
(* system's template gives attributes their canonical names and defaults.  *)
(* .st and the checks of coc7 refuse a card of another system, and convert *)
(* an untyped or fitting one to the template's names before they go on.    *)
(*                                                                         *)
(* Two extensions have a .st; that of dnd5e always uses dnd5e's template,  *)
(* and is .dst too.  The one turned on last answers: the system's after    *)
(* .set, but .ext on changes it alone.  Values are plain numbers; one      *)
(* command at a time: commands that overlap on one card are in DndSheet.   *)
(***************************************************************************)
EXTENDS Integers

CONSTANTS
  Systems,      \* rule systems, and the extensions named after them
  Dnd,          \* dnd5e
  Names,        \* names of attributes, canonical or not
  Alias,        \* Alias[s][n]: GetAlias of the template of s
  Default,      \* Default[s][n]: GetDefaultValue of it
  Missing,      \* no value
  Untyped,      \* the sheet type ""
  Typed,        \* numbers that are typed
  MaxSt,        \* bound on the commands of a behaviour
  MaxEdits      \* bound on those of them that change a value

ASSUME SystemsAssumption == Dnd \in Systems /\ Untyped \notin Systems
ASSUME NamesAssumption ==
  /\ Missing \notin Int /\ Typed \subseteq Int
  /\ Alias \in [Systems -> [Names -> Names]] /\ \A s \in Systems, n \in Names : Alias[s][Alias[s][n]] = Alias[s][n]
  /\ \A s \in Systems, n \in Names : Default[s][n] \in Int \cup {Missing}
ASSUME MaxStAssumption == MaxSt \in Nat /\ MaxEdits \in Nat

VARIABLES
  system,       \* group.System
  answers,      \* the extension that answers .st in the group
  sheet,        \* the card: its type and its attributes
  stRan,        \* commands so far
  first,        \* history: the card as it was at first
  edits,        \* history: how often since then it was more than converted
  by            \* history: the template of the last conversion

stVars == <<system, answers, sheet, stRan, first, edits, by>>

Cards == [type : Systems \cup {Untyped}, attrs : [Names -> Int \cup {Missing}]]

StTypeOK ==
  /\ system \in Systems /\ answers \in Systems /\ by \in Systems
  /\ sheet \in Cards /\ first \in Cards /\ edits \in 0..MaxEdits /\ stRan \in 0..MaxSt

\* A card as conversion to its own system leaves it, or a new one.
Canonical(s, a) == \A n \in Names : a[n] # Missing => Alias[s][n] = n /\ a[n] # Default[s][n]
StInit ==
  /\ system \in Systems /\ answers = system
  /\ \E s \in Systems, a \in [Names -> Typed \cup {Missing}] : Canonical(s, a) /\ sheet = [type |-> s, attrs |-> a] /\ by = s
  /\ first = sheet /\ edits = 0 /\ stRan = 0

\* The template .st works with, and that of .dst.
Template == IF answers = Dnd THEN Dnd ELSE system
Templates == {Template, Dnd}

(***************************************************************************)
(* cmdStCharFormat1: every value goes to its canonical name, one that is   *)
(* the default goes away.  The values of one canonical name are stored in  *)
(* the order of a Go map, which is any: one of them stays.                 *)
(***************************************************************************)
\* Mutant: values whose name is not canonical are left behind.
MovingCanonical(s, a) == {k \in Names : a[k] # Missing /\ a[k] # Default[s][Alias[s][k]] /\ Alias[s][k] = k}

Moving(s, a) == {k \in Names : a[k] # Missing /\ a[k] # Default[s][Alias[s][k]]}
Formats(s, a) ==
  LET lasts == {w \in SUBSET Moving(s, a) : \A k \in Moving(s, a) : \E m \in w : Alias[s][m] = Alias[s][k] /\ \A l \in w \ {m} : Alias[s][l] # Alias[s][k]}
  IN {[n \in Names |-> IF \E m \in w : Alias[s][m] = n THEN a[CHOOSE m \in w : Alias[s][m] = n] ELSE Missing] : w \in lasts}

\* GetRealValue: the value of a canonical name, or the default.
Real(s, a, n) == IF a[n] # Missing THEN a[n] ELSE IF Default[s][n] # Missing THEN Default[s][n] ELSE 0

Foreign == sheet.type # Untyped /\ sheet.type # system
Counted == stRan < MaxSt /\ stRan' = stRan + 1 /\ UNCHANGED first
Edited == edits < MaxEdits /\ edits' = edits + 1

(***************************************************************************)
(* .st with text: items are pairs <<name, number>>, set or added; bad text *)
(* is found after the conversion.                                          *)
(***************************************************************************)
\* A number that is the default is not stored where there is none.
SetItem(s, a, n, v) == IF v = Default[s][n] /\ a[n] = Missing THEN a ELSE [a EXCEPT ![n] = v]

StSet(t, n, v) ==
  /\ Counted /\ Edited /\ ~Foreign
  /\ \E r \in Formats(t, sheet.attrs) : sheet' = [type |-> t, attrs |-> SetItem(t, r, Alias[t][n], v)]
  /\ by' = t
  /\ UNCHANGED <<system, answers>>

StMod(t, n, v) ==
  LET c == Alias[t][n]
  IN /\ Counted /\ Edited /\ ~Foreign
     /\ \E r \in Formats(t, sheet.attrs) : sheet' = [type |-> t, attrs |-> [r EXCEPT ![c] = Real(t, r, c) + v]]
     /\ by' = t
     /\ UNCHANGED <<system, answers>>

\* cmdStCharFormat: the type is the group's system whichever template was used.
Format(s) ==
  /\ \E r \in Formats(s, sheet.attrs) : sheet' = [type |-> system, attrs |-> r]
  /\ by' = s

StBadText(t) == Counted /\ ~Foreign /\ Format(t) /\ UNCHANGED <<system, answers, edits>>
StFmt(t) == Counted /\ Format(t) /\ UNCHANGED <<system, answers, edits>>

StDel(t, n) ==
  /\ Counted /\ Edited
  /\ sheet' = [sheet EXCEPT !.attrs[Alias[t][n]] = Missing]
  /\ UNCHANGED <<system, answers, by>>

StClear ==
  /\ Counted /\ Edited
  /\ sheet' = [type |-> Untyped, attrs |-> [n \in Names |-> Missing]]
  /\ UNCHANGED <<system, answers, by>>

\* cardSystemCheck: .sc, .en and the .ra and .rc of coc7 convert the card to the group's system.
Check == Counted /\ ~Foreign /\ Format(system) /\ UNCHANGED <<system, answers, edits>>

\* .en of a number that is given stores it under the name as it is typed.
En(n, v) ==
  /\ Counted /\ Edited /\ ~Foreign
  /\ \E r \in Formats(system, sheet.attrs) : sheet' = [type |-> system, attrs |-> [r EXCEPT ![n] = v]]
  /\ by' = system
  /\ UNCHANGED <<system, answers>>

\* .set coc, .set dnd; .ext on of a rule system's extension.
StSystem(s) == Counted /\ system' = s /\ answers' = s /\ UNCHANGED <<sheet, edits, by>>
StExtOn(s) == Counted /\ answers' = s /\ UNCHANGED <<system, sheet, edits, by>>

StNext ==
  \/ \E t \in Templates : StBadText(t) \/ StFmt(t) \/ \E n \in Names : StDel(t, n) \/ \E v \in Typed : StSet(t, n, v) \/ StMod(t, n, v)
  \/ \E n \in Names, v \in Typed : En(n, v)
  \/ StClear \/ Check
  \/ \E s \in Systems : StSystem(s) \/ StExtOn(s)
StSpec == StInit /\ [][StNext]_stVars

(***************************************************************************)
(* Properties.                                                             *)
(***************************************************************************)
\* Names that conversions of others among them lead to only.
Closed(others) == \A s \in Systems : \A m \in others : Alias[s][m] \in others

\* What conversions can bring back: an attribute of the first card whose name in a system leads to the
\* same name in every system as the first does, with a number no template has as its default, and
\* whose name no other attribute gets, however often it is converted.
Safe(n) ==
  /\ \A s \in Systems : /\ first.attrs[n] # Default[s][Alias[s][n]]
                       /\ \A t \in Systems : Alias[t][Alias[s][n]] = Alias[t][n]
  /\ \E others \in SUBSET Names :
       /\ Closed(others) /\ \A m \in Names \ {n} : first.attrs[m] # Missing => m \in others
       /\ \A s \in Systems : Alias[s][n] \notin others

\* However often the systems are switched and the card is converted, checked or refused, when it is of
\* its first type again, by that system's names, its safe attributes read as they did.
ConvertedReadsSame ==
  edits = 0 /\ sheet.type = first.type /\ by = first.type =>
    \A n \in Names : first.attrs[n] # Missing /\ Safe(n) => Real(first.type, sheet.attrs, n) = first.attrs[n]

StSound == StTypeOK /\ ConvertedReadsSame
=============================================================================
