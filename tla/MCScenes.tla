------------------------------ MODULE MCScenes ------------------------------
(***************************************************************************)
(* The rule systems' commands and the Milky adapter, a module to a scene:  *)
(* they change different attributes and fields, so each is checked while   *)
(* the others keep still.                                                  *)
(***************************************************************************)
EXTENDS DndInitiative, DndSheet, StCommand, CocChecks, Milky, TLC

CONSTANTS coc7, nHp, nLife, nSpot, nSneak, nHide   \* a system, and names of attributes

VARIABLE scene
scenesVars == <<riVars, shVars, stVars, cocVars, miVars, scene>>
Symmetry == Permutations(RiHandlers) \cup Permutations(Callers)

\* The initiative list: two units at once come above and below what may be there.
MCRiSends == {c \in RiCommands : Len(c.items) = 2 => c.items[1].val = 3 /\ c.items[2].val = 1}

\* A card in play, and the commands on it.
Played ==
  {a \in {[k \in Keys |-> CASE k = "hp" -> n [] k = "hpmax" -> max [] k = "$buff_hp" -> t [] k = "$buff_hpmax" -> b
                            [] k = "DSS" -> m[1] [] k = "DSF" -> m[2]] :
           n \in {None, 0, 2}, max \in {None, 3}, t \in {None, 2}, b \in {None, 1}, m \in {<<None, None>>, <<2, 1>>, <<1, 2>>}} :
     Num(a["hp"]) > 0 => a["DSS"] = None}
OnHp ==
  {c \in [op : {"st"}, sign : Signs, n : {0, 1, 3}, direct : BOOLEAN] : c.direct => c.sign = -1} \cup
  [op : {"ds"}, total : {1, 5, 10, 20}] \cup
  [op : {"mark"}, key : Marks, sign : Signs, n : {1}] \cup
  [op : {"set"}, key : {"hp", "$buff_hp"}, n : {0, 2}] \cup
  [op : {"del"}, key : {"hp", "hpmax", "DSS"}] \cup
  [op : {"buff"}, key : {"$buff_hp", "$buff_hpmax"}, sign : Signs, n : {1}] \cup
  [op : {"stat", "buffclr", "clr", "longrest"}]

\* Its slots, and the commands on them.
Slotted == [Levels -> {NoSlot} \cup {s \in [cur : 0..2, max : {1, 2}] : s.cur <= s.max}]
OneSlot == [level : Levels, num : {-1, 1}]
OnSlots ==
  [op : {"slots"}, items : {<<x>> : x \in OneSlot} \cup {<<x, y>> : x, y \in OneSlot}] \cup
  [op : {"slotset"}, to : [Levels -> {None, 0, 1, 2}]] \cup
  [op : {"slotclr", "slotrest", "longrest", "clr"}]
MCShSends == OnHp \cup OnSlots

\* Templates: hit points have a name in each system, spotting has a default in coc7, and dnd5e's name
\* for sneaking does not lead back to coc7's.
MCSystems == {coc7, Dnd}
MCNames == {nHp, nLife, nSpot, nSneak, nHide}
MCAlias ==
  (coc7 :> [n \in MCNames |-> IF n = nHp THEN nLife ELSE n]) @@
  (Dnd :> [n \in MCNames |-> IF n = nLife THEN nHp ELSE IF n = nSneak THEN nHide ELSE n])
MCDefault ==
  (coc7 :> [n \in MCNames |-> IF n = nSpot THEN 1 ELSE Missing]) @@ (Dnd :> [n \in MCNames |-> IF n = nHp THEN 3 ELSE Missing])

\* Every roll against the skills at the edges of the rules; the rest at a few.
Side == [d : {1, 33, 97}, v : {0, 33, 60, 98}, require : {1, 2}]
Rolls ==
  [op : {"ra"}, book : {FALSE}, d : 1..100, v : {0, 1, 4, 9, 10, 24, 49, 50, 51, 80, 95, 96, 98, 99}, require : {0, 2, 3}] \cup
  [op : {"ra"}, book : {TRUE}, d : {1, 50, 96, 100}, v : {0, 50, 98}, require : {0, 4}] \cup
  [op : {"rav"}, book : BOOLEAN, a : Side, b : Side]
OnScores ==
  [op : {"sc"}, d : {1, 40, 96, 100}, given : {Absent, 30}, cap : {0, 2},
   loss : {[success |-> 0, failure |-> 1, worst |-> 1], [success |-> 1, failure |-> 4, worst |-> 6]}] \cup
  [op : {"en"}, items : UNION {[1..n -> [d : {3, 40, 60, 97}, given : {Absent, 50}, gain : {2}, lose : {0, 1}]] : n \in 1..2}]
MCCocSends == Rolls \cup OnScores

\* Calls of every kind.  Under a bare number GetGroupInfoAsync renews names, with the prefix it does not.
Control(op) == [op |-> op, id |-> "other", sender |-> FALSE]
MCRequests ==
  {Control(op) : op \in Controls} \cup
  [op : {"GroupInfoGet"}, id : {"bare", "other"}, sender : {FALSE}] \cup
  [op : {"GetGroupInfoAsync"}, id : {"prefixed", "bare"}, sender : {FALSE}] \cup
  [op : {"MsgSendToGroup", "GroupMemberBan"}, id : {"number", "malformed"}, sender : {FALSE}] \cup
  [op : {"MsgSendFileToGroup"}, id : {"prefixed"}, sender : BOOLEAN]

ScenesInit ==
  /\ scene \in {"initiative", "hp", "slots", "cards", "rolls", "scores", "milky"}
  /\ MiInit
  /\ (scene # "initiative" => riList = <<>> /\ cur = NullInit) /\ RiInit
  /\ attr \in (IF scene = "hp" THEN Played ELSE {[k \in Keys |-> None]})
  /\ slot \in (IF scene = "slots" THEN Slotted ELSE {[l \in Levels |-> NoSlot]})
  /\ ShInit
  /\ sheet \in (IF scene = "cards" THEN [type : Systems, attrs : [Names -> Typed \cup {Missing}]]
               ELSE {[type |-> Dnd, attrs |-> [n \in Names |-> Missing]]})
  /\ StInit /\ (scene # "cards" => system = Dnd)
  /\ rule \in (IF scene \in {"rolls", "scores"} THEN Rules ELSE {0}) /\ (scene # "scores" => skill = Absent /\ san = 0) /\ CocInit

ScenesNext ==
  \/ scene = "initiative" /\ RiNext /\ UNCHANGED <<shVars, stVars, cocVars, miVars, scene>>
  \/ scene \in {"hp", "slots"} /\ ShNextOn(IF scene = "hp" THEN OnHp ELSE OnSlots) /\ UNCHANGED <<riVars, stVars, cocVars, miVars, scene>>
  \/ scene = "cards" /\ StNext /\ UNCHANGED <<riVars, shVars, cocVars, miVars, scene>>
  \/ scene \in {"rolls", "scores"} /\ CocNextOn(IF scene = "rolls" THEN Rolls ELSE OnScores) /\ UNCHANGED <<riVars, shVars, stVars, miVars, scene>>
  \/ scene = "milky" /\ MiNext /\ UNCHANGED <<riVars, shVars, stVars, cocVars, scene>>
ScenesSpec == ScenesInit /\ [][ScenesNext]_scenesVars
=============================================================================
