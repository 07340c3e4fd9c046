---------------------------- MODULE GroupService ----------------------------
(***************************************************************************)
(* What Dice.Execute does with a message before and around a command: the  *)
(* group's record is found, read from the file or made (dice.go, the       *)
(* record stores of group_info.go and group_info_db.go), the extensions    *)
(* that are on are listed (group_user_info.go), the word is taken for a    *)
(* command of theirs, and the command of the first of them that has it is  *)
(* run, when the bot is on.  The commands that change the record are here: *)
(* .bot, .dismiss, .botlist, .nn, .set and .ext of ext_core.go and .setcoc *)
(* of ext_coc7.go; the others only answer, .master but for a list of the   *)
(* process that no step here reads.                                        *)
(*                                                                         *)
(* Every message is handled in a goroutine of its own and nothing is held  *)
(* between its steps.  A command's changes of the record are one step, the *)
(* accesses to the cache and to the file one each.  Private chats have the *)
(* empty group id, Private here.  One player, one account to mark.         *)
(***************************************************************************)
EXTENDS Naturals, Sequences, SequencesExt, FiniteSets

CONSTANTS
  Handlers,     \* goroutines handling a message
  Rooms,        \* ids of groups
  Private,      \* the empty group id, of private chats
  Objs,         \* GroupInfo objects
  Null, Absent,
  Sends,        \* which messages are sent where: pairs of a group and a message
  IoMayFail,    \* the file may return an error
  MaxMessages, MaxRestarts   \* bounds on a behaviour

ASSUME NullAssumption   == Null \notin Objs \cup Rooms \cup {Private}
ASSUME GroupsAssumption == Private \notin Rooms
\* There is always room for one record more than can be in use.
ASSUME ObjsAssumption   ==
  /\ IsFiniteSet(Rooms) /\ IsFiniteSet(Handlers)
  /\ IsFiniteSet(Objs) => Cardinality(Objs) > Cardinality(Rooms \cup {Private}) + Cardinality(Handlers)
ASSUME BoundAssumption  == MaxMessages \in Nat /\ MaxRestarts \in Nat /\ IoMayFail \in BOOLEAN

VARIABLES
  manager,   \* the GroupInfoManager in use: "memory" or "bunt"
  file,      \* what the file holds under each group
  cache,     \* groupMap, or the cache of buntGroupInfoManager
  heap,      \* the records
  job,       \* what each handler is doing
  hist,      \* history: what was acknowledged in each group
  count      \* messages and restarts so far

vars == <<manager, file, cache, heap, job, hist, count>>

Groups == Rooms \cup {Private}

(***************************************************************************)
(* Extensions, their commands and the words of messages.                   *)
(***************************************************************************)
Exts       == {"core", "coc7", "dnd5e"}         \* ExtList
AutoActive == {"core", "coc7"}
Systems    == {"coc7", "dnd5e"}                 \* templates, each with the extension of its name as RelatedExt
CmdMap     == [core  |-> {"bot", "botlist", "nn", "set", "ext on", "ext off", "r"},
               coc7  |-> {"setcoc", "st", "en"},
               dnd5e |-> {"st", "ri"}]

\* What .ext may be given: names, a name in capitals, a word that is no name.
Spellings == Exts \cup {"COC7", "other"}
EqualFold(a, b) == a = b \/ {a, b} = {"COC7", "coc7"}
ExtFind(word) == {e \in Exts : EqualFold(e, word)}   \* one at most

Messages ==
  [word : {"bot"}, arg : {"on", "off", "bye"}] \cup [word : {"botlist"}, arg : {"add", "del"}] \cup
  [word : {"nn"}, arg : {"clr", "name"}] \cup [word : {"set"}, arg : Systems \cup {"clr", "dice"}] \cup
  [word : {"ext on", "ext off"}, arg : Spellings] \cup [word : {"setcoc"}, arg : {"2"}] \cup
  [word : {"st", "en", "ri", "talk"}, arg : {""}]

ASSUME SendsAssumption == Sends \subseteq Groups \X Messages

\* commandParse knows the commands of the listed extensions only and takes the longest that the
\* text begins with: without coc7, .setcoc is .set with "coc"; without dnd5e, .ri is .r.
CommandParse(msg, list) ==
  CASE msg.word = "setcoc" /\ ~Contains(list, "coc7") -> [word |-> "set", arg |-> "coc7"]
    [] msg.word = "ri" /\ ~Contains(list, "dnd5e")    -> [word |-> "r", arg |-> ""]
    [] OTHER -> msg

Heard == Messages \cup {[word |-> "r", arg |-> ""]}

(***************************************************************************)
(* A group's record.                                                       *)
(***************************************************************************)
StoredRecords ==
  [active : BOOLEAN, system : Systems \cup {""}, sides : {"", "100", "20", "d6"}, rule : {"0", "2"},
   states : [Spellings -> {"on", "off", "unset"}], bots : BOOLEAN]
Records ==
  [active : BOOLEAN, system : Systems \cup {""}, sides : {"", "100", "20", "d6"}, rule : {"0", "2"},
   states : [Spellings -> {"on", "off", "unset"}], bots : BOOLEAN,
   list : Seq(Exts), player : {"", "nickname", "name"}]

ASSUME ValuesAssumption == Null \notin Records \cup StoredRecords \cup Heard /\ Absent \notin StoredRecords

\* What storedGroupInfo has of a record.
Stored(r) == [active |-> r.active, system |-> r.system, sides |-> r.sides, rule |-> r.rule, states |-> r.states, bots |-> r.bots]

\* Mutant: a group that is loaded is a group with the bot on.
LoadedActive(s) ==
  [active |-> TRUE, system |-> s.system, sides |-> s.sides, rule |-> s.rule, states |-> s.states, bots |-> s.bots,
   list |-> <<>>, player |-> ""]
\* Mutant: the list and the player are not made.
LoadedBare(s) == s

Loaded(s) ==
  [active |-> s.active, system |-> s.system, sides |-> s.sides, rule |-> s.rule, states |-> s.states, bots |-> s.bots,
   list |-> <<>>, player |-> ""]

\* IsExtensionActive, and isActive in GetActiveExtensions, which turns on what is on by default.
IsExtensionActive(r, e) == r.states[e] = "on"
IsActive(r, e) == IsExtensionActive(r, e) \/ (r.states[e] = "unset" /\ e \in AutoActive)

\* The extensions of T in the order of ExtList, that of NewDice.
One(e, T)  == IF e \in T THEN <<e>> ELSE <<>>
Listing(T) == One("core", T) \o One("coc7", T) \o One("dnd5e", T)

\* Mutant: in the order of registration.
RankedInOrder(T, system) == Listing(T)

\* The core first, then the extension of the group's system, then the rest.
Ranked(T, system) == Listing(T \cap {"core"}) \o Listing(T \cap {system}) \o Listing(T \ {"core", system})

GetActiveExtensions(r) == Ranked({e \in Exts : IsActive(r, e)}, r.system)

\* ActivatedExtList = GetActiveExtensions(...), with the states it sets.
Listed(r) == [r EXCEPT !.states = [k \in Spellings |-> IF @[k] = "unset" /\ k \in AutoActive THEN "on" ELSE @[k]],
                       !.list = GetActiveExtensions(r)]

NewRecord ==
  Listed([active |-> TRUE, system |-> "coc7", sides |-> "", rule |-> "0", states |-> [k \in Spellings |-> "unset"],
          bots |-> FALSE, list |-> <<>>, player |-> ""])

ExtActive(r, e) == [r EXCEPT !.states[e] = "on", !.list = IF Contains(@, e) THEN @ ELSE Append(@, e)]

\* The state is stored under the word as it was typed.
Removed(r, word) == {e \in ToSet(r.list) : EqualFold(e, word)}
\* Mutant: the extension leaves the list, its state stays.
ExtInactiveListOnly(r, word) == [r EXCEPT !.list = SelectSeq(@, LAMBDA e : ~EqualFold(e, word))]

ExtInactiveByName(r, word) == [r EXCEPT !.states[word] = "off", !.list = SelectSeq(@, LAMBDA e : ~EqualFold(e, word))]

(***************************************************************************)
(* Handlers.  todo: the extensions still to ask; active: groupActive; next: *)
(* where to go once the record is stored.  asked is history: what stood in *)
(* hist when todo was made; its system is void once another message of the *)
(* group is handled as well.                                               *)
(***************************************************************************)
Notes == [silent : BOOLEAN, closed : SUBSET Exts, system : Systems \cup {""}, name : {"", "nickname", "name"},
          unsaved : BOOLEAN, doubt : SUBSET {"records", "persists", "file"}]
NothingSaid == [silent |-> FALSE, closed |-> {}, system |-> "", name |-> "", unsaved |-> FALSE, doubt |-> {}]
Idle == [pc |-> "idle", g |-> Null, msg |-> Null, obj |-> Null, todo |-> <<>>, active |-> FALSE, snap |-> Null,
         next |-> "idle", asked |-> NothingSaid]

Group(h)  == job[h].g
Record(h) == heap[job[h].obj]

TypeOK ==
  /\ manager \in {"memory", "bunt"}
  /\ file \in [Groups -> StoredRecords \cup {Absent}]
  /\ cache \in [Groups -> Objs \cup {Null}]
  /\ heap \in [Objs -> Records \cup {Null}]
  /\ job \in [Handlers -> [pc : {"idle", "read", "create", "write", "fill", "list", "visit"}, g : Groups \cup {Null},
                           msg : Heard \cup {Null}, obj : Objs \cup {Null}, todo : Seq(Exts), active : BOOLEAN,
                           snap : StoredRecords \cup {Null}, next : {"idle", "list"}, asked : Notes]]
  /\ hist \in [Groups -> Notes]
  /\ count \in [messages : 0..MaxMessages, restarts : 0..MaxRestarts]
  /\ \A h \in Handlers : /\ job[h].pc # "idle" => Group(h) \in Groups /\ job[h].msg # Null
                         /\ job[h].pc \in {"write", "fill", "list", "visit"} => job[h].obj # Null /\ Record(h) # Null
  /\ \A g \in Groups : cache[g] # Null => heap[cache[g]] # Null

\* An older version stored groups without a state of an extension that came later.
Older == [Stored(NewRecord) EXCEPT !.states["coc7"] = "unset"]

Init ==
  /\ manager \in {"memory", "bunt"}
  /\ \E old \in SUBSET Rooms : /\ file = [g \in Groups |-> IF g \in old THEN Older ELSE Absent]
                               /\ manager = "memory" => old = {}
  /\ cache = [g \in Groups |-> Null]
  /\ heap = [o \in Objs |-> Null]
  /\ job = [h \in Handlers |-> Idle]
  /\ hist = [g \in Groups |-> NothingSaid]
  /\ count = [messages |-> 0, restarts |-> 0]

Busy(g)   == {h \in Handlers : job[h].pc # "idle" /\ Group(h) = g}
Refers(o) == (\E g \in Groups : cache[g] = o) \/ (\E h \in Handlers : job[h].obj = o)
Unused    == CHOOSE o \in Objs : ~Refers(o)
Goes(h, pc) == job' = [job EXCEPT ![h].pc = pc]
Doubt(g, why) == hist' = [hist EXCEPT ![g].doubt = @ \cup {why}]

(***************************************************************************)
(* Load, and the record of a group nobody has seen.                        *)
(***************************************************************************)
\* The manager of the file knows no record of the empty id and stores none.
NeverStored(g) == manager = "bunt" /\ g = Private

Receive(h, g, msg, pc, obj) ==
  /\ job[h].pc = "idle" /\ count.messages < MaxMessages /\ <<g, msg>> \in Sends
  /\ job' = [i \in Handlers |-> IF i = h THEN [Idle EXCEPT !.pc = pc, !.g = g, !.msg = msg, !.obj = obj]
                                ELSE IF i \in Busy(g) THEN [job[i] EXCEPT !.asked.system = ""] ELSE job[i]]
  /\ count' = [count EXCEPT !.messages = @ + 1]
  /\ UNCHANGED <<manager, file, cache, heap>>

LoadHit(h, g, msg) ==
  /\ ~NeverStored(g) /\ cache[g] # Null
  /\ Receive(h, g, msg, "list", cache[g])
  /\ UNCHANGED hist

\* Two messages that miss at the same time end with a record each.
Missing(g) == {h \in Busy(g) : job[h].pc \in {"read", "create"} \/ (job[h].pc \in {"write", "fill"} /\ job[h].next = "list")}

LoadMiss(h, g, msg) ==
  /\ NeverStored(g) \/ cache[g] = Null
  /\ Receive(h, g, msg, IF manager = "bunt" /\ g # Private THEN "read" ELSE "create", Null)
  /\ IF Missing(g) # {} THEN Doubt(g, "records") ELSE UNCHANGED hist

\* Mutant: the record that was read is used without a place in the cache.
ReadFileUncached(h) ==
  /\ job[h].pc = "read"
  /\ IF file[Group(h)] = Absent
       THEN Goes(h, "create") /\ UNCHANGED heap
       ELSE /\ heap' = [heap EXCEPT ![Unused] = Loaded(file[Group(h)])]
            /\ job' = [job EXCEPT ![h].pc = "list", ![h].obj = Unused]
  /\ UNCHANGED <<manager, file, cache, hist, count>>

ReadFile(h) ==
  /\ job[h].pc = "read"
  /\ IF file[Group(h)] = Absent
       THEN Goes(h, "create") /\ UNCHANGED heap
       ELSE /\ heap' = [heap EXCEPT ![Unused] = Loaded(file[Group(h)])]
            /\ job' = [job EXCEPT ![h].pc = "fill", ![h].obj = Unused, ![h].next = "list"]
  /\ UNCHANGED <<manager, file, cache, hist, count>>

\* A read error is printed and answered like a missing record: Execute makes a new one.
ReadFails(h) ==
  /\ IoMayFail /\ job[h].pc = "read"
  /\ Goes(h, "create") /\ Doubt(Group(h), "file")
  /\ UNCHANGED <<manager, file, cache, heap, count>>

\* Store: a copy for the file is taken first, then written, then the record goes to the cache.
Storing(j, r, next) ==
  IF manager = "bunt" THEN [j EXCEPT !.pc = "write", !.next = next, !.todo = <<>>, !.snap = Stored(r)]
                      ELSE [j EXCEPT !.pc = "fill", !.next = next, !.todo = <<>>]

Create(h) ==
  /\ job[h].pc = "create"
  /\ heap' = [heap EXCEPT ![Unused] = NewRecord]
  /\ job' = [job EXCEPT ![h] = IF NeverStored(Group(h)) THEN [@ EXCEPT !.pc = "list", !.obj = Unused]
                                 ELSE Storing([@ EXCEPT !.obj = Unused], NewRecord, "list")]
  /\ UNCHANGED <<manager, file, cache, hist, count>>

WriteFile(h) ==
  /\ job[h].pc = "write"
  /\ file' = [file EXCEPT ![Group(h)] = job[h].snap]
  /\ job' = [job EXCEPT ![h].pc = "fill", ![h].snap = Null]
  /\ UNCHANGED <<manager, cache, heap, hist, count>>

\* The error is printed, the command answers all the same.
WriteFails(h) ==
  /\ IoMayFail /\ job[h].pc = "write"
  /\ job' = [job EXCEPT ![h] = IF job[h].next = "idle" THEN Idle ELSE [@ EXCEPT !.pc = "list", !.snap = Null]]
  /\ Doubt(Group(h), "file")
  /\ UNCHANGED <<manager, file, cache, heap, count>>

Fill(h) ==
  /\ job[h].pc = "fill"
  /\ cache' = [cache EXCEPT ![Group(h)] = job[h].obj]
  /\ IF job[h].next = "list"
       THEN Goes(h, "list") /\ UNCHANGED hist
       ELSE /\ job' = [job EXCEPT ![h] = Idle]
            /\ hist' = IF job[h].msg = [word |-> "bot", arg |-> "off"] THEN [hist EXCEPT ![Group(h)].silent = TRUE] ELSE hist
  /\ UNCHANGED <<manager, file, heap, count>>

(***************************************************************************)
(* The player, the extensions that are on, the command, groupActive.       *)
(***************************************************************************)
\* Mutant: the nickname of every message is the player's name.
WithNickname(r) == [r EXCEPT !.player = "nickname"]

WithPlayer(r) == [r EXCEPT !.player = IF @ = "" THEN "nickname" ELSE @]

\* With nobody left to ask the message is done.
Asking(j, exts) == IF exts = <<>> THEN Idle ELSE [j EXCEPT !.pc = "visit", !.todo = exts]

List(h) ==
  LET r   == Listed(WithPlayer(Record(h)))
      msg == CommandParse(job[h].msg, r.list)
      g   == Group(h)
  IN /\ job[h].pc = "list"
     /\ heap' = [heap EXCEPT ![job[h].obj] = r]
     /\ job' = [job EXCEPT ![h] = Asking([@ EXCEPT !.msg = msg, !.active = r.active, !.asked = [hist[g] EXCEPT !.system = IF Busy(g) = {h} THEN @ ELSE ""]],
                                       Ranked({e \in ToSet(r.list) : msg.word \in CmdMap[e]}, r.system))]
     /\ hist' = [hist EXCEPT ![g].unsaved = @ \/ Stored(r) # Stored(Record(h)), ![g].name = IF @ = "" THEN r.player ELSE @]
     /\ UNCHANGED <<manager, file, cache, count>>

\* The extension may have been turned off since; without the bot on, only .bot and .dismiss run.
Willing(h) == IsExtensionActive(Record(h), Head(job[h].todo)) /\ (job[h].active \/ job[h].msg.word = "bot")

Skip(h) ==
  /\ job[h].pc = "visit" /\ ~Willing(h)
  /\ job' = [job EXCEPT ![h] = Asking(@, Tail(@.todo))]
  /\ UNCHANGED <<manager, file, cache, heap, hist, count>>

\* The end of a command: answered at once, or once PersistGroupInfo has stored the record.
Solves(h, words) == job[h].pc = "visit" /\ Willing(h) /\ job[h].msg.word \in words

Answers(h, r, said) ==
  /\ heap' = [heap EXCEPT ![job[h].obj] = r]
  /\ job' = [job EXCEPT ![h] = Idle]
  /\ hist' = [hist EXCEPT ![Group(h)] = [said EXCEPT !.unsaved = @ \/ Stored(r) # Stored(Record(h))]]
  /\ UNCHANGED <<manager, file, cache, count>>

\* Mutant: the copy for the file is of the record before the change.
PersistsOld(h, r, said) ==
  IF Group(h) = Private THEN Answers(h, r, said) ELSE
  /\ heap' = [heap EXCEPT ![job[h].obj] = r]
  /\ job' = [job EXCEPT ![h] = Storing(@, Record(h), "idle")]
  /\ hist' = [hist EXCEPT ![Group(h)] = [said EXCEPT !.unsaved = FALSE,
                                       !.doubt = @ \cup IF \E i \in Busy(Group(h)) : job[i].pc \in {"write", "fill"} THEN {"persists"} ELSE {}]]
  /\ UNCHANGED <<manager, file, cache, count>>

Persists(h, r, said) ==
  IF Group(h) = Private THEN Answers(h, r, said) ELSE
  /\ heap' = [heap EXCEPT ![job[h].obj] = r]
  /\ job' = [job EXCEPT ![h] = Storing(@, r, "idle")]
  /\ hist' = [hist EXCEPT ![Group(h)] = [said EXCEPT !.unsaved = FALSE,
                                       !.doubt = @ \cup IF \E i \in Busy(Group(h)) : job[i].pc \in {"write", "fill"} THEN {"persists"} ELSE {}]]
  /\ UNCHANGED <<manager, file, cache, count>>

Said(h) == hist[Group(h)]
Arg(h)  == job[h].msg.arg

(***************************************************************************)
(* The commands.                                                           *)
(***************************************************************************)
Bot(h) ==
  /\ Solves(h, {"bot"}) /\ Arg(h) # "bye"
  /\ Persists(h, [Record(h) EXCEPT !.active = (Arg(h) = "on")], [Said(h) EXCEPT !.silent = @ /\ Arg(h) = "off"])

\* .bot bye, .dismiss and every command that leaves the record alone.
Reply(h) ==
  /\ Solves(h, {"bot", "st", "en", "ri", "r"}) /\ Arg(h) \in {"bye", ""}
  /\ Answers(h, Record(h), Said(h))

BotList(h) ==
  /\ Solves(h, {"botlist"})
  /\ Answers(h, [Record(h) EXCEPT !.bots = (Arg(h) = "add")], Said(h))

Nn(h) ==
  LET name == IF Arg(h) = "clr" THEN "nickname" ELSE "name"
  IN Solves(h, {"nn"}) /\ Answers(h, [Record(h) EXCEPT !.player = name], [Said(h) EXCEPT !.name = name])

SetClr(h) ==
  /\ Solves(h, {"set"}) /\ Arg(h) = "clr"
  /\ Persists(h, [Record(h) EXCEPT !.sides = "", !.system = ""], [Said(h) EXCEPT !.system = ""])

SetSystem(h) ==
  LET key == Arg(h)
      r   == [Record(h) EXCEPT !.system = key, !.sides = IF key = "coc7" THEN "100" ELSE "20"]
  IN /\ Solves(h, {"set"}) /\ key \in Systems
     /\ Persists(h, Listed(ExtActive(r, key)), [Said(h) EXCEPT !.system = key, !.closed = @ \ {key}])

SetDice(h) ==
  /\ Solves(h, {"set"}) /\ Arg(h) = "dice"
  /\ Persists(h, [Record(h) EXCEPT !.sides = "d6"], Said(h))

\* .setcoc turns coc7 on and makes it the system, after setRuleByName did both, and stores nothing.
SetCoc(h) ==
  /\ Solves(h, {"setcoc"})
  /\ Answers(h, [ExtActive(Record(h), "coc7") EXCEPT !.system = "coc7", !.rule = Arg(h)],
                [Said(h) EXCEPT !.system = "coc7", !.closed = @ \ {"coc7"}])

ExtOn(h) ==
  LET r == Record(h)  found == ExtFind(Arg(h))
  IN /\ Solves(h, {"ext on"})
     /\ Answers(h, Listed(IF found = {} THEN r ELSE ExtActive(r, CHOOSE e \in found : TRUE)), [Said(h) EXCEPT !.closed = @ \ found])

\* The word is closed as typed; only if that removed nothing from the list is it looked up and
\* closed under the extension's name.
ExtOff(h) ==
  LET r     == Record(h)
      word  == Arg(h)
      found == ExtFind(word)
      typed == ExtInactiveByName(r, word)
      byName == IF Removed(r, word) # {} \/ found = {} THEN typed ELSE ExtInactiveByName(typed, CHOOSE e \in found : TRUE)
  IN /\ Solves(h, {"ext off"})
     /\ IF "core" \in found
          THEN Answers(h, Listed(r), Said(h))
          ELSE Answers(h, Listed(byName), [Said(h) EXCEPT !.closed = @ \cup (found \cap {word})])

(***************************************************************************)
(* The process ends and is started again: the file is left.                *)
(***************************************************************************)
Remembered(g) ==
  IF hist[g].unsaved \/ Busy(g) # {} \/ manager = "memory"
    THEN [hist[g] EXCEPT !.closed = {}, !.system = "", !.name = "", !.silent = @ /\ manager = "bunt", !.unsaved = FALSE]
    ELSE [hist[g] EXCEPT !.name = ""]

Restart ==
  /\ count.restarts < MaxRestarts
  /\ cache' = [g \in Groups |-> Null]
  /\ heap' = [o \in Objs |-> Null]
  /\ job' = [h \in Handlers |-> Idle]
  /\ hist' = [g \in Groups |-> Remembered(g)]
  /\ count' = [count EXCEPT !.restarts = @ + 1]
  /\ UNCHANGED <<manager, file>>

Finds(h)    == ReadFile(h) \/ ReadFails(h) \/ Create(h) \/ WriteFile(h) \/ WriteFails(h) \/ Fill(h)
Commands(h) == Bot(h) \/ Reply(h) \/ BotList(h) \/ Nn(h) \/ SetClr(h) \/ SetSystem(h) \/ SetDice(h) \/ SetCoc(h) \/ ExtOn(h) \/ ExtOff(h)
Dispatches(h) == List(h) \/ Skip(h) \/ Commands(h)

Next ==
  \/ \E h \in Handlers : (\E g \in Groups, msg \in Messages : LoadHit(h, g, msg) \/ LoadMiss(h, g, msg)) \/ Finds(h) \/ Dispatches(h)
  \/ Restart

Spec == Init /\ [][Next]_vars

(***************************************************************************)
(* Properties.                                                             *)
(***************************************************************************)
Shared(g) == ~NeverStored(g)

\* A group has one record: unless two messages met a group without one, or the file failed, the
\* record a handler works on is the one the next message finds.
OneRecord ==
  \A h \in Handlers :
    job[h].pc \in {"list", "visit"} /\ Shared(Group(h)) /\ hist[Group(h)].doubt \cap {"records", "file"} = {}
      => cache[Group(h)] = job[h].obj

\* Settings survive: when no message of a group is being handled, the file holds the group as the
\* cache does, but for what .ext, .botlist and .setcoc changed, which only a later .bot or .set stores.
SettingsSurvive ==
  \A g \in Rooms : manager = "bunt" /\ cache[g] # Null /\ Busy(g) = {} /\ hist[g].doubt = {} /\ ~hist[g].unsaved
                    => file[g] = Stored(heap[cache[g]])

\* The name .nn gave stays the player's, whatever settings are stored and loaded meanwhile.
NameKept ==
  \A g \in Groups : Shared(g) /\ cache[g] # Null /\ hist[g].doubt = {} /\ hist[g].name # ""
                     => heap[cache[g]].player = hist[g].name

\* The command of a message is run by extension e in this step.
Runs(h, e) == job[h].pc = "visit" /\ Willing(h) /\ Head(job[h].todo) = e /\ job'[h] # job[h] /\ count' = count
Trusted(g) == Shared(g) /\ hist[g].doubt = {}

\* Once .bot off was answered, messages that come to be dispatched later, also after a restart, run
\* nothing but .bot and .dismiss, until .bot on.
SilentAfterOff ==
  [][\A h \in Handlers : \A e \in Exts :
       Runs(h, e) /\ Trusted(Group(h)) /\ job[h].asked.silent => job[h].msg.word = "bot"]_vars

\* Once .ext off was answered for an extension by its name, its commands are not run until it is
\* opened again; over a restart, if a later command stored the record.
ClosedStaysClosed ==
  [][\A h \in Handlers : \A e \in Exts :
       Runs(h, e) /\ Trusted(Group(h)) => e \notin job[h].asked.closed]_vars

\* A command that two extensions have (.st) is run by the one of the system last set, also when the
\* other is on too, unless it was closed or another message of the group came meanwhile.
SystemAnswers ==
  [][\A h \in Handlers : \A e \in Exts :
       Runs(h, e) /\ Trusted(Group(h)) /\ job[h].msg.word = "st"
         => job[h].asked.system \in {"", e} \cup job[h].asked.closed]_vars
=============================================================================
