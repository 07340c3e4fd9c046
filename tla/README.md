# A TLA+ model of smallseal

smallseal is a dice bot for tabletop role playing: it reads messages of chat groups through a
OneBot 11 or Milky connection, runs commands (`.r`, `.pc`, `.st`, `.init`, ...) of a core and of
rule extensions, and keeps the players' character cards. This directory holds TLA+ models of its
concurrent and stateful parts, the TLC configurations that check them on small instances, and
proofs for TLAPS. Paths below are relative to the repository (`src/`).

## 1. Inventory

| part | where | state | operations | modules |
|---|---|---|---|---|
| attribute cache | `dice/attrs/attrs_manager.go`, `attributes_item.go` | map id → card, the cards' values and `IsSaved` | LoadById, CharNew, CharDelete, Save, CheckForSave, edits of a card | `AttrsCache` |
| store of cards | `dice/attrs/attrs_io.go`, `default_io_impl.go` | cards by id, bindings (group, user) → id | Puts, GetById, GetByUidAndName, ListByUid, DeleteById, Bind, Unbind, UnbindAll, lists | `AttrsIO` |
| store in a file | `examples/main_ob11_with_db/buntdb_attrs_io.go` | five kinds of keys of a buntdb file | the same | `BuntAttrs` |
| card commands | `dice/exts/ext_core.go` (`.pc`) | what a command has read so far | new, rename, tag, load, save, untagall, del | `CharCommands` |
| hooks | `dice/hook_registry.go`, runs in `dice/dice.go` | entries by priority, index by id | register, unregister, snapshot, runs | `HookRegistry` |
| OneBot 11 connection | `adapters/platform_adapter_ob11.go` | two session slots, the running flag, pending echoes | connect, replace, clear, Close, calls, answers | `Ob11` |
| message dispatch | `dice/dice.go` (Execute), `dice_ext.go`, `types/group_user_info.go` | group records: active flag, system, extension states, player names | Execute, `.bot`, `.botlist`, `.nn`, `.set`, `.ext`, `.setcoc` | `GroupService` |
| group records in memory or in a file | `dice/group_info.go`, `examples/main_ob11_with_db/group_info_db.go` | a cache in front of `group:<id>` | Load, Store | `GroupService` |
| dnd5e, initiative | `dice/exts/ext_dnd5e.go` | list of units, index of the turn, value kept beside it | `.ri`, `.init` | `DndInitiative` |
| dnd5e, a card in play | `dice/exts/ext_dnd5e.go` | hit points, temporary ones, death save marks, spell slots | `.st hp`, `.ds`, `.buff`, `.longrest`, `.ss`, `.cast` | `DndSheet` |
| `.st` and rule systems | `dice/exts/ext_st_helper.go`, `types/game_system_template.go` | a card's type and attribute names | set, add, del, clr, fmt, conversion, refusal | `StCommand` |
| coc7 | `dice/exts/ext_coc7.go` | rule of the group, skill, sanity | `.ra`, `.rc`, `.rav`, `.rcv`, `.sc`, `.en` | `CocChecks` |
| Milky connection | `adapters/platform_adapter_milky.go` | session, alive flag, group name cache | Serve, DoRelogin, SetEnable, GroupInfoGet, GetGroupInfoAsync, calls | `Milky` |
| parsing, segments, templates | `dice/types/cmd_args.go`, `message_segment*.go`, `dice/textmap.go` | none | pure functions | which command is meant: `GroupService` |

**How they interact.** An adapter starts a goroutine for every frame it reads; the goroutine calls
`Dice.Execute`, which runs hooks and then the extensions' commands, all on that goroutine. Commands
share the group records, the hook registry and, through `AttrsManager`, the cards: `LoadById` hands
out pointers, so two goroutines may edit one object. A ticker goroutine copies unsaved cards into the
store every 60 seconds, and `SaveAll` does so when the program ends. Replies go out through the
adapter's `callAction`, which waits for the frame that answers it, read by the adapter's own loop.
Nothing but the locks of single maps and of the store orders all this.

**What is hard in it, and what makes each part correct.**

* Attribute cache: the flag `IsSaved` is read, and much later written, by the saver while handlers
  clear it; ids are looked up, fetched and installed in three steps; deletion and saving race; the
  process may die anywhere. Correct means: a card flagged saved is the one in the store, deleted
  cards stay deleted, no save takes away what nobody removed, an unsaved card is saved in the end.
* Store: five kinds of keys must agree after every method and every refused batch. Correct means:
  every method answers as the interface promises; indexes and reverse keys mirror the cards.
* Card commands: check, then act, over several calls with nothing held; errors of the store read as
  "no"; two cards may be one object. Correct means: names of a player's cards are unique, bound cards
  are not deleted, load and save copy the right attributes to the right card.
* Hooks: registrations race with one another and with runs, and shift positions. Correct means: a run
  calls exactly the hooks of its snapshot in order, unregister removes exactly the hook it names.
* OneBot 11 connection: sessions of three roles replace one another while their goroutines still
  clear up, calls race with answers, failures, timeouts and `Close`. Correct means: no dead session
  in a slot, no two live ones for one slot, no call left behind by an ended session, no leaked echo,
  an alive flag that tells the truth.
* Milky connection: closing, opening and setting the flag are separate steps, and names come into the
  cache by two ways. Correct means: the flag tells whether the session is open, a name is not told
  for longer than its lifetime and its renewals, and a request brings the program down only when there
  is no session yet or a file has no sender (see Findings).
* Message dispatch: the record is looked for, read, made, stored and cached in steps, errors of the
  file read as "unknown group", the state of extensions lies in a map and in a list computed from it,
  some commands store the record and some do not. Correct means: one record per group, what was
  answered "off" stays off, also over a restart, the system's extension answers, settings survive.
* Initiative: the turn is an index and, beside it, the value of the unit it names, kept while units
  come, go and change. Correct means: both agree, and nobody loses or gains a turn.
* A card in play: every command is several loads and stores with nothing held. Correct means: damage
  is taken once, three marks end the dying, a healed one has none, slots stay in their range.
* `.st`: a card of one system in a group of another is refused or renamed. Correct means: what was on
  it reads the same when it comes home.
* coc7: seven rules for what is critical and what a fumble. Correct means: the roll is judged as the
  text shown for the rule says, opposed checks are fair, skills grow and sanity falls as they should.

`PROJECT.json` lists every part with its status and every hazard at its line.

## 2. Modules

Every module translates the code named in its header, one action per operation or, where goroutines
interleave, one action per access to something shared. Definitions keep the code's names.
Definitions whose comment begins with "Mutant" are faulty variants of the definition below them; no
specification uses them. Variables marked "history" are read by properties only.

### AttrsCache (checked and proved)

`cache` is `AttrsManager.m`; `data` and `saved` are the fields of the objects; `disk` the store. A
handler resolves an id (`Resolve`), finds the object (`LoadHit`) or misses it, reads the store and
installs a new object (`LoadMiss`, `Fetch`, `Install`), and then holds the pointer while it edits
(`Store` and `Clear` change the data first and the flag in a later step, `SetUnsaved`; `Delete` changes
the data only) or saves (`SaveCopy`, `SavePuts`, `SaveMark`). `CharNew` and `CharDelete` are two steps
each. A saver visits the ids one by one (`Visit`), puts what it copied (`PutsAll`, `PutsError`) and marks
(`Mark`). With `IoMayFail` the store may refuse a call, and a card may not be convertible: `LoadById` then
returns an error (`FetchUnreadable`), a `Save` gives up (`Release`), a batch leaves the card for the next run
(`Visit`). `Crash` drops the memory, `Restart` begins with an empty cache. A card's data is the set
of attribute names it holds: the properties tell presence apart, not values.

The code promises less than one would wish, because four kinds of races lose something. The history
variable `races` notes, per card, which of them it went through: an edit or a second copy between a
save's copy and its mark (window), `Delete` not clearing the flag (unflagged), two objects for one id
or one not filled from the store (split), a save or load of a card being deleted (revive). The
properties say what holds as long as none was noted, which is a statement about every other
interleaving; the runs with expected violations show what the races cost.

### AttrsItems, AttrsIO, BuntAttrs (checked and proved)

`AttrsItems` declares what both share. `AttrsIO` is the store in memory: `items` and `bound`, and
`answer`, what the last method returned, so that a refinement also compares return values. `BuntAttrs`
keeps the key spaces `attr:`, `owner:`, `name:`, `bind:` and `bindrev:` as variables, builds `Puts` item by
item inside a transaction and rolls it back when an item is refused; `Promise!Spec`, the specification
of `AttrsIO` over `attr` and `bind`, is a property of it. Lookups work from the indexes as in the code,
so a wrong index gives a wrong answer and breaks the refinement.

### CharCommands (checked and proved)

One player, several messages at a time in several groups. `job` says what each handler's command has
read so far; `After` is the order of a command's calls. Each call of `AttrsManager` is a step and atomic,
its inside being the subject of `AttrsCache` and `BuntAttrs`. `cache` and `heap` keep the identity of
objects, which matters: `.pc load` may be given the very card it clears. `IoMayFail` lets every
store access fail, with what the code makes of it: `lo.Must` ends the command (`CallFails`), a lookup
reads as "not found" (`Find`, `DelList`, `CheckName`), `LoadById` makes an empty card (`Loaded`), `Load`
falls back to the group's default card (`CurrentRead`). `.st` is here only as an edit of the current
card; `Flush` is the saver as one step.

### HookSet, HookRegistry (checked and proved)

`HookRegistry` has the slice (`items`), the `index` and the counter, with the id drawn before the lock
(`Draw`, `Insert`) and runs over a snapshot (`Begin`, `Call`). `HookSet` says what that promises: a set of
hooks, runs that call the hooks there were at their beginning by priority and age. `KeepsPromise` is
`HookSet`'s specification under the mapping `hooks <- ToSet(items)`, `left <-` the rest of each snapshot.

### Ob11 (checked and proved)

`apiSession`, `eventSession`, `running` and `pending` are the adapter's fields. A session's goroutine runs
through `setSession` (`SwapApi`, `CloseOld`, `SwapEvent`, `SetRunning`), reads, and runs through `clearSession`
(`ClearApi`, `ClearEvent`, `CloseConn`, `failPending`, `CheckApi`, `CheckEvent`, `StopRunning`); `Close` is a
goroutine of its own, after the context is cancelled as in the example programs. A call asks for the
session, registers, writes and waits (`GetApiSession` to `Receive`); `ReadAnswer`, `TakePending` and
`SendAnswer` are the frame that answers it, on its own goroutine. Names of sessions and calls are used
again once nothing refers to the earlier one, so behaviours have any number of connections and
calls, with a bounded number at a time.

### GroupService (checked and proved)

A handler receives a message (`LoadHit`, `LoadMiss`), reads the file (`ReadFile`, `ReadFails`) or makes the
record (`Create`), stores it (`WriteFile`, `WriteFails`, `Fill`), lists the extensions and matches the
command (`List`), and asks those that have it (`Skip`, or the command's action). `manager` says which
`GroupInfoManager` is in use: that of memory forgets everything with the process, that of the file
stores `StoredRecords`, a record less what the code does not marshal. `states` is `ExtActiveStates`, a map from the words that were typed, and `list`
is `ActivatedExtList`. A command's text is a word and an argument; `CommandParse` is the one thing of
parsing that depends on state: `.setcoc` with coc7 off is `.set` with the argument `coc`. `hist` is
history: what was acknowledged, whether the record was changed without being stored (`unsaved`), and
`doubt`, the events after which the code promises nothing: two records made for a new group,
overlapping stores, an error of the file.

### DndInitiative, DndSheet, StCommand, CocChecks (checked and proved)

The commands of the rule extensions. They change different attributes of different cards, so there
is a module to each group of commands.

* `DndInitiative`: `riList`, `cur` and `round` are the three attributes of the group. A command loads the
  list (`LoadByCurGroup`), changes the turn (`Ri`, `InitSet`, `InitEd`, `InitDel`), saves the list
  (`SaveToGroup`) and, for some, changes the turn again (`Clear`, `PassOn`): `dndRiLock` covers each load
  and each save, not what is between them. Sorting and filtering a list (`Sorted`, `Kept`) are `Arranged`: what
  is at some of its positions, each at the place its rank says, which is how many stay before it. `.init del` looks twice: for a
  unit named by the whole text (`TryWhole` when there is none), then for the words of it, and each look brings the index within the list.
* `DndSheet`: `attr` and `slot` are attributes of one card. `.st hp-n` is `StHp`, `Judge`, the three steps of a
  death saving throw if there is one (`ReadMarks`, `WriteMarks`, `Settle`) and `StoreHp`; changes of slots
  are `Reload` and `Spend` for each level; the other commands are one step, `.ds stat` too (`Stat`), which makes marks that are not
  there 0 and judges nothing. What was rolled is an input.
* `StCommand`: `Alias` and `Default` are the templates' tables. `Formats` gives every card the conversion may
  make of one, as it stores in the order of a Go map. `Safe` says of which attributes of a card conversions
  there and back can be expected to bring back the value: its names in the systems lead to one another,
  its number is no template's default, and no other attribute on the card gets its name (`Closed`).
* `CocChecks`: `ResultCheckBase` is the code's, `Ruled` says the same from the texts of
  `SetCocRuleText`, and the two are compared on rolls. A command leaves in `told` what was answered.

### Milky (checked and proved)

`session` and `isAlive` are the adapter's fields; the session belongs to an external library, so it is open or
closed, and opening it may fail. `Serve`, `DoRelogin` and `SetEnable` begin a change of the connection that `Open`
and `SetAlive` finish, on any number of goroutines; `overlapped` is history and notes that two of them did so at
the same time, after which the code promises nothing. `cache` has the entry `GroupInfoGet` reads and writes, under
the number of the group, and the one `GetGroupInfoAsync` writes besides, under the text it was given; `InfoGet`,
`Ask`, `Make`, `Store` and `Put` are their steps, as the check for a missing map and its creation are not one.
`now` is the clock. An entry's `since` and `limit` are history: when the server told the name, and how long it may
be told from then on. A `GetGroupInfoAsync` by the bare number that finds a name puts it back, which gives it one more
lifetime and the time the call took; by the prefixed id it stores where nobody looks. `lastTold` has the age and the
limit of the name told last. `Send` and `Sent` stand for all requests to the server: the id is parsed, the server
refuses or does what it is asked, and a message for the callback is built. `NilSession` is a request before the first
`Serve`, which reads a session that is not there. A goroutine that panics stays at its step with `crashed` set, and
nothing goes on: `CrashExplained` reads there what it was doing.

`MCScenes` checks the last five modules in one run as scenes: `scene` is chosen at first, and only its
module's variables move. They share no state.

## 3. Runs

| run | instance | what it shows |
|---|---|---|
| `attrs_cache` | 1 card, 1 attribute, 3 objects, 2 handlers, ticker and SaveAll, errors, crashes | cards flagged saved are stored, deleted cards stay deleted, saves erase nothing, outside noted races |
| `attrs_live` | a group's item and the item of the empty group id, 1 handler, a fair ticker | an unsaved card is saved in the end unless the refused item waits too |
| `attrs_mark`, `attrs_exit` | 1 card | violations, see Findings |
| `bunt_attrs` | 3 ids, 2 owners, 2 names, 1 group, batches of any length | the file store implements the interface; indexes and reverse keys are exact |
| `hooks` | 2 registrars, 2 runners, 2 priorities, 4 registrations | index exact; runs call what they should |
| `char_commands` | 2 handlers, 2 commands, 2 groups, 2 cards, 2 names, errors | unique names, bound cards kept, right copies |
| `pc_load` | the same | violation, see Findings |
| `ob11` | 2 connections and 2 calls at a time, Close | slots, echoes, answers, the flag when alive |
| `ob11_alive` | the same with 1 call | violation, see Findings |
| `group` | 2 handlers, 3 messages, a restart, 1 group and the private chats, errors | one record, off stays off, settings survive, the right extension answers |
| `scenes` | seven scenes: 2 overlapping commands on a list of 2 to 4 of 3 units, on hit points, on slots of 2 levels; 4 commands on a card; every roll; sanity and growth; 3 callers and 4 calls of Milky | turns, marks, damage, slots, conversion, checks, Milky's flag and names |

**Bounds, and why they are enough.** The hazards of `AttrsCache` are races of two parties over one
card: two handlers, a ticker and `SaveAll` give all pairs and all triples with a saver; three objects
are one more than two handlers can hold beside the map's. Cards do not interact but for a refused
batch, which `attrs_live` has. The theorems hold for any numbers. `BuntAttrs` needs two cards of one
owner and name, and a third that takes the name over. `HookRegistry` needs an insertion before, between
and after, and one that overtakes: four hooks of two priorities have them all. In `CharCommands`
the store begins in any state earlier commands may have left (with two cards at most, default cards
included: no command looks at more), so two commands that overlap, or follow one another with unsaved cards between them, are what
a third would have to follow. In `Ob11` the reuse of names makes long sequences out of two
connections; what two connections at a time do not show, a chain of three goroutines clearing at
once, the theorems cover. In `GroupService` a race needs two messages at a time and a third that finds
what they left, before or after one restart; which commands are sent where is in `MCSends`, all of
them between the group and the private chats, and of a behaviour one of the two (`OneGroup`): records of
different groups have nothing in common. `Init` has groups an older version stored. The scenes of `scenes`
begin in every state earlier commands may have left, within small numbers, so two commands show
what a third would add to. Objects of `CharCommands` and `GroupService` that nobody holds are used again, and `Objs` has one more than can
be in use (`ObjsAssumption`; nine and five in the runs), so that there is always a new one, as in Go.
Initiative values 1 to 3 are below, equal to and above one another; two
units at once are needed for `.ri` to work down its list. Hit points 0 and 2, a limit of 3 or 4 and
blows of 1 and 3 give every branch of `Judge`. A card of `StCommand` goes through four commands, one of
which changes a value: out of its system, converted there, back, converted again. Rolls are all of 1
to 100 against skills on both sides of every number in the rules. A single check (`MaxCoc = 1`) is
enough because the rule, the skill and sanity, with which it begins, are all that one leaves to the
next. Three callers of `Milky` are two that overlap
and one that asks what they left; a name is asked for, put back under either kind of id, and asked for again after its
lifetime and after its renewal within four calls and four ticks. The counters are `MaxRequests`, `MaxTime`, `MaxCommands`, `MaxHooks`, `MaxMessages`, `MaxRestarts`, `MaxListed`, `MaxItems`, `MaxRi`, `MaxSh`, `MaxSt`,
`MaxEdits` and `MaxCoc`.

**Fairness.** Only `attrs_live` has it: `WF_vars(SaverNext(s))` for savers that are not `SaveAll`.
The ticker's goroutine loops for ever (`attrs_manager.go:210`), and the map's Range, `Puts` and the
marks return. `IoMayFail` is FALSE there: a store that fails for ever, or a card that can never be converted, saves
nothing. Nothing is assumed of handlers. In `Ob11` a call's return after 15 seconds, and the end
of a session whose connection was closed, are immediate from the timer and from `ReadMessage`
returning; what could go wrong (a replaced session that nobody closes, a call nobody answers) is
stated as invariants.

**Deadlock** is not checked in `char_commands`, `pc_load`, `ob11`, `ob11_alive`, `group` and `scenes`: a user
stops sending commands, a program that was closed does nothing more.

## 4. Findings

* **`attrs_mark`**: `CheckForSave` loads every saved id again and writes through the pointer without
  looking whether there is one; "the data should never be missing here", says `attrs_manager.go:269`.
  A `CharDelete` after `Puts` removes it: the process dies on a nil pointer.
* **`attrs_exit`**, two causes. `AttributesItem.Delete` does not clear `IsSaved`, unlike every other edit,
  so a deletion alone is not saved: TLC prints this one, it is shorter. And an edit between a save's
  copy and its mark is flagged saved and is in no later save (with `Edits = {"store"}` TLC prints
  this one). `SaveAll`, which says it saves all unsaved data (`dice.go:283`), skips both.
* **`pc_load`**: `.pc load` of the card the group is bound to clears the object it is about to copy and
  saves the empty card. The text table has the refusal for this state (`textmap.go:461`); no code
  uses it.
* **`ob11_alive`**: `clearSession` finds both slots empty and then stores `running = false`; a session
  installed in between loses the flag it set, and `IsAlive` is false while an event session is up,
  against its comment (`platform_adapter_ob11.go:83`).

Met while modelling, and left in the models as they are:

* An error reading a group's record is answered like a missing one (`group_info_db.go:193`): `Execute`
  makes a new record and stores it over the old one. `OneRecord` and the other properties of `group` end
  there (`doubt`).
* `.ext off COC7` answers that the extension was closed; the state is stored under `COC7` and the list,
  recomputed from the states, still has `coc7` (`group_user_info.go:183`). `ClosedStaysClosed` covers the
  exact name. `.setcoc` with coc7 off is parsed as `.set coc`, which turns it on. `ConflictWith` is
  written by the extensions and read by nobody.
* `.ext`, `.botlist`, `.setcoc` and `.nn` do not store the record; the next `.bot` or `.set` does, but for names.
* Skills of 99 and more: a roll the skill covers is no fumble in `ResultCheckBase`, while the texts of
  rules 1, 4, 5 and of Delta Green say it is (`RankAsRuled` is about skills below). A Delta Green check
  that asks for a hard success passes only by a critical one.
* The long rest needs "hpmax, and hp > 0" by its help (`ext_dnd5e.go:1029`); the code does not look
  at hp, and leaves the marks of the dying. `.st hp+0`, and damage the temporary hit points take whole,
  count as a failed death save at 0. A 20 or a 1 is looked for in the total of `.ds`, not on the die.
  A negative limit makes hit points negative; the total that is told differs when they are above the
  limit. `.ds s-1` may leave a negative mark.
* Signs of `.ds` and `.ss` are matched by `[+-＋－]`, where `+-＋` is a range: `.ds stat` matches as `.ds s`, and
  `.ss 3环 12` adds 2. `.ss init` of fewer levels keeps the higher ones. `.buff 运动+n` changes the skill itself and
  `.buff clr` does not take it back; `.buff clr @someone` clears the sender's.
* Two overlapping `.st hp-n`, `.ss` or `.cast` each load before the other stores: one change is lost.
* Every message the bot sends is handed to `OnMessageReceived` (`emitEcho` and its like in Milky) and
  executed like a message of a user: a reply that begins with a command's prefix runs. Milky hands
  it on under the bare number of the group, which is another group record.
* `GetGroupInfoAsync` stores what `GroupInfoGet` gave it once more with the time of now, also when that
  came from the cache (`platform_adapter_milky.go:204`). Under a prefixed id nobody reads that entry;
  under the bare number it is the one that is read, so that a name is told after the five minutes of
  line 234, without end when the calls come often. The models do both: `NamesExpire` counts the
  renewals, and shows that there is no other way for a name to be told late.
* `MsgSendFileToGroup` of Milky reads `request.Sender` without looking whether there is one, after the
  file has been sent; the field "may be left out" (`protocol_types.go:34`). In the model `Sent` then crashes. Before the
  first `Serve` every request that parses reaches for a session that is nil (lines 86, 253 and their like), which
  `NilSession` stands for; `IsAlive` is false then, but no request asks it. `CrashExplained`, a part of `MiSound`, says that
  nothing else brings the program down.
* `.st hp-=n` is damage for `cmdStValueMod` (`ext_st_helper.go:325`), while `ToMod` lets the temporary hit points take only
  what is written `-` (`ext_dnd5e.go:258`): it does what `--over` does, without being asked to. `direct` stands for both.
* Templates: conversion uses dnd5e's for its `.st` and then sets the type to the group's system; coc7's
  sneaking becomes dnd5e's and does not come back; two values of one canonical name leave either, in
  the order of a Go map; `.en` of a number stores it under the name as typed; `.dst` in a group of coc7
  works once and is then refused.

## 5. Proofs

`AttrsCacheProofs` proves for all values of the constants that `TypeOK`, `CleanMeansPersisted`,
`DeletedStaysDeleted` and `MarkMeetsDeletion` are invariants (theorems `TypeCorrect`,
`SavedCardsArePersisted`, `DeletedCardsStayDeleted`, `MarksMeetDeletions`). None of them but the first
is inductive: that a flag tells the truth depends on the copies savers hold, on who else holds the
object, and on what happens to ids not given out yet. The inductive invariant is

    TypeOK /\ OneObject /\ UnissuedUnknown /\ DeletionInv /\ QuietInv

whose parts stand at the end of `AttrsCache`. `OneObject`: no object stands for two ids, and one being
installed is nobody else's. `UnissuedUnknown`: nothing refers to an id `CharNew` has not given out, so
a new card starts clean. `DeletionInv`: a deleted card without a "revive" is in no batch, no save and not
in the map. `QuietInv`: for a card without a noted race there is one copy under way at most
(`OneCopy`), it equals the card (`CopyCurrent`), and a clean card at rest equals the stored one
(`CleanCurrent`). Each part is preserved by handlers' steps and by savers' steps in lemmas of their
own, with one step per action. `SavesEraseNothing` proves the action property `NothingErased`: no save
takes an attribute out of the store that nobody asked to remove. It needs `KeepInv` besides: what the store
and every copy under way hold of a card is still in its object, but for what was removed on request
(`ObjectKeeps`), and what the store holds is in the copies (`CopiesKeep`), so that a put of a copy adds to
the store. This holds through windows and unflagged deletions; only a second object for a card, or a save of
one that is being deleted, breaks it. Assumptions used: `IdsAssumption` (cards are ids, refused ids are not
cards), `NoValueAssumption` (Null and Absent are no data).

`BuntAttrsProofs` proves that the file store implements the interface, `Spec => KeepsPromise`
(`BuntAttrsKeepsPromise`), and the invariants `BindingKeysMirror`, `IndexKeysSound`,
`BindingsLeadToCards` and `StoreTypeOK`. The invariant that carries the refinement is that the indexes are exact where
lookups use them and that the copies kept for a rollback are themselves consistent.

`Ob11Proofs` proves all six invariants of the run `ob11` for any number of sessions and calls
(`TypesHold`, `NoneEndedInSlots`, `ReplacedAreClosed`, `EndedAreAnswered`, `NoEchoLeft`, `AliveIsTrue`).
Their inductive invariant has one part per concern: where a session's goroutine is while the session
is in a slot (`InSlots`), who owes a swapped out session its close (`Owed`), an open session is in its
slots or owed (`Present`), what echo, channel and answer of a call say of one another (`Echoes`), a
session leaves its slot, closes and only then fails the echoes (`Leaves`), so that an unanswered call
of it is still to come by in its Range (`Failing`). The order matters twice: a call that registers
after the Range has begun must find the connection closed, and a session swapped out must be closed
by whoever holds it in `old`. Assumption used: `NoneAssumption`, that names are distinct.

`HookRegistryProofs` proves `TypesKept`, `IndexIsExact` and `RegistryKeepsPromise`, the refinement of
`HookSet`, for any runners, priorities and numbers of hooks. Its invariant `RegistryInv` adds that every
id in the list or about to be inserted was drawn and is nobody else's (`IdsOwned`) and that lists and
snapshots are sorted by priority and then by id (`Sorted`). The insertion place is the least position
that comes after the new entry; that there is one is the lemma `Smallest`.

`CharProofs` proves every property of `CharCommands`: `TypeOK` (`CommandsTypeOK`), that no two cards of a user
have one name (`CardNamesUnique`) and what `.pc del`, `.pc load` and `.pc save` leave (`DeleteKeepsBound`,
`LoadCopiesCard`, `SaveCopiesCard`), for any handlers, groups, cards and names. The inductive invariant is

    TypeInv /\ Solo /\ NamesInv /\ Knows

`TypeInv` adds to `TypeOK` what each step has read so far. `Solo`: a command that met no other is the only one
there is. `NamesInv`: of the names of a user, those in the store, those in memory that a save has not
written, and those a command is about to give are each claimed once (`OneClaim`), and whoever has checked that
a name is free, undisturbed, finds it free still (`NameFree`). `Knows`: at each of its steps a command
that is alone knows who is bound to the card it deletes (`Unbinds`) and what the objects it copies from and to hold
(`LoadKnows`, `SaveKnows`). The last three properties are about a command's end, so they follow from `Knows` at
its last step. Assumptions used: `ObjsAssumption`, `ValuesAssumption` (Null, Absent and the like are no values).

`GroupProofs` proves every property of `GroupService`, for any groups, handlers, extensions and messages: `GroupTypeOK`,
`GroupHasOneRecord`, `SettingsAreSaved`, `NameIsKept`, `SilenceIsKept`, `ClosedRunsNothing` and `SystemRunsSt`.
Its invariant is `TypeInv` and, of each group, five parts:

* `TypeInv`: types, and that an object is one group's, which makes a step in one group leave the others alone.
* `Sole`: who handles a message of the group works on the record in the cache.
* `Filed`: the file holds what the cache does, or the store that is under way will make it so.
* `Told`, `Hushed`: what was answered (off, closed, the system) stands in the record, and in the file if a
  store followed.
* `Visits`: an extension a handler has yet to ask is on and was not closed before; a `.st` nobody disturbed
  finds the system's extension first in its list.

The last part showed that `SystemAnswers`, as it was first stated, was too strong: a message handled at the same time
may close the system's extension between `List` and the command, which takes more messages than
the run has. It now claims nothing when another message came meanwhile.

`RulesProofs` has the theorems of the four modules of rules. Of `DndSheet` it proves `ShSound` for any handlers,
levels, commands and numbers (`SheetIsSound`), and that damage is taken once (`DamageIsAccounted`). A third mark
of the dying is not forbidden while a command is under way: `ThirdIsSettled` says that whoever made it is about to
take it away. That numbers come out right is about commands that do not overlap; `Alone` says that one is under
way then, and `Playing`, `Spending` and `Blows` what it knows of the card at each of its steps.

Of `CocChecks` it proves `CheckAsRuled` for every roll, skill and rule (`ChecksAreRuled`): the arithmetic of
`ResultCheckBase` against the rules' texts (`RankRuled`, `RequireRuled`), the roll that is told for
opposed checks (`OpposedCases`) and of sanity (`MiddleRolls`).

Of `StCommand` it proves `StSound` (`ConversionReadsSame`): however often the system is switched and a card
converted, for any systems and templates, its safe attributes come back. The invariant `StInv` follows such an
attribute through the systems: it is under its name in the system of the last conversion, and the other
attributes are within a closed set of names it never has (`Follows`). The proof asked for two conditions that two systems
without chains of names do not show: a name's names in three systems must lead to one another, and no
attribute may get the name by repeated conversion. Both are in `Safe`.

Of `DndInitiative` it proves its three properties, for any handlers, units, values and commands. First what
sorting, filtering and adding do to a list. Sorting and filtering reach every place: a rank that tells
positions apart and counts within their number reaches each (`EveryPlace`, by counting), so the list sorted or filtered has
what it had (`SortedFacts`, `KeptFacts`) in order (`SortedInOrder`, `KeptInOrder`). Adding the units of a `.ri` one after
another is a recursive function; that it exists, and that what every single addition keeps all of them keep, is shown by the
least number of additions that would not (`AddingEnds`, `AddedReached`), as the natural numbers are well ordered.
Then the commands:

* `RiSound` (`RiIsSound`), however commands overlap. `RiInv` adds what a handler holds: its copy is in order and, when an index
  is used on it, not empty; what `.init del` will pass the turn to is in the list that is left.
* `TurnInStep` (`TurnIsInStep`) and `TurnKept` (`TurnIsKept`), without overlap. `Knows` says what a
  command knows of the turn at each step: index and value fit the list that is to be saved, and the unit with the turn
  is the one that had it, or follows it. Adding keeps this because the index is between two counts: the units with a
  value above the current one, and those with at least that (`AddedFits`); when no new unit has that value it is the
  number of units before the one whose turn it is (`AddedKeeps`). `DelTurn` shows that the code's index after
  `.init del`, counted from the start, is that of the next unit left, counted from the turn on.

`MilkyProofs` proves `MiSound` for any callers, requests and lifetime (`MilkySound`). The flag: unless
calls overlapped one goroutine at most is changing the connection, and at each of its steps it knows
what the session is (`Known`). Names: the entry under the number lasts no longer than its name is allowed,
and a call that will put a name back there has been allowed what it takes (`Named`); a call by the prefixed id puts it
elsewhere. Panics: a goroutine that goes down has no session or no sender, and nothing changes afterwards (`CrashStep`). No
assumption is made on the requests but their types.

Assumptions used besides: the modules' own on their constants (`RequestsAssumption`,
`BoundsAssumption`, `ShSendsAssumption`, `NoneAssumption` and the like), which TLC evaluates in the runs.

**Only model-checked:** `UnsavedIsSaved`, which is liveness. The properties of the four runs that find a
violation are none the code has.

## 6. Not modelled

Event conversion and the contents of requests (`platform_adapter_ob11.go` beyond sessions and calls),
the dicescript interpreter and the glue around it, text templates, the command line program and the
conversion tool: single-threaded text and data handling without state of its own. `AttrsManager.SetIO`
and `Stop` are called before the first message or not at all. Reply texts, and the times kept in cards,
are left out of every module. In `CharCommands` a call is atomic, also `Load`, which reads the binding
and then the card.

Of the extensions: parsing of arguments (commands are members of small sets), the lists that `.help`,
`.ext`, `.init`, `.ss` and `.st show` print, `.st export`, `.ti`, `.li`, `.coc` and `.dnd`, which draw and print; the masters'
list; values that are expressions (skills of dnd5e and their bonuses); other people's cards (`@`), which only choose
the card. `.st` writing the marks of the dying by their names. Of the Milky
adapter: the external library with its reconnecting, the contents of messages, and the conversion of
events, which keeps nothing.

## 7. Plan

1. Pure algorithms: alias parsing and message segments, where a property needs them.
