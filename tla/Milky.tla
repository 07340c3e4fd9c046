-------------------------------- MODULE Milky --------------------------------
(***************************************************************************)
(* PlatformAdapterMilky of adapters/platform_adapter_milky.go: its session *)
(* and alive flag, its cache of group names and its requests.              *)
(*                                                                         *)
(* The session belongs to the Milky SDK, an external library: here it is   *)
(* open or closed, opening it and every request to the server may fail,    *)
(* and bringing back a lost connection is the library's.  The session's    *)
(* handlers only convert what they are given and pass it to the callback.  *)
(* All requests are about one group, and one member of it; it is named by  *)
(* its id as text, with or without the prefix QQ-Group:, by a number, by   *)
(* text that is no number or by a value of some other type.                *)
(***************************************************************************)
EXTENDS Integers

CONSTANTS
  Callers,      \* goroutines calling methods of the adapter
  Requests,     \* calls they make
  Lifetime,     \* of a cached name: 5 minutes
  MaxTime,      \* bound on the clock
  MaxRequests,  \* bound on the calls of a behaviour
  NoEntry       \* no entry under a key

Controls == {"Serve", "DoRelogin", "Enable", "Disable"}
Sends    == {"MsgSendToGroup", "MsgSendToPerson", "MsgSendFileToGroup", "MsgSendFileToPerson",
             "GroupQuit", "GroupCardNameSet", "GroupMemberBan", "GroupMemberKick"}
Infos    == {"GroupInfoGet", "GetGroupInfoAsync"}
Ids      == {"prefixed", "bare", "number", "malformed", "other"}

\* sender: the request says who sends.
Calls == [op : Controls \cup Sends \cup Infos, id : Ids, sender : BOOLEAN]

\* GetGroupInfoAsync is given text.
ASSUME RequestsAssumption ==
  Requests \subseteq Calls /\ \A r \in Requests : r.op = "GetGroupInfoAsync" => r.id \notin {"number", "other"}
ASSUME BoundsAssumption == Lifetime \in Nat \ {0} /\ MaxTime \in Nat /\ MaxRequests \in Nat
ASSUME NoEntryAssumption == NoEntry \notin [time : Nat, since : Nat, limit : Nat]

VARIABLES
  session,      \* IntentSession
  isAlive,
  made,         \* there is a groupNameCache
  cache,        \* when a name was put into it under a key
  call,         \* what each caller is doing
  crashed,      \* a goroutine panicked: the program is gone
  now,
  ran,          \* calls begun
  lastTold,     \* history: how old the last name told from the cache was, and what it was allowed
  miOverlapped  \* history: two calls changed the session at the same time

connection == <<session, isAlive, miOverlapped>>
names      == <<made, cache, lastTold>>
miVars     == <<session, isAlive, miOverlapped, made, cache, lastTold, call, crashed, now, ran>>

(***************************************************************************)
(* An entry has the time it was put into the cache.  The rest is history,  *)
(* and a call carries it along with a name: since, when the name was first *)
(* stored; limit, how long it may be told from then on; read, when the     *)
(* call took it from the cache or stored it.                               *)
(***************************************************************************)
MiKeys  == {"number", "prefixed"}
Entries == [time : Nat, since : Nat, limit : Nat]
Held    == [since : Nat, read : Nat, limit : Nat]
Nameless == [since |-> 0, read |-> 0, limit |-> 0]
Steps   == {"idle", "opennew", "reopen", "alive", "dead", "ask", "make", "store", "put", "send"}
MiJobs  == [pc : Steps, op : Controls \cup Sends \cup Infos \cup {"none"}, id : Ids \cup {"none"},
            sender : BOOLEAN, name : Held]
Idle    == [pc |-> "idle", op |-> "none", id |-> "none", sender |-> FALSE, name |-> Nameless]

MiTypeOK ==
  /\ session \in {"none", "closed", "open"} /\ isAlive \in BOOLEAN
  /\ made \in BOOLEAN /\ cache \in [MiKeys -> Entries \cup {NoEntry}]
  /\ call \in [Callers -> MiJobs]
  /\ crashed \in BOOLEAN /\ miOverlapped \in BOOLEAN
  /\ now \in Nat /\ ran \in Nat /\ lastTold \in [age : Nat, limit : Nat]

MiInit ==
  /\ session = "none" /\ isAlive = FALSE
  /\ made = FALSE /\ cache = [k \in MiKeys |-> NoEntry]
  /\ call = [h \in Callers |-> Idle]
  /\ crashed = FALSE /\ miOverlapped = FALSE
  /\ now = 0 /\ ran = 0 /\ lastTold = [age |-> 0, limit |-> Lifetime]

\* A caller begins the request r and goes on at pc, or has returned when that is "idle".
MiAt(h, pc) == call[h].pc = pc /\ ~crashed /\ UNCHANGED now
Doing(r, pc, name) ==
  IF pc = "idle" THEN Idle ELSE [pc |-> pc, op |-> r.op, id |-> r.id, sender |-> r.sender, name |-> name]
MiBegin(h, r, pc, name) ==
  /\ MiAt(h, "idle") /\ ran < MaxRequests
  /\ ran' = ran + 1
  /\ call' = [call EXCEPT ![h] = Doing(r, pc, name)]
MiGoto(h, pc, name) == call' = [call EXCEPT ![h] = Doing(call[h], pc, name)] /\ UNCHANGED ran

(***************************************************************************)
(* The session.                                                            *)
(***************************************************************************)
Changing(h) == call[h].pc \in {"opennew", "reopen", "alive", "dead"}
Overlap(h) == miOverlapped' = (miOverlapped \/ \E i \in Callers \ {h} : Changing(i))

\* A session of its own, which the library may refuse to make.  Nobody calls Serve while connected.
Serves(h, r) ==
  /\ isAlive' = FALSE
  /\ \/ MiBegin(h, r, "idle", Nameless) /\ UNCHANGED session
     \/ MiBegin(h, r, "opennew", Nameless) /\ session' = "closed"
Serve(h, r) == r.op = "Serve" /\ session # "open" /\ Serves(h, r) /\ Overlap(h) /\ UNCHANGED <<names, crashed>>

Reconnects(h, r) ==
  \/ session = "none" /\ Serves(h, r)
  \/ session # "none" /\ MiBegin(h, r, "reopen", Nameless) /\ session' = "closed" /\ UNCHANGED isAlive
DoRelogin(h, r) == r.op = "DoRelogin" /\ Reconnects(h, r) /\ Overlap(h) /\ UNCHANGED <<names, crashed>>

IsAlive == session # "none" /\ isAlive
SetEnable(h, r) ==
  /\ \/ r.op = "Enable" /\ IsAlive /\ MiBegin(h, r, "idle", Nameless) /\ UNCHANGED <<session, isAlive>>
     \/ r.op = "Enable" /\ ~IsAlive /\ Reconnects(h, r)
     \/ r.op = "Disable" /\ MiBegin(h, r, "dead", Nameless) /\ UNCHANGED isAlive
        /\ session' = IF session = "open" THEN "closed" ELSE session
  /\ Overlap(h) /\ UNCHANGED <<names, crashed>>

Open(h) ==
  /\ MiAt(h, "opennew") \/ MiAt(h, "reopen")
  /\ \/ session' = "open" /\ MiGoto(h, "alive", Nameless) /\ UNCHANGED isAlive
     \/ MiGoto(h, "idle", Nameless) /\ UNCHANGED session
        /\ isAlive' = IF call[h].pc = "reopen" THEN FALSE ELSE isAlive
  /\ UNCHANGED <<miOverlapped, names, crashed>>

SetAlive(h) ==
  /\ \/ MiAt(h, "alive") /\ isAlive' = TRUE
     \/ MiAt(h, "dead") /\ isAlive' = FALSE
  /\ MiGoto(h, "idle", Nameless)
  /\ UNCHANGED <<session, miOverlapped, names, crashed>>

(***************************************************************************)
(* Names of groups.                                                        *)
(***************************************************************************)
Parses(r) == r.id \in {"prefixed", "bare", "number"}
Fresh == cache["number"] # NoEntry /\ now - cache["number"].time < Lifetime

\* The second Store of GetGroupInfoAsync keeps a name it found for another lifetime, under the number.
Renewal(r) == IF r.op = "GetGroupInfoAsync" /\ r.id = "bare" THEN Lifetime ELSE 0

\* GroupInfoGet looks under the number of the group, and so does GetGroupInfoAsync, which calls it.
InfoGet(h, r) ==
  LET e == cache["number"]
  IN /\ r.op \in Infos
     /\ \/ ~Parses(r) /\ MiBegin(h, r, "idle", Nameless) /\ UNCHANGED lastTold
        \/ Parses(r) /\ ~Fresh /\ MiBegin(h, r, "ask", Nameless) /\ UNCHANGED lastTold
        \/ Parses(r) /\ Fresh /\ lastTold' = [age |-> now - e.since, limit |-> e.limit]
           /\ MiBegin(h, r, IF r.op = "GetGroupInfoAsync" THEN "put" ELSE "idle",
                      [since |-> e.since, read |-> now, limit |-> e.limit + Renewal(r)])
     /\ UNCHANGED <<connection, made, cache, crashed>>

\* The server answers, or does not.
Ask(h) ==
  /\ MiAt(h, "ask") /\ session # "none"
  /\ \/ MiGoto(h, IF made THEN "store" ELSE "make", Nameless)
     \/ MiGoto(h, "idle", Nameless)
  /\ UNCHANGED <<connection, names, crashed>>

Make(h) ==
  /\ MiAt(h, "make") /\ MiGoto(h, "store", Nameless)
  /\ made' = TRUE /\ cache' = [k \in MiKeys |-> NoEntry]
  /\ UNCHANGED <<connection, lastTold, crashed>>

Store(h) ==
  /\ MiAt(h, "store")
  /\ cache' = [cache EXCEPT !["number"] = [time |-> now, since |-> now, limit |-> Lifetime]]
  /\ MiGoto(h, IF call[h].op = "GetGroupInfoAsync" THEN "put" ELSE "idle",
            [since |-> now, read |-> now, limit |-> Lifetime])
  /\ UNCHANGED <<connection, made, lastTold, crashed>>

\* Mutant: the prefix is taken from the key, as GroupInfoGet does.
StoredUnderNumber(id) == "number"

\* GetGroupInfoAsync stores what it got once more, under its argument.
StoredUnder(id) == IF id = "prefixed" THEN "prefixed" ELSE "number"
Put(h) ==
  LET n == call[h].name
  IN /\ MiAt(h, "put") /\ MiGoto(h, "idle", Nameless)
     /\ cache' = [cache EXCEPT ![StoredUnder(call[h].id)] =
                    [time |-> now, since |-> n.since, limit |-> n.limit + (now - n.read)]]
     /\ UNCHANGED <<connection, made, lastTold, crashed>>

Tick == now < MaxTime /\ now' = now + 1 /\ ~crashed /\ UNCHANGED <<connection, names, call, crashed, ran>>

(***************************************************************************)
(* Messages, files, and what is done to members.                           *)
(***************************************************************************)
Send(h, r) ==
  /\ r.op \in Sends
  /\ MiBegin(h, r, IF Parses(r) THEN "send" ELSE "idle", Nameless)
  /\ UNCHANGED <<connection, names, crashed>>

\* A message that was sent goes to the callback with its sender.
Senderless(h) == call[h].pc = "send" /\ call[h].op = "MsgSendFileToGroup" /\ ~call[h].sender

\* The server answers or refuses; the goroutine goes down with what it was doing.
Sent(h) ==
  /\ MiAt(h, "send") /\ session # "none"
  /\ \/ MiGoto(h, "idle", Nameless) /\ UNCHANGED crashed
     \/ Senderless(h) /\ crashed' = TRUE /\ UNCHANGED <<call, ran>>
  /\ UNCHANGED <<connection, names>>

\* Before the first Serve there is no session to ask, and no check for one.
Sessionless(h) == call[h].pc \in {"ask", "send"} /\ session = "none"
NilSession(h) ==
  /\ MiAt(h, "ask") \/ MiAt(h, "send")
  /\ Sessionless(h) /\ crashed' = TRUE
  /\ UNCHANGED <<connection, names, call, ran>>

MiNext ==
  \/ \E h \in Callers : Open(h) \/ SetAlive(h) \/ Ask(h) \/ Make(h) \/ Store(h) \/ Put(h) \/ Sent(h) \/ NilSession(h)
  \/ \E h \in Callers, r \in Requests : Serve(h, r) \/ DoRelogin(h, r) \/ SetEnable(h, r) \/ InfoGet(h, r) \/ Send(h, r)
  \/ Tick

MiSpec == MiInit /\ [][MiNext]_miVars

(***************************************************************************)
(* Properties.                                                             *)
(***************************************************************************)
\* The flag tells the truth whenever nobody is changing the connection, unless two calls that do so
\* overlapped: a message loop that asks IsAlive neither waits for a session that is open nor writes to
\* a closed one.
AliveIsOpen == ~miOverlapped /\ (\A h \in Callers : ~Changing(h)) => (IsAlive <=> session = "open")

\* A name is told for no longer than it is allowed, however calls of one and the other kind overlap: one
\* lifetime from when it was first stored, and for each GetGroupInfoAsync by the bare number that found
\* it and put it back, one more and the time this call took (GroupInfoGet, GetGroupInfoAsync).
NamesExpire == lastTold.age < lastTold.limit

\* The program goes down in two ways only: a request reaches for the session before there is one, or a
\* file was sent to a group and nobody said by whom (GroupInfoGet, MsgSendToGroup, MsgSendFileToGroup).
CrashExplained == crashed => \E h \in Callers : Sessionless(h) \/ Senderless(h)

\* The properties of a session, of its flag, of the names and of the panics together.
MiSound == MiTypeOK /\ AliveIsOpen /\ NamesExpire /\ CrashExplained
==============================================================================
