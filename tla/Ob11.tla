-------------------------------- MODULE Ob11 --------------------------------
(***************************************************************************)
(* The OneBot 11 adapter of adapters/platform_adapter_ob11.go: its         *)
(* websocket sessions and the API calls it makes over them.                *)
(*                                                                         *)
(* Every connection has a goroutine that installs the session in the slot  *)
(* or slots of its role (setSession), reads frames until the connection    *)
(* fails or is closed, and takes the session out again (clearSession).  A  *)
(* call (callAction) registers an echo in the map `pending`, writes its    *)
(* request and waits; the frame with its echo is handled in a goroutine of *)
(* its own.  The slots, the flag and the map are atomic one by one, with   *)
(* nothing held from one to the next, so every access is a step.           *)
(*                                                                         *)
(* Sessions and Calls are the ones alive at a time: a name is used again   *)
(* for a later connection or call once nothing refers to the earlier one,  *)
(* so a behaviour has any number of each.                                  *)
(***************************************************************************)
EXTENDS Integers

CONSTANTS
  Sessions,   \* connections, each with its session
  Calls,      \* calls, each with its echo
  Closer,     \* the goroutine that calls Close
  None

ASSUME NoneAssumption == None \notin Sessions \cup Calls \cup {Closer} /\ Closer \notin Sessions

VARIABLES
  apiSession, eventSession,   \* the two slots
  running,    \* what IsAlive returns
  ctxDone,    \* the context of Serve is cancelled
  role, conn, \* of each session
  pc,         \* what each session's goroutine, or Close, does next
  old,        \* sessions it swapped out and has to close
  cleared,    \* apiCleared of clearSession; in Close, whether there was an API session
  todo, mid,  \* failPending: the echoes its Range must come by, and the one it is at
  pending,    \* echoes with somebody waiting
  chan,       \* what is in each call's channel
  call, ses,  \* what each call does next, and the session it uses
  frame,      \* the answer to each call
  lost        \* history: sessions another goroutine took out of the API slot

slots    == <<apiSession, eventSession>>
sessions == <<slots, role, old, cleared, lost>>
calls    == <<chan, call, ses>>
fails    == <<todo, mid>>
vars     == <<sessions, running, ctxDone, conn, pc, fails, pending, calls, frame>>

Agents == Sessions \cup {Closer}
Slot   == Sessions \cup {None}

\* The steps of setSession, clearSession and Close.
SetSteps   == {"setApi", "closeApi", "setEvent", "closeEvent", "setRunning"}
ClearSteps == {"clearApi", "clearEvent", "close", "fail", "failing", "checkApi", "checkEvent", "stop"}
CloseSteps == {"takeApi", "takeEvent", "fail", "failing", "closeTaken", "stop"}

TypeOK ==
  /\ apiSession \in Slot /\ eventSession \in Slot
  /\ running \in BOOLEAN /\ ctxDone \in BOOLEAN
  /\ role \in [Sessions -> {"unified", "api", "event", "unknown"}]
  /\ conn \in [Sessions -> {"open", "closed"}]
  /\ pc \in [Agents -> {"gone", "reading"} \cup SetSteps \cup ClearSteps \cup CloseSteps]
  /\ pc[Closer] \in {"gone"} \cup CloseSteps
  /\ old \in [Agents -> SUBSET Sessions] /\ cleared \in [Agents -> BOOLEAN]
  /\ todo \in [Agents -> SUBSET Calls] /\ mid \in [Agents -> Calls \cup {None}]
  /\ pending \subseteq Calls /\ chan \in [Calls -> {"empty", "failed", "answer"}]
  /\ call \in [Calls -> {"idle", "askEvent", "store", "write", "waiting"}]
  /\ ses \in [Calls -> Slot] /\ lost \subseteq Sessions
  /\ frame \in [Calls -> {"none", "asked", "read", "taken"}]
  /\ \A c \in Calls : call[c] \in {"store", "write", "waiting"} <=> ses[c] # None

Init ==
  /\ apiSession = None /\ eventSession = None /\ running = FALSE /\ ctxDone = FALSE
  /\ role = [s \in Sessions |-> "unknown"] /\ conn = [s \in Sessions |-> "closed"]
  /\ pc = [a \in Agents |-> "gone"]
  /\ old = [a \in Agents |-> {}] /\ cleared = [a \in Agents |-> FALSE]
  /\ todo = [a \in Agents |-> {}] /\ mid = [a \in Agents |-> None]
  /\ pending = {} /\ chan = [c \in Calls |-> "empty"]
  /\ call = [c \in Calls |-> "idle"] /\ ses = [c \in Calls |-> None]
  /\ frame = [c \in Calls |-> "none"] /\ lost = {}

Goto(a, step) == pc' = [pc EXCEPT ![a] = step]

\* The goroutine of a session goes on with step, or ends.
GotoOrEnd(s, more, step) ==
  /\ Goto(s, IF more THEN step ELSE "gone")
  /\ role' = IF more THEN role ELSE [role EXCEPT ![s] = "unknown"]
-----------------------------------------------------------------------------
(* A connection comes up: connectReverse, the handler of listenForward, setSession *)

Unused(s) ==
  /\ pc[s] = "gone"
  /\ \A c \in Calls : ses[c] # s
  /\ \A a \in Agents : s \notin old[a]

\* The adapter dials, one unified connection at a time; or a client connects, as determineRole
\* reads its request.
Connect(s, r) ==
  /\ ~ctxDone /\ Unused(s)
  /\ r = "unified" => \A t \in Sessions : role[t] # "unified"
  /\ role' = [role EXCEPT ![s] = r] /\ conn' = [conn EXCEPT ![s] = "open"]
  /\ lost' = lost \ {s}
  /\ Goto(s, IF r = "event" THEN "setEvent" ELSE "setApi")
  /\ UNCHANGED <<slots, old, cleared, running, ctxDone, fails, pending, calls, frame>>

AfterSetApi(s) == IF role[s] = "unified" THEN "setEvent" ELSE "setRunning"

SwapApi(s) ==
  /\ pc[s] = "setApi"
  /\ apiSession' = s
  /\ old' = [old EXCEPT ![s] = {apiSession} \ {None}]
  /\ lost' = lost \cup ({apiSession} \ {None})
  /\ Goto(s, IF apiSession # None THEN "closeApi" ELSE AfterSetApi(s))
  /\ UNCHANGED <<eventSession, role, cleared, running, ctxDone, conn, fails, pending, calls, frame>>

SwapEvent(s) ==
  /\ pc[s] = "setEvent"
  /\ eventSession' = s
  /\ old' = [old EXCEPT ![s] = {eventSession} \ {None}]
  /\ Goto(s, IF eventSession # None THEN "closeEvent" ELSE "setRunning")
  /\ UNCHANGED <<apiSession, role, cleared, lost, running, ctxDone, conn, fails, pending, calls, frame>>

\* Mutant: the session swapped out stays open.
CloseOldNothing(s) ==
  /\ pc[s] \in {"closeApi", "closeEvent"}
  /\ old' = [old EXCEPT ![s] = {}]
  /\ Goto(s, IF pc[s] = "closeApi" THEN AfterSetApi(s) ELSE "setRunning")
  /\ UNCHANGED <<slots, role, cleared, lost, running, ctxDone, conn, fails, pending, calls, frame>>

CloseOld(s) ==
  /\ pc[s] \in {"closeApi", "closeEvent"}
  /\ conn' = [t \in Sessions |-> IF t \in old[s] THEN "closed" ELSE conn[t]]
  /\ old' = [old EXCEPT ![s] = {}]
  /\ Goto(s, IF pc[s] = "closeApi" THEN AfterSetApi(s) ELSE "setRunning")
  /\ UNCHANGED <<slots, role, cleared, lost, running, ctxDone, fails, pending, calls, frame>>

SetRunning(s) ==
  /\ pc[s] = "setRunning"
  /\ running' = TRUE
  /\ Goto(s, "reading")
  /\ UNCHANGED <<sessions, ctxDone, conn, fails, pending, calls, frame>>
-----------------------------------------------------------------------------
(* A connection goes down: clearSession *)

\* ReadMessage fails, for a reason of the peer's or the network's or because the connection was
\* closed here; or the context is done.
EndReading(s) ==
  /\ pc[s] = "reading"
  /\ Goto(s, "clearApi")
  /\ UNCHANGED <<sessions, running, ctxDone, conn, fails, pending, calls, frame>>

\* The two compare-and-swaps.
ClearApi(s) ==
  /\ pc[s] = "clearApi"
  /\ cleared' = [cleared EXCEPT ![s] = apiSession = s]
  /\ apiSession' = IF apiSession = s THEN None ELSE apiSession
  /\ Goto(s, "clearEvent")
  /\ UNCHANGED <<eventSession, role, old, lost, running, ctxDone, conn, fails, pending, calls, frame>>

\* Mutant: only the slot of the API session is cleared.
ClearEventNot(s) ==
  /\ pc[s] = "clearEvent"
  /\ Goto(s, "close")
  /\ UNCHANGED <<sessions, running, ctxDone, conn, fails, pending, calls, frame>>

ClearEvent(s) ==
  /\ pc[s] = "clearEvent"
  /\ eventSession' = IF eventSession = s THEN None ELSE eventSession
  /\ Goto(s, "close")
  /\ UNCHANGED <<apiSession, role, old, cleared, lost, running, ctxDone, conn, fails, pending, calls, frame>>

CloseConn(s) ==
  /\ pc[s] = "close"
  /\ conn' = [conn EXCEPT ![s] = "closed"]
  /\ cleared' = [cleared EXCEPT ![s] = FALSE]
  /\ Goto(s, IF cleared[s] THEN "fail" ELSE "checkApi")
  /\ UNCHANGED <<slots, role, old, lost, running, ctxDone, fails, pending, calls, frame>>

\* failPending: a Range over the map, which comes by every echo that stays in it and may come
\* by others.
FailBegin(a) ==
  /\ pc[a] = "fail"
  /\ todo' = [todo EXCEPT ![a] = pending]
  /\ Goto(a, "failing")
  /\ UNCHANGED <<sessions, running, ctxDone, conn, mid, pending, calls, frame>>

\* A send that does not wait, into a channel for one.
Send(c, what) == chan' = [chan EXCEPT ![c] = IF @ = "empty" THEN what ELSE @]

FailOne(a, c) ==
  /\ pc[a] = "failing" /\ mid[a] = None /\ c \in pending
  /\ Send(c, "failed")
  /\ mid' = [mid EXCEPT ![a] = c]
  /\ UNCHANGED <<sessions, running, ctxDone, conn, pc, todo, pending, call, ses, frame>>

\* Mutant: the echo stays in the map.
FailKeeps(a) ==
  /\ pc[a] = "failing" /\ mid[a] # None
  /\ todo' = [todo EXCEPT ![a] = @ \ {mid[a]}] /\ mid' = [mid EXCEPT ![a] = None]
  /\ UNCHANGED <<sessions, running, ctxDone, conn, pc, pending, calls, frame>>

FailDelete(a) ==
  /\ pc[a] = "failing" /\ mid[a] # None
  /\ pending' = pending \ {mid[a]}
  /\ todo' = [todo EXCEPT ![a] = @ \ {mid[a]}] /\ mid' = [mid EXCEPT ![a] = None]
  /\ UNCHANGED <<sessions, running, ctxDone, conn, pc, calls, frame>>

FailEnd(a) ==
  /\ pc[a] = "failing" /\ mid[a] = None /\ todo[a] \cap pending = {}
  /\ todo' = [todo EXCEPT ![a] = {}]
  /\ Goto(a, IF a = Closer THEN "closeTaken" ELSE "checkApi")
  /\ UNCHANGED <<sessions, running, ctxDone, conn, mid, pending, calls, frame>>

\* The two loads of the last `if`.
CheckApi(s) ==
  /\ pc[s] = "checkApi"
  /\ GotoOrEnd(s, apiSession = None, "checkEvent")
  /\ UNCHANGED <<slots, old, cleared, lost, running, ctxDone, conn, fails, pending, calls, frame>>

\* Mutant: the flag is taken back only by a session that could have filled the event slot.
CheckEventRole(s) ==
  /\ pc[s] = "checkEvent"
  /\ GotoOrEnd(s, eventSession = None /\ role[s] # "api", "stop")
  /\ UNCHANGED <<slots, old, cleared, lost, running, ctxDone, conn, fails, pending, calls, frame>>

CheckEvent(s) ==
  /\ pc[s] = "checkEvent"
  /\ GotoOrEnd(s, eventSession = None, "stop")
  /\ UNCHANGED <<slots, old, cleared, lost, running, ctxDone, conn, fails, pending, calls, frame>>

StopRunning(a) ==
  /\ pc[a] = "stop"
  /\ running' = FALSE
  /\ Goto(a, "gone")
  /\ role' = [s \in Sessions |-> IF s = a THEN "unknown" ELSE role[s]]
  /\ UNCHANGED <<slots, old, cleared, lost, ctxDone, conn, fails, pending, calls, frame>>
-----------------------------------------------------------------------------
(* The end of the program: the context is cancelled, then Close is called *)

Cancel ==
  /\ ~ctxDone /\ ctxDone' = TRUE
  /\ Goto(Closer, "takeApi")
  /\ UNCHANGED <<sessions, running, conn, fails, pending, calls, frame>>

TakeApi ==
  /\ pc[Closer] = "takeApi"
  /\ apiSession' = None
  /\ old' = [old EXCEPT ![Closer] = {apiSession} \ {None}]
  /\ cleared' = [cleared EXCEPT ![Closer] = apiSession # None]
  /\ lost' = lost \cup ({apiSession} \ {None})
  /\ Goto(Closer, "takeEvent")
  /\ UNCHANGED <<eventSession, role, running, ctxDone, conn, fails, pending, calls, frame>>

TakeEvent ==
  /\ pc[Closer] = "takeEvent"
  /\ eventSession' = None
  /\ old' = [old EXCEPT ![Closer] = @ \cup ({eventSession} \ {None})]
  /\ Goto(Closer, IF cleared[Closer] THEN "fail" ELSE "closeTaken")
  /\ UNCHANGED <<apiSession, role, cleared, lost, running, ctxDone, conn, fails, pending, calls, frame>>

CloseTaken ==
  /\ pc[Closer] = "closeTaken"
  /\ conn' = [t \in Sessions |-> IF t \in old[Closer] THEN "closed" ELSE conn[t]]
  /\ old' = [old EXCEPT ![Closer] = {}]
  /\ Goto(Closer, "stop")
  /\ UNCHANGED <<slots, role, cleared, lost, running, ctxDone, fails, pending, calls, frame>>
-----------------------------------------------------------------------------
(* callAction, and the part of dispatchFrame that takes answers *)

\* getAPISession: the API slot, then the event slot if it holds a unified session.
GetApiSession(c) ==
  /\ call[c] = "idle" /\ frame[c] = "none" /\ c \notin pending /\ \A a \in Agents : mid[a] # c
  /\ ses' = [ses EXCEPT ![c] = apiSession]
  /\ call' = [call EXCEPT ![c] = IF apiSession = None THEN "askEvent" ELSE "store"]
  /\ chan' = [chan EXCEPT ![c] = "empty"]
  /\ UNCHANGED <<sessions, running, ctxDone, conn, pc, fails, pending, frame>>

\* Mutant: the event slot is taken as it is.
GetAnySession(c) ==
  /\ call[c] = "askEvent"
  /\ ses' = [ses EXCEPT ![c] = eventSession] /\ call' = [call EXCEPT ![c] = "store"]
  /\ UNCHANGED <<sessions, running, ctxDone, conn, pc, fails, pending, chan, frame>>

GetEventSession(c) ==
  /\ call[c] = "askEvent"
  /\ LET found == eventSession # None /\ role[eventSession] = "unified" IN
     /\ ses' = [ses EXCEPT ![c] = IF found THEN eventSession ELSE None]
     /\ call' = [call EXCEPT ![c] = IF found THEN "store" ELSE "idle"]
  /\ UNCHANGED <<sessions, running, ctxDone, conn, pc, fails, pending, chan, frame>>

\* The echo is a new one, which no Range that has begun must come by.
StorePending(c) ==
  /\ call[c] = "store"
  /\ pending' = pending \cup {c}
  /\ todo' = [a \in Agents |-> todo[a] \ {c}]
  /\ call' = [call EXCEPT ![c] = "write"]
  /\ UNCHANGED <<sessions, running, ctxDone, conn, pc, mid, chan, ses, frame>>

\* Mutant: the error of the write is dropped.
WriteUnchecked(c) ==
  /\ call[c] = "write"
  /\ call' = [call EXCEPT ![c] = "waiting"] /\ frame' = [frame EXCEPT ![c] = "asked"]
  /\ UNCHANGED <<sessions, running, ctxDone, conn, pc, fails, pending, chan, ses>>

Write(c) ==
  /\ call[c] = "write" /\ conn[ses[c]] = "open"
  /\ call' = [call EXCEPT ![c] = "waiting"] /\ frame' = [frame EXCEPT ![c] = "asked"]
  /\ UNCHANGED <<sessions, running, ctxDone, conn, pc, fails, pending, chan, ses>>

\* The call returns.  An answer that is read only after that finds no echo and is left out.
Return(c) ==
  /\ call' = [call EXCEPT ![c] = "idle"] /\ ses' = [ses EXCEPT ![c] = None]
  /\ frame' = [frame EXCEPT ![c] = IF @ = "asked" THEN "none" ELSE @]
  /\ UNCHANGED <<sessions, running, ctxDone, conn, pc, fails, chan>>

WriteFails(c) == call[c] = "write" /\ pending' = pending \ {c} /\ Return(c)

\* The context of the call is done, or 15 seconds have passed.
GiveUp(c)  == call[c] = "waiting" /\ pending' = pending \ {c} /\ Return(c)

Receive(c) == call[c] = "waiting" /\ chan[c] # "empty" /\ pending' = pending /\ Return(c)

\* The session reads the answer of its peer and starts a goroutine for it.
ReadAnswer(c) ==
  /\ frame[c] = "asked" /\ pc[ses[c]] = "reading" /\ conn[ses[c]] = "open"
  /\ frame' = [frame EXCEPT ![c] = "read"]
  /\ UNCHANGED <<sessions, running, ctxDone, conn, pc, fails, pending, calls>>

\* pending.LoadAndDelete
TakePending(c) ==
  /\ frame[c] = "read"
  /\ frame' = [frame EXCEPT ![c] = IF c \in pending THEN "taken" ELSE "none"]
  /\ pending' = pending \ {c}
  /\ UNCHANGED <<sessions, running, ctxDone, conn, pc, fails, calls>>

SendAnswer(c) ==
  /\ frame[c] = "taken"
  /\ Send(c, "answer")
  /\ frame' = [frame EXCEPT ![c] = "none"]
  /\ UNCHANGED <<sessions, running, ctxDone, conn, pc, fails, pending, call, ses>>
-----------------------------------------------------------------------------
Next ==
  \/ \E s \in Sessions :
       \/ \E r \in {"unified", "api", "event"} : Connect(s, r)
       \/ SwapApi(s) \/ SwapEvent(s) \/ CloseOld(s) \/ SetRunning(s) \/ EndReading(s)
       \/ ClearApi(s) \/ ClearEvent(s) \/ CloseConn(s) \/ CheckApi(s) \/ CheckEvent(s)
  \/ \E a \in Agents : FailBegin(a) \/ (\E c \in Calls : FailOne(a, c)) \/ FailDelete(a) \/ FailEnd(a) \/ StopRunning(a)
  \/ Cancel \/ TakeApi \/ TakeEvent \/ CloseTaken
  \/ \E c \in Calls :
       \/ GetApiSession(c) \/ GetEventSession(c) \/ StorePending(c) \/ Write(c) \/ WriteFails(c)
       \/ GiveUp(c) \/ Receive(c) \/ ReadAnswer(c) \/ TakePending(c) \/ SendAnswer(c)

Spec == Init /\ [][Next]_vars

-----------------------------------------------------------------------------
\* A session whose goroutine has ended is in no slot, whatever sessions came, went and replaced
\* one another meanwhile (clearSession compares before it swaps).
EndedLeavesSlots ==
  \A s \in Sessions : pc[s] = "gone" => apiSession # s /\ eventSession # s

\* An open session that is being read is in every slot of its role, or about to be closed by who
\* took it out of one: no slot ever has two live sessions.
ReplacedIsClosed ==
  \A s \in Sessions :
    pc[s] = "reading" /\ conn[s] = "open" =>
      \/ (role[s] # "event" => apiSession = s) /\ (role[s] # "api" => eventSession = s)
      \/ \E a \in Agents : s \in old[a]

\* No call is left to its timeout by a session that ended: it has its failure or its answer, or
\* a goroutine holds the answer, unless the session had been taken out of the API slot before.
EndedIsAnswered ==
  \A c \in Calls :
    call[c] = "waiting" /\ pc[ses[c]] = "gone" /\ ses[c] \notin lost
      => chan[c] # "empty" \/ frame[c] = "taken"

\* A call that has returned leaves no echo behind in the map, except while failPending is about
\* to delete it.
ReturnedLeavesNoEcho ==
  \A c \in pending : call[c] = "idle" => \E a \in Agents : mid[a] = c

Settled ==
  \A a \in Agents : pc[a] = "gone" \/ (pc[a] = "reading" /\ conn[a] = "open")

\* With no connection coming or going, IsAlive is true only if there is a session.
AliveMeansSession ==
  Settled /\ running => apiSession # None \/ eventSession # None

\* "IsAlive reports whether at least one active event session exists"
\* (platform_adapter_ob11.go:83): while the program runs, if there is one, it says so.
AliveWhenEvents ==
  Settled /\ ~ctxDone /\ eventSession # None => running
=============================================================================
