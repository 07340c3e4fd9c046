------------------------------ MODULE Ob11Proofs ------------------------------
(***************************************************************************)
(* Proofs about Ob11, for every number of sessions and of calls: what its  *)
(* runs check on two of each holds of any number.                          *)
(***************************************************************************)
EXTENDS Ob11, TLAPS

\* Where a session may be while it is in a slot.
ApiSteps   == {"closeApi", "setEvent", "closeEvent", "setRunning", "reading", "clearApi"}
EventSteps == {"closeEvent", "setRunning", "reading", "clearApi", "clearEvent"}

\* A session is in a slot of its role only, between the swap that puts it there and the
\* compare-and-swap that takes it out.
InSlots ==
  /\ apiSession # None => role[apiSession] \in {"unified", "api"} /\ pc[apiSession] \in ApiSteps
  /\ eventSession # None => role[eventSession] \in {"unified", "event"} /\ pc[eventSession] \in EventSteps
  /\ \A s \in Sessions : /\ pc[s] \in {"setApi", "closeApi"} => role[s] \in {"unified", "api"}
                         /\ pc[s] \in {"setEvent", "closeEvent"} => role[s] \in {"unified", "event"}

\* Who swapped a session out has yet to close it.
Owed ==
  /\ ~ctxDone => pc[Closer] = "gone"
  /\ \A s \in Sessions : old[s] # {} => pc[s] \in {"closeApi", "closeEvent"}
  /\ old[Closer] # {} => pc[Closer] \in {"takeEvent", "fail", "failing", "closeTaken"}

Owing(s) == \E a \in Agents : s \in old[a]

\* An open session that has swapped itself into a slot is there until somebody owes it a close.
Present ==
  \A s \in Sessions : conn[s] = "open" =>
    /\ role[s] # "event" /\ pc[s] \in {"closeApi", "setEvent", "closeEvent", "setRunning", "reading"}
         => apiSession = s \/ Owing(s)
    /\ role[s] # "api" /\ pc[s] \in {"closeEvent", "setRunning", "reading"}
         => eventSession = s \/ Owing(s)

\* Of the echo, the channel and the answer of a call.
Echo(c) ==
  /\ call[c] \in {"askEvent", "store"} => c \notin pending /\ chan[c] = "empty" /\ \A a \in Agents : mid[a] # c
  /\ call[c] \in {"askEvent", "store", "write"} => frame[c] = "none"
  /\ frame[c] = "taken" => c \notin pending
  /\ \A a \in Agents : mid[a] = c => chan[c] # "empty"
  /\ c \in pending /\ (call[c] = "idle" \/ chan[c] # "empty") => \E a \in Agents : mid[a] = c
  /\ call[c] \in {"write", "waiting"} /\ chan[c] = "empty" /\ frame[c] # "taken" => c \in pending

Echoes == \A c \in Calls : Echo(c)

\* A session that nobody took out of the API slot takes itself out, closes its connection, and
\* only then fails the echoes.
Leaves ==
  \A s \in Sessions :
    /\ s \notin lost /\ role[s] # "event" /\ pc[s] \in ApiSteps => apiSession = s
    /\ s \notin lost /\ role[s] # "event" /\ pc[s] \in {"clearEvent", "close"} => cleared[s]
    /\ pc[s] \in {"fail", "failing", "checkApi", "checkEvent", "stop", "gone"} => conn[s] = "closed"

Unanswered(c) == call[c] = "waiting" /\ chan[c] = "empty" /\ frame[c] # "taken"

\* The calls such a session has not failed yet are those its Range will come by.
Failing ==
  \A c \in Calls :
    /\ ses[c] # None => role[ses[c]] # "event"
    /\ Unanswered(c) /\ ses[c] \notin lost /\ pc[ses[c]] \in {"failing", "checkApi", "checkEvent", "stop", "gone"}
         => pc[ses[c]] = "failing" /\ c \in todo[ses[c]]

IInv == TypeOK /\ InSlots /\ Owed /\ Present /\ Echoes /\ Leaves /\ Failing /\ AliveMeansSession

USE NoneAssumption
-----------------------------------------------------------------------------

\* Every step keeps the types.
LEMMA TypeStep ==
  ASSUME TypeOK, [Next]_vars
  PROVE  TypeOK'
  <1> USE DEF TypeOK, Agents, Slot, SetSteps, ClearSteps, CloseSteps, sessions, slots, calls,
            fails
  <1>1. ASSUME NEW s \in Sessions, NEW r \in {"unified", "api", "event"}, Connect(s, r) PROVE TypeOK'
    BY <1>1 DEF Connect, Unused, Goto
  <1>2. ASSUME NEW s \in Sessions, SwapApi(s) PROVE TypeOK'
    BY <1>2 DEF SwapApi, Goto, AfterSetApi
  <1>3. ASSUME NEW s \in Sessions, SwapEvent(s) PROVE TypeOK'
    BY <1>3 DEF SwapEvent, Goto
  <1>4. ASSUME NEW s \in Sessions, CloseOld(s) PROVE TypeOK'
    BY <1>4 DEF CloseOld, Goto, AfterSetApi
  <1>5. ASSUME NEW s \in Sessions, SetRunning(s) PROVE TypeOK'
    BY <1>5 DEF SetRunning, Goto
  <1>6. ASSUME NEW s \in Sessions, EndReading(s) PROVE TypeOK'
    BY <1>6 DEF EndReading, Goto
  <1>7. ASSUME NEW s \in Sessions, ClearApi(s) PROVE TypeOK'
    BY <1>7 DEF ClearApi, Goto
  <1>8. ASSUME NEW s \in Sessions, ClearEvent(s) PROVE TypeOK'
    BY <1>8 DEF ClearEvent, Goto
  <1>9. ASSUME NEW s \in Sessions, CloseConn(s) PROVE TypeOK'
    BY <1>9 DEF CloseConn, Goto
  <1>10. ASSUME NEW s \in Sessions, CheckApi(s) PROVE TypeOK'
    BY <1>10 DEF CheckApi, GotoOrEnd, Goto
  <1>11. ASSUME NEW s \in Sessions, CheckEvent(s) PROVE TypeOK'
    BY <1>11 DEF CheckEvent, GotoOrEnd, Goto
  <1>12. ASSUME NEW a \in Agents, FailBegin(a) PROVE TypeOK'
    BY <1>12 DEF FailBegin, Goto
  <1>13. ASSUME NEW a \in Agents, NEW c \in Calls, FailOne(a, c) PROVE TypeOK'
    BY <1>13 DEF FailOne, Send
  <1>14. ASSUME NEW a \in Agents, FailDelete(a) PROVE TypeOK'
    BY <1>14 DEF FailDelete
  <1>15. ASSUME NEW a \in Agents, FailEnd(a) PROVE TypeOK'
    BY <1>15 DEF FailEnd, Goto
  <1>16. ASSUME NEW a \in Agents, StopRunning(a) PROVE TypeOK'
    BY <1>16 DEF StopRunning, Goto
  <1>17. CASE Cancel
    BY <1>17 DEF Cancel, Goto
  <1>18. CASE TakeApi
    BY <1>18 DEF TakeApi, Goto
  <1>19. CASE TakeEvent
    BY <1>19 DEF TakeEvent, Goto
  <1>20. CASE CloseTaken
    BY <1>20 DEF CloseTaken, Goto
  <1>21. ASSUME NEW c \in Calls, GetApiSession(c) PROVE TypeOK'
    BY <1>21 DEF GetApiSession
  <1>22. ASSUME NEW c \in Calls, GetEventSession(c) PROVE TypeOK'
    BY <1>22 DEF GetEventSession
  <1>23. ASSUME NEW c \in Calls, StorePending(c) PROVE TypeOK'
    BY <1>23 DEF StorePending
  <1>24. ASSUME NEW c \in Calls, Write(c) PROVE TypeOK'
    BY <1>24 DEF Write
  <1>25. ASSUME NEW c \in Calls, WriteFails(c) PROVE TypeOK'
    BY <1>25 DEF WriteFails, Return
  <1>26. ASSUME NEW c \in Calls, GiveUp(c) PROVE TypeOK'
    BY <1>26 DEF GiveUp, Return
  <1>27. ASSUME NEW c \in Calls, Receive(c) PROVE TypeOK'
    BY <1>27 DEF Receive, Return
  <1>28. ASSUME NEW c \in Calls, ReadAnswer(c) PROVE TypeOK'
    BY <1>28 DEF ReadAnswer
  <1>29. ASSUME NEW c \in Calls, TakePending(c) PROVE TypeOK'
    BY <1>29 DEF TakePending
  <1>30. ASSUME NEW c \in Calls, SendAnswer(c) PROVE TypeOK'
    BY <1>30 DEF SendAnswer, Send
  <1>31. CASE UNCHANGED vars
    BY <1>31 DEF vars
  <1> HIDE DEF TypeOK, Agents, Slot, SetSteps, ClearSteps, CloseSteps, sessions, slots, calls,
             fails
  <1> QED
    BY <1>1, <1>2, <1>3, <1>4, <1>5, <1>6, <1>7, <1>8, <1>9, <1>10, <1>11, <1>12, <1>13, <1>14,
       <1>15, <1>16, <1>17, <1>18, <1>19, <1>20, <1>21, <1>22, <1>23, <1>24, <1>25, <1>26,
       <1>27, <1>28, <1>29, <1>30, <1>31 DEF Next

\* Every step keeps each session in the slots of its role only.
LEMMA SlotsStep ==
  ASSUME TypeOK, InSlots, [Next]_vars
  PROVE  InSlots'
  <1> USE DEF TypeOK, InSlots, ApiSteps, EventSteps, Agents, Slot, sessions, slots, calls, fails
  <1>1. ASSUME NEW s \in Sessions, NEW r \in {"unified", "api", "event"}, Connect(s, r) PROVE InSlots'
    BY <1>1 DEF Connect, Unused, Goto
  <1>2. ASSUME NEW s \in Sessions, SwapApi(s) PROVE InSlots'
    BY <1>2 DEF SwapApi, Goto, AfterSetApi
  <1>3. ASSUME NEW s \in Sessions, SwapEvent(s) PROVE InSlots'
    BY <1>3 DEF SwapEvent, Goto
  <1>4. ASSUME NEW s \in Sessions, CloseOld(s) PROVE InSlots'
    BY <1>4 DEF CloseOld, Goto, AfterSetApi
  <1>5. ASSUME NEW s \in Sessions, SetRunning(s) PROVE InSlots'
    BY <1>5 DEF SetRunning, Goto
  <1>6. ASSUME NEW s \in Sessions, EndReading(s) PROVE InSlots'
    BY <1>6 DEF EndReading, Goto
  <1>7. ASSUME NEW s \in Sessions, ClearApi(s) PROVE InSlots'
    BY <1>7 DEF ClearApi, Goto
  <1>8. ASSUME NEW s \in Sessions, ClearEvent(s) PROVE InSlots'
    BY <1>8 DEF ClearEvent, Goto
  <1>9. ASSUME NEW s \in Sessions, CloseConn(s) PROVE InSlots'
    BY <1>9 DEF CloseConn, Goto
  <1>10. ASSUME NEW s \in Sessions, CheckApi(s) PROVE InSlots'
    BY <1>10 DEF CheckApi, GotoOrEnd, Goto
  <1>11. ASSUME NEW s \in Sessions, CheckEvent(s) PROVE InSlots'
    BY <1>11 DEF CheckEvent, GotoOrEnd, Goto
  <1>12. ASSUME NEW a \in Agents, StopRunning(a) PROVE InSlots'
    BY <1>12 DEF StopRunning, Goto
  <1>13. CASE \E a \in Agents : FailBegin(a) \/ (\E c \in Calls : FailOne(a, c)) \/
                              FailDelete(a) \/ FailEnd(a)
    BY <1>13 DEF FailBegin, FailOne, FailDelete, FailEnd, Goto, Send
  <1>14. CASE \E c \in Calls : GetApiSession(c) \/ GetEventSession(c) \/ StorePending(c) \/
                              Write(c) \/ WriteFails(c) \/ GiveUp(c) \/ Receive(c) \/
                              ReadAnswer(c) \/ TakePending(c) \/ SendAnswer(c)
    BY <1>14 DEF GetApiSession, GetEventSession, StorePending, Write, WriteFails, GiveUp, Receive,
          ReadAnswer, TakePending, SendAnswer, Return, Send
  <1>15. CASE Cancel \/ TakeApi \/ TakeEvent \/ CloseTaken
    BY <1>15 DEF Cancel, TakeApi, TakeEvent, CloseTaken, Goto
  <1>16. CASE UNCHANGED vars
    BY <1>16 DEF vars
  <1> HIDE DEF TypeOK, InSlots, ApiSteps, EventSteps, Agents, Slot, sessions, slots, calls, fails
  <1> QED
    BY <1>1, <1>2, <1>3, <1>4, <1>5, <1>6, <1>7, <1>8, <1>9, <1>10, <1>11, <1>12, <1>13, <1>14,
       <1>15, <1>16 DEF Next

\* Every step leaves it to who swapped a session out to close it.
LEMMA OwedStep ==
  ASSUME TypeOK, Owed, [Next]_vars
  PROVE  Owed'
  <1> USE DEF TypeOK, Owed, Agents, Slot, sessions, slots, calls, fails
  <1>1. ASSUME NEW s \in Sessions, SwapApi(s) PROVE Owed'
    BY <1>1 DEF SwapApi, Goto, AfterSetApi
  <1>2. ASSUME NEW s \in Sessions, SwapEvent(s) PROVE Owed'
    BY <1>2 DEF SwapEvent, Goto
  <1>3. ASSUME NEW s \in Sessions, CloseOld(s) PROVE Owed'
    BY <1>3 DEF CloseOld, Goto, AfterSetApi
  <1>4. ASSUME NEW a \in Agents, FailBegin(a) PROVE Owed'
    BY <1>4 DEF FailBegin, Goto
  <1>5. ASSUME NEW a \in Agents, FailEnd(a) PROVE Owed'
    BY <1>5 DEF FailEnd, Goto
  <1>6. ASSUME NEW a \in Agents, StopRunning(a) PROVE Owed'
    BY <1>6 DEF StopRunning, Goto
  <1>7. CASE Cancel
    BY <1>7 DEF Cancel, Goto
  <1>8. CASE TakeApi
    BY <1>8 DEF TakeApi, Goto
  <1>9. CASE TakeEvent
    BY <1>9 DEF TakeEvent, Goto
  <1>10. CASE CloseTaken
    BY <1>10 DEF CloseTaken, Goto
  <1>11. CASE \E s \in Sessions : (\E r \in {"unified", "api", "event"} : Connect(s, r)) \/
                              SetRunning(s) \/ EndReading(s) \/ ClearApi(s) \/ ClearEvent(s) \/
                              CloseConn(s) \/ CheckApi(s) \/ CheckEvent(s)
    BY <1>11 DEF Connect, SetRunning, EndReading, ClearApi, ClearEvent, CloseConn, CheckApi,
          CheckEvent, Goto, GotoOrEnd, Unused
  <1>12. CASE \E a \in Agents : (\E c \in Calls : FailOne(a, c)) \/ FailDelete(a)
    BY <1>12 DEF FailOne, FailDelete, Send
  <1>13. CASE \E c \in Calls : GetApiSession(c) \/ GetEventSession(c) \/ StorePending(c) \/
                              Write(c) \/ WriteFails(c) \/ GiveUp(c) \/ Receive(c) \/
                              ReadAnswer(c) \/ TakePending(c) \/ SendAnswer(c)
    BY <1>13 DEF GetApiSession, GetEventSession, StorePending, Write, WriteFails, GiveUp, Receive,
          ReadAnswer, TakePending, SendAnswer, Return, Send
  <1>14. CASE UNCHANGED vars
    BY <1>14 DEF vars
  <1> HIDE DEF TypeOK, Owed, Agents, Slot, sessions, slots, calls, fails
  <1> QED
    BY <1>1, <1>2, <1>3, <1>4, <1>5, <1>6, <1>7, <1>8, <1>9, <1>10, <1>11, <1>12, <1>13, <1>14 DEF Next

\* Every step keeps an open session in its slots, or owed a close.
LEMMA PresentStep ==
  ASSUME TypeOK, InSlots, Owed, Present, [Next]_vars
  PROVE  Present'
  <1> USE DEF TypeOK, InSlots, Owed, Present, Owing, ApiSteps, EventSteps, Agents, Slot, sessions,
            slots, calls, fails
  <1>1. ASSUME NEW s \in Sessions, NEW r \in {"unified", "api", "event"}, Connect(s, r) PROVE Present'
    BY <1>1 DEF Connect, Unused, Goto
  <1>2. ASSUME NEW s \in Sessions, SwapApi(s) PROVE Present'
    BY <1>2 DEF SwapApi, Goto, AfterSetApi
  <1>3. ASSUME NEW s \in Sessions, SwapEvent(s) PROVE Present'
    BY <1>3 DEF SwapEvent, Goto
  <1>4. ASSUME NEW s \in Sessions, CloseOld(s) PROVE Present'
    BY <1>4 DEF CloseOld, Goto, AfterSetApi
  <1>5. ASSUME NEW s \in Sessions, ClearApi(s) PROVE Present'
    BY <1>5 DEF ClearApi, Goto
  <1>6. ASSUME NEW s \in Sessions, ClearEvent(s) PROVE Present'
    BY <1>6 DEF ClearEvent, Goto
  <1>7. ASSUME NEW s \in Sessions, CheckApi(s) PROVE Present'
    BY <1>7 DEF CheckApi, GotoOrEnd, Goto
  <1>8. ASSUME NEW s \in Sessions, CheckEvent(s) PROVE Present'
    BY <1>8 DEF CheckEvent, GotoOrEnd, Goto
  <1>9. ASSUME NEW a \in Agents, StopRunning(a) PROVE Present'
    BY <1>9 DEF StopRunning, Goto
  <1>10. CASE TakeApi
    BY <1>10 DEF TakeApi, Goto
  <1>11. CASE TakeEvent
    BY <1>11 DEF TakeEvent, Goto
  <1>12. CASE CloseTaken
    BY <1>12 DEF CloseTaken, Goto
  <1>13. CASE \E s \in Sessions : SetRunning(s) \/ EndReading(s) \/ CloseConn(s)
    BY <1>13 DEF SetRunning, EndReading, CloseConn, Goto
  <1>14. CASE \E a \in Agents : FailBegin(a) \/ (\E c \in Calls : FailOne(a, c)) \/
                              FailDelete(a) \/ FailEnd(a)
    BY <1>14 DEF FailBegin, FailOne, FailDelete, FailEnd, Goto, Send
  <1>15. CASE \E c \in Calls : GetApiSession(c) \/ GetEventSession(c) \/ StorePending(c) \/
                              Write(c) \/ WriteFails(c) \/ GiveUp(c) \/ Receive(c) \/
                              ReadAnswer(c) \/ TakePending(c) \/ SendAnswer(c)
    BY <1>15 DEF GetApiSession, GetEventSession, StorePending, Write, WriteFails, GiveUp, Receive,
          ReadAnswer, TakePending, SendAnswer, Return, Send
  <1>16. CASE Cancel
    BY <1>16 DEF Cancel, Goto
  <1>17. CASE UNCHANGED vars
    BY <1>17 DEF vars
  <1> HIDE DEF TypeOK, InSlots, Owed, Present, Owing, ApiSteps, EventSteps, Agents, Slot,
             sessions, slots, calls, fails
  <1> QED
    BY <1>1, <1>2, <1>3, <1>4, <1>5, <1>6, <1>7, <1>8, <1>9, <1>10, <1>11, <1>12, <1>13, <1>14,
       <1>15, <1>16, <1>17 DEF Next

\* Every step keeps echoes, channels and answers together.
LEMMA EchoesStep ==
  ASSUME TypeOK, Echoes, [Next]_vars
  PROVE  Echoes'
  <1> USE DEF TypeOK, Echoes, Echo, Agents, Slot, sessions, slots, calls, fails
  <1>1. ASSUME NEW a \in Agents, FailBegin(a) PROVE Echoes'
    BY <1>1 DEF FailBegin, Goto
  <1>2. ASSUME NEW a \in Agents, NEW c \in Calls, FailOne(a, c) PROVE Echoes'
    BY <1>2 DEF FailOne, Send
  <1>3. ASSUME NEW a \in Agents, FailDelete(a) PROVE Echoes'
    BY <1>3 DEF FailDelete
  <1>4. ASSUME NEW a \in Agents, FailEnd(a) PROVE Echoes'
    BY <1>4 DEF FailEnd, Goto
  <1>5. ASSUME NEW c \in Calls, GetApiSession(c) PROVE Echoes'
    BY <1>5 DEF GetApiSession
  <1>6. ASSUME NEW c \in Calls, GetEventSession(c) PROVE Echoes'
    BY <1>6 DEF GetEventSession
  <1>7. ASSUME NEW c \in Calls, StorePending(c) PROVE Echoes'
    BY <1>7 DEF StorePending
  <1>8. ASSUME NEW c \in Calls, Write(c) PROVE Echoes'
    BY <1>8 DEF Write
  <1>9. ASSUME NEW c \in Calls, WriteFails(c) PROVE Echoes'
    BY <1>9 DEF WriteFails, Return
  <1>10. ASSUME NEW c \in Calls, GiveUp(c) PROVE Echoes'
    BY <1>10 DEF GiveUp, Return
  <1>11. ASSUME NEW c \in Calls, Receive(c) PROVE Echoes'
    BY <1>11 DEF Receive, Return
  <1>12. ASSUME NEW c \in Calls, ReadAnswer(c) PROVE Echoes'
    BY <1>12 DEF ReadAnswer
  <1>13. ASSUME NEW c \in Calls, TakePending(c) PROVE Echoes'
    BY <1>13 DEF TakePending
  <1>14. ASSUME NEW c \in Calls, SendAnswer(c) PROVE Echoes'
    BY <1>14 DEF SendAnswer, Send
  <1>15. CASE \E s \in Sessions : (\E r \in {"unified", "api", "event"} : Connect(s, r)) \/
                              SwapApi(s) \/ SwapEvent(s) \/ CloseOld(s) \/ SetRunning(s) \/
                              EndReading(s) \/ ClearApi(s) \/ ClearEvent(s) \/ CloseConn(s) \/
                              CheckApi(s) \/ CheckEvent(s)
    BY <1>15 DEF Connect, SwapApi, SwapEvent, CloseOld, SetRunning, EndReading, ClearApi, ClearEvent,
          CloseConn, CheckApi, CheckEvent, AfterSetApi, Goto, GotoOrEnd, Unused
  <1>16. CASE \E a \in Agents : StopRunning(a)
    BY <1>16 DEF StopRunning, Goto
  <1>17. CASE Cancel \/ TakeApi \/ TakeEvent \/ CloseTaken
    BY <1>17 DEF Cancel, TakeApi, TakeEvent, CloseTaken, Goto
  <1>18. CASE UNCHANGED vars
    BY <1>18 DEF vars
  <1> HIDE DEF TypeOK, Echoes, Echo, Agents, Slot, sessions, slots, calls, fails
  <1> QED
    BY <1>1, <1>2, <1>3, <1>4, <1>5, <1>6, <1>7, <1>8, <1>9, <1>10, <1>11, <1>12, <1>13, <1>14,
       <1>15, <1>16, <1>17, <1>18 DEF Next

\* Every step keeps the order in which a session leaves.
LEMMA LeavesStep ==
  ASSUME TypeOK, InSlots, Leaves, [Next]_vars
  PROVE  Leaves'
  <1> USE DEF TypeOK, InSlots, Leaves, ApiSteps, EventSteps, Agents, Slot, sessions, slots, calls,
            fails
  <1>1. ASSUME NEW s \in Sessions, NEW r \in {"unified", "api", "event"}, Connect(s, r) PROVE Leaves'
    BY <1>1 DEF Connect, Unused, Goto
  <1>2. ASSUME NEW s \in Sessions, SwapApi(s) PROVE Leaves'
    BY <1>2 DEF SwapApi, Goto, AfterSetApi
  <1>3. ASSUME NEW s \in Sessions, SwapEvent(s) PROVE Leaves'
    BY <1>3 DEF SwapEvent, Goto
  <1>4. ASSUME NEW s \in Sessions, CloseOld(s) PROVE Leaves'
    BY <1>4 DEF CloseOld, Goto, AfterSetApi
  <1>5. ASSUME NEW s \in Sessions, SetRunning(s) PROVE Leaves'
    BY <1>5 DEF SetRunning, Goto
  <1>6. ASSUME NEW s \in Sessions, EndReading(s) PROVE Leaves'
    BY <1>6 DEF EndReading, Goto
  <1>7. ASSUME NEW s \in Sessions, ClearApi(s) PROVE Leaves'
    BY <1>7 DEF ClearApi, Goto
  <1>8. ASSUME NEW s \in Sessions, ClearEvent(s) PROVE Leaves'
    BY <1>8 DEF ClearEvent, Goto
  <1>9. ASSUME NEW s \in Sessions, CloseConn(s) PROVE Leaves'
    BY <1>9 DEF CloseConn, Goto
  <1>10. ASSUME NEW a \in Agents, FailBegin(a) PROVE Leaves'
    BY <1>10 DEF FailBegin, Goto
  <1>11. ASSUME NEW a \in Agents, FailEnd(a) PROVE Leaves'
    BY <1>11 DEF FailEnd, Goto
  <1>12. ASSUME NEW s \in Sessions, CheckApi(s) PROVE Leaves'
    BY <1>12 DEF CheckApi, GotoOrEnd, Goto
  <1>13. ASSUME NEW s \in Sessions, CheckEvent(s) PROVE Leaves'
    BY <1>13 DEF CheckEvent, GotoOrEnd, Goto
  <1>14. ASSUME NEW a \in Agents, StopRunning(a) PROVE Leaves'
    BY <1>14 DEF StopRunning, Goto
  <1>15. CASE TakeApi
    BY <1>15 DEF TakeApi, Goto
  <1>16. CASE CloseTaken
    BY <1>16 DEF CloseTaken, Goto
  <1>17. CASE \E a \in Agents : (\E c \in Calls : FailOne(a, c)) \/ FailDelete(a)
    BY <1>17 DEF FailOne, FailDelete, Send
  <1>18. CASE \E c \in Calls : GetApiSession(c) \/ GetEventSession(c) \/ StorePending(c) \/
                              Write(c) \/ WriteFails(c) \/ GiveUp(c) \/ Receive(c) \/
                              ReadAnswer(c) \/ TakePending(c) \/ SendAnswer(c)
    BY <1>18 DEF GetApiSession, GetEventSession, StorePending, Write, WriteFails, GiveUp, Receive,
          ReadAnswer, TakePending, SendAnswer, Return, Send
  <1>19. CASE Cancel \/ TakeEvent
    BY <1>19 DEF Cancel, TakeEvent, Goto
  <1>20. CASE UNCHANGED vars
    BY <1>20 DEF vars
  <1> HIDE DEF TypeOK, InSlots, Leaves, ApiSteps, EventSteps, Agents, Slot, sessions, slots,
             calls, fails
  <1> QED
    BY <1>1, <1>2, <1>3, <1>4, <1>5, <1>6, <1>7, <1>8, <1>9, <1>10, <1>11, <1>12, <1>13, <1>14,
       <1>15, <1>16, <1>17, <1>18, <1>19, <1>20 DEF Next

\* Every step leaves the calls of a session that ended answered, or with its Range to come.
LEMMA FailingStep ==
  ASSUME TypeOK, InSlots, Echoes, Leaves, Failing, [Next]_vars
  PROVE  Failing'
  <1> USE DEF TypeOK, InSlots, Leaves, Echoes, Echo, Failing, Unanswered, ApiSteps, EventSteps,
            Agents, Slot, sessions, slots, calls, fails
  <1>1. ASSUME NEW s \in Sessions, NEW r \in {"unified", "api", "event"}, Connect(s, r) PROVE Failing'
    BY <1>1 DEF Connect, Unused, Goto
  <1>2. ASSUME NEW s \in Sessions, SwapApi(s) PROVE Failing'
    BY <1>2 DEF SwapApi, Goto, AfterSetApi
  <1>3. ASSUME NEW s \in Sessions, SwapEvent(s) PROVE Failing'
    BY <1>3 DEF SwapEvent, Goto
  <1>4. ASSUME NEW s \in Sessions, CloseOld(s) PROVE Failing'
    BY <1>4 DEF CloseOld, Goto, AfterSetApi
  <1>5. ASSUME NEW s \in Sessions, SetRunning(s) PROVE Failing'
    BY <1>5 DEF SetRunning, Goto
  <1>6. ASSUME NEW s \in Sessions, EndReading(s) PROVE Failing'
    BY <1>6 DEF EndReading, Goto
  <1>7. ASSUME NEW s \in Sessions, ClearApi(s) PROVE Failing'
    BY <1>7 DEF ClearApi, Goto
  <1>8. ASSUME NEW s \in Sessions, ClearEvent(s) PROVE Failing'
    BY <1>8 DEF ClearEvent, Goto
  <1>9. ASSUME NEW s \in Sessions, CloseConn(s) PROVE Failing'
    BY <1>9 DEF CloseConn, Goto
  <1>10. ASSUME NEW s \in Sessions, CheckApi(s) PROVE Failing'
    BY <1>10 DEF CheckApi, GotoOrEnd, Goto
  <1>11. ASSUME NEW s \in Sessions, CheckEvent(s) PROVE Failing'
    BY <1>11 DEF CheckEvent, GotoOrEnd, Goto
  <1>12. ASSUME NEW a \in Agents, FailBegin(a) PROVE Failing'
    BY <1>12 DEF FailBegin, Goto
  <1>13. ASSUME NEW a \in Agents, NEW c \in Calls, FailOne(a, c) PROVE Failing'
    BY <1>13 DEF FailOne, Send
  <1>14. ASSUME NEW a \in Agents, FailDelete(a) PROVE Failing'
    BY <1>14 DEF FailDelete
  <1>15. ASSUME NEW a \in Agents, FailEnd(a) PROVE Failing'
    BY <1>15 DEF FailEnd, Goto
  <1>16. ASSUME NEW a \in Agents, StopRunning(a) PROVE Failing'
    BY <1>16 DEF StopRunning, Goto
  <1>17. CASE Cancel
    BY <1>17 DEF Cancel, Goto
  <1>18. CASE TakeApi
    BY <1>18 DEF TakeApi, Goto
  <1>19. CASE TakeEvent
    BY <1>19 DEF TakeEvent, Goto
  <1>20. CASE CloseTaken
    BY <1>20 DEF CloseTaken, Goto
  <1>21. ASSUME NEW c \in Calls, GetApiSession(c) PROVE Failing'
    BY <1>21 DEF GetApiSession
  <1>22. ASSUME NEW c \in Calls, GetEventSession(c) PROVE Failing'
    BY <1>22 DEF GetEventSession
  <1>23. ASSUME NEW c \in Calls, StorePending(c) PROVE Failing'
    BY <1>23 DEF StorePending
  <1>24. ASSUME NEW c \in Calls, Write(c) PROVE Failing'
    BY <1>24 DEF Write
  <1>25. ASSUME NEW c \in Calls, WriteFails(c) PROVE Failing'
    BY <1>25 DEF WriteFails, Return
  <1>26. ASSUME NEW c \in Calls, GiveUp(c) PROVE Failing'
    BY <1>26 DEF GiveUp, Return
  <1>27. ASSUME NEW c \in Calls, Receive(c) PROVE Failing'
    BY <1>27 DEF Receive, Return
  <1>28. ASSUME NEW c \in Calls, ReadAnswer(c) PROVE Failing'
    BY <1>28 DEF ReadAnswer
  <1>29. ASSUME NEW c \in Calls, TakePending(c) PROVE Failing'
    BY <1>29 DEF TakePending
  <1>30. ASSUME NEW c \in Calls, SendAnswer(c) PROVE Failing'
    BY <1>30 DEF SendAnswer, Send
  <1>31. CASE UNCHANGED vars
    BY <1>31 DEF vars
  <1> HIDE DEF TypeOK, InSlots, Leaves, Echoes, Echo, Failing, Unanswered, ApiSteps, EventSteps,
             Agents, Slot, sessions, slots, calls, fails
  <1> QED
    BY <1>1, <1>2, <1>3, <1>4, <1>5, <1>6, <1>7, <1>8, <1>9, <1>10, <1>11, <1>12, <1>13, <1>14,
       <1>15, <1>16, <1>17, <1>18, <1>19, <1>20, <1>21, <1>22, <1>23, <1>24, <1>25, <1>26,
       <1>27, <1>28, <1>29, <1>30, <1>31 DEF Next

\* Every step keeps AliveMeansSession.
LEMMA AliveStep ==
  ASSUME TypeOK, InSlots, Owed, Present, AliveMeansSession, [Next]_vars
  PROVE  AliveMeansSession'
  <1> USE DEF TypeOK, InSlots, Owed, Present, Owing, AliveMeansSession, Settled, ApiSteps,
            EventSteps, Agents, Slot, sessions, slots, calls, fails
  <1>1. ASSUME NEW s \in Sessions, NEW r \in {"unified", "api", "event"}, Connect(s, r) PROVE AliveMeansSession'
    BY <1>1 DEF Connect, Unused, Goto
  <1>2. ASSUME NEW s \in Sessions, SwapApi(s) PROVE AliveMeansSession'
    BY <1>2 DEF SwapApi, Goto, AfterSetApi
  <1>3. ASSUME NEW s \in Sessions, SwapEvent(s) PROVE AliveMeansSession'
    BY <1>3 DEF SwapEvent, Goto
  <1>4. ASSUME NEW s \in Sessions, CloseOld(s) PROVE AliveMeansSession'
    BY <1>4 DEF CloseOld, Goto, AfterSetApi
  <1>5. ASSUME NEW s \in Sessions, SetRunning(s) PROVE AliveMeansSession'
    BY <1>5 DEF SetRunning, Goto
  <1>6. ASSUME NEW s \in Sessions, EndReading(s) PROVE AliveMeansSession'
    BY <1>6 DEF EndReading, Goto
  <1>7. ASSUME NEW s \in Sessions, ClearApi(s) PROVE AliveMeansSession'
    BY <1>7 DEF ClearApi, Goto
  <1>8. ASSUME NEW s \in Sessions, ClearEvent(s) PROVE AliveMeansSession'
    BY <1>8 DEF ClearEvent, Goto
  <1>9. ASSUME NEW s \in Sessions, CloseConn(s) PROVE AliveMeansSession'
    BY <1>9 DEF CloseConn, Goto
  <1>10. ASSUME NEW s \in Sessions, CheckApi(s) PROVE AliveMeansSession'
    BY <1>10 DEF CheckApi, GotoOrEnd, Goto
  <1>11. ASSUME NEW s \in Sessions, CheckEvent(s) PROVE AliveMeansSession'
    BY <1>11 DEF CheckEvent, GotoOrEnd, Goto
  <1>12. ASSUME NEW a \in Agents, FailBegin(a) PROVE AliveMeansSession'
    BY <1>12 DEF FailBegin, Goto
  <1>13. ASSUME NEW a \in Agents, FailDelete(a) PROVE AliveMeansSession'
    BY <1>13 DEF FailDelete
  <1>14. ASSUME NEW a \in Agents, FailEnd(a) PROVE AliveMeansSession'
    BY <1>14 DEF FailEnd, Goto
  <1>15. ASSUME NEW a \in Agents, StopRunning(a) PROVE AliveMeansSession'
    BY <1>15 DEF StopRunning, Goto
  <1>16. CASE Cancel
    BY <1>16 DEF Cancel, Goto
  <1>17. CASE TakeApi
    BY <1>17 DEF TakeApi, Goto
  <1>18. CASE TakeEvent
    BY <1>18 DEF TakeEvent, Goto
  <1>19. CASE CloseTaken
    BY <1>19 DEF CloseTaken, Goto
  <1>20. CASE \E a \in Agents : (\E c \in Calls : FailOne(a, c))
    BY <1>20 DEF FailOne, Send
  <1>21. CASE \E c \in Calls : GetApiSession(c) \/ GetEventSession(c) \/ StorePending(c) \/
                              Write(c) \/ WriteFails(c) \/ GiveUp(c) \/ Receive(c) \/
                              ReadAnswer(c) \/ TakePending(c) \/ SendAnswer(c)
    <2>1. UNCHANGED <<slots, running, pc, conn>>
      BY <1>21 DEF GetApiSession, GetEventSession, StorePending, Write, WriteFails, GiveUp, Receive,
            ReadAnswer, TakePending, SendAnswer, Return, Send
    <2> QED
      BY <2>1
  <1>22. CASE UNCHANGED vars
    BY <1>22 DEF vars
  <1> HIDE DEF TypeOK, InSlots, Owed, Present, Owing, AliveMeansSession, Settled, ApiSteps,
             EventSteps, Agents, Slot, sessions, slots, calls, fails
  <1> QED
    BY <1>1, <1>2, <1>3, <1>4, <1>5, <1>6, <1>7, <1>8, <1>9, <1>10, <1>11, <1>12, <1>13, <1>14,
       <1>15, <1>16, <1>17, <1>18, <1>19, <1>20, <1>21, <1>22 DEF Next

\* The invariant holds at first.
LEMMA InitIInv == Init => IInv
  <1> SUFFICES ASSUME Init PROVE IInv
    OBVIOUS
  <1> USE DEF Init, Agents
  <1>1. TypeOK
    BY DEF TypeOK, Slot
  <1>2. InSlots /\ Owed /\ Present /\ AliveMeansSession
    BY DEF InSlots, Owed, Present, AliveMeansSession
  <1>3. Echoes
    BY DEF Echoes, Echo
  <1>4. Leaves /\ Failing
    BY DEF Leaves, Failing, Unanswered, ApiSteps
  <1> QED
    BY <1>1, <1>2, <1>3, <1>4 DEF IInv

\* Every step keeps the invariant.
LEMMA NextIInv == ASSUME IInv, [Next]_vars PROVE IInv'
  BY TypeStep, SlotsStep, OwedStep, PresentStep, EchoesStep, LeavesStep, FailingStep, AliveStep DEF IInv

LEMMA Invariance == Spec => []IInv
  BY InitIInv, NextIInv, PTL DEF Spec

\* What the invariant says of the slots and the echoes, in the words of the runs.
LEMMA Implied ==
  ASSUME IInv
  PROVE  EndedLeavesSlots /\ ReplacedIsClosed /\ EndedIsAnswered /\ ReturnedLeavesNoEcho
  <1> USE DEF IInv
  <1>1. EndedLeavesSlots
    BY DEF InSlots, ApiSteps, EventSteps, EndedLeavesSlots
  <1>2. ReplacedIsClosed
    BY DEF Present, Owing, ReplacedIsClosed
  <1>3. EndedIsAnswered
    <2> SUFFICES ASSUME NEW c \in Calls, call[c] = "waiting", pc[ses[c]] = "gone", ses[c] \notin lost,
                        chan[c] = "empty", frame[c] # "taken"
                 PROVE  FALSE
      BY DEF EndedIsAnswered
    <2> QED
      BY DEF Failing, Unanswered
  <1>4. ReturnedLeavesNoEcho
    BY DEF TypeOK, Echoes, Echo, ReturnedLeavesNoEcho
  <1> QED
    BY <1>1, <1>2, <1>3, <1>4
-----------------------------------------------------------------------------
\* The variables keep their types, whatever sessions and calls there are.
THEOREM TypesHold == Spec => []TypeOK
  BY Invariance, PTL DEF IInv

\* A session whose goroutine has ended is in no slot, however many sessions come and go at a time.
THEOREM NoneEndedInSlots == Spec => []EndedLeavesSlots
  BY Invariance, Implied, PTL

\* No slot ever has two live sessions: one that is open and read, and not in its slots, is about
\* to be closed.
THEOREM ReplacedAreClosed == Spec => []ReplacedIsClosed
  BY Invariance, Implied, PTL

\* A call whose session ended has its failure or its answer, unless the session had been replaced.
THEOREM EndedAreAnswered == Spec => []EndedIsAnswered
  BY Invariance, Implied, PTL

\* A call that has returned leaves no echo in the map.
THEOREM NoEchoLeft == Spec => []ReturnedLeavesNoEcho
  BY Invariance, Implied, PTL

\* With no connection coming or going, IsAlive is true only if there is a session.
THEOREM AliveIsTrue == Spec => []AliveMeansSession
  BY Invariance, PTL DEF IInv
===============================================================================
