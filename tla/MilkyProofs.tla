----------------------------- MODULE MilkyProofs -----------------------------
(***************************************************************************)
(* Proofs about Milky, for any callers, requests and lifetime: the alive   *)
(* flag and the names of groups.                                           *)
(***************************************************************************)
EXTENDS Milky, TLAPS

\* Unless two calls overlapped, one at most is changing the connection.
Alone == ~miOverlapped => \A h, i \in Callers : Changing(h) /\ Changing(i) => h = i

\* What the one call that changes the connection knows of it at its steps.
Known(j) ==
  /\ j.pc = "opennew" => session = "closed" /\ ~isAlive
  /\ j.pc = "reopen"  => session = "closed"
  /\ j.pc = "alive"   => session = "open"
  /\ j.pc = "dead"    => session # "open"
Connection == ~miOverlapped => \A h \in Callers : Known(call[h])

\* A name may be told for as long as the entry under the number lasts, and a call that puts one back
\* there has been allowed what it takes.
Named ==
  /\ LET e == cache["number"]
     IN e # NoEntry => e.time + Lifetime <= e.since + e.limit /\ e.time <= now /\ e.since <= now
  /\ \A h \in Callers : LET n == call[h].name
                        IN call[h].pc = "put" =>
                             /\ n.read <= now /\ n.since <= now
                             /\ call[h].id # "prefixed" => n.read + Lifetime <= n.since + n.limit
  /\ \A h \in Callers : call[h].pc \in {"ask", "make", "store", "put"} /\ call[h].op = "GetGroupInfoAsync"
                        => call[h].id \in {"prefixed", "bare"}
  /\ \A h \in Callers : call[h].pc = "put" => call[h].op = "GetGroupInfoAsync"

LEMMA JobTyped ==
  ASSUME NEW r \in Requests \cup MiJobs, NEW pc \in Steps, NEW n \in Held
  PROVE  Doing(r, pc, n) \in MiJobs
<1>1. r \in Calls \cup MiJobs
  BY RequestsAssumption
<1>2. r.op \in Controls \cup Sends \cup Infos \cup {"none"} /\ r.id \in Ids \cup {"none"} /\ r.sender \in BOOLEAN
  BY <1>1 DEF Calls, MiJobs
<1>3. Idle \in MiJobs
  BY DEF Idle, MiJobs, Steps, Nameless, Held
<1> QED
  BY <1>2, <1>3 DEF Doing, MiJobs

LEMMA NamelessTyped == Nameless \in Held
  BY DEF Nameless, Held

LEMMA DoingFields ==
  ASSUME NEW r, NEW pc, NEW n
  PROVE  /\ Doing(r, pc, n).pc = pc
         /\ pc # "idle" => Doing(r, pc, n) = [pc |-> pc, op |-> r.op, id |-> r.id, sender |-> r.sender, name |-> n]
  BY DEF Doing, Idle

\* What Begin and Goto do to the callers.
LEMMA BeginTyped ==
  ASSUME MiTypeOK, NEW h \in Callers, NEW r \in Requests, NEW pc \in Steps, NEW n \in Held, MiBegin(h, r, pc, n)
  PROVE  /\ call' = [call EXCEPT ![h] = Doing(r, pc, n)] /\ call[h].pc = "idle"
         /\ call' \in [Callers -> MiJobs] /\ ran' \in Nat /\ now' = now
<1>1. Doing(r, pc, n) \in MiJobs
  BY JobTyped
<1> QED
  BY <1>1 DEF MiTypeOK, MiBegin, MiAt

LEMMA GotoTyped ==
  ASSUME MiTypeOK, NEW h \in Callers, NEW pc \in Steps, NEW n \in Held, MiGoto(h, pc, n)
  PROVE  /\ call' = [call EXCEPT ![h] = Doing(call[h], pc, n)]
         /\ call' \in [Callers -> MiJobs] /\ ran' \in Nat
<1>1. call[h] \in Requests \cup MiJobs
  BY DEF MiTypeOK
<1>2. Doing(call[h], pc, n) \in MiJobs
  BY <1>1, JobTyped
<1> QED
  BY <1>2 DEF MiTypeOK, MiGoto

LEMMA StepsTyped == {"idle", "opennew", "reopen", "alive", "dead", "ask", "make", "store", "put", "send"} = Steps
  BY DEF Steps

LEMMA InitTyped == MiInit => MiTypeOK
<1>1. Idle \in MiJobs
  BY NamelessTyped DEF Idle, MiJobs, Steps
<1>2. SUFFICES ASSUME MiInit PROVE MiTypeOK
  OBVIOUS
<1>3. call \in [Callers -> MiJobs] /\ cache \in [MiKeys -> Entries \cup {NoEntry}]
  BY <1>1, <1>2 DEF MiInit
<1>4. lastTold \in [age : Nat, limit : Nat]
  BY <1>2, BoundsAssumption DEF MiInit
<1> QED
  BY <1>2, <1>3, <1>4 DEF MiInit, MiTypeOK

\* GroupInfoGet when the name is in the cache, and what else it may do.
FoundInCache(h, r) ==
  LET e == cache["number"]
  IN /\ r.op \in Infos /\ Parses(r) /\ Fresh
     /\ lastTold' = [age |-> now - e.since, limit |-> e.limit]
     /\ MiBegin(h, r, IF r.op = "GetGroupInfoAsync" THEN "put" ELSE "idle",
                [since |-> e.since, read |-> now, limit |-> e.limit + Renewal(r)])

LEMMA InfoGetCases ==
  ASSUME NEW h, NEW r, InfoGet(h, r)
  PROVE  \/ MiBegin(h, r, "idle", Nameless) /\ UNCHANGED lastTold
         \/ Parses(r) /\ MiBegin(h, r, "ask", Nameless) /\ UNCHANGED lastTold
         \/ FoundInCache(h, r)
  BY DEF InfoGet, FoundInCache

LEMMA TypeStep ==
  ASSUME MiTypeOK, Named, [MiNext]_miVars
  PROVE  MiTypeOK'
<1> USE StepsTyped
<1>0. ASSUME NEW h \in Callers, NEW r \in Requests, NEW pc \in Steps, MiBegin(h, r, pc, Nameless)
      PROVE  call' \in [Callers -> MiJobs] /\ ran' \in Nat /\ now' = now
  BY <1>0, BeginTyped, NamelessTyped
<1>1. ASSUME NEW h \in Callers, NEW pc \in Steps, MiGoto(h, pc, Nameless), now' = now
      PROVE  call' \in [Callers -> MiJobs] /\ ran' \in Nat
  BY <1>1, GotoTyped, NamelessTyped
<1>2. ASSUME NEW h \in Callers, NEW r \in Requests, Serves(h, r)
      PROVE  /\ call' \in [Callers -> MiJobs] /\ ran' \in Nat /\ now' = now
             /\ session' \in {session, "closed"} /\ isAlive' \in BOOLEAN
  BY <1>2, <1>0 DEF Serves
<1>3. ASSUME NEW h \in Callers, NEW r \in Requests, Reconnects(h, r)
      PROVE  /\ call' \in [Callers -> MiJobs] /\ ran' \in Nat /\ now' = now
             /\ session' \in {session, "closed"} /\ isAlive' \in BOOLEAN
  BY <1>3, <1>2, <1>0 DEF Reconnects, MiTypeOK
<1>4. ASSUME NEW h \in Callers, Overlap(h) PROVE miOverlapped' \in BOOLEAN
  BY <1>4 DEF Overlap, MiTypeOK
<1>5. ASSUME NEW h \in Callers, NEW r \in Requests, Serve(h, r) PROVE MiTypeOK'
  BY <1>5, <1>2, <1>4 DEF Serve, names, MiTypeOK
<1>6. ASSUME NEW h \in Callers, NEW r \in Requests, DoRelogin(h, r) PROVE MiTypeOK'
  BY <1>6, <1>3, <1>4 DEF DoRelogin, names, MiTypeOK
<1>7. ASSUME NEW h \in Callers, NEW r \in Requests, SetEnable(h, r) PROVE MiTypeOK'
  <2>1. miOverlapped' \in BOOLEAN /\ UNCHANGED <<names, crashed>>
    BY <1>7, <1>4 DEF SetEnable
  <2>2. CASE MiBegin(h, r, "idle", Nameless) /\ UNCHANGED <<session, isAlive>>
    BY <1>0, <2>1, <2>2 DEF names, MiTypeOK
  <2>3. CASE Reconnects(h, r)
    BY <1>3, <2>1, <2>3 DEF names, MiTypeOK
  <2>4. CASE MiBegin(h, r, "dead", Nameless) /\ UNCHANGED isAlive /\ session' \in {session, "closed"}
    BY <1>0, <2>1, <2>4 DEF names, MiTypeOK
  <2> QED
    BY <1>7, <2>2, <2>3, <2>4 DEF SetEnable
<1>8. ASSUME NEW h \in Callers, NEW r \in Requests, InfoGet(h, r) PROVE MiTypeOK'
  <2>1. CASE MiBegin(h, r, "idle", Nameless) /\ UNCHANGED lastTold
    BY <1>0, <1>8, <2>1 DEF InfoGet, connection, MiTypeOK
  <2>2. CASE Parses(r) /\ MiBegin(h, r, "ask", Nameless) /\ UNCHANGED lastTold
    BY <1>0, <1>8, <2>2 DEF InfoGet, connection, MiTypeOK
  <2>3. CASE FoundInCache(h, r)
    <3> DEFINE e == cache["number"]
               n == [since |-> e.since, read |-> now, limit |-> e.limit + Renewal(r)]
    <3>1. e \in Entries /\ e.since \in Nat /\ e.limit \in Nat /\ e.since <= now /\ now \in Nat
      BY <2>3 DEF FoundInCache, Fresh, MiTypeOK, Named, MiKeys, Entries
    <3>2. lastTold' \in [age : Nat, limit : Nat]
      BY <2>3, <3>1 DEF FoundInCache
    <3>3. n \in Held
      BY <3>1, BoundsAssumption DEF Held, Renewal
    <3>4. call' \in [Callers -> MiJobs] /\ ran' \in Nat /\ now' = now
      <4>1. MiBegin(h, r, IF r.op = "GetGroupInfoAsync" THEN "put" ELSE "idle", n)
        BY <2>3 DEF FoundInCache
      <4> HIDE DEF n
      <4>2. CASE MiBegin(h, r, "put", n)
        BY <3>3, <4>2, BeginTyped
      <4>3. CASE MiBegin(h, r, "idle", n)
        BY <3>3, <4>3, BeginTyped
      <4> QED
        BY <4>1, <4>2, <4>3
    <3> QED
      BY <1>8, <3>2, <3>4 DEF InfoGet, connection, MiTypeOK
  <2> QED
    BY <1>8, <2>1, <2>2, <2>3, InfoGetCases
<1>9. ASSUME NEW h \in Callers, NEW r \in Requests, Send(h, r) PROVE MiTypeOK'
  <2>1. call' \in [Callers -> MiJobs] /\ ran' \in Nat /\ now' = now
    BY <1>9, <1>0 DEF Send
  <2> QED
    BY <1>9, <2>1 DEF Send, connection, names, MiTypeOK
<1>10. ASSUME NEW h \in Callers, Open(h) PROVE MiTypeOK'
  <2>1. now' = now
    BY <1>10 DEF Open, MiAt
  <2>2. call' \in [Callers -> MiJobs] /\ ran' \in Nat
    BY <1>10, <1>1, <2>1 DEF Open
  <2> QED
    BY <1>10, <2>1, <2>2 DEF Open, names, MiTypeOK
<1>11. ASSUME NEW h \in Callers, SetAlive(h) PROVE MiTypeOK'
  <2>1. now' = now
    BY <1>11 DEF SetAlive, MiAt
  <2>2. call' \in [Callers -> MiJobs] /\ ran' \in Nat
    BY <1>11, <1>1, <2>1 DEF SetAlive
  <2> QED
    BY <1>11, <2>1, <2>2 DEF SetAlive, names, MiTypeOK
<1>12. ASSUME NEW h \in Callers, Ask(h) PROVE MiTypeOK'
  <2>1. now' = now
    BY <1>12 DEF Ask, MiAt
  <2>2. call' \in [Callers -> MiJobs] /\ ran' \in Nat
    BY <1>12, <1>1, <2>1 DEF Ask
  <2> QED
    BY <1>12, <2>1, <2>2 DEF Ask, connection, names, MiTypeOK
<1>13. ASSUME NEW h \in Callers, Make(h) PROVE MiTypeOK'
  <2>1. now' = now
    BY <1>13 DEF Make, MiAt
  <2>2. call' \in [Callers -> MiJobs] /\ ran' \in Nat
    BY <1>13, <1>1, <2>1 DEF Make
  <2> QED
    BY <1>13, <2>1, <2>2 DEF Make, connection, MiTypeOK, MiKeys
<1>14. ASSUME NEW h \in Callers, Store(h) PROVE MiTypeOK'
  <2>1. now' = now /\ now \in Nat
    BY <1>14 DEF Store, MiAt, MiTypeOK
  <2> DEFINE n == [since |-> now, read |-> now, limit |-> Lifetime]
             e == [time |-> now, since |-> now, limit |-> Lifetime]
  <2>2. n \in Held /\ e \in Entries
    BY <2>1, BoundsAssumption DEF Held, Entries
  <2>3. call' \in [Callers -> MiJobs] /\ ran' \in Nat
    <3>1. MiGoto(h, IF call[h].op = "GetGroupInfoAsync" THEN "put" ELSE "idle", n)
      BY <1>14 DEF Store
    <3> HIDE DEF n
    <3>2. CASE MiGoto(h, "put", n)
      BY <2>2, <3>2, GotoTyped
    <3>3. CASE MiGoto(h, "idle", n)
      BY <2>2, <3>3, GotoTyped
    <3> QED
      BY <3>1, <3>2, <3>3
  <2>4. cache' = [cache EXCEPT !["number"] = e]
    BY <1>14 DEF Store
  <2>5. UNCHANGED <<connection, made, lastTold, crashed, now>>
    BY <1>14, <2>1 DEF Store
  <2> HIDE DEF n, e
  <2>6. cache' \in [MiKeys -> Entries \cup {NoEntry}]
    BY <2>2, <2>4 DEF MiTypeOK
  <2> QED
    BY <2>3, <2>5, <2>6 DEF connection, MiTypeOK
<1>15. ASSUME NEW h \in Callers, Put(h) PROVE MiTypeOK'
  <2> DEFINE n == call[h].name
             e == [time |-> now, since |-> n.since, limit |-> n.limit + (now - n.read)]
  <2>1. now' = now /\ now \in Nat /\ n \in Held /\ n.read <= now
    BY <1>15 DEF Put, MiAt, MiTypeOK, MiJobs, Named
  <2>2. e \in Entries
    BY <2>1 DEF Held, Entries
  <2>3. call' \in [Callers -> MiJobs] /\ ran' \in Nat
    BY <1>15, <1>1, <2>1 DEF Put
  <2>4. StoredUnder(call[h].id) \in MiKeys
    BY DEF StoredUnder, MiKeys
  <2>5. cache' = [cache EXCEPT ![StoredUnder(call[h].id)] = e]
    BY <1>15 DEF Put
  <2>6. UNCHANGED <<connection, made, lastTold, crashed, now>>
    BY <1>15, <2>1 DEF Put
  <2> HIDE DEF n, e
  <2>7. cache' \in [MiKeys -> Entries \cup {NoEntry}]
    BY <2>2, <2>4, <2>5 DEF MiTypeOK
  <2> QED
    BY <2>3, <2>6, <2>7 DEF connection, MiTypeOK
<1>16. ASSUME NEW h \in Callers, Sent(h) PROVE MiTypeOK'
  <2>1. now' = now /\ UNCHANGED <<connection, names>>
    BY <1>16 DEF Sent, MiAt
  <2>2. CASE MiGoto(h, "idle", Nameless) /\ UNCHANGED crashed
    BY <1>1, <2>1, <2>2 DEF connection, names, MiTypeOK
  <2>3. CASE crashed' = TRUE /\ UNCHANGED <<call, ran>>
    BY <2>1, <2>3 DEF connection, names, MiTypeOK
  <2> QED
    BY <1>16, <2>2, <2>3 DEF Sent
<1>16a. ASSUME NEW h \in Callers, NilSession(h) PROVE MiTypeOK'
  BY <1>16a DEF NilSession, MiAt, connection, names, MiTypeOK
<1>17. CASE Tick
  BY <1>17 DEF Tick, connection, names, MiTypeOK, MiKeys, Entries, MiJobs
<1>18. CASE UNCHANGED miVars
  BY <1>18 DEF miVars, MiTypeOK
<1> QED
  BY <1>5, <1>6, <1>7, <1>8, <1>9, <1>10, <1>11, <1>12, <1>13, <1>14, <1>15, <1>16, <1>16a, <1>17, <1>18 DEF MiNext

LEMMA InitNamed == MiInit => Named /\ NamesExpire
  BY BoundsAssumption DEF MiInit, Named, Idle, NamesExpire, MiKeys

\* A step that leaves the cache alone, and in which a caller goes on with the request j to the step pc,
\* with the name n.
LEMMA SameCache ==
  ASSUME MiTypeOK, Named, NEW h \in Callers, NEW j, NEW pc, NEW n, UNCHANGED <<cache, now>>,
         call' = [call EXCEPT ![h] = Doing(j, pc, n)],
         pc \in {"ask", "make", "store", "put"} /\ j.op = "GetGroupInfoAsync" => j.id \in {"prefixed", "bare"},
         pc = "put" => /\ j.op = "GetGroupInfoAsync"
                       /\ n.read <= now /\ n.since <= now
                       /\ j.id # "prefixed" => n.read + Lifetime <= n.since + n.limit
  PROVE  Named'
<1> DEFINE d == Doing(j, pc, n)
<1>1. d.pc = pc /\ (pc # "idle" => d.op = j.op /\ d.id = j.id /\ d.name = n)
  BY DoingFields
<1>2. call'[h] = d /\ \A i \in Callers \ {h} : call'[i] = call[i]
  BY DEF MiTypeOK
<1> HIDE DEF d
<1> QED
  BY <1>1, <1>2 DEF Named, MiTypeOK

LEMMA NamedStep ==
  ASSUME MiTypeOK, Named, NamesExpire, [MiNext]_miVars
  PROVE  Named' /\ NamesExpire'
<1>1. ASSUME NEW h \in Callers, NEW r \in Requests, NEW pc \in {"idle", "opennew", "reopen", "dead", "send"},
             MiBegin(h, r, pc, Nameless), UNCHANGED names
      PROVE  Named' /\ NamesExpire'
  BY <1>1, SameCache DEF MiBegin, MiAt, names, NamesExpire
<1>2. ASSUME NEW h \in Callers, NEW pc \in {"idle", "alive"}, MiGoto(h, pc, Nameless), UNCHANGED <<names, now>>
      PROVE  Named' /\ NamesExpire'
  BY <1>2, SameCache DEF MiGoto, names, NamesExpire
<1>3. ASSUME NEW h \in Callers, NEW r \in Requests, Serve(h, r) \/ DoRelogin(h, r) \/ SetEnable(h, r) \/ Send(h, r)
      PROVE  Named' /\ NamesExpire'
  <2>1. PICK pc \in {"idle", "opennew", "reopen", "dead", "send"} : MiBegin(h, r, pc, Nameless)
    BY <1>3 DEF Serve, DoRelogin, SetEnable, Send, Serves, Reconnects
  <2> QED
    BY <1>1, <1>3, <2>1 DEF Serve, DoRelogin, SetEnable, Send
<1>4. ASSUME NEW h \in Callers, Open(h) \/ SetAlive(h) \/ Sent(h) \/ NilSession(h)
      PROVE  Named' /\ NamesExpire'
  <2>1. UNCHANGED <<names, now>>
    BY <1>4 DEF Open, SetAlive, Sent, NilSession, MiAt
  <2>2. CASE UNCHANGED call
    BY <2>1, <2>2 DEF names, Named, NamesExpire
  <2>3. CASE \E pc \in {"idle", "alive"} : MiGoto(h, pc, Nameless)
    BY <1>2, <2>1, <2>3
  <2> QED
    BY <1>4, <2>2, <2>3 DEF Open, SetAlive, Sent, NilSession
<1>5. ASSUME NEW h \in Callers, NEW r \in Requests, InfoGet(h, r)
      PROVE  Named' /\ NamesExpire'
  <2>1. Parses(r) /\ r.op = "GetGroupInfoAsync" => r.id \in {"prefixed", "bare"}
    BY RequestsAssumption DEF Parses
  <2>2. CASE MiBegin(h, r, "idle", Nameless) /\ UNCHANGED lastTold
    BY <1>1, <1>5, <2>2 DEF InfoGet, names
  <2>3. CASE Parses(r) /\ MiBegin(h, r, "ask", Nameless) /\ UNCHANGED lastTold
    BY <1>5, <2>1, <2>3, SameCache DEF InfoGet, MiBegin, MiAt, NamesExpire
  <2>4. CASE FoundInCache(h, r)
    <3> DEFINE e == cache["number"]
               n == [since |-> e.since, read |-> now, limit |-> e.limit + Renewal(r)]
               pc == IF r.op = "GetGroupInfoAsync" THEN "put" ELSE "idle"
    <3>1. /\ e.time \in Nat /\ e.since \in Nat /\ e.limit \in Nat /\ now \in Nat /\ Lifetime \in Nat
          /\ now - e.time < Lifetime /\ e.time + Lifetime <= e.since + e.limit /\ e.since <= now
      BY <2>4, BoundsAssumption DEF FoundInCache, Fresh, MiTypeOK, Named, MiKeys, Entries
    <3>2. now < e.since + e.limit
      BY <3>1
    <3>3. NamesExpire'
      BY <2>4, <3>1, <3>2 DEF FoundInCache, NamesExpire
    <3>4. n.read = now /\ n.since = e.since /\ n.limit = e.limit + Renewal(r)
      OBVIOUS
    <3>5. pc = "put" /\ r.id # "prefixed" => Renewal(r) = Lifetime
      BY <2>1, <2>4 DEF FoundInCache, Renewal
    <3>6. pc = "put" => /\ r.op = "GetGroupInfoAsync"
                        /\ n.read <= now /\ n.since <= now
                        /\ r.id # "prefixed" => n.read + Lifetime <= n.since + n.limit
      BY <3>1, <3>2, <3>4, <3>5
    <3>7. call' = [call EXCEPT ![h] = Doing(r, pc, n)] /\ UNCHANGED <<cache, now>>
      BY <1>5, <2>4 DEF FoundInCache, InfoGet, MiBegin, MiAt
    <3>8. Parses(r) /\ pc \in {"idle", "put"}
      BY <2>4 DEF FoundInCache
    <3> HIDE DEF n, pc
    <3>9. Named'
      BY <2>1, <3>6, <3>7, <3>8, SameCache
    <3> QED
      BY <3>3, <3>9
  <2> QED
    BY <1>5, <2>2, <2>3, <2>4, InfoGetCases
<1>6. ASSUME NEW h \in Callers, Ask(h) PROVE Named' /\ NamesExpire'
  <2>1. PICK pc \in {"idle", "store", "make"} : MiGoto(h, pc, Nameless)
    BY <1>6 DEF Ask
  <2>2. call[h].op = "GetGroupInfoAsync" => call[h].id \in {"prefixed", "bare"}
    BY <1>6 DEF Ask, MiAt, Named
  <2> QED
    BY <1>6, <2>1, <2>2, SameCache DEF Ask, MiGoto, MiAt, names, NamesExpire
<1>7. ASSUME NEW h \in Callers, Make(h) PROVE Named' /\ NamesExpire'
  <2>1. cache'["number"] = NoEntry /\ lastTold' = lastTold /\ now' = now
    BY <1>7 DEF Make, MiAt, MiKeys
  <2> DEFINE d == Doing(call[h], "store", Nameless)
  <2>2. d.pc = "store" /\ d.op = call[h].op /\ d.id = call[h].id
    BY DoingFields
  <2>3. call'[h] = d /\ \A i \in Callers \ {h} : call'[i] = call[i]
    BY <1>7 DEF Make, MiGoto, MiTypeOK
  <2>4. call[h].op = "GetGroupInfoAsync" => call[h].id \in {"prefixed", "bare"}
    BY <1>7 DEF Make, MiAt, Named
  <2> HIDE DEF d
  <2> QED
    BY <2>1, <2>2, <2>3, <2>4 DEF Named, NamesExpire, MiTypeOK
<1>8. ASSUME NEW h \in Callers, Store(h) PROVE Named' /\ NamesExpire'
  <2> DEFINE pc == IF call[h].op = "GetGroupInfoAsync" THEN "put" ELSE "idle"
             n == [since |-> now, read |-> now, limit |-> Lifetime]
             d == Doing(call[h], pc, n)
             e == cache'["number"]
  <2>1. e.time = now /\ e.since = now /\ e.limit = Lifetime
    BY <1>8 DEF Store, MiTypeOK, MiKeys
  <2>2. lastTold' = lastTold /\ now' = now /\ now \in Nat /\ Lifetime \in Nat
    BY <1>8, BoundsAssumption DEF Store, MiAt, MiTypeOK
  <2>3. d.pc = pc /\ (pc # "idle" => d.op = call[h].op /\ d.id = call[h].id /\ d.name = n)
    BY DoingFields
  <2>4. n.since = now /\ n.read = now /\ n.limit = Lifetime /\ pc \in {"idle", "put"}
        /\ (pc = "put" => call[h].op = "GetGroupInfoAsync")
    OBVIOUS
  <2>5. call'[h] = d /\ \A i \in Callers \ {h} : call'[i] = call[i]
    BY <1>8 DEF Store, MiGoto, MiTypeOK
  <2>6. call[h].op = "GetGroupInfoAsync" => call[h].id \in {"prefixed", "bare"}
    BY <1>8 DEF Store, MiAt, Named
  <2> HIDE DEF pc, n, d
  <2> QED
    BY <2>1, <2>2, <2>3, <2>4, <2>5, <2>6 DEF Named, NamesExpire
<1>9. ASSUME NEW h \in Callers, Put(h) PROVE Named' /\ NamesExpire'
  <2> DEFINE n == call[h].name
             d == Doing(call[h], "idle", Nameless)
             e == [time |-> now, since |-> n.since, limit |-> n.limit + (now - n.read)]
  <2>1. /\ n.since \in Nat /\ n.read \in Nat /\ n.limit \in Nat /\ now \in Nat /\ Lifetime \in Nat
        /\ n.read <= now /\ n.since <= now
        /\ call[h].id # "prefixed" => n.read + Lifetime <= n.since + n.limit
    BY <1>9, BoundsAssumption DEF Put, MiAt, MiTypeOK, MiJobs, Held, Named
  <2>2. e.time = now /\ e.since = n.since /\ e.limit = n.limit + (now - n.read)
    OBVIOUS
  <2>3. lastTold' = lastTold /\ now' = now
    BY <1>9 DEF Put, MiAt
  <2>4. d.pc = "idle" /\ call'[h] = d /\ \A i \in Callers \ {h} : call'[i] = call[i]
    BY <1>9, DoingFields DEF Put, MiGoto, MiTypeOK
  <2>5. cache' = [cache EXCEPT ![StoredUnder(call[h].id)] = e]
    BY <1>9 DEF Put
  <2> HIDE DEF n, d, e
  <2>6. cache'["number"] = cache["number"] \/ (call[h].id # "prefixed" /\ cache'["number"] = e)
    BY <2>5 DEF StoredUnder, MiTypeOK, MiKeys
  <2>7. call[h].id # "prefixed" => e.time + Lifetime <= e.since + e.limit /\ e.time <= now /\ e.since <= now
    BY <2>1, <2>2
  <2> QED
    BY <2>3, <2>4, <2>6, <2>7 DEF Named, NamesExpire
<1>10. CASE Tick
  <2>1. now \in Nat /\ now' = now + 1 /\ UNCHANGED <<call, cache, lastTold>>
    BY <1>10 DEF Tick, names, MiTypeOK
  <2>2. cache["number"] # NoEntry => cache["number"].time \in Nat /\ cache["number"].since \in Nat
    BY DEF MiTypeOK, MiKeys, Entries
  <2>3. \A h \in Callers : call[h].name.since \in Nat /\ call[h].name.read \in Nat
    BY DEF MiTypeOK, MiJobs, Held
  <2> QED
    BY <2>1, <2>2, <2>3 DEF Named, NamesExpire
<1>11. CASE UNCHANGED miVars
  BY <1>11 DEF miVars, Named, NamesExpire
<1> QED
  BY <1>3, <1>4, <1>5, <1>6, <1>7, <1>8, <1>9, <1>10, <1>11 DEF MiNext

\* Whether the flag tells the truth.
LEMMA InitConnected == MiInit => Alone /\ Connection /\ AliveIsOpen
  BY DEF MiInit, Idle, Alone, Connection, Known, Changing, AliveIsOpen, IsAlive

\* A caller that does not change the connection keeps what is known, if it leaves the connection alone.
LEMMA OtherStep ==
  ASSUME MiTypeOK, Alone, Connection, AliveIsOpen, NEW h \in Callers, ~Changing(h), ~Changing(h)',
         call' \in [Callers -> MiJobs], \A i \in Callers \ {h} : call'[i] = call[i], UNCHANGED connection
  PROVE  Alone' /\ Connection' /\ AliveIsOpen'
<1>1. \A i \in Callers : Changing(i)' => Changing(i) /\ call'[i] = call[i]
  BY DEF Changing
<1>2. \A i \in Callers : Changing(i)' <=> Changing(i)
  BY DEF Changing
<1> QED
  BY <1>1, <1>2 DEF Alone, Connection, AliveIsOpen, IsAlive, Known, Changing, connection

\* A caller that begins to change it: either another is doing so, or what it leaves is known.
LEMMA BeginStep ==
  ASSUME MiTypeOK, Alone, Connection, AliveIsOpen, NEW h \in Callers, Overlap(h), ~Changing(h),
         \A i \in Callers \ {h} : call'[i] = call[i],
         (\A i \in Callers : ~Changing(i)) =>
            \/ Changing(h)' /\ Known(call[h])'
            \/ ~Changing(h)' /\ (session' # "none" /\ isAlive' <=> session' = "open")
  PROVE  Alone' /\ Connection' /\ AliveIsOpen'
<1>1. CASE miOverlapped'
  BY <1>1 DEF Alone, Connection, AliveIsOpen
<1>2. CASE ~miOverlapped'
  <2>1. \A i \in Callers : ~Changing(i)
    BY <1>2 DEF Overlap
  <2>2. \A i \in Callers \ {h} : ~Changing(i)' /\ ~(call'[i].pc \in {"opennew", "reopen", "alive", "dead"})
    BY <2>1 DEF Changing
  <2>3. Alone'
    BY <2>2 DEF Alone
  <2>4. Connection'
    BY <2>1, <2>2 DEF Connection, Known, Changing
  <2>5. AliveIsOpen'
    BY <2>1, <2>2 DEF AliveIsOpen, IsAlive
  <2> QED
    BY <2>3, <2>4, <2>5
<1> QED
  BY <1>1, <1>2

\* The caller that is changing it goes on.
LEMMA ChangeStep ==
  ASSUME MiTypeOK, Alone, Connection, AliveIsOpen, NEW h \in Callers, Changing(h), UNCHANGED miOverlapped,
         \A i \in Callers \ {h} : call'[i] = call[i],
         Known(call[h]) =>
            \/ Changing(h)' /\ Known(call[h])'
            \/ ~Changing(h)' /\ (session' # "none" /\ isAlive' <=> session' = "open")
  PROVE  Alone' /\ Connection' /\ AliveIsOpen'
<1>1. CASE miOverlapped
  BY <1>1 DEF Alone, Connection, AliveIsOpen
<1>2. CASE ~miOverlapped
  <2>1. \A i \in Callers \ {h} : ~Changing(i)
    BY <1>2 DEF Alone
  <2>2. \A i \in Callers \ {h} : ~Changing(i)' /\ ~(call'[i].pc \in {"opennew", "reopen", "alive", "dead"})
    BY <2>1 DEF Changing
  <2>3. Known(call[h])
    BY <1>2 DEF Connection
  <2>4. Alone'
    BY <2>2 DEF Alone
  <2>5. Connection'
    BY <2>2, <2>3 DEF Connection, Known, Changing
  <2>6. AliveIsOpen'
    BY <2>2, <2>3 DEF AliveIsOpen, IsAlive
  <2> QED
    BY <2>4, <2>5, <2>6
<1> QED
  BY <1>1, <1>2

LEMMA ConnectionStep ==
  ASSUME MiTypeOK, MiTypeOK', Alone, Connection, AliveIsOpen, [MiNext]_miVars
  PROVE  Alone' /\ Connection' /\ AliveIsOpen'
<1>1. ASSUME NEW h \in Callers, NEW r, NEW pc, NEW n, MiBegin(h, r, pc, n)
      PROVE  /\ ~Changing(h) /\ call'[h].pc = pc /\ \A i \in Callers \ {h} : call'[i] = call[i]
  BY <1>1, DoingFields DEF MiBegin, MiAt, Changing, MiTypeOK
<1>2. ASSUME NEW h \in Callers, NEW pc, NEW n, MiGoto(h, pc, n)
      PROVE  call'[h].pc = pc /\ \A i \in Callers \ {h} : call'[i] = call[i]
  BY <1>2, DoingFields DEF MiGoto, MiTypeOK
<1>3. ASSUME NEW h \in Callers, NEW r \in Requests, Serves(h, r), session # "open", Overlap(h)
      PROVE  Alone' /\ Connection' /\ AliveIsOpen'
  <2>1. CASE MiBegin(h, r, "idle", Nameless) /\ UNCHANGED session
    BY <1>1, <1>3, <2>1, BeginStep DEF Serves, Changing, Known
  <2>2. CASE MiBegin(h, r, "opennew", Nameless) /\ session' = "closed"
    BY <1>1, <1>3, <2>2, BeginStep DEF Serves, Changing, Known
  <2> QED
    BY <1>3, <2>1, <2>2 DEF Serves
<1>4. ASSUME NEW h \in Callers, NEW r \in Requests, Reconnects(h, r), Overlap(h)
      PROVE  Alone' /\ Connection' /\ AliveIsOpen'
  <2>1. CASE session = "none" /\ Serves(h, r)
    BY <1>3, <1>4, <2>1
  <2>2. CASE MiBegin(h, r, "reopen", Nameless) /\ session' = "closed"
    BY <1>1, <1>4, <2>2, BeginStep DEF Changing, Known
  <2> QED
    BY <1>4, <2>1, <2>2 DEF Reconnects
<1>5. ASSUME NEW h \in Callers, NEW r \in Requests, Serve(h, r) PROVE Alone' /\ Connection' /\ AliveIsOpen'
  BY <1>3, <1>5 DEF Serve
<1>6. ASSUME NEW h \in Callers, NEW r \in Requests, DoRelogin(h, r) PROVE Alone' /\ Connection' /\ AliveIsOpen'
  BY <1>4, <1>6 DEF DoRelogin
<1>7. ASSUME NEW h \in Callers, NEW r \in Requests, SetEnable(h, r) PROVE Alone' /\ Connection' /\ AliveIsOpen'
  <2>1. Overlap(h)
    BY <1>7 DEF SetEnable
  <2>2. CASE IsAlive /\ MiBegin(h, r, "idle", Nameless) /\ UNCHANGED <<session, isAlive>>
    <3>1. (\A i \in Callers : ~Changing(i)) => miOverlapped' \/ (session' # "none" /\ isAlive' <=> session' = "open")
      BY <2>1, <2>2 DEF AliveIsOpen, IsAlive, Overlap
    <3>2. ~Changing(h)'
      BY <1>1, <2>2 DEF Changing
    <3>3. CASE miOverlapped'
      BY <3>3 DEF Alone, Connection, AliveIsOpen
    <3>4. CASE ~miOverlapped'
      BY <1>1, <2>1, <2>2, <3>1, <3>2, <3>4, BeginStep
    <3> QED
      BY <3>3, <3>4
  <2>3. CASE Reconnects(h, r)
    BY <1>4, <2>1, <2>3
  <2>4. CASE MiBegin(h, r, "dead", Nameless) /\ session' = IF session = "open" THEN "closed" ELSE session
    BY <1>1, <2>1, <2>4, BeginStep DEF Changing, Known
  <2> QED
    BY <1>7, <2>2, <2>3, <2>4 DEF SetEnable
<1>8. ASSUME NEW h \in Callers, Open(h) PROVE Alone' /\ Connection' /\ AliveIsOpen'
  <2>1. Changing(h) /\ UNCHANGED miOverlapped /\ (call[h].pc = "opennew" \/ call[h].pc = "reopen")
    BY <1>8 DEF Open, MiAt, Changing
  <2>2. CASE session' = "open" /\ MiGoto(h, "alive", Nameless)
    BY <1>2, <2>1, <2>2, ChangeStep DEF Changing, Known
  <2>3. CASE MiGoto(h, "idle", Nameless) /\ UNCHANGED session /\ isAlive' = IF call[h].pc = "reopen" THEN FALSE ELSE isAlive
    <3>1. ~Changing(h)' /\ (Known(call[h]) => ~isAlive' /\ session' # "open")
      BY <1>2, <2>1, <2>3 DEF Changing, Known
    <3> QED
      BY <1>2, <2>1, <2>3, <3>1, ChangeStep
  <2> QED
    BY <1>8, <2>2, <2>3 DEF Open
<1>9. ASSUME NEW h \in Callers, SetAlive(h) PROVE Alone' /\ Connection' /\ AliveIsOpen'
  BY <1>2, <1>9, ChangeStep DEF SetAlive, MiAt, Changing, Known, MiTypeOK
<1>10. ASSUME NEW h \in Callers, NEW r \in Requests, InfoGet(h, r) \/ Send(h, r)
       PROVE  Alone' /\ Connection' /\ AliveIsOpen'
  <2>1. PICK pc, n : pc \in {"idle", "ask", "put", "send"} /\ MiBegin(h, r, pc, n)
    BY <1>10 DEF InfoGet, Send
  <2>2. call' \in [Callers -> MiJobs] /\ UNCHANGED connection
    BY <1>10 DEF InfoGet, Send, MiTypeOK
  <2> QED
    BY <1>1, <2>1, <2>2, OtherStep DEF Changing
<1>11. ASSUME NEW h \in Callers, Ask(h) \/ Make(h) \/ Store(h) \/ Put(h)
       PROVE  Alone' /\ Connection' /\ AliveIsOpen'
  <2>1. PICK pc, n : pc \in {"idle", "make", "store", "put"} /\ MiGoto(h, pc, n)
    BY <1>11 DEF Ask, Make, Store, Put
  <2>2. call' \in [Callers -> MiJobs] /\ UNCHANGED connection /\ ~Changing(h)
    BY <1>11 DEF Ask, Make, Store, Put, MiAt, Changing, MiTypeOK
  <2> QED
    BY <1>2, <2>1, <2>2, OtherStep DEF Changing
<1>11a. ASSUME NEW h \in Callers, Sent(h) PROVE Alone' /\ Connection' /\ AliveIsOpen'
  <2>1. call' \in [Callers -> MiJobs] /\ UNCHANGED connection /\ ~Changing(h)
    BY <1>11a DEF Sent, MiAt, Changing, MiTypeOK
  <2>2. CASE MiGoto(h, "idle", Nameless)
    BY <1>2, <2>1, <2>2, OtherStep DEF Changing
  <2>3. CASE UNCHANGED call
    BY <2>1, <2>3, OtherStep DEF Changing
  <2> QED
    BY <1>11a, <2>2, <2>3 DEF Sent
<1>11b. ASSUME NEW h \in Callers, NilSession(h) PROVE Alone' /\ Connection' /\ AliveIsOpen'
  BY <1>11b, OtherStep DEF NilSession, MiAt, Changing, MiTypeOK
<1>12. CASE Tick \/ UNCHANGED miVars
  BY <1>12 DEF Tick, miVars, connection, Alone, Connection, AliveIsOpen, IsAlive, Known, Changing
<1> QED
  BY <1>5, <1>6, <1>7, <1>8, <1>9, <1>10, <1>11, <1>11a, <1>11b, <1>12 DEF MiNext

(***************************************************************************)
(* The alive flag is true just when the session is open, whenever nobody   *)
(* is changing the connection and no two calls that do overlapped          *)
(* (AliveIsOpen: Serve, DoRelogin and SetEnable).                          *)
(***************************************************************************)
THEOREM FlagIsTrue == MiSpec => []AliveIsOpen
<1> DEFINE Inv == MiTypeOK /\ Named /\ NamesExpire /\ Alone /\ Connection /\ AliveIsOpen
<1>1. MiInit => Inv
  BY InitTyped, InitNamed, InitConnected
<1>2. Inv /\ [MiNext]_miVars => Inv'
  BY TypeStep, NamedStep, ConnectionStep
<1> QED
  BY <1>1, <1>2, PTL DEF MiSpec

LEMMA CrashStep ==
  ASSUME CrashExplained, [MiNext]_miVars
  PROVE  CrashExplained'
<1>1. CASE UNCHANGED crashed
  <2>1. CASE crashed
    <3>1. UNCHANGED miVars
      BY <2>1 DEF MiNext, Open, SetAlive, Ask, Make, Store, Put, Sent, NilSession, Serve, DoRelogin, SetEnable,
                  InfoGet, Send, Serves, Reconnects, MiBegin, MiAt, Tick
    <3> QED
      BY <3>1 DEF miVars, CrashExplained, Sessionless, Senderless
  <2> QED
    BY <1>1, <2>1 DEF CrashExplained
<1>2. CASE ~UNCHANGED crashed
  <2>1. PICK h \in Callers : Sent(h) \/ NilSession(h)
    BY <1>2 DEF miVars, MiNext, Open, SetAlive, Ask, Make, Store, Put, Serve, DoRelogin, SetEnable, InfoGet, Send, Tick
  <2>2. UNCHANGED <<call, session>> /\ (Senderless(h) \/ Sessionless(h))
    BY <1>2, <2>1 DEF Sent, NilSession, connection
  <2> QED
    BY <2>2 DEF CrashExplained, Sessionless, Senderless
<1> QED
  BY <1>1, <1>2

(***************************************************************************)
(* Every variable has its type; the flag tells whether the session is open *)
(* unless calls overlapped; the name of a group is told for no longer than *)
(* one lifetime and what each renewal under the bare number adds           *)
(* (GroupInfoGet and the second Store of GetGroupInfoAsync); and a panic   *)
(* comes of the missing session or the missing sender alone.               *)
(***************************************************************************)
THEOREM MilkySound == MiSpec => []MiSound
<1> DEFINE Inv == MiTypeOK /\ Named /\ NamesExpire /\ CrashExplained
<1>1. MiInit => Inv
  BY InitTyped, InitNamed DEF MiInit, CrashExplained
<1>2. Inv /\ [MiNext]_miVars => Inv'
  BY TypeStep, NamedStep, CrashStep
<1>3. Inv /\ AliveIsOpen => MiSound
  BY DEF MiSound
<1> QED
  BY <1>1, <1>2, <1>3, FlagIsTrue, PTL DEF MiSpec
==============================================================================
