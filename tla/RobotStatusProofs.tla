-------------------------- MODULE RobotStatusProofs --------------------------
(***************************************************************************)
(* Proofs about RobotStatus, for any number of processes, coroutines,      *)
(* events, heartbeats, retries and faults.                                 *)
(***************************************************************************)
EXTENDS RobotStatus, FiniteSetTheorems, TLAPS

USE StatusAssumption

-----------------------------------------------------------------------------
(***************************************************************************)
(* The row's sequence number only grows, so an event between its two       *)
(* transactions either is the one that made the row what it is, or is      *)
(* older than the row.                                                     *)
(***************************************************************************)
Shape(t) ==
  /\ t \in Task
  /\ t.place \in {"cache", "announce"} => t.state.sequence = t.delivery.event.sequence
  /\ t.place = "cache" => t.state.sequence < row.sequence \/ t.state = row
  /\ t.received <= now

TasksOK ==
  /\ task \in [Processes -> [Slots -> Task]]
  /\ \A p \in Processes, s \in Slots : Shape(task[p][s])

\* A coroutine works on an operational event.
HandlersOK ==
  \A p \in Processes, s \in Handlers :
    task[p][s].place # "idle" => task[p][s].delivery.event.type = "status"

\* The cache never leads the row, and is the row when their numbers agree.
CacheOK ==
  /\ cache.sequence < row.sequence \/ cache = row
  /\ row.sequence = 0 => row = NoCache

ClockOK == lastSeen <= now /\ live <= now

\* While the only callback holds an event, last_seen_at stays as it was at its
\* receipt or before.
ReceiptOK ==
  Serial => \A p \in Processes :
    /\ task[p]["orphan"].place = "idle"
    /\ task[p]["consumer"].place = "save" => lastSeen <= task[p]["consumer"].received

(***************************************************************************)
(* The inductive invariant.                                                *)
(***************************************************************************)
Inv ==
  /\ TypeOK /\ TasksOK /\ HandlersOK /\ CacheOK /\ ClockOK
  /\ ReceiptOK /\ OfflineCoversHeartbeats /\ CacheCatchesUp

\* The initial states satisfy the invariant.
LEMMA InitInv == Init => Inv
<1> SUFFICES ASSUME Init PROVE Inv
  OBVIOUS
<1>1. Idle \in Task /\ Idle.place = "idle" /\ Idle.received = 0
  BY DEF Idle, Task, Delivery, Event, NoEvent, State, NoCache, Connections, Operations
<1>2. TasksOK /\ HandlersOK
  BY <1>1 DEF Init, TasksOK, HandlersOK, Shape, Slots
<1>3. TypeOK
  BY <1>1 DEF Init, TypeOK, State, NoCache, Connections, Operations
<1>4. CacheOK /\ ClockOK /\ ReceiptOK /\ OfflineCoversHeartbeats /\ CacheCatchesUp
  BY <1>1 DEF Init, CacheOK, ClockOK, ReceiptOK, OfflineCoversHeartbeats, CacheCatchesUp, Slots
<1> QED
  BY <1>2, <1>3, <1>4 DEF Inv

-----------------------------------------------------------------------------
(* What goes wrong is remembered *)

\* A step adds at most one disturbance to the list of them.
LEMMA FaultFacts ==
  ASSUME TypeOK, Smooth \/ \E k : Fault(k)
  PROVE  /\ faults' \in Seq(Disturbances) /\ Len(faults') <= MaxFaults
         /\ ToSet(faults) \subseteq ToSet(faults')
<1>1. CASE Smooth
  BY <1>1 DEF Smooth, TypeOK
<1>2. CASE \E k : Fault(k)
  <2>1. PICK k \in Disturbances : Len(faults) < MaxFaults /\ faults' = Append(faults, k)
    BY <1>2 DEF Fault
  <2>2. /\ faults' \in Seq(Disturbances) /\ Len(faults') = Len(faults) + 1
        /\ \A i \in 1..Len(faults) : faults'[i] = faults[i]
    BY <2>1 DEF TypeOK
  <2>3. DOMAIN faults = 1..Len(faults) /\ DOMAIN faults' = 1..Len(faults')
    BY <2>2 DEF TypeOK
  <2>4. Len(faults) \in Nat /\ Len(faults') <= MaxFaults
    BY <2>1, <2>2 DEF TypeOK
  <2> QED
    BY <2>2, <2>3, <2>4 DEF ToSet
<1> QED
  BY <1>1, <1>2

\* A disturbance that has happened is never forgotten.
LEMMA FaultRemembered ==
  ASSUME TypeOK, NEW k, Fault(k), NEW kinds, k \in kinds
  PROVE  ~Without(kinds)'
<1>1. k \in Disturbances /\ faults' = Append(faults, k)
  BY DEF Fault
<1>2. faults'[Len(faults) + 1] = k /\ Len(faults) + 1 \in DOMAIN faults'
  BY <1>1 DEF TypeOK
<1> QED
  BY <1>2 DEF Without, ToSet

\* What has not happened after a step had not happened before it.
LEMMA WithoutStays ==
  ASSUME ToSet(faults) \subseteq ToSet(faults')
  PROVE  /\ \A kinds : Without(kinds)' => Without(kinds)
         /\ Serial' => Serial
BY DEF Without, Serial

-----------------------------------------------------------------------------
(* One slot moves on *)

\* A slot keeps its shape while the clock and the row advance.
LEMMA ShapeStays ==
  ASSUME NEW t, Shape(t), TypeOK, now \in Nat, now' \in Nat, now <= now',
         row' \in State, row' = row \/ row.sequence < row'.sequence
  PROVE  Shape(t)'
<1>1. t.state \in State /\ t.received \in Nat
  BY DEF Shape, Task
<1>2. t.state.sequence \in Nat /\ row.sequence \in Nat /\ row'.sequence \in Nat
  BY <1>1 DEF State, TypeOK
<1> QED
  BY <1>1, <1>2 DEF Shape

\* The slot that takes a step is in shape, and so are all others.
LEMMA SlotMoves ==
  ASSUME TypeOK, TasksOK, NEW p \in Processes, NEW s \in Slots, NEW t, Goto(p, s, t), Shape(t)',
         now' = now, row' \in State, row' = row \/ row.sequence < row'.sequence
  PROVE  /\ TasksOK' /\ task' \in [Processes -> [Slots -> Task]]
         /\ task'[p][s] = t
         /\ \A q \in Processes, u \in Slots : q # p \/ u # s => task'[q][u] = task[q][u]
<1>1. t \in Task
  BY DEF Shape
<1>2. task \in [Processes -> [Slots -> Task]] /\ task' = [task EXCEPT ![p][s] = t]
  BY DEF TasksOK, Goto
<1>3. task' \in [Processes -> [Slots -> Task]]
  BY <1>1, <1>2
<1>4. task'[p][s] = t
  BY <1>2
<1>5. \A q \in Processes, u \in Slots : q # p \/ u # s => task'[q][u] = task[q][u]
  BY <1>2
<1>6. ASSUME NEW q \in Processes, NEW u \in Slots PROVE Shape(task[q][u])'
  <2>1. PICK x : x = task'[q][u]
    OBVIOUS
  <2>2. now \in Nat
    BY DEF TypeOK
  <2>3. Shape(x)'
    <3>1. CASE q = p /\ u = s
      BY <1>4, <2>1, <3>1
    <3>2. CASE q # p \/ u # s
      BY <1>5, <2>1, <2>2, <3>2, ShapeStays DEF TasksOK
    <3> QED
      BY <3>1, <3>2
  <2> QED
    BY <2>1, <2>3 DEF Shape
<1> QED
  BY <1>3, <1>4, <1>5, <1>6 DEF TasksOK

-----------------------------------------------------------------------------
(* The robot, the transports and the surroundings: no slot moves *)

\* What a step leaves to the slots keeps its shape.
LEMMA SlotsRest ==
  ASSUME Inv, TypeOK', UNCHANGED <<row, task, lastSeen>>, now <= now',
         ToSet(faults) \subseteq ToSet(faults')
  PROVE  TasksOK' /\ HandlersOK' /\ ReceiptOK'
<1>1. now \in Nat /\ now' \in Nat
  BY DEF Inv, TypeOK
<1>2. TasksOK'
  <2>1. ASSUME NEW p \in Processes, NEW s \in Slots PROVE Shape(task[p][s])'
    <3>1. PICK x : x = task[p][s] /\ Shape(x)
      BY DEF Inv, TasksOK
    <3>2. Shape(x)'
      BY <1>1, <3>1, ShapeStays DEF Inv, TypeOK
    <3> QED
      BY <3>1, <3>2 DEF Shape
  <2> QED
    BY <2>1 DEF Inv, TasksOK
<1>3. HandlersOK' /\ ReceiptOK'
  BY WithoutStays DEF Inv, HandlersOK, ReceiptOK
<1> QED
  BY <1>2, <1>3

\* The robot sends and messages travel; the row, the cache and the clock stay.
LEMMA TrafficStep ==
  ASSUME Inv,
         \/ SendConnection \/ SendStatus \/ SendHeartbeat
         \/ \E m \in inbox : Route(m)
  PROVE  Inv'
<1>1. UNCHANGED <<stored, redis, now, task>>
  BY DEF SendConnection, SendStatus, Send, SendHeartbeat, Route
<1>2. Smooth \/ \E k : Fault(k)
  BY DEF SendConnection, SendStatus, Send, SendHeartbeat, Route, Take, Smooth
<1>3. /\ faults' \in Seq(Disturbances) /\ Len(faults') <= MaxFaults
      /\ ToSet(faults) \subseteq ToSet(faults')
  BY <1>2, FaultFacts DEF Inv
<1>4. TypeOK'
  <2>1. CASE SendConnection \/ SendStatus
    <3>1. PICK e \in Event : Send(e)
      <4>1. Len(sent) + 1 \in 1..MaxSequence
        BY <2>1 DEF Inv, TypeOK, SendConnection, SendStatus
      <4> QED
        BY <2>1, <4>1 DEF SendConnection, SendStatus, Event
    <3> QED
      BY <1>1, <1>3, <3>1 DEF Send, Inv, TypeOK, stored, redis
  <2>2. CASE SendHeartbeat
    <3>1. [type |-> "heartbeat", id |-> beats + 1] \in Heartbeat /\ beats + 1 \in 0..MaxHeartbeats
      BY <2>2 DEF Inv, TypeOK, SendHeartbeat, Heartbeat
    <3> QED
      BY <1>1, <1>3, <2>2, <3>1 DEF SendHeartbeat, Inv, TypeOK, stored, redis
  <2>3. ASSUME NEW m \in inbox, Route(m) PROVE TypeOK'
    <3>1. m \in Event
      BY <2>3 DEF Route, Inv, TypeOK, Heartbeat
    <3>2. [event |-> m, retries |-> 0] \in Delivery
      BY <3>1 DEF Delivery
    <3>3. queue' \subseteq Delivery /\ inbox' \subseteq Event \cup Heartbeat
      BY <2>3, <3>2 DEF Route, Take, Inv, TypeOK
    <3>4. UNCHANGED <<sent, beats, announced>>
      BY <2>3 DEF Route, robot
    <3> QED
      BY <1>1, <1>3, <3>3, <3>4 DEF Inv, TypeOK, stored, redis
  <2> QED
    BY <2>1, <2>2, <2>3
<1>5. TasksOK' /\ HandlersOK' /\ ReceiptOK'
  BY <1>1, <1>3, <1>4, SlotsRest DEF stored, Inv, TypeOK
<1>6. CacheOK' /\ ClockOK'
  BY <1>1 DEF stored, redis, Inv, CacheOK, ClockOK
<1>7. OfflineCoversHeartbeats' /\ CacheCatchesUp'
  BY <1>1, <1>3, WithoutStays DEF stored, redis, Inv, OfflineCoversHeartbeats, CacheCatchesUp
<1> QED
  BY <1>4, <1>5, <1>6, <1>7 DEF Inv

\* A heartbeat is recorded while the robot is online only.
LEMMA HeartbeatStep ==
  ASSUME Inv, NEW m \in inbox, RefreshLastSeen(m)
  PROVE  Inv'
<1>1. /\ UNCHANGED <<stored, cache, now, robot, queue, task, announced>>
      /\ live' \in {live, now} /\ (row.connection # "ONLINE" => live' = live)
      /\ inbox' \subseteq inbox
  BY DEF RefreshLastSeen, Refreshable, Take
<1>2. Smooth \/ \E k : Fault(k)
  BY DEF RefreshLastSeen, Take, Smooth
<1>3. /\ faults' \in Seq(Disturbances) /\ Len(faults') <= MaxFaults
      /\ ToSet(faults) \subseteq ToSet(faults')
  BY <1>2, FaultFacts DEF Inv
<1>4. TypeOK'
  BY <1>1, <1>3 DEF Inv, TypeOK, stored, robot
<1>5. TasksOK' /\ HandlersOK' /\ ReceiptOK'
  BY <1>1, <1>3, <1>4, SlotsRest DEF stored, Inv, TypeOK
<1>6. CacheOK' /\ ClockOK'
  BY <1>1 DEF stored, Inv, TypeOK, CacheOK, ClockOK
<1>7. OfflineCoversHeartbeats' /\ CacheCatchesUp'
  BY <1>1, <1>3, WithoutStays DEF stored, Inv, OfflineCoversHeartbeats, CacheCatchesUp
<1> QED
  BY <1>4, <1>5, <1>6, <1>7 DEF Inv

\* The clock, the expiry of keys, the loss of Redis, the deletion of the robot.
LEMMA SurroundingsStep ==
  ASSUME Inv, Tick \/ ExpireLastSeen \/ LoseRedis \/ DeleteRobot
  PROVE  Inv'
<1>1. UNCHANGED <<row, lastSeen, history, robot, transport, task, announced>>
  BY DEF Tick, ExpireLastSeen, LoseRedis, DeleteRobot, stored
<1>2. Smooth \/ \E k : Fault(k)
  BY DEF Tick, ExpireLastSeen, LoseRedis, DeleteRobot, Smooth
<1>3. /\ faults' \in Seq(Disturbances) /\ Len(faults') <= MaxFaults
      /\ ToSet(faults) \subseteq ToSet(faults')
  BY <1>2, FaultFacts DEF Inv
<1>4. now \in 1..MaxTime /\ now' \in {now, now + 1} /\ now' \in 1..MaxTime /\ {live, lastSeen} \subseteq Nat
  <2>1. now \in 1..MaxTime /\ {live, lastSeen} \subseteq 0..MaxTime
    BY DEF Inv, TypeOK
  <2>2. now' = now \/ (now' = now + 1 /\ now < MaxTime)
    BY DEF Tick, ExpireLastSeen, LoseRedis, DeleteRobot
  <2> QED
    BY <2>1, <2>2
<1>5. cache' = cache \/ (cache' = NoCache /\ Fault("redis loss"))
  BY DEF Tick, ExpireLastSeen, LoseRedis, DeleteRobot, redis
<1>6. live' = live \/ live' = 0
  BY DEF Tick, ExpireLastSeen, LoseRedis, DeleteRobot, redis
<1>7. registered' \in BOOLEAN
  <2>1. CASE Tick \/ ExpireLastSeen \/ LoseRedis
    BY <2>1 DEF Tick, ExpireLastSeen, LoseRedis, Inv, TypeOK, stored
  <2>2. CASE DeleteRobot
    BY <2>2 DEF DeleteRobot
  <2> QED
    BY <2>1, <2>2
<1>8. registered' => registered
  BY DEF Tick, ExpireLastSeen, LoseRedis, DeleteRobot, stored
<1>9. NoCache \in State /\ NoCache.sequence = 0
  BY DEF NoCache, State, Connections, Operations
<1>10. TypeOK'
  <2>1. /\ {row, cache} \subseteq State /\ {lastSeen, live} \subseteq 0..MaxTime
        /\ sent \in Seq(Event) /\ beats \in 0..MaxHeartbeats
        /\ inbox \subseteq Event \cup Heartbeat /\ queue \subseteq Delivery
        /\ task \in [Processes -> [Slots -> Task]]
        /\ history \in Seq(State) /\ announced \in Seq(1..MaxSequence)
    BY DEF Inv, TypeOK
  <2>2. {row', cache'} \subseteq State
    BY <1>1, <1>5, <1>9, <2>1
  <2>3. {lastSeen', live'} \subseteq 0..MaxTime
    BY <1>1, <1>6, <2>1
  <2> QED
    BY <1>1, <1>3, <1>4, <1>7, <2>1, <2>2, <2>3 DEF TypeOK, robot, transport
<1>11. TasksOK' /\ HandlersOK' /\ ReceiptOK'
  <2>1. now <= now'
    BY <1>4
  <2> QED
    BY <1>1, <1>3, <1>10, <2>1, SlotsRest
<1>12. CacheOK' /\ ClockOK'
  <2>1. row.sequence \in Nat
    BY DEF Inv, TypeOK, State
  <2>2. CacheOK /\ ClockOK
    BY DEF Inv
  <2>3. NoCache.sequence < row.sequence \/ NoCache = row
    BY <1>9, <2>1, <2>2 DEF CacheOK
  <2>4. CacheOK'
    BY <1>1, <1>5, <2>2, <2>3 DEF CacheOK
  <2>5. ClockOK'
    BY <1>1, <1>4, <1>6, <2>2 DEF ClockOK
  <2> QED
    BY <2>4, <2>5
<1>13. OfflineCoversHeartbeats'
  <2>1. (live <= lastSeen => live' <= lastSeen') /\ row' = row
    BY <1>1, <1>4, <1>6
  <2>2. Without({"redis read"})' => Without({"redis read"})
    BY <1>3, WithoutStays
  <2> QED
    BY <1>8, <2>1, <2>2, Zenon DEF Inv, OfflineCoversHeartbeats
<1>14. CacheCatchesUp'
  <2>1. Fault("redis loss") => ~Without({"redis write", "redis loss", "crash"})'
    BY FaultRemembered DEF Inv
  <2>2. Without({"redis write", "redis loss", "crash"})' => Without({"redis write", "redis loss", "crash"})
    BY <1>3, WithoutStays
  <2>3. SUFFICES ASSUME registered', Without({"redis write", "redis loss", "crash"})', cache' # row'
                 PROVE  \E p \in Processes, s \in Slots : task'[p][s].place = "cache" /\ task'[p][s].state = row'
    BY DEF CacheCatchesUp, Without
  <2>4. registered /\ Without({"redis write", "redis loss", "crash"}) /\ cache # row
    BY <1>1, <1>5, <1>8, <2>1, <2>2, <2>3, Zenon
  <2> QED
    BY <1>1, <2>4 DEF Inv, CacheCatchesUp
<1> QED
  BY <1>10, <1>11, <1>12, <1>13, <1>14 DEF Inv

-----------------------------------------------------------------------------
(* Steps of a slot outside the two transactions *)

\* What a slot turns to: a coroutine keeps to operational events, a callback has
\* received its event no earlier than last_seen_at, and one that outlived its
\* channel was at work already.
Fits(p, s, t) ==
  /\ s \in Handlers /\ t.place # "idle" => t.delivery.event.type = "status"
  /\ s = "orphan" => task[p][s].place # "idle"
  /\ s = "consumer" /\ t.place = "save" => lastSeen' <= t.received

\* A slot in shape keeps the promises HandlersOK and ReceiptOK make of all.
LEMMA SlotPromises ==
  ASSUME Inv, NEW p \in Processes, NEW s \in Slots, NEW t, Fits(p, s, t),
         ToSet(faults) \subseteq ToSet(faults'), lastSeen' \in Nat,
         Serial /\ task[p]["orphan"].place = "idle" => lastSeen' <= lastSeen \/ s = "consumer",
         task'[p][s] = t,
         \A q \in Processes, u \in Slots : q # p \/ u # s => task'[q][u] = task[q][u]
  PROVE  HandlersOK' /\ ReceiptOK'
<1>1. HandlersOK'
  BY DEF Inv, HandlersOK, Fits, Slots
<1>2. ReceiptOK'
  <2> SUFFICES ASSUME Serial', NEW q \in Processes
               PROVE  /\ task'[q]["orphan"].place = "idle"
                      /\ task'[q]["consumer"].place = "save" => lastSeen' <= task'[q]["consumer"].received
    BY DEF ReceiptOK, Serial, Without
  <2>1. Serial /\ q = p
    BY WithoutStays DEF Serial
  <2>2. /\ task[p]["orphan"].place = "idle"
        /\ task[p]["consumer"].place = "save" => lastSeen <= task[p]["consumer"].received
    BY <2>1 DEF Inv, ReceiptOK
  <2>3. s # "orphan" /\ {"orphan", "consumer"} \subseteq Slots
    BY <2>2 DEF Fits, Slots
  <2>4. CASE s = "consumer"
    BY <2>1, <2>2, <2>3, <2>4 DEF Fits
  <2>5. CASE s # "consumer"
    <3>1. task'[p]["orphan"] = task[p]["orphan"] /\ task'[p]["consumer"] = task[p]["consumer"]
      BY <2>3, <2>5
    <3>2. task[p]["consumer"].received \in Nat /\ lastSeen \in Nat
      BY <2>3 DEF Inv, TypeOK, Task
    <3>3. lastSeen' <= lastSeen /\ lastSeen' \in Nat
      BY <2>1, <2>2, <2>5
    <3> QED
      BY <2>1, <2>2, <3>1, <3>2, <3>3
  <2> QED
    BY <2>4, <2>5
<1> QED
  BY <1>1, <1>2

\* A step of one slot that writes neither the row nor Redis.
LEMMA QuietSlot ==
  ASSUME Inv, UNCHANGED <<stored, redis, now, robot>>, Smooth \/ \E k : Fault(k),
         inbox' \subseteq Event \cup Heartbeat, queue' \subseteq Delivery,
         announced' \in Seq(1..MaxSequence),
         NEW p \in Processes, NEW s \in Slots, NEW t, Goto(p, s, t), Shape(t), Fits(p, s, t),
         task[p][s].place # "cache"
  PROVE  Inv'
<1>1. /\ faults' \in Seq(Disturbances) /\ Len(faults') <= MaxFaults
      /\ ToSet(faults) \subseteq ToSet(faults')
  BY FaultFacts DEF Inv
<1>2. now' = now /\ now \in Nat /\ row' = row /\ row' \in State
  BY DEF Inv, TypeOK, stored
<1>3. Shape(t)'
  BY <1>2, ShapeStays DEF Inv
<1>4. /\ TasksOK' /\ task' \in [Processes -> [Slots -> Task]]
      /\ task'[p][s] = t
      /\ \A q \in Processes, u \in Slots : q # p \/ u # s => task'[q][u] = task[q][u]
  BY <1>2, <1>3, SlotMoves DEF Inv
<1>5. TypeOK'
  BY <1>1, <1>4 DEF Inv, TypeOK, stored, redis, robot
<1>6. lastSeen' <= lastSeen /\ lastSeen' \in Nat
  BY DEF Inv, TypeOK, stored
<1>7. HandlersOK' /\ ReceiptOK'
  BY <1>1, <1>4, <1>6, SlotPromises
<1>8. CacheOK' /\ ClockOK'
  BY DEF Inv, CacheOK, ClockOK, stored, redis
<1>9. OfflineCoversHeartbeats'
  BY <1>1, WithoutStays DEF Inv, OfflineCoversHeartbeats, stored, redis
<1>10. CacheCatchesUp'
  BY <1>1, <1>4, WithoutStays DEF Inv, CacheCatchesUp, stored, redis
<1> QED
  BY <1>4, <1>5, <1>7, <1>8, <1>9, <1>10 DEF Inv

\* An idle slot is in shape.
LEMMA IdleShape == TypeOK => Shape(Idle) /\ Idle.place = "idle"
BY DEF TypeOK, Shape, Idle, Task, Delivery, Event, NoEvent, State, NoCache, Connections, Operations

\* What the invariant says of one slot.
LEMMA SlotFacts ==
  ASSUME Inv, NEW p \in Processes, NEW s \in Slots
  PROVE  /\ task[p][s] \in Task /\ Shape(task[p][s])
         /\ s \in Handlers /\ task[p][s].place # "idle" => task[p][s].delivery.event.type = "status"
         /\ now \in 0..MaxTime
BY DEF Inv, TypeOK, TasksOK, HandlersOK, Slots

\* A slot receives a delivery.
LEMMA ReceiveStep ==
  ASSUME Inv, NEW p \in Processes, NEW s \in Slots, NEW d \in Delivery, Receive(p, s, d),
         s \in Handlers => d.event.type = "status", s # "orphan",
         UNCHANGED <<stored, redis, now, robot, queue, announced>>,
         Smooth \/ \E k : Fault(k), inbox' \subseteq inbox
  PROVE  Inv'
<1>1. PICK t : t = [Idle EXCEPT !.place = "save", !.delivery = d, !.received = now]
  OBVIOUS
<1>2. t = [place |-> "save", delivery |-> d, received |-> now, state |-> NoCache, changed |-> FALSE]
  BY <1>1 DEF Idle
<1>3. Goto(p, s, t) /\ task[p][s].place = "idle"
  BY <1>1 DEF Receive
<1>4. NoCache \in State
  BY DEF NoCache, State, Connections, Operations
<1>5. now \in 0..MaxTime /\ lastSeen \in Nat
  BY DEF Inv, TypeOK
<1>6. t \in Task
  BY <1>2, <1>4, <1>5 DEF Task
<1>7. Shape(t)
  BY <1>2, <1>5, <1>6 DEF Shape
<1>8. Fits(p, s, t)
  BY <1>2 DEF Fits, Inv, ClockOK, stored
<1>9. /\ inbox' \subseteq Event \cup Heartbeat /\ queue' \subseteq Delivery
      /\ announced' \in Seq(1..MaxSequence)
  BY DEF Inv, TypeOK
<1> QED
  BY <1>3, <1>7, <1>8, <1>9, QuietSlot

\* A delivery reaches the callback, or an operational event its coroutine.
LEMMA DeliverStep ==
  ASSUME Inv, NEW p \in Processes,
         \/ \E d \in queue : Consume(p, d)
         \/ \E s \in Slots, e \in inbox : Handle(p, s, e)
  PROVE  Inv'
<1>1. ASSUME NEW d \in queue, Consume(p, d) PROVE Inv'
  <2>1. d \in Delivery /\ "consumer" \in Slots /\ "consumer" \notin Handlers
    BY DEF Inv, TypeOK, Slots
  <2> QED
    BY <1>1, <2>1, ReceiveStep DEF Consume, transport, Smooth
<1>2. ASSUME NEW s \in Slots, NEW e \in inbox, Handle(p, s, e) PROVE Inv'
  <2>1. e \in Event /\ s \in Handlers /\ s # "orphan"
    BY <1>2 DEF Handle, Inv, TypeOK, Heartbeat
  <2>2. PICK d : d = [event |-> e, retries |-> 0]
    OBVIOUS
  <2>3. d \in Delivery /\ d.event.type = "status"
    BY <1>2, <2>1, <2>2 DEF Delivery, Handle
  <2>4. inbox' \subseteq inbox /\ (Smooth \/ \E k : Fault(k))
    BY <1>2 DEF Handle, Take
  <2> QED
    BY <1>2, <2>1, <2>2, <2>3, <2>4, ReceiveStep DEF Handle
<1> QED
  BY <1>1, <1>2

\* A slot that only moves to its next place.
LEMMA NextPlace ==
  ASSUME Inv, NEW p \in Processes, NEW s \in Slots, task[p][s].place \notin {"idle", "cache"}
  PROVE  /\ Shape([task[p][s] EXCEPT !.place = "settle"])
         /\ Fits(p, s, [task[p][s] EXCEPT !.place = "settle"])
<1>1. PICK x \in Task : x = task[p][s] /\ Shape(x)
  BY SlotFacts
<1>2. [x EXCEPT !.place = "settle"] \in Task
  BY DEF Task
<1>3. /\ [x EXCEPT !.place = "settle"].place = "settle"
      /\ [x EXCEPT !.place = "settle"].received = x.received
      /\ [x EXCEPT !.place = "settle"].delivery = x.delivery
  BY DEF Task
<1> QED
  BY <1>1, <1>2, <1>3, SlotFacts DEF Shape, Fits

\* A sequence over a set stays one when an element of the set is added.
LEMMA AppendType ==
  ASSUME NEW S, NEW q \in Seq(S), NEW e \in S
  PROVE  Append(q, e) \in Seq(S)
OBVIOUS

\* Duplicates, broadcasts, settlements and failed transactions change no row.
LEMMA EndingStep ==
  ASSUME Inv, NEW p \in Processes, NEW s \in Slots,
         IgnoreStatus(p, s) \/ Publish(p, s) \/ Settle(p, s) \/ FailSave(p, s)
  PROVE  Inv'
<1>1. UNCHANGED <<stored, redis, now, robot>> /\ (Smooth \/ \E k : Fault(k)) /\ inbox' = inbox
  BY DEF IgnoreStatus, Publish, Settle, FailSave, Smooth, transport
<1>2. task[p][s].place \notin {"idle", "cache"}
  BY DEF IgnoreStatus, Publish, Settle, FailSave
<1>3. task[p][s] \in Task /\ Shape(task[p][s])
  BY SlotFacts
<1>4. inbox' \subseteq Event \cup Heartbeat
  BY <1>1 DEF Inv, TypeOK
<1>5. queue' \subseteq Delivery
  <2>1. queue \subseteq Delivery
    BY DEF Inv, TypeOK
  <2>2. task[p][s].delivery \in Delivery
    BY <1>3 DEF Task
  <2>3. ASSUME NEW d \in Delivery PROVE Retry(d) \subseteq Delivery
    BY DEF Retry, Delivery
  <2>4. PICK d \in Delivery : d = task[p][s].delivery
    BY <2>2
  <2>5. queue' \subseteq queue \cup Retry(d)
    BY <2>4 DEF IgnoreStatus, Publish, Settle, FailSave, transport
  <2> QED
    BY <2>1, <2>3, <2>5
<1>6. announced' \in Seq(1..MaxSequence)
  <2>1. announced \in Seq(1..MaxSequence)
    BY DEF Inv, TypeOK
  <2>2. task[p][s].place = "announce" => task[p][s].state.sequence \in 1..MaxSequence
    BY <1>3 DEF Shape, Task, Delivery, Event
  <2>3. \/ announced' = announced
        \/ task[p][s].place = "announce" /\ announced' = Append(announced, task[p][s].state.sequence)
    BY DEF IgnoreStatus, Publish, Settle, FailSave
  <2>4. PICK n : n = task[p][s].state.sequence
    OBVIOUS
  <2>5. announced' = announced \/ (n \in 1..MaxSequence /\ announced' = Append(announced, n))
    BY <2>2, <2>3, <2>4
  <2>6. \A m \in 1..MaxSequence : Append(announced, m) \in Seq(1..MaxSequence)
    BY <2>1, AppendType
  <2> QED
    BY <2>1, <2>5, <2>6
<1>7. CASE Goto(p, s, Idle)
  <2>1. Shape(Idle) /\ Fits(p, s, Idle)
    BY <1>2, IdleShape DEF Inv, Fits
  <2> QED
    BY <1>1, <1>2, <1>4, <1>5, <1>6, <1>7, <2>1, QuietSlot
<1>8. CASE Goto(p, s, [task[p][s] EXCEPT !.place = "settle"])
  BY <1>1, <1>2, <1>4, <1>5, <1>6, <1>8, NextPlace, QuietSlot
<1> QED
  BY <1>7, <1>8 DEF IgnoreStatus, Publish, Settle, FailSave

-----------------------------------------------------------------------------
(* The first transaction *)

\* The state an accepted event makes is a state and carries its number.
LEMMA NewStateFacts ==
  ASSUME TypeOK, NEW e \in Event
  PROVE  NewState(e) \in State /\ NewState(e).sequence = e.sequence
<1>1. row \in State /\ e.sequence \in 0..MaxSequence
  BY DEF TypeOK, Event
<1>2. Given(e.connection, row.connection) \in Connections /\ Given(e.operation, row.operation) \in Operations
  BY <1>1 DEF Given, Event, State
<1> QED
  BY <1>1, <1>2 DEF NewState, State

\* What SaveStatus stores, in terms of the task x it found.
LEMMA SaveFacts ==
  ASSUME Inv, NEW p \in Processes, NEW s \in Slots, NEW x \in Task, x = task[p][s], SaveStatus(p, s)
  PROVE  /\ Shape(x) /\ x.place = "save" /\ x.delivery.event \in Event
         /\ row' = NewState(x.delivery.event) /\ row' \in State
         /\ row'.sequence = x.delivery.event.sequence /\ row.sequence < row'.sequence
         /\ row.sequence \in Nat /\ row'.sequence \in Nat
         /\ \/ lastSeen' = LastSeenForStatus(row', x.received)
            \/ /\ row'.connection = "OFFLINE" /\ row.connection # "OFFLINE"
               /\ Fault("redis read") /\ lastSeen' = lastSeen
         /\ x.delivery.event.type = "status" => row'.connection = row.connection
<1>1. Shape(x)
  BY SlotFacts
<1>2. x.delivery.event \in Event
  BY DEF Task, Delivery
<1>3. /\ x.place = "save" /\ AcceptStatusEvent(x.delivery.event)
      /\ row' = NewState(x.delivery.event)
      /\ \/ lastSeen' = LastSeenForStatus(NewState(x.delivery.event), x.received)
         \/ /\ NewState(x.delivery.event).connection # row.connection
            /\ NewState(x.delivery.event).connection = "OFFLINE"
            /\ Fault("redis read") /\ lastSeen' = lastSeen
  BY DEF SaveStatus
<1>4. row' \in State /\ row'.sequence = x.delivery.event.sequence
  BY <1>2, <1>3, NewStateFacts DEF Inv
<1>5. row.sequence \in Nat /\ row'.sequence \in Nat
  BY <1>4 DEF Inv, TypeOK, State
<1>6. row.sequence < row'.sequence
  <2>1. ~(x.delivery.event.sequence <= row.sequence)
    BY <1>3 DEF AcceptStatusEvent, DuplicateOrOld
  <2>2. ~(row'.sequence <= row.sequence)
    BY <1>4, <2>1
  <2> QED
    BY <1>5, <2>2
<1>7. x.delivery.event.type = "status" => row'.connection = row.connection
  BY <1>3 DEF AcceptStatusEvent, Applicable, NewState, Given
<1> QED
  BY <1>1, <1>2, <1>3, <1>4, <1>5, <1>6, <1>7

\* The only callback receives no event before last_seen_at.
LEMMA SavedLastSeen ==
  ASSUME Inv, NEW p \in Processes, NEW s \in Slots, SaveStatus(p, s)
  PROVE  /\ lastSeen' \in 0..MaxTime /\ lastSeen' <= now
         /\ Serial => lastSeen <= lastSeen'
         /\ Serial => lastSeen' <= lastSeen \/ s = "consumer"
<1>1. PICK x \in Task : x = task[p][s]
  BY SlotFacts
<1>2. /\ lastSeen \in 0..MaxTime /\ live \in 0..MaxTime /\ x.received \in 0..MaxTime
      /\ now \in Nat /\ lastSeen <= now /\ live <= now /\ x.received <= now
  <2>1. Shape(x)
    BY <1>1, SlotFacts
  <2>2. x.received \in 0..MaxTime /\ x.received <= now
    BY <2>1 DEF Shape, Task
  <2>3. lastSeen \in 0..MaxTime /\ live \in 0..MaxTime /\ now \in 1..MaxTime
    BY DEF Inv, TypeOK
  <2>4. lastSeen <= now /\ live <= now
    BY DEF Inv, ClockOK
  <2> QED
    BY <2>2, <2>3, <2>4
<1>3. \/ lastSeen' = lastSeen
      \/ lastSeen' = live /\ live > lastSeen /\ row'.connection # row.connection
      \/ lastSeen' = x.received /\ row'.connection # row.connection
  BY <1>1, SaveFacts DEF LastSeenForStatus
<1>4. ASSUME Serial, row'.connection # row.connection
      PROVE  s = "consumer" /\ lastSeen <= x.received
  <2>1. x.place = "save" /\ x.delivery.event.type # "status"
    BY <1>1, <1>4, SaveFacts
  <2>2. s \notin Handlers
    BY <1>1, <2>1 DEF Inv, HandlersOK
  <2>3. s # "orphan"
    BY <1>1, <1>4, <2>1 DEF Inv, ReceiptOK
  <2>4. s = "consumer"
    BY <2>2, <2>3 DEF Slots
  <2> QED
    BY <1>1, <1>4, <2>1, <2>4 DEF Inv, ReceiptOK
<1> QED
  BY <1>2, <1>3, <1>4

\* The first transaction keeps the invariant.
LEMMA SaveStep ==
  ASSUME Inv, NEW p \in Processes, NEW s \in Slots, SaveStatus(p, s)
  PROVE  Inv'
<1>1. PICK x \in Task : x = task[p][s]
  BY SlotFacts
<1>2. UNCHANGED <<registered, redis, now, robot, transport, announced>> /\ history' = Append(history, row')
  BY DEF SaveStatus
<1>3. Smooth \/ \E k : Fault(k)
  BY DEF SaveStatus
<1>4. /\ faults' \in Seq(Disturbances) /\ Len(faults') <= MaxFaults
      /\ ToSet(faults) \subseteq ToSet(faults')
  BY <1>3, FaultFacts DEF Inv
<1>5. PICK c \in BOOLEAN : c = (row'.connection # row.connection)
  OBVIOUS
<1>6. PICK t : t = [x EXCEPT !.place = "cache", !.state = row', !.changed = c]
  OBVIOUS
<1>7. Goto(p, s, t)
  BY <1>1, <1>5, <1>6 DEF SaveStatus
<1>8. t \in Task /\ t.place = "cache" /\ t.state = row' /\ t.delivery = x.delivery /\ t.received = x.received
  <2>1. PICK st \in State : st = row'
    BY <1>1, SaveFacts
  <2>2. t = [x EXCEPT !.place = "cache", !.state = st, !.changed = c]
    BY <1>6, <2>1
  <2>3. t \in Task
    BY <2>2 DEF Task
  <2>4. t.place = "cache" /\ t.state = st /\ t.delivery = x.delivery /\ t.received = x.received
    BY <2>2 DEF Task
  <2> QED
    BY <2>1, <2>3, <2>4
<1>9. Shape(t)'
  BY <1>1, <1>2, <1>8, SaveFacts DEF Shape
<1>10. /\ TasksOK' /\ task' \in [Processes -> [Slots -> Task]]
       /\ task'[p][s] = t
       /\ \A q \in Processes, u \in Slots : q # p \/ u # s => task'[q][u] = task[q][u]
  BY <1>1, <1>2, <1>7, <1>9, SaveFacts, SlotMoves DEF Inv
<1>11. TypeOK'
  <2>1. history' \in Seq(State)
    BY <1>1, <1>2, SaveFacts, AppendType DEF Inv, TypeOK
  <2>2. row' \in State /\ lastSeen' \in 0..MaxTime
    BY <1>1, SaveFacts, SavedLastSeen
  <2> QED
    BY <1>2, <1>4, <1>10, <2>1, <2>2 DEF Inv, TypeOK, redis, robot, transport
<1>12. HandlersOK' /\ ReceiptOK'
  <2>1. Fits(p, s, t)
    <3>1. x.place = "save"
      BY <1>1, SaveFacts
    <3>2. s \in Handlers => x.delivery.event.type = "status"
      BY <1>1, <3>1 DEF Inv, HandlersOK
    <3> QED
      BY <1>1, <1>8, <3>1, <3>2 DEF Fits
  <2>2. lastSeen' \in Nat /\ (Serial => lastSeen' <= lastSeen \/ s = "consumer")
    BY SavedLastSeen
  <2> QED
    BY <1>4, <1>10, <2>1, <2>2, SlotPromises
<1>13. CacheOK'
  <2>1. cache.sequence \in Nat /\ (cache.sequence < row.sequence \/ cache = row)
    BY DEF Inv, TypeOK, State, CacheOK
  <2>2. row.sequence < row'.sequence /\ row.sequence \in Nat /\ row'.sequence \in Nat
    BY <1>1, SaveFacts
  <2>3. cache' = cache
    BY <1>2 DEF redis
  <2>4. cache.sequence < row'.sequence /\ row'.sequence # 0
    BY <2>1, <2>2
  <2> QED
    BY <2>3, <2>4 DEF CacheOK
<1>14. ClockOK'
  BY <1>2, SavedLastSeen DEF Inv, ClockOK, redis
<1>15. OfflineCoversHeartbeats'
  <2>1. live \in Nat /\ lastSeen \in Nat /\ live' = live
    BY <1>2 DEF Inv, TypeOK, redis
  <2>2. Without({"redis read"})' => Without({"redis read"}) /\ ~Fault("redis read")
    BY <1>4, WithoutStays, FaultRemembered DEF Inv
  <2>3. Without({"redis read"})' => lastSeen' = LastSeenForStatus(row', x.received)
    BY <1>1, <2>2, SaveFacts
  <2>4. registered' => registered
    BY <1>2
  <2>5. row'.connection = row.connection => LastSeenForStatus(row', x.received) = lastSeen
    BY DEF LastSeenForStatus
  <2>6. row'.connection # row.connection /\ row'.connection = "OFFLINE" =>
          LastSeenForStatus(row', x.received) = IF live > lastSeen THEN live ELSE lastSeen
    BY DEF LastSeenForStatus
  <2>7. live <= IF live > lastSeen THEN live ELSE lastSeen
    BY <2>1
  <2> QED
    BY <2>1, <2>2, <2>3, <2>4, <2>5, <2>6, <2>7, Zenon DEF Inv, OfflineCoversHeartbeats
<1>16. CacheCatchesUp'
  BY <1>8, <1>10 DEF CacheCatchesUp
<1> QED
  BY <1>10, <1>11, <1>12, <1>13, <1>14, <1>15, <1>16 DEF Inv

-----------------------------------------------------------------------------
(* The second transaction *)

\* The event whose number the row holds made the row what it is.
LEMMA CurrentIsRow ==
  ASSUME Inv, NEW t, Shape(t), t.place = "cache", Current(t)
  PROVE  t.state = row
<1>1. row.sequence = t.delivery.event.sequence /\ t.state.sequence = t.delivery.event.sequence
  BY DEF Current, Shape
<1>2. row.sequence \in Nat
  BY DEF Inv, TypeOK, State
<1>3. ~(t.state.sequence < row.sequence)
  BY <1>1, <1>2
<1> QED
  BY <1>3 DEF Shape

\* The cache is left alone or gets a copy of the row; freshness starts with an
\* online row only, and the cache is left alone when the event is no longer
\* current, when it shows the row already, or when Redis fails.
LEMMA CacheWrites ==
  ASSUME Inv, NEW p \in Processes, NEW s \in Slots, UpdateCacheIfCurrent(p, s)
  PROVE  /\ cache' = cache \/ cache' = row
         /\ live' \in {live, 0, task[p][s].received}
         /\ row.connection = "OFFLINE" => live' \in {live, 0}
         /\ \/ cache' = row
            \/ ~Current(task[p][s]) /\ cache' = cache
            \/ Fault("redis write") /\ cache' = cache
<1>1. PICK x \in Task : x = task[p][s] /\ Shape(x) /\ x.place = "cache"
  BY SlotFacts DEF UpdateCacheIfCurrent
<1>2. CASE Current(x) /\ UpdateRobotStatusCache(x)
  <2>1. x.state = row
    BY <1>1, <1>2, CurrentIsRow
  <2>2. cache.sequence \in Nat /\ row.sequence \in Nat /\ (cache.sequence < row.sequence \/ cache = row)
    BY DEF Inv, TypeOK, State, CacheOK
  <2>3. CASE cache.sequence >= x.state.sequence
    <3>1. cache = row
      BY <2>1, <2>2, <2>3
    <3>2. cache' = cache /\ live' = live
      BY <1>2, <2>3, Zenon DEF UpdateRobotStatusCache, redis
    <3> QED
      BY <3>1, <3>2
  <2>4. CASE ~(cache.sequence >= x.state.sequence)
    BY <1>1, <1>2, <2>1, <2>4 DEF UpdateRobotStatusCache
  <2> QED
    BY <2>3, <2>4, Zenon
<1>3. CASE ~Current(x) /\ UNCHANGED redis
  BY <1>1, <1>3 DEF redis
<1>4. CASE UNCHANGED redis /\ Fault("redis write")
  BY <1>4 DEF redis
<1> QED
  BY <1>1, <1>2, <1>3, <1>4 DEF UpdateCacheIfCurrent

\* The second transaction keeps the invariant.
LEMMA UpdateStep ==
  ASSUME Inv, NEW p \in Processes, NEW s \in Slots, UpdateCacheIfCurrent(p, s)
  PROVE  Inv'
<1>1. PICK x \in Task : x = task[p][s] /\ Shape(x) /\ x.place = "cache"
  BY SlotFacts DEF UpdateCacheIfCurrent
<1>2. UNCHANGED <<stored, now, robot, transport, announced>> /\ (Smooth \/ \E k : Fault(k))
  BY DEF UpdateCacheIfCurrent
<1>3. /\ faults' \in Seq(Disturbances) /\ Len(faults') <= MaxFaults
      /\ ToSet(faults) \subseteq ToSet(faults')
  BY <1>2, FaultFacts DEF Inv
<1>4. /\ registered' = registered /\ row' = row /\ lastSeen' = lastSeen /\ history' = history
      /\ row \in State /\ now' = now /\ now \in 1..MaxTime
      /\ live \in 0..MaxTime /\ lastSeen \in 0..MaxTime
      /\ x.received \in 0..MaxTime /\ x.received <= now
  BY <1>1, <1>2 DEF stored, Inv, TypeOK, Shape, Task
<1>5. PICK place \in {"announce", "settle"} : Goto(p, s, [x EXCEPT !.place = place])
  BY <1>1 DEF UpdateCacheIfCurrent, AfterCache
<1>6. PICK t : t = [x EXCEPT !.place = place]
  OBVIOUS
<1>7. /\ t \in Task /\ t.place = place /\ t.state = x.state /\ t.delivery = x.delivery
      /\ t.received = x.received
  BY <1>6 DEF Task
<1>8. Shape(t)' /\ Goto(p, s, t)
  BY <1>1, <1>4, <1>5, <1>6, <1>7 DEF Shape
<1>9. /\ TasksOK' /\ task' \in [Processes -> [Slots -> Task]]
      /\ task'[p][s] = t
      /\ \A q \in Processes, u \in Slots : q # p \/ u # s => task'[q][u] = task[q][u]
  BY <1>4, <1>8, SlotMoves DEF Inv
<1>10. cache' \in State /\ live' \in 0..MaxTime /\ live' <= now
  <2>1. cache \in State /\ live <= now
    BY DEF Inv, TypeOK, ClockOK
  <2>2. (cache' = cache \/ cache' = row) /\ live' \in {live, 0, x.received}
    BY <1>1, CacheWrites
  <2> QED
    BY <1>4, <2>1, <2>2
<1>11. TypeOK'
  <2>1. registered' \in BOOLEAN
    BY <1>2 DEF stored, Inv, TypeOK
  <2> QED
    BY <1>2, <1>3, <1>4, <1>9, <1>10, <2>1 DEF Inv, TypeOK, robot, transport
<1>12. HandlersOK' /\ ReceiptOK'
  <2>1. s \in Handlers => x.delivery.event.type = "status"
    BY <1>1 DEF Inv, HandlersOK
  <2>2. Fits(p, s, t)
    BY <1>1, <1>7, <2>1 DEF Fits
  <2>3. lastSeen' \in Nat /\ lastSeen' <= lastSeen
    BY <1>4
  <2> QED
    BY <1>3, <1>9, <2>2, <2>3, SlotPromises
<1>13. CacheOK' /\ ClockOK'
  <2>1. cache' = cache \/ cache' = row
    BY CacheWrites
  <2>2. CacheOK'
    BY <1>4, <2>1 DEF Inv, CacheOK
  <2>3. ClockOK'
    BY <1>4, <1>10 DEF Inv, ClockOK
  <2> QED
    BY <2>2, <2>3
<1>14. OfflineCoversHeartbeats'
  <2>1. Without({"redis read"})' => Without({"redis read"})
    BY <1>3, WithoutStays
  <2>2. row.connection = "OFFLINE" => live' \in {live, 0}
    BY CacheWrites
  <2>3. row'.connection = "OFFLINE" => row.connection = "OFFLINE" /\ (live <= lastSeen => live' <= lastSeen')
    BY <1>4, <2>2
  <2>4. registered' => registered
    BY <1>4
  <2> QED
    BY <2>1, <2>3, <2>4, Zenon DEF Inv, OfflineCoversHeartbeats
<1>15. CacheCatchesUp'
  <2> SUFFICES ASSUME registered', Without({"redis write", "redis loss", "crash"})', cache' # row'
               PROVE  \E q \in Processes, u \in Slots : task'[q][u].place = "cache" /\ task'[q][u].state = row'
    BY DEF CacheCatchesUp, Without
  <2>1. Without({"redis write", "redis loss", "crash"}) /\ ~Fault("redis write")
    BY <1>3, WithoutStays, FaultRemembered DEF Inv
  <2>2. cache' = cache /\ ~Current(x) /\ cache # row
    BY <1>1, <1>4, <2>1, CacheWrites
  <2>3. registered
    BY <1>4
  <2>4. PICK q \in Processes, u \in Slots : task[q][u].place = "cache" /\ task[q][u].state = row
    BY <2>1, <2>2, <2>3 DEF Inv, CacheCatchesUp
  <2>5. q # p \/ u # s
    BY <1>1, <2>2, <2>3, <2>4 DEF Current, Shape
  <2> QED
    BY <1>4, <1>9, <2>4, <2>5
<1> QED
  BY <1>9, <1>11, <1>12, <1>13, <1>14, <1>15 DEF Inv

-----------------------------------------------------------------------------
(* A process dies, or a callback outlives its channel *)

\* A process dies and its slots are idle.
LEMMA CrashStep ==
  ASSUME Inv, NEW p \in Processes, Crash(p)
  PROVE  Inv'
<1>1. UNCHANGED <<stored, redis, now, robot, transport, announced>> /\ Fault("crash")
  BY DEF Crash
<1>2. /\ faults' \in Seq(Disturbances) /\ Len(faults') <= MaxFaults
      /\ ToSet(faults) \subseteq ToSet(faults')
  BY <1>1, FaultFacts DEF Inv
<1>3. Shape(Idle) /\ Idle.place = "idle" /\ Idle \in Task
  BY IdleShape DEF Inv, Shape
<1>4. /\ task' \in [Processes -> [Slots -> Task]]
      /\ \A q \in Processes, s \in Slots : task'[q][s] = task[q][s] \/ task'[q][s] = Idle
  BY <1>3 DEF Crash, Inv, TypeOK
<1>5. TypeOK'
  BY <1>1, <1>2, <1>4 DEF Inv, TypeOK, stored, redis, robot, transport
<1>6. TasksOK'
  <2>1. ASSUME NEW q \in Processes, NEW s \in Slots PROVE Shape(task[q][s])'
    <3>1. PICK x : x = task'[q][s] /\ Shape(x)
      BY <1>3, <1>4 DEF Inv, TasksOK
    <3>2. now \in Nat /\ now' = now /\ row' = row /\ row \in State
      BY <1>1 DEF Inv, TypeOK, stored
    <3>3. now' \in Nat /\ now <= now' /\ row' \in State
      BY <3>2
    <3>4. Shape(x)'
      BY <3>1, <3>2, <3>3, ShapeStays DEF Inv
    <3> QED
      BY <3>1, <3>4 DEF Shape
  <2> QED
    BY <1>4, <2>1 DEF TasksOK
<1>7. HandlersOK' /\ ReceiptOK'
  <2>1. {"orphan", "consumer"} \subseteq Slots /\ Handlers \subseteq Slots
    BY DEF Slots
  <2>2. HandlersOK'
    BY <1>3, <1>4, <2>1 DEF Inv, HandlersOK
  <2>3. ReceiptOK'
    BY <1>1, <1>2, <1>3, <1>4, <2>1, WithoutStays DEF Inv, ReceiptOK, stored
  <2> QED
    BY <2>2, <2>3
<1>8. CacheOK' /\ ClockOK'
  BY <1>1 DEF Inv, CacheOK, ClockOK, stored, redis
<1>9. OfflineCoversHeartbeats'
  BY <1>1, <1>2, WithoutStays DEF Inv, OfflineCoversHeartbeats, stored, redis
<1>10. CacheCatchesUp'
  BY <1>1, FaultRemembered DEF Inv, CacheCatchesUp
<1> QED
  BY <1>5, <1>6, <1>7, <1>8, <1>9, <1>10 DEF Inv

\* The callback of a replaced channel goes on beside its successor.
LEMMA ReconnectStep ==
  ASSUME Inv, NEW p \in Processes, Reconnect(p)
  PROVE  Inv'
<1>1. UNCHANGED <<stored, redis, now, robot, transport, announced>> /\ Fault("reconnect")
  BY DEF Reconnect
<1>2. /\ faults' \in Seq(Disturbances) /\ Len(faults') <= MaxFaults
      /\ ToSet(faults) \subseteq ToSet(faults')
  BY <1>1, FaultFacts DEF Inv
<1>3. Shape(Idle) /\ Idle.place = "idle" /\ Idle \in Task
  BY IdleShape DEF Inv, Shape
<1>4. {"orphan", "consumer"} \subseteq Slots /\ Handlers \subseteq Slots \ {"orphan", "consumer"}
  BY DEF Slots
<1>5. /\ task' \in [Processes -> [Slots -> Task]]
      /\ task'[p]["orphan"] = task[p]["consumer"] /\ task'[p]["consumer"] = Idle
      /\ \A q \in Processes, s \in Slots :
           q # p \/ s \notin {"orphan", "consumer"} => task'[q][s] = task[q][s]
  BY <1>3, <1>4 DEF Reconnect, Inv, TypeOK
<1>6. TypeOK'
  BY <1>1, <1>2, <1>5 DEF Inv, TypeOK, stored, redis, robot, transport
<1>7. TasksOK'
  <2>1. ASSUME NEW q \in Processes, NEW s \in Slots PROVE Shape(task[q][s])'
    <3>1. PICK x : x = task'[q][s] /\ Shape(x)
      BY <1>3, <1>4, <1>5 DEF Inv, TasksOK
    <3>2. now \in Nat /\ now' = now /\ row' = row /\ row \in State
      BY <1>1 DEF Inv, TypeOK, stored
    <3>3. now' \in Nat /\ now <= now' /\ row' \in State
      BY <3>2
    <3>4. Shape(x)'
      BY <3>1, <3>2, <3>3, ShapeStays DEF Inv
    <3> QED
      BY <3>1, <3>4 DEF Shape
  <2> QED
    BY <1>5, <2>1 DEF TasksOK
<1>8. HandlersOK'
  BY <1>4, <1>5 DEF Inv, HandlersOK
<1>9. ReceiptOK'
  BY <1>1, FaultRemembered DEF Inv, ReceiptOK, Serial
<1>10. CacheOK' /\ ClockOK'
  BY <1>1 DEF Inv, CacheOK, ClockOK, stored, redis
<1>11. OfflineCoversHeartbeats'
  BY <1>1, <1>2, WithoutStays DEF Inv, OfflineCoversHeartbeats, stored, redis
<1>12. CacheCatchesUp'
  <2> SUFFICES ASSUME registered, Without({"redis write", "redis loss", "crash"}), cache # row
               PROVE  \E q \in Processes, u \in Slots : task'[q][u].place = "cache" /\ task'[q][u].state = row
    BY <1>1, <1>2, WithoutStays DEF CacheCatchesUp, stored, redis
  <2>1. PICK q \in Processes, u \in Slots : task[q][u].place = "cache" /\ task[q][u].state = row
    BY DEF Inv, CacheCatchesUp
  <2>2. task[p]["orphan"].place = "idle"
    BY DEF Reconnect
  <2>3. CASE q = p /\ u = "consumer"
    BY <1>4, <1>5, <2>1, <2>3
  <2>4. CASE q # p \/ u # "consumer"
    BY <1>5, <2>1, <2>2, <2>4
  <2> QED
    BY <2>3, <2>4
<1> QED
  BY <1>6, <1>7, <1>8, <1>9, <1>10, <1>11, <1>12 DEF Inv

-----------------------------------------------------------------------------
(* The theorems *)

\* Every step keeps the invariant.
LEMMA StepInv == Inv /\ [Next]_vars => Inv'
<1> SUFFICES ASSUME Inv, [Next]_vars PROVE Inv'
  OBVIOUS
<1>1. CASE SendConnection \/ SendStatus \/ SendHeartbeat
  BY <1>1, TrafficStep
<1>2. ASSUME NEW m \in inbox, Route(m) \/ RefreshLastSeen(m) PROVE Inv'
  BY <1>2, TrafficStep, HeartbeatStep
<1>3. ASSUME NEW p \in Processes, NEW d \in queue, Consume(p, d) PROVE Inv'
  BY <1>3, DeliverStep
<1>4. ASSUME NEW p \in Processes, NEW s \in Slots, NEW e \in inbox, Handle(p, s, e) PROVE Inv'
  BY <1>4, DeliverStep
<1>5. ASSUME NEW p \in Processes, NEW s \in Slots, Process(p, s) \/ FailSave(p, s) PROVE Inv'
  BY <1>5, SaveStep, UpdateStep, EndingStep DEF Process
<1>6. CASE Tick \/ ExpireLastSeen \/ LoseRedis \/ DeleteRobot
  BY <1>6, SurroundingsStep
<1>7. ASSUME NEW p \in Processes, Crash(p) \/ Reconnect(p) PROVE Inv'
  BY <1>7, CrashStep, ReconnectStep
<1>8. CASE UNCHANGED vars
  BY <1>8 DEF vars, stored, redis, robot, transport, Inv, TypeOK, TasksOK, Shape, HandlersOK, CacheOK,
              ClockOK, ReceiptOK, Serial, Without, OfflineCoversHeartbeats, CacheCatchesUp
<1> QED
  BY <1>1, <1>2, <1>3, <1>4, <1>5, <1>6, <1>7, <1>8 DEF Next

\* The invariant holds throughout.
THEOREM InvHolds == Spec => []Inv
BY InitInv, StepInv, PTL DEF Spec

\* Every reachable state is well typed.
THEOREM TypeCorrect == Spec => []TypeOK
<1>1. Inv => TypeOK
  BY DEF Inv
<1> QED
  BY <1>1, InvHolds, PTL

\* An offline row's last_seen_at covers every heartbeat that was recorded, unless
\* Redis could not be read when it was written.
THEOREM OfflineIsCovered == Spec => []OfflineCoversHeartbeats
<1>1. Inv => OfflineCoversHeartbeats
  BY DEF Inv
<1> QED
  BY <1>1, InvHolds, PTL

\* When no event is between its transactions the cache shows the row, unless
\* Redis failed or forgot, or a process died in between.
THEOREM CacheFollowsRow == Spec => []CacheCatchesUp
<1>1. Inv => CacheCatchesUp
  BY DEF Inv
<1> QED
  BY <1>1, InvHolds, PTL

\* update_robot_status_cache only ever writes the row as it is in the database,
\* with any number of processes and callbacks.
THEOREM OnlyTheRowIsCached == Spec => CacheCopiesRow
<1>1. Inv /\ [Next]_vars => (cache' # cache => cache' \in {NoCache, row})
  <2> SUFFICES ASSUME Inv, Next, cache' # cache PROVE cache' \in {NoCache, row}
    BY DEF vars, redis
  <2>1. CASE LoseRedis
    BY <2>1 DEF LoseRedis
  <2>2. CASE ~LoseRedis
    <3>1. PICK p \in Processes, s \in Slots : UpdateCacheIfCurrent(p, s)
      BY <2>2 DEF Next, Process, redis, SendConnection, SendStatus, Send, SendHeartbeat, Route,
         RefreshLastSeen, Consume, Handle, SaveStatus, IgnoreStatus, Publish, Settle, FailSave, Tick,
         ExpireLastSeen, DeleteRobot, Crash, Reconnect
    <3> QED
      BY <3>1, CacheWrites
  <2> QED
    BY <2>1, <2>2
<1> QED
  BY <1>1, InvHolds, PTL DEF Spec, CacheCopiesRow

\* With one callback at a time, last_seen_at never goes back.
THEOREM LastSeenOnlyAdvances == Spec => LastSeenNeverGoesBack
<1>1. Inv /\ [Next]_vars => (Serial => lastSeen' >= lastSeen)
  <2> SUFFICES ASSUME Inv, [Next]_vars, Serial PROVE lastSeen' >= lastSeen
    OBVIOUS
  <2>1. lastSeen \in Nat
    BY DEF Inv, TypeOK
  <2>2. CASE lastSeen' = lastSeen
    BY <2>1, <2>2
  <2>3. CASE lastSeen' # lastSeen
    <3>1. PICK p \in Processes, s \in Slots : SaveStatus(p, s)
      BY <2>3 DEF vars, Next, Process, stored, SendConnection, SendStatus, Send, SendHeartbeat, Route,
         RefreshLastSeen, Consume, Handle, UpdateCacheIfCurrent, IgnoreStatus, Publish, Settle, FailSave,
         Tick, ExpireLastSeen, LoseRedis, DeleteRobot, Crash, Reconnect
    <3>2. lastSeen <= lastSeen' /\ lastSeen' \in 0..MaxTime
      BY <3>1, SavedLastSeen
    <3> QED
      BY <2>1, <3>2
  <2> QED
    BY <2>2, <2>3
<1> QED
  BY <1>1, InvHolds, PTL DEF Spec, LastSeenNeverGoesBack

-----------------------------------------------------------------------------
(***************************************************************************)
(* Broadcasts.  A callback that may still broadcast made a transition that *)
(* nobody else will broadcast, newer than what a single callback has       *)
(* broadcast before; coroutines never make one.                            *)
(***************************************************************************)

\* A callback that may still broadcast.
Pending(t) == t.place = "announce" \/ (t.place = "cache" /\ t.changed)

\* The row is the last state that was committed, and the newest.
HistoryOK ==
  /\ row = IF history = <<>> THEN NoCache ELSE history[Len(history)]
  /\ \A i \in DOMAIN history : history[i].sequence <= row.sequence

PendingOK ==
  \A p \in Processes, s \in Slots : Pending(task[p][s]) =>
    /\ s \notin Handlers
    /\ task[p][s].state.sequence \in Transitions \ ToSet(announced)
    /\ \A q \in Processes, u \in Slots :
         Pending(task[q][u]) /\ task[q][u].state.sequence = task[p][s].state.sequence =>
           q = p /\ u = s
    /\ Serial => \A i \in DOMAIN announced : announced[i] < task[p][s].state.sequence

BroadcastsOK == HistoryOK /\ PendingOK /\ BroadcastsFollowTransitions

\* A sequence with one more element.
LEMMA AppendFacts ==
  ASSUME NEW S, NEW q \in Seq(S), NEW e \in S, NEW f, f = Append(q, e)
  PROVE  /\ Len(q) \in Nat /\ Len(f) = Len(q) + 1
         /\ DOMAIN q = 1..Len(q) /\ DOMAIN f = 1..(Len(q) + 1)
         /\ f[Len(q) + 1] = e
         /\ \A i \in DOMAIN q : i \in DOMAIN f /\ f[i] = q[i]
         /\ \A i \in DOMAIN f : i \in DOMAIN q \/ i = Len(q) + 1
OBVIOUS

\* No transition is newer than the row.
LEMMA TransitionsBound ==
  ASSUME TypeOK, HistoryOK
  PROVE  \A n \in Transitions : n \in Nat /\ n <= row.sequence
<1> SUFFICES ASSUME NEW i \in DOMAIN history
             PROVE  history[i].sequence \in Nat /\ history[i].sequence <= row.sequence
  BY DEF Transitions
<1>1. history[i] \in State
  BY DEF TypeOK
<1> QED
  BY <1>1 DEF HistoryOK, State

\* A step that commits and broadcasts nothing, and lets no callback broadcast
\* that would not have done so before.
LEMMA CalmStep ==
  ASSUME BroadcastsOK, UNCHANGED <<history, row, announced>>, Serial' => Serial,
         \A p \in Processes, s \in Slots : Pending(task'[p][s]) =>
           Pending(task[p][s]) /\ task'[p][s].state = task[p][s].state
  PROVE  BroadcastsOK'
<1>1. Transitions' = Transitions
  BY DEF Transitions, Before
<1>2. HistoryOK' /\ BroadcastsFollowTransitions'
  BY <1>1 DEF BroadcastsOK, HistoryOK, BroadcastsFollowTransitions
<1>3. PendingOK'
  <2> SUFFICES ASSUME NEW p \in Processes, NEW s \in Slots, Pending(task'[p][s])
               PROVE  /\ s \notin Handlers
                      /\ task'[p][s].state.sequence \in Transitions \ ToSet(announced)
                      /\ \A q \in Processes, u \in Slots :
                           Pending(task'[q][u])
                           /\ task'[q][u].state.sequence = task'[p][s].state.sequence =>
                             q = p /\ u = s
                      /\ Serial => \A i \in DOMAIN announced : announced[i] < task'[p][s].state.sequence
    BY <1>1 DEF PendingOK, Pending
  <2>1. Pending(task[p][s]) /\ task'[p][s].state = task[p][s].state
    OBVIOUS
  <2>2. /\ s \notin Handlers
        /\ task'[p][s].state.sequence \in Transitions \ ToSet(announced)
        /\ Serial => \A i \in DOMAIN announced : announced[i] < task'[p][s].state.sequence
    BY <2>1 DEF BroadcastsOK, PendingOK
  <2>3. ASSUME NEW q \in Processes, NEW u \in Slots, Pending(task'[q][u]),
               task'[q][u].state.sequence = task'[p][s].state.sequence
        PROVE  q = p /\ u = s
    BY <2>1, <2>3 DEF BroadcastsOK, PendingOK
  <2> QED
    BY <2>2, <2>3
<1> QED
  BY <1>2, <1>3 DEF BroadcastsOK

\* One slot moves on without a commit or a broadcast.
LEMMA CalmSlot ==
  ASSUME Inv, BroadcastsOK, UNCHANGED <<history, row, announced>>, Smooth \/ \E k : Fault(k),
         NEW p \in Processes, NEW s \in Slots, NEW t, Goto(p, s, t),
         Pending(t) => Pending(task[p][s]) /\ t.state = task[p][s].state
  PROVE  BroadcastsOK'
<1>1. /\ task'[p][s] = t
      /\ \A q \in Processes, u \in Slots : q # p \/ u # s => task'[q][u] = task[q][u]
  BY DEF Inv, TypeOK, Goto
<1>2. \A q \in Processes, u \in Slots : Pending(task'[q][u]) =>
        Pending(task[q][u]) /\ task'[q][u].state = task[q][u].state
  BY <1>1
<1>3. Serial' => Serial
  BY FaultFacts, WithoutStays DEF Inv
<1> QED
  BY <1>2, <1>3, CalmStep

\* The first transaction adds its own transition, newer than all before.
LEMMA SaveBroadcasts ==
  ASSUME Inv, BroadcastsOK, NEW p \in Processes, NEW s \in Slots, SaveStatus(p, s)
  PROVE  BroadcastsOK'
<1>1. PICK x \in Task : x = task[p][s]
  BY SlotFacts
<1>2. /\ x.place = "save" /\ row' \in State /\ row \in State /\ row.sequence < row'.sequence
      /\ row.sequence \in Nat /\ row'.sequence \in Nat
      /\ x.delivery.event.type = "status" => row'.connection = row.connection
  BY <1>1, SaveFacts DEF Inv, TypeOK
<1>3. PICK t : t = [x EXCEPT !.place = "cache", !.state = row', !.changed = row'.connection # row.connection]
  OBVIOUS
<1>4. Goto(p, s, t) /\ history' = Append(history, row') /\ announced' = announced
  BY <1>1, <1>3 DEF SaveStatus
<1>5. t.place = "cache" /\ t.state = row' /\ (t.changed <=> row'.connection # row.connection)
  BY <1>3 DEF Task
<1>6. /\ task'[p][s] = t
      /\ \A q \in Processes, u \in Slots : q # p \/ u # s => task'[q][u] = task[q][u]
  BY <1>4 DEF Inv, TypeOK, Goto
<1>7. /\ history \in Seq(State) /\ Len(history) \in Nat /\ DOMAIN history = 1..Len(history)
      /\ DOMAIN history' = 1..(Len(history) + 1)
      /\ Len(history') = Len(history) + 1
      /\ history'[Len(history) + 1] = row'
      /\ \A i \in DOMAIN history : i \in DOMAIN history' /\ history'[i] = history[i]
      /\ \A i \in DOMAIN history' : i \in DOMAIN history \/ i = Len(history) + 1
  <2>1. history \in Seq(State)
    BY DEF Inv, TypeOK
  <2>2. row' \in State /\ history' = Append(history, row')
    BY <1>2, <1>4
  <2>3. PICK e \in State : e = row' /\ history' = Append(history, e)
    BY <2>2
  <2>4. PICK q, h : q \in Seq(State) /\ q = history /\ h = history'
    BY <2>1
  <2>5. h = Append(q, e)
    BY <2>3, <2>4
  <2>6. /\ Len(q) \in Nat /\ Len(h) = Len(q) + 1
        /\ DOMAIN q = 1..Len(q) /\ DOMAIN h = 1..(Len(q) + 1)
        /\ h[Len(q) + 1] = e
        /\ \A i \in DOMAIN q : i \in DOMAIN h /\ h[i] = q[i]
        /\ \A i \in DOMAIN h : i \in DOMAIN q \/ i = Len(q) + 1
    BY <2>5, AppendFacts
  <2> QED
    BY <2>1, <2>3, <2>4, <2>6
<1>8. HistoryOK'
  <2>1. history' # <<>>
    BY <1>7
  <2>2. \A i \in DOMAIN history : history[i].sequence \in Nat /\ history[i].sequence <= row.sequence
    <3>1. \A i \in DOMAIN history : history[i] \in State
      BY <1>7
    <3>2. \A z \in State : z.sequence \in Nat
      BY DEF State
    <3> QED
      BY <3>1, <3>2 DEF BroadcastsOK, HistoryOK
  <2>3. \A i \in DOMAIN history' : history'[i].sequence <= row'.sequence
    BY <1>2, <1>7, <2>2
  <2> QED
    BY <1>7, <2>1, <2>3 DEF HistoryOK
<1>9. Transitions \subseteq Transitions'
  <2> SUFFICES ASSUME NEW i \in DOMAIN history, history[i].connection # Before(i)
               PROVE  history[i].sequence \in Transitions'
    BY DEF Transitions
  <2>1. i \in DOMAIN history' /\ history'[i] = history[i]
    BY <1>7
  <2>2. Before(i)' = Before(i)
    <3>1. CASE i = 1
      BY <3>1 DEF Before
    <3>2. CASE i # 1
      <4>1. i - 1 \in DOMAIN history
        BY <1>7, <3>2
      <4> QED
        BY <1>7, <3>2, <4>1 DEF Before
    <3> QED
      BY <3>1, <3>2
  <2> QED
    BY <2>1, <2>2 DEF Transitions
<1>10. t.changed => row'.sequence \in Transitions'
  <2>0. PICK n \in Nat : n = Len(history) + 1
    BY <1>7
  <2>1. n \in DOMAIN history' /\ history'[n] = row'
    BY <1>7, <2>0
  <2>2. Before(n)' = row.connection
    <3>1. CASE history = <<>>
      <4>1. n = 1
        BY <2>0, <3>1
      <4> QED
        BY <3>1, <4>1 DEF Before, BroadcastsOK, HistoryOK, NoCache
    <3>2. CASE history # <<>>
      <4>1. Len(history) # 0 /\ n # 1 /\ n - 1 = Len(history) /\ Len(history) \in DOMAIN history
        BY <1>7, <2>0, <3>2
      <4>2. history'[n - 1] = history[Len(history)]
        BY <1>7, <4>1
      <4> QED
        BY <3>2, <4>1, <4>2 DEF Before, BroadcastsOK, HistoryOK
    <3> QED
      BY <3>1, <3>2
  <2> QED
    BY <1>5, <2>1, <2>2 DEF Transitions
<1>11. \A m \in Transitions : m \in Nat /\ m < row'.sequence
  <2>1. \A m \in Transitions : m \in Nat /\ m <= row.sequence
    BY TransitionsBound DEF Inv, BroadcastsOK
  <2> QED
    BY <1>2, <2>1
<1>12. Serial' => Serial
  <2>1. Smooth \/ \E k : Fault(k)
    BY DEF SaveStatus
  <2> QED
    BY <2>1, FaultFacts, WithoutStays DEF Inv
<1>13. ToSet(announced) \subseteq Transitions
  BY DEF BroadcastsOK, BroadcastsFollowTransitions
<1>14. \A i \in DOMAIN announced : announced[i] < row'.sequence
  BY <1>11, <1>13 DEF ToSet
<1>15. BroadcastsFollowTransitions'
  BY <1>4, <1>9, <1>12 DEF BroadcastsOK, BroadcastsFollowTransitions
<1>16. \A q \in Processes, u \in Slots : q # p \/ u # s =>
         /\ Pending(task'[q][u]) => task'[q][u].state.sequence \in Transitions
         /\ task'[q][u] = task[q][u]
  BY <1>6 DEF BroadcastsOK, PendingOK
<1>17. PendingOK'
  <2> SUFFICES ASSUME NEW q \in Processes, NEW u \in Slots, Pending(task'[q][u])
               PROVE  /\ u \notin Handlers
                      /\ task'[q][u].state.sequence \in Transitions' \ ToSet(announced)
                      /\ \A r \in Processes, v \in Slots :
                           Pending(task'[r][v])
                           /\ task'[r][v].state.sequence = task'[q][u].state.sequence =>
                             r = q /\ v = u
                      /\ Serial => \A i \in DOMAIN announced : announced[i] < task'[q][u].state.sequence
    BY <1>4, <1>12 DEF PendingOK, Pending
  <2>1. CASE q = p /\ u = s
    <3>1. task'[q][u] = t /\ t.changed /\ row'.connection # row.connection
      BY <1>5, <1>6, <2>1 DEF Pending
    <3>2. u \notin Handlers
      BY <1>1, <1>2, <2>1, <3>1 DEF Inv, HandlersOK
    <3>3. row'.sequence \in Transitions' \ ToSet(announced)
      BY <1>2, <1>10, <1>11, <1>13, <3>1
    <3>4. ASSUME NEW r \in Processes, NEW v \in Slots, Pending(task'[r][v]),
                 task'[r][v].state.sequence = row'.sequence
          PROVE  r = q /\ v = u
      BY <1>2, <1>11, <1>16, <2>1, <3>4
    <3> QED
      BY <1>5, <1>14, <3>1, <3>2, <3>3, <3>4
  <2>2. CASE q # p \/ u # s
    <3>1. task'[q][u] = task[q][u] /\ Pending(task[q][u])
      BY <1>6, <2>2
    <3>2. /\ u \notin Handlers
          /\ task'[q][u].state.sequence \in Transitions \ ToSet(announced)
          /\ Serial => \A i \in DOMAIN announced : announced[i] < task'[q][u].state.sequence
      BY <3>1 DEF BroadcastsOK, PendingOK
    <3>3. ASSUME NEW r \in Processes, NEW v \in Slots, Pending(task'[r][v]),
                 task'[r][v].state.sequence = task'[q][u].state.sequence
          PROVE  r = q /\ v = u
      <4>1. CASE r = p /\ v = s
        <5>1. task'[r][v].state.sequence = row'.sequence
          BY <1>5, <1>6, <4>1
        <5> QED
          BY <1>2, <1>11, <3>2, <3>3, <5>1
      <4>2. CASE r # p \/ v # s
        <5>1. task'[r][v] = task[r][v]
          BY <1>6, <4>2
        <5> QED
          BY <3>1, <3>3, <5>1 DEF BroadcastsOK, PendingOK
      <4> QED
        BY <4>1, <4>2
    <3> QED
      BY <1>9, <3>2, <3>3
  <2> QED
    BY <2>1, <2>2
<1> QED
  BY <1>8, <1>15, <1>17 DEF BroadcastsOK

\* With one callback at a time, only that callback may still broadcast.
LEMMA OnePending ==
  ASSUME Inv, BroadcastsOK, Serial,
         NEW p \in Processes, NEW s \in Slots, Pending(task[p][s]),
         NEW q \in Processes, NEW u \in Slots, Pending(task[q][u])
  PROVE  p = q /\ s = u
<1>1. s \notin Handlers /\ u \notin Handlers /\ p = q
  BY DEF BroadcastsOK, PendingOK, Serial
<1>2. s # "orphan" /\ u # "orphan"
  BY DEF Inv, ReceiptOK, Pending
<1> QED
  BY <1>1, <1>2 DEF Slots

\* The broadcast.
LEMMA PublishBroadcasts ==
  ASSUME Inv, BroadcastsOK, NEW p \in Processes, NEW s \in Slots, Publish(p, s)
  PROVE  BroadcastsOK'
<1>1. PICK x \in Task : x = task[p][s]
  BY SlotFacts
<1>2. PICK n : n = x.state.sequence
  OBVIOUS
<1>3. PICK t : t = [x EXCEPT !.place = "settle"]
  OBVIOUS
<1>4. /\ Goto(p, s, t) /\ UNCHANGED <<history, row>> /\ x.place = "announce"
      /\ announced' = announced \/ announced' = Append(announced, n)
      /\ Smooth \/ \E k : Fault(k)
  BY <1>1, <1>2, <1>3 DEF Publish, stored
<1>5. ~Pending(t)
  BY <1>3 DEF Task, Pending
<1>6. CASE announced' = announced
  BY <1>4, <1>5, <1>6, CalmSlot
<1>7. CASE announced' = Append(announced, n)
  <2>1. /\ task'[p][s] = t
        /\ \A q \in Processes, u \in Slots : q # p \/ u # s => task'[q][u] = task[q][u]
    BY <1>4 DEF Inv, TypeOK, Goto
  <2>2. /\ announced \in Seq(1..MaxSequence) /\ Len(announced) \in Nat
        /\ DOMAIN announced = 1..Len(announced)
        /\ DOMAIN announced' = 1..(Len(announced) + 1)
        /\ announced'[Len(announced) + 1] = n
        /\ \A i \in DOMAIN announced : announced'[i] = announced[i]
        /\ \A i \in DOMAIN announced' : i \in DOMAIN announced \/ i = Len(announced) + 1
    <3>1. announced \in Seq(1..MaxSequence) /\ Inv
      BY DEF Inv, TypeOK
    <3>2. n \in 1..MaxSequence
      BY <1>1, <1>2, <1>4, SlotFacts DEF Shape, Task, Delivery, Event
    <3> QED
      BY <1>7, <3>1, <3>2, AppendFacts
  <2>3. ToSet(announced') = ToSet(announced) \cup {n}
    BY <2>2 DEF ToSet
  <2>4. Pending(x)
    BY <1>4 DEF Pending
  <2>5. /\ n \in Transitions /\ n \notin ToSet(announced)
        /\ Serial => \A i \in DOMAIN announced : announced[i] < n
    BY <1>1, <1>2, <2>4 DEF BroadcastsOK, PendingOK
  <2>6. Transitions' = Transitions
    BY <1>4 DEF Transitions, Before
  <2>7. Serial' => Serial
    BY <1>4, FaultFacts, WithoutStays DEF Inv
  <2>8. IsInjective(announced')
    <3>1. \A i \in DOMAIN announced : announced[i] # n
      BY <2>5 DEF ToSet
    <3>2. IsInjective(announced)
      BY DEF BroadcastsOK, BroadcastsFollowTransitions
    <3> QED
      BY <2>2, <3>1, <3>2 DEF IsInjective
  <2>9. Serial => \A i, j \in DOMAIN announced' : i < j => announced'[i] < announced'[j]
    <3>1. Serial => \A i, j \in DOMAIN announced : i < j => announced[i] < announced[j]
      BY DEF BroadcastsOK, BroadcastsFollowTransitions
    <3>2. ASSUME Serial, NEW i \in DOMAIN announced', NEW j \in DOMAIN announced', i < j
          PROVE  announced'[i] < announced'[j]
      <4>1. i \in DOMAIN announced
        BY <2>2, <3>2
      <4>2. CASE j \in DOMAIN announced
        BY <2>2, <3>1, <3>2, <4>1, <4>2
      <4>3. CASE j = Len(announced) + 1
        BY <2>2, <2>5, <3>2, <4>1, <4>3
      <4> QED
        BY <2>2, <4>2, <4>3
    <3> QED
      BY <3>2
  <2>10. BroadcastsFollowTransitions'
    <3>1. ToSet(announced') \subseteq Transitions'
      BY <2>3, <2>5, <2>6 DEF BroadcastsOK, BroadcastsFollowTransitions
    <3> QED
      BY <2>7, <2>8, <2>9, <3>1 DEF BroadcastsFollowTransitions
  <2>11. HistoryOK'
    BY <1>4 DEF BroadcastsOK, HistoryOK
  <2>12. PendingOK'
    <3> SUFFICES ASSUME NEW q \in Processes, NEW u \in Slots, Pending(task'[q][u])
                 PROVE  /\ u \notin Handlers
                        /\ task'[q][u].state.sequence \in Transitions \ ToSet(announced')
                        /\ \A r \in Processes, v \in Slots :
                             Pending(task'[r][v])
                             /\ task'[r][v].state.sequence = task'[q][u].state.sequence =>
                               r = q /\ v = u
                        /\ ~Serial
      BY <2>6, <2>7 DEF PendingOK, Pending
    <3>1. q # p \/ u # s
      BY <1>5, <2>1
    <3>2. task'[q][u] = task[q][u] /\ Pending(task[q][u])
      BY <2>1, <3>1
    <3>3. task[q][u].state.sequence # n
      BY <1>1, <1>2, <2>4, <3>1, <3>2 DEF BroadcastsOK, PendingOK
    <3>4. u \notin Handlers /\ task[q][u].state.sequence \in Transitions \ ToSet(announced')
      BY <2>3, <3>2, <3>3 DEF BroadcastsOK, PendingOK
    <3>5. ASSUME NEW r \in Processes, NEW v \in Slots, Pending(task'[r][v]),
                 task'[r][v].state.sequence = task'[q][u].state.sequence
          PROVE  r = q /\ v = u
      <4>1. r # p \/ v # s
        BY <1>5, <2>1, <3>5
      <4>2. task'[r][v] = task[r][v]
        BY <2>1, <4>1
      <4> QED
        BY <3>2, <3>5, <4>2 DEF BroadcastsOK, PendingOK
    <3>6. ~Serial
      BY <1>1, <2>4, <3>1, <3>2, OnePending
    <3> QED
      BY <3>2, <3>4, <3>5, <3>6
  <2> QED
    BY <2>10, <2>11, <2>12 DEF BroadcastsOK
<1> QED
  BY <1>4, <1>6, <1>7

\* A callback whose channel was replaced broadcasts in place of the consumer.
LEMMA ReconnectBroadcasts ==
  ASSUME Inv, BroadcastsOK, NEW p \in Processes, Reconnect(p)
  PROVE  BroadcastsOK'
<1>1. /\ "consumer" \in Slots /\ "orphan" \in Slots
      /\ "consumer" \notin Handlers /\ "orphan" \notin Handlers
  BY DEF Slots
<1>2. /\ task'[p]["orphan"] = task[p]["consumer"] /\ task'[p]["consumer"] = Idle
      /\ \A q \in Processes, u \in Slots :
           q # p \/ u \notin {"consumer", "orphan"} => task'[q][u] = task[q][u]
      /\ UNCHANGED <<history, row, announced>> /\ Fault("reconnect")
  BY <1>1 DEF Reconnect, Inv, TypeOK, stored
<1>3. ~Pending(Idle)
  BY DEF Pending, Idle
<1>4. ~Serial'
  BY <1>2, FaultRemembered DEF Inv, Serial
<1>5. Transitions' = Transitions
  BY <1>2 DEF Transitions, Before
<1>6. HistoryOK' /\ BroadcastsFollowTransitions'
  BY <1>2, <1>4, <1>5 DEF BroadcastsOK, HistoryOK, BroadcastsFollowTransitions
<1>7. PendingOK'
  <2> DEFINE from(q, u) == IF q = p /\ u = "orphan" THEN "consumer" ELSE u
  <2>1. ASSUME NEW q \in Processes, NEW u \in Slots, Pending(task'[q][u])
        PROVE  /\ task'[q][u] = task[q][from(q, u)] /\ Pending(task[q][from(q, u)])
               /\ from(q, u) \in Slots /\ ~(q = p /\ u = "consumer")
               /\ u \in Handlers => from(q, u) \in Handlers
    BY <1>1, <1>2, <1>3, <2>1
  <2> SUFFICES ASSUME NEW q \in Processes, NEW u \in Slots, Pending(task'[q][u])
               PROVE  /\ u \notin Handlers
                      /\ task'[q][u].state.sequence \in Transitions \ ToSet(announced)
                      /\ \A r \in Processes, v \in Slots :
                           Pending(task'[r][v])
                           /\ task'[r][v].state.sequence = task'[q][u].state.sequence =>
                             r = q /\ v = u
    BY <1>2, <1>4, <1>5 DEF PendingOK, Pending
  <2>2. u \notin Handlers /\ task'[q][u].state.sequence \in Transitions \ ToSet(announced)
    BY <2>1 DEF BroadcastsOK, PendingOK
  <2>3. ASSUME NEW r \in Processes, NEW v \in Slots, Pending(task'[r][v]),
               task'[r][v].state.sequence = task'[q][u].state.sequence
        PROVE  r = q /\ v = u
    <3>1. PICK w \in Slots : w = from(q, u)
      BY <2>1
    <3>2. PICK z \in Slots : z = from(r, v)
      BY <2>1, <2>3
    <3>3. /\ Pending(task[q][w]) /\ task'[q][u] = task[q][w]
          /\ Pending(task[r][z]) /\ task'[r][v] = task[r][z]
      BY <2>1, <2>3, <3>1, <3>2
    <3>4. r = q /\ z = w
      BY <2>3, <3>3 DEF BroadcastsOK, PendingOK
    <3> QED
      BY <2>1, <2>3, <3>1, <3>2, <3>4
  <2> QED
    BY <2>2, <2>3
<1> QED
  BY <1>6, <1>7 DEF BroadcastsOK

\* Initially nothing was committed or broadcast.
LEMMA InitBroadcasts == Init => BroadcastsOK
<1> SUFFICES ASSUME Init PROVE BroadcastsOK
  OBVIOUS
<1>1. ~Pending(Idle)
  BY DEF Pending, Idle
<1>2. PendingOK
  BY <1>1 DEF Init, PendingOK
<1>3. HistoryOK /\ BroadcastsFollowTransitions
  BY DEF Init, HistoryOK, BroadcastsFollowTransitions, IsInjective, ToSet
<1> QED
  BY <1>2, <1>3 DEF BroadcastsOK

\* Every step keeps what is said of broadcasts.
LEMMA StepBroadcasts ==
  ASSUME Inv, BroadcastsOK, [Next]_vars
  PROVE  BroadcastsOK'
<1>1. ASSUME UNCHANGED <<history, row, announced, task>>, Smooth \/ \E k : Fault(k)
      PROVE  BroadcastsOK'
  BY <1>1, CalmStep, FaultFacts, WithoutStays DEF Inv
<1>2. CASE SendConnection \/ SendStatus \/ SendHeartbeat
  BY <1>1, <1>2 DEF SendConnection, SendStatus, Send, SendHeartbeat, stored, Smooth
<1>3. ASSUME NEW m \in inbox, Route(m) \/ RefreshLastSeen(m) PROVE BroadcastsOK'
  BY <1>1, <1>3 DEF Route, RefreshLastSeen, Take, stored, Smooth
<1>4. CASE Tick \/ ExpireLastSeen \/ LoseRedis \/ DeleteRobot
  BY <1>1, <1>4 DEF Tick, ExpireLastSeen, LoseRedis, DeleteRobot, stored, Smooth
<1>5. CASE UNCHANGED vars
  BY <1>1, <1>5 DEF vars, stored, Smooth
<1>6. ASSUME NEW p \in Processes, NEW s \in Slots, NEW d, Receive(p, s, d),
             UNCHANGED <<stored, announced>>, Smooth \/ \E k : Fault(k)
      PROVE  BroadcastsOK'
  <2>1. PICK t : t = [Idle EXCEPT !.place = "save", !.delivery = d, !.received = now]
    OBVIOUS
  <2>2. Goto(p, s, t) /\ ~Pending(t)
    BY <1>6, <2>1 DEF Receive, Pending, Idle
  <2> QED
    BY <1>6, <2>2, CalmSlot DEF stored
<1>7. ASSUME NEW p \in Processes, NEW d \in queue, Consume(p, d) PROVE BroadcastsOK'
  <2>1. "consumer" \in Slots
    BY DEF Slots
  <2> QED
    BY <1>6, <1>7, <2>1 DEF Consume, Smooth
<1>8. ASSUME NEW p \in Processes, NEW s \in Slots, NEW e \in inbox, Handle(p, s, e)
      PROVE  BroadcastsOK'
  <2>1. Receive(p, s, [event |-> e, retries |-> 0]) /\ (Smooth \/ \E k : Fault(k))
    BY <1>8 DEF Handle, Take
  <2> QED
    BY <1>6, <1>8, <2>1 DEF Handle
<1>9. ASSUME NEW p \in Processes, NEW s \in Slots,
             IgnoreStatus(p, s) \/ Settle(p, s) \/ FailSave(p, s)
      PROVE  BroadcastsOK'
  <2>1. /\ UNCHANGED <<history, row, announced>> /\ (Smooth \/ \E k : Fault(k))
        /\ Goto(p, s, Idle) \/ Goto(p, s, [task[p][s] EXCEPT !.place = "settle"])
    BY <1>9 DEF IgnoreStatus, Settle, FailSave, stored, Smooth
  <2>2. ~Pending(Idle) /\ ~Pending([task[p][s] EXCEPT !.place = "settle"])
    BY SlotFacts DEF Pending, Idle, Task
  <2> QED
    BY <2>1, <2>2, CalmSlot
<1>10. ASSUME NEW p \in Processes, NEW s \in Slots, UpdateCacheIfCurrent(p, s)
       PROVE  BroadcastsOK'
  <2>1. PICK x \in Task : x = task[p][s] /\ x.place = "cache"
    BY <1>10, SlotFacts DEF UpdateCacheIfCurrent
  <2>2. /\ UNCHANGED <<history, row, announced>> /\ (Smooth \/ \E k : Fault(k))
        /\ \E current \in BOOLEAN : AfterCache(p, s, current)
    BY <1>10 DEF UpdateCacheIfCurrent, stored
  <2>3. PICK current \in BOOLEAN : AfterCache(p, s, current)
    BY <2>2
  <2>4. PICK t : t = [x EXCEPT !.place = IF x.changed /\ current THEN "announce" ELSE "settle"]
    OBVIOUS
  <2>5. Goto(p, s, t)
    BY <2>1, <2>3, <2>4 DEF AfterCache
  <2>6. t.state = x.state /\ t.place \in {"announce", "settle"} /\ (t.place = "announce" => x.changed)
    BY <2>4 DEF Task
  <2>7. Pending(t) => Pending(x) /\ t.state = x.state
    BY <2>1, <2>6 DEF Pending
  <2> QED
    BY <2>1, <2>2, <2>5, <2>7, CalmSlot
<1>11. ASSUME NEW p \in Processes, Crash(p) PROVE BroadcastsOK'
  <2>1. /\ UNCHANGED <<history, row, announced>> /\ Fault("crash")
        /\ task' = [task EXCEPT ![p] = [s \in Slots |-> Idle]]
    BY <1>11 DEF Crash, stored
  <2>2. \A q \in Processes, u \in Slots : task'[q][u] = IF q = p THEN Idle ELSE task[q][u]
    BY <2>1 DEF Inv, TypeOK
  <2>3. ~Pending(Idle)
    BY DEF Pending, Idle
  <2>4. \A q \in Processes, u \in Slots : Pending(task'[q][u]) =>
          Pending(task[q][u]) /\ task'[q][u].state = task[q][u].state
    BY <2>2, <2>3
  <2> QED
    BY <2>1, <2>4, CalmStep, FaultFacts, WithoutStays DEF Inv
<1> QED
  BY <1>2, <1>3, <1>4, <1>5, <1>7, <1>8, <1>9, <1>10, <1>11, SaveBroadcasts, PublishBroadcasts,
     ReconnectBroadcasts DEF Next, Process

\* Only transitions are broadcast, none twice, and by a single callback in order,
\* whatever is duplicated, redelivered, retried or lost.
THEOREM BroadcastsAreTransitions == Spec => []BroadcastsFollowTransitions
<1>1. Inv /\ BroadcastsOK /\ [Next]_vars => BroadcastsOK'
  BY StepBroadcasts
<1>2. BroadcastsOK => BroadcastsFollowTransitions
  BY DEF BroadcastsOK
<1> QED
  BY InitBroadcasts, InvHolds, <1>1, <1>2, PTL DEF Spec

-----------------------------------------------------------------------------
(***************************************************************************)
(* Connectivity.  The row shows what the robot had last reported at the    *)
(* row's sequence number, and a connectivity event with a later number is  *)
(* still on its way: in MQTT or, acknowledged or not, in the queue.  An    *)
(* operational event that overtakes it is harmless because the robot sends *)
(* one only while it is online, and the row accepts one only then.         *)
(***************************************************************************)

\* c is the last connectivity among the first n events.
Reported(n, c) ==
  \/ c = "OFFLINE" /\ \A i \in 1..n : sent[i].type = "status"
  \/ \E k \in 1..n :
       /\ sent[k].type = "connection" /\ sent[k].connection = c
       /\ \A i \in (k + 1)..n : sent[i].type = "status"

SentOK ==
  /\ \A i \in 1..Len(sent) :
       /\ sent[i].sequence = i
       /\ sent[i].type = "connection" => sent[i].connection \in Connections
       /\ sent[i].type = "status" => Reported(i, "ONLINE")
  /\ \E c \in Connections : Reported(Len(sent), c)

RowOK == row.sequence <= Len(sent) /\ Reported(row.sequence, row.connection)

WasSent(e) == e.sequence \in 1..Len(sent) /\ e = sent[e.sequence]

\* A message of the connectivity queue: each retry is a transaction that failed.
Queued(d) == d.event.type = "connection" /\ WasSent(d.event) /\ d.retries <= Times("database")

CarriedOK ==
  /\ \A e \in inbox : e.type # "heartbeat" => WasSent(e)
  /\ \A d \in queue : Queued(d)
  /\ \A p \in Processes, s \in Slots : task[p][s].place # "idle" =>
       /\ WasSent(task[p][s].delivery.event)
       /\ s \notin Handlers => Queued(task[p][s].delivery)

\* A consumer that is past its first transaction has nothing new to tell the row.
SavedOK ==
  registered => \A p \in Processes :
    task[p]["consumer"].place \in {"cache", "announce", "settle"} =>
      task[p]["consumer"].delivery.event.sequence <= row.sequence

OnItsWay(e) == e.sequence <= row.sequence \/ e \in inbox \/ \E d \in queue : d.event = e

ReportsOK ==
  registered /\ Without({"broker"}) /\ Times("database") <= RetryLimit =>
    \A i \in 1..Len(sent) : sent[i].type = "connection" => OnItsWay(sent[i])

ConnectivityOK == SentOK /\ RowOK /\ CarriedOK /\ SavedOK /\ ReportsOK

\* What was last reported is what LastConnection finds.
LEMMA LastIsReported ==
  ASSUME TypeOK, NEW c, Reported(Len(sent), c)
  PROVE  LastConnection = c
<1>1. PICK conns : conns = {i \in DOMAIN sent : sent[i].type = "connection"}
  OBVIOUS
<1>2. DOMAIN sent = 1..Len(sent) /\ Len(sent) \in Nat
  BY DEF TypeOK
<1>3. CASE c = "OFFLINE" /\ \A i \in 1..Len(sent) : sent[i].type = "status"
  <2>1. conns = {}
    BY <1>1, <1>2, <1>3
  <2> QED
    BY <1>1, <1>3, <2>1 DEF LastConnection
<1>4. ASSUME NEW k \in 1..Len(sent), sent[k].type = "connection", sent[k].connection = c,
             \A i \in (k + 1)..Len(sent) : sent[i].type = "status"
      PROVE  LastConnection = c
  <2>1. k \in conns /\ conns \subseteq 1..Len(sent)
    BY <1>1, <1>2, <1>4
  <2>2. \A i \in conns : k >= i
    BY <1>1, <1>2, <1>4, <2>1
  <2>3. PICK m : m = Max(conns)
    OBVIOUS
  <2>4. m \in conns /\ m >= k
    BY <2>1, <2>2, <2>3 DEF Max
  <2>5. m \in Nat /\ k \in Nat /\ k >= m
    BY <1>2, <2>1, <2>2, <2>4
  <2>6. m = k
    BY <2>4, <2>5
  <2> QED
    BY <1>1, <1>4, <2>1, <2>3, <2>6 DEF LastConnection
<1> QED
  BY <1>3, <1>4 DEF Reported

\* When nothing is on its way, the row shows the last report.
LEMMA ConnectivityIsVisible == Inv /\ ConnectivityOK => ConnectivityConverges
<1> SUFFICES ASSUME Inv, ConnectivityOK, Quiet, registered, Without({"broker"}), Times("database") <= RetryLimit
             PROVE  row.connection = LastConnection
  BY DEF ConnectivityConverges
<1>1. TypeOK /\ Len(sent) \in Nat /\ row.sequence \in Nat /\ row.sequence <= Len(sent)
  BY DEF Inv, TypeOK, State, ConnectivityOK, RowOK
<1>2. ASSUME NEW i \in 1..Len(sent), sent[i].type = "connection" PROVE i <= row.sequence
  <2>1. sent[i].sequence = i /\ OnItsWay(sent[i])
    BY <1>2 DEF ConnectivityOK, SentOK, ReportsOK
  <2>2. sent[i] \notin Heartbeat
    BY <1>2 DEF Heartbeat
  <2> QED
    BY <2>1, <2>2 DEF OnItsWay, Quiet
<1>3. \A i \in (row.sequence + 1)..Len(sent) : sent[i] \in Event /\ i \in 1..Len(sent)
  BY <1>1 DEF TypeOK
<1>4. \A i \in (row.sequence + 1)..Len(sent) : sent[i].type = "status"
  BY <1>1, <1>2, <1>3 DEF Event
<1>5. PICK n \in Nat : n = row.sequence
  BY <1>1
<1>6. PICK c : c = row.connection
  OBVIOUS
<1>7. Reported(n, c)
  BY <1>5, <1>6 DEF ConnectivityOK, RowOK
<1>8. Reported(Len(sent), c)
  <2>1. CASE c = "OFFLINE" /\ \A i \in 1..n : sent[i].type = "status"
    <3>1. \A i \in 1..Len(sent) : i \in 1..n \/ i \in (n + 1)..Len(sent)
      BY <1>1, <1>5
    <3> QED
      BY <1>4, <1>5, <2>1, <3>1 DEF Reported
  <2>2. ASSUME NEW k \in 1..n, sent[k].type = "connection", sent[k].connection = c,
               \A i \in (k + 1)..n : sent[i].type = "status"
        PROVE  Reported(Len(sent), c)
    <3>1. k \in 1..Len(sent) /\ \A i \in (k + 1)..Len(sent) : i \in (k + 1)..n \/ i \in (n + 1)..Len(sent)
      BY <1>1, <1>5
    <3> QED
      BY <1>4, <1>5, <2>2, <3>1 DEF Reported
  <2> QED
    BY <1>7, <2>1, <2>2 DEF Reported
<1> QED
  BY <1>1, <1>6, <1>8, LastIsReported

-----------------------------------------------------------------------------
(* Counting failed transactions *)

LEMMA FaultsCounted ==
  ASSUME TypeOK, Smooth \/ \E k : Fault(k)
  PROVE  /\ Times("database") \in Nat /\ Times("database")' \in Nat /\ Times("database") <= Times("database")'
         /\ Fault("database") => Times("database")' = Times("database") + 1
<1>1. PICK F : F = {i \in DOMAIN faults : faults[i] = "database"}
  OBVIOUS
<1>2. DOMAIN faults = 1..Len(faults) /\ Len(faults) \in Nat /\ faults \in Seq(Disturbances)
  BY DEF TypeOK
<1>3. IsFiniteSet(F) /\ Cardinality(F) \in Nat
  <2>1. PICK n \in Nat : n = Len(faults)
    BY <1>2
  <2>2. IsFiniteSet(1..n) /\ F \subseteq 1..n
    BY <1>1, <1>2, <2>1, FS_Interval
  <2>3. IsFiniteSet(F)
    BY ONLY <2>2, FS_Subset
  <2> QED
    BY <2>3, FS_CardinalityType
<1>4. CASE Smooth
  BY <1>1, <1>3, <1>4 DEF Smooth, Fault, Times, TypeOK
<1>5. ASSUME NEW k, Fault(k)
      PROVE  /\ Times("database")' \in Nat /\ Times("database") <= Times("database")'
             /\ k = "database" => Times("database")' = Times("database") + 1
  <2>1. k \in Disturbances /\ faults' = Append(faults, k)
    BY <1>5 DEF Fault
  <2>2. /\ DOMAIN faults' = 1..(Len(faults) + 1) /\ faults'[Len(faults) + 1] = k
        /\ \A i \in 1..Len(faults) : faults'[i] = faults[i]
    BY <1>2, <2>1
  <2>3. PICK G : G = {i \in DOMAIN faults' : faults'[i] = "database"}
    OBVIOUS
  <2>4. Len(faults) + 1 \notin F
    BY <1>1, <1>2
  <2>5. PICK i : i = Len(faults) + 1
    OBVIOUS
  <2>6. Cardinality(F \cup {i}) = Cardinality(F) + 1
    BY <1>3, <2>4, <2>5, FS_AddElement
  <2>7. G = IF k = "database" THEN F \cup {i} ELSE F
    BY <1>1, <1>2, <2>2, <2>3, <2>5
  <2>8. Times("database") = Cardinality(F) /\ Times("database")' = Cardinality(G)
    BY <1>1, <2>3 DEF Times
  <2> QED
    BY <1>3, <2>6, <2>7, <2>8
<1> QED
  <2>1. Times("database") \in Nat
    BY <1>1, <1>3 DEF Times
  <2>2. ASSUME NEW k, Fault(k) PROVE k \in Disturbances /\ faults'[Len(faults) + 1] = k
    BY <1>2, <2>2 DEF Fault
  <2>3. Fault("database") => \A k : Fault(k) => k = "database"
    BY <2>2
  <2>4. Fault("database") /\ Smooth => FALSE
    <3>1. Fault("database") => Len(faults') = Len(faults) + 1
      BY <1>2 DEF Fault
    <3> QED
      BY <1>2, <3>1 DEF Smooth
  <2> QED
    BY <1>4, <1>5, <2>1, <2>3, <2>4

-----------------------------------------------------------------------------
(* The robot reports *)

LEMMA ReportedStays ==
  ASSUME sent \in Seq(Event), NEW e \in Event, sent' = Append(sent, e), NEW n \in 0..Len(sent), NEW c
  PROVE  Reported(n, c)' <=> Reported(n, c)
<1>1. Len(sent) \in Nat /\ \A i \in 1..Len(sent) : sent'[i] = sent[i]
  OBVIOUS
<1>2. \A i \in 1..n : i \in 1..Len(sent) /\ \A j \in (i + 1)..n : j \in 1..Len(sent)
  BY <1>1
<1> QED
  BY <1>1, <1>2 DEF Reported

\* The next event is later than all others, and an operational one means the
\* robot is online.
LEMMA SendKeeps ==
  ASSUME Inv, ConnectivityOK, SendConnection \/ SendStatus
  PROVE  ConnectivityOK'
<1>1. PICK n \in Nat : n = Len(sent)
  BY DEF Inv, TypeOK
<1>2. n + 1 \in 1..MaxSequence
  BY <1>1 DEF Inv, TypeOK, SendConnection, SendStatus
<1>3. PICK e \in Event :
        /\ Send(e) /\ e.sequence = n + 1
        /\ e.type = "connection" => e.connection \in Connections
        /\ e.type = "status" => LastConnection = "ONLINE"
  <2>1. CASE SendConnection
    <3>1. PICK c \in Connections :
            Send([type |-> "connection", sequence |-> n + 1, connection |-> c, operation |-> "NONE"])
      BY <1>1, <2>1 DEF SendConnection
    <3>2. PICK e : e = [type |-> "connection", sequence |-> n + 1, connection |-> c, operation |-> "NONE"]
      OBVIOUS
    <3>3. e \in Event /\ e.sequence = n + 1 /\ e.type = "connection" /\ e.connection = c
      BY <1>2, <3>2 DEF Event
    <3> QED
      BY <3>1, <3>2, <3>3
  <2>2. CASE SendStatus
    <3>1. PICK c \in Connections \cup {"NONE"}, o \in Operations \cup {"NONE"} :
            Send([type |-> "status", sequence |-> n + 1, connection |-> c, operation |-> o])
      BY <1>1, <2>2 DEF SendStatus
    <3>2. PICK e : e = [type |-> "status", sequence |-> n + 1, connection |-> c, operation |-> o]
      OBVIOUS
    <3>3. e \in Event /\ e.sequence = n + 1 /\ e.type = "status"
      BY <1>2, <3>2 DEF Event
    <3> QED
      BY <2>2, <3>1, <3>2, <3>3 DEF SendStatus
  <2> QED
    BY <2>1, <2>2
<1>4. sent \in Seq(Event) /\ TypeOK /\ sent' = Append(sent, e)
  BY <1>3 DEF Send, Inv, TypeOK
<1>5. /\ Len(sent') = n + 1 /\ sent'[n + 1] = e /\ \A i \in 1..n : sent'[i] = sent[i]
      /\ 1..Len(sent') = 1..n \cup {n + 1}
  BY <1>1, <1>4
<1>6. /\ UNCHANGED <<registered, row, queue, task, faults>> /\ inbox' = inbox \cup {e}
      /\ Times("database")' = Times("database")
  BY <1>3 DEF Send, stored, Times
<1>7. e.type = "status" => Reported(n, "ONLINE")
  <2>1. PICK c \in Connections : Reported(n, c)
    BY <1>1 DEF ConnectivityOK, SentOK
  <2>2. LastConnection = c
    BY <1>1, <1>4, <2>1, LastIsReported
  <2> QED
    BY <1>3, <2>1, <2>2
<1>8. \A i \in 0..n : \A c : Reported(i, c)' <=> Reported(i, c)
  BY <1>1, <1>4, ReportedStays
<1>9. ASSUME e.type = "status" PROVE Reported(n + 1, "ONLINE")'
  <2>1. Reported(n, "ONLINE")'
    BY <1>1, <1>7, <1>8, <1>9
  <2>2. PICK k \in 1..n : /\ sent'[k].type = "connection" /\ sent'[k].connection = "ONLINE"
                          /\ \A i \in (k + 1)..n : sent'[i].type = "status"
    BY <2>1 DEF Reported
  <2>3. k \in 1..(n + 1) /\ \A i \in (k + 1)..(n + 1) : i \in (k + 1)..n \/ i = n + 1
    BY <1>1
  <2> QED
    BY <1>5, <1>9, <2>2, <2>3 DEF Reported
<1>10. ASSUME e.type = "connection" PROVE Reported(n + 1, e.connection)'
  <2>1. n + 1 \in 1..(n + 1) /\ \A i \in ((n + 1) + 1)..(n + 1) : FALSE
    BY <1>1
  <2> QED
    BY <1>5, <1>10, <2>1 DEF Reported
<1>11. SentOK'
  <2>1. ASSUME NEW i \in 1..n
        PROVE  /\ sent'[i].sequence = i
               /\ sent'[i].type = "connection" => sent'[i].connection \in Connections
               /\ sent'[i].type = "status" => Reported(i, "ONLINE")'
    <3>1. i \in 0..n /\ i \in 1..Len(sent)
      BY <1>1
    <3> QED
      BY <1>5, <1>8, <3>1 DEF ConnectivityOK, SentOK
  <2>2. /\ sent'[n + 1].sequence = n + 1
        /\ sent'[n + 1].type = "connection" => sent'[n + 1].connection \in Connections
        /\ sent'[n + 1].type = "status" => Reported(n + 1, "ONLINE")'
    BY <1>3, <1>5, <1>9
  <2>3. \E c \in Connections : Reported(n + 1, c)'
    <3>1. e.type \in {"connection", "status"} /\ "ONLINE" \in Connections
      BY DEF Event, Connections
    <3> QED
      BY <1>3, <1>9, <1>10, <3>1
  <2>4. PICK m : m = n + 1
    OBVIOUS
  <2>5. \A i \in 1..Len(sent') :
          /\ sent'[i].sequence = i
          /\ sent'[i].type = "connection" => sent'[i].connection \in Connections
          /\ sent'[i].type = "status" => Reported(i, "ONLINE")'
    BY <1>5, <2>1, <2>2, <2>4
  <2>6. (\E c \in Connections : Reported(Len(sent), c))'
    BY <1>5, <2>3, <2>4 DEF Reported
  <2> QED
    BY <2>5, <2>6 DEF SentOK
<1>12. RowOK'
  <2>1. row.sequence \in 0..n /\ row.sequence <= n
    BY <1>1 DEF ConnectivityOK, RowOK, Inv, TypeOK, State
  <2>2. PICK k \in 0..n : k = row.sequence
    BY <2>1
  <2>3. PICK c : c = row.connection
    OBVIOUS
  <2>4. Reported(k, c)'
    BY <1>8, <2>2, <2>3 DEF ConnectivityOK, RowOK
  <2> QED
    BY <1>1, <1>5, <1>6, <2>1, <2>2, <2>3, <2>4 DEF RowOK, Reported
<1>13. \A x : WasSent(x) => WasSent(x)'
  BY <1>1, <1>5 DEF WasSent
<1>14. CarriedOK'
  <2>1. WasSent(e)'
    BY <1>1, <1>3, <1>5 DEF WasSent
  <2>2. \A x \in inbox' : x.type # "heartbeat" => WasSent(x)'
    BY <1>6, <1>13, <2>1 DEF ConnectivityOK, CarriedOK
  <2>3. \A d : Queued(d) => Queued(d)'
    BY <1>6, <1>13 DEF Queued
  <2>4. ASSUME NEW p \in Processes, NEW s \in Slots, task'[p][s].place # "idle"
        PROVE  WasSent(task[p][s].delivery.event)' /\ (s \notin Handlers => Queued(task[p][s].delivery)')
    <3>1. PICK t : t = task[p][s] /\ t = task'[p][s]
      BY <1>6
    <3>2. WasSent(t.delivery.event)' /\ (s \notin Handlers => Queued(t.delivery)')
      BY <1>13, <2>3, <2>4, <3>1 DEF ConnectivityOK, CarriedOK
    <3> QED
      BY <3>1, <3>2 DEF WasSent, Queued, Times
  <2>5. \A d \in queue' : Queued(d)'
    BY <1>6, <2>3 DEF ConnectivityOK, CarriedOK
  <2> QED
    BY <2>2, <2>4, <2>5 DEF CarriedOK
<1>15. SavedOK'
  BY <1>6 DEF ConnectivityOK, SavedOK
<1>16. ReportsOK'
  <2>1. \A x : OnItsWay(x) => OnItsWay(x)'
    BY <1>6 DEF OnItsWay
  <2>2. OnItsWay(e)'
    BY <1>6 DEF OnItsWay
  <2>3. Without({"broker"})' = Without({"broker"})
    BY <1>6 DEF Without
  <2>4. ASSUME registered', Without({"broker"})', (Times("database") <= RetryLimit)',
               NEW i \in 1..Len(sent'), sent'[i].type = "connection"
        PROVE  OnItsWay(sent[i])'
    <3>1. PICK x : x = sent'[i]
      OBVIOUS
    <3>2. OnItsWay(x)'
      BY <1>1, <1>5, <1>6, <2>1, <2>2, <2>3, <2>4, <3>1 DEF ConnectivityOK, ReportsOK
    <3> QED
      BY <3>1, <3>2 DEF OnItsWay
  <2> QED
    BY <2>4 DEF ReportsOK
<1> QED
  BY <1>11, <1>12, <1>14, <1>15, <1>16 DEF ConnectivityOK

-----------------------------------------------------------------------------
(* What the other steps keep *)

LEMMA SentStays == ASSUME UNCHANGED sent, SentOK PROVE SentOK'
BY DEF SentOK, Reported

LEMMA RowStays == ASSUME UNCHANGED <<sent, row>>, RowOK PROVE RowOK'
BY DEF RowOK, Reported

LEMMA QueuedStays ==
  ASSUME Inv, Smooth \/ \E k : Fault(k), UNCHANGED sent, NEW d \in Delivery, Queued(d)
  PROVE  Queued(d)'
<1>1. Times("database") \in Nat /\ Times("database")' \in Nat /\ Times("database") <= Times("database")'
  BY FaultsCounted DEF Inv
<1>2. d.retries \in Nat
  BY DEF Delivery
<1> QED
  BY <1>1, <1>2 DEF Queued, WasSent

LEMMA CarriedStays ==
  ASSUME Inv, ConnectivityOK, Smooth \/ \E k : Fault(k), UNCHANGED sent,
         \A e \in inbox' : e \in inbox \/ e.type = "heartbeat",
         \A d \in queue' : d \in queue \/ Queued(d)',
         \A p \in Processes, s \in Slots : task'[p][s].place # "idle" =>
           \/ task[p][s].place # "idle" /\ task'[p][s].delivery = task[p][s].delivery
           \/ \E d : task'[p][s].delivery = d /\ WasSent(d.event) /\ (s \notin Handlers => Queued(d)')
  PROVE  CarriedOK'
<1>1. \A e : WasSent(e)' <=> WasSent(e)
  BY DEF WasSent
<1>2. \A e \in inbox' : e.type # "heartbeat" => WasSent(e)'
  BY <1>1 DEF ConnectivityOK, CarriedOK
<1>3. \A d \in queue' : Queued(d)'
  BY QueuedStays DEF ConnectivityOK, CarriedOK, Inv, TypeOK
<1>4. ASSUME NEW p \in Processes, NEW s \in Slots, task'[p][s].place # "idle"
      PROVE  \E d : task'[p][s].delivery = d /\ WasSent(d.event)' /\ (s \notin Handlers => Queued(d)')
  <2>1. CASE task[p][s].place # "idle" /\ task'[p][s].delivery = task[p][s].delivery
    <3>1. PICK d \in Delivery : d = task[p][s].delivery
      BY SlotFacts DEF Task
    <3>2. WasSent(d.event) /\ (s \notin Handlers => Queued(d))
      BY <2>1, <3>1 DEF ConnectivityOK, CarriedOK
    <3> QED
      BY <1>1, <2>1, <3>1, <3>2, QueuedStays
  <2>2. CASE \E d : task'[p][s].delivery = d /\ WasSent(d.event) /\ (s \notin Handlers => Queued(d)')
    BY <1>1, <2>2
  <2> QED
    BY <1>4, <2>1, <2>2
<1>5. ASSUME NEW p \in Processes, NEW s \in Slots, task'[p][s].place # "idle"
      PROVE  WasSent(task[p][s].delivery.event)' /\ (s \notin Handlers => Queued(task[p][s].delivery)')
  <2>1. PICK d : task'[p][s].delivery = d /\ WasSent(d.event)' /\ (s \notin Handlers => Queued(d)')
    BY <1>4, <1>5
  <2> QED
    BY <2>1 DEF WasSent, Queued, Times
<1> QED
  BY <1>2, <1>3, <1>5 DEF CarriedOK

LEMMA SavedStays ==
  ASSUME Inv, ConnectivityOK, registered' => registered, row'.sequence \in Nat, row.sequence <= row'.sequence,
         \A p \in Processes : task'[p]["consumer"].place \in {"cache", "announce", "settle"} =>
           \/ /\ task[p]["consumer"].place \in {"cache", "announce", "settle"}
              /\ task'[p]["consumer"].delivery = task[p]["consumer"].delivery
           \/ registered' => task'[p]["consumer"].delivery.event.sequence <= row'.sequence
  PROVE  SavedOK'
<1> SUFFICES ASSUME registered', NEW p \in Processes,
                    task'[p]["consumer"].place \in {"cache", "announce", "settle"}
             PROVE  task'[p]["consumer"].delivery.event.sequence <= row'.sequence
  BY DEF SavedOK
<1>1. CASE /\ task[p]["consumer"].place \in {"cache", "announce", "settle"}
           /\ task'[p]["consumer"].delivery = task[p]["consumer"].delivery
  <2>1. PICK n : n = task[p]["consumer"].delivery.event.sequence
    OBVIOUS
  <2>2. n <= row.sequence
    BY <1>1, <2>1 DEF ConnectivityOK, SavedOK
  <2>3. n \in Nat /\ row.sequence \in Nat
    <3>1. "consumer" \in Slots /\ row \in State
      BY DEF Slots, Inv, TypeOK
    <3>2. task[p]["consumer"] \in Task
      BY <3>1, SlotFacts
    <3> QED
      BY <2>1, <3>1, <3>2 DEF Task, Delivery, Event, State
  <2> QED
    BY <1>1, <2>1, <2>2, <2>3
<1>2. CASE registered' => task'[p]["consumer"].delivery.event.sequence <= row'.sequence
  BY <1>2
<1> QED
  BY <1>1, <1>2

LEMMA ReportsStay ==
  ASSUME Inv, ConnectivityOK, Smooth \/ \E k : Fault(k), UNCHANGED sent,
         registered' => registered, row'.sequence \in Nat, row.sequence <= row'.sequence,
         \A e \in inbox : e.type = "connection" =>
           e \in inbox' \/ (\E d \in queue' : d.event = e) \/ ~Without({"broker"})',
         \A d \in queue :
           \/ \E x \in queue' : x.event = d.event
           \/ registered' => d.event.sequence <= row'.sequence
           \/ Times("database")' > RetryLimit
  PROVE  ReportsOK'
<1>1. Times("database") \in Nat /\ Times("database")' \in Nat /\ Times("database") <= Times("database")'
  BY FaultsCounted DEF Inv
<1>2. Without({"broker"})' => Without({"broker"})
  BY FaultFacts, WithoutStays DEF Inv
<1>3. row.sequence \in Nat /\ RetryLimit \in Nat
  BY DEF Inv, TypeOK, State
<1> SUFFICES ASSUME registered', Without({"broker"})', Times("database")' <= RetryLimit,
                    NEW i \in 1..Len(sent), sent[i].type = "connection"
             PROVE  OnItsWay(sent[i])'
  BY DEF ReportsOK
<1>4. PICK e : e = sent[i] /\ e = sent'[i]
  OBVIOUS
<1>5. e.sequence \in Nat /\ OnItsWay(e) /\ e.type = "connection"
  <2>1. e.sequence = i
    BY <1>4 DEF ConnectivityOK, SentOK
  <2>2. Times("database") <= RetryLimit
    BY <1>1, <1>3
  <2> QED
    BY <1>2, <1>4, <2>1, <2>2 DEF ConnectivityOK, ReportsOK
<1>6. OnItsWay(e)'
  <2>1. CASE e.sequence <= row.sequence
    BY <1>3, <1>5, <2>1 DEF OnItsWay
  <2>2. CASE e \in inbox
    BY <1>5, <2>2 DEF OnItsWay
  <2>3. ASSUME NEW d \in queue, d.event = e PROVE OnItsWay(e)'
    <3>1. ~(Times("database")' > RetryLimit)
      BY <1>1, <1>3
    <3> QED
      BY <2>3, <3>1 DEF OnItsWay
  <2> QED
    BY <1>5, <2>1, <2>2, <2>3 DEF OnItsWay
<1> QED
  BY <1>4, <1>6 DEF OnItsWay

\* The slots, the row and the queue stay, and so do the robot's events.
LEMMA RestKeeps ==
  ASSUME Inv, ConnectivityOK, Smooth \/ \E k : Fault(k), UNCHANGED <<sent, row, queue, task>>,
         registered' => registered, \A e \in inbox' : e \in inbox \/ e.type = "heartbeat",
         \A e \in inbox : e.type = "connection" => e \in inbox'
  PROVE  ConnectivityOK'
<1>1. row.sequence \in Nat
  BY DEF Inv, TypeOK, State
<1>2. SentOK' /\ RowOK'
  BY SentStays, RowStays DEF ConnectivityOK
<1>3. CarriedOK'
  BY CarriedStays
<1>4. SavedOK'
  BY <1>1, SavedStays
<1>5. ReportsOK'
  BY <1>1, ReportsStay
<1> QED
  BY <1>2, <1>3, <1>4, <1>5 DEF ConnectivityOK

LEMMA SurroundingsKeep ==
  ASSUME Inv, ConnectivityOK, Tick \/ ExpireLastSeen \/ LoseRedis \/ DeleteRobot \/ SendHeartbeat
  PROVE  ConnectivityOK'
<1>1. /\ UNCHANGED <<sent, row, queue, task>> /\ (registered' => registered)
      /\ Smooth \/ \E k : Fault(k)
  <2>1. CASE Tick
    BY <2>1 DEF Tick, stored, robot, transport, Smooth
  <2>2. CASE SendHeartbeat
    BY <2>2 DEF SendHeartbeat, stored, transport, Smooth
  <2>3. CASE ExpireLastSeen
    BY <2>3 DEF ExpireLastSeen, stored, robot, transport
  <2>4. CASE LoseRedis
    BY <2>4 DEF LoseRedis, stored, robot, transport
  <2>5. CASE DeleteRobot
    BY <2>5 DEF DeleteRobot, robot, transport
  <2> QED
    BY <2>1, <2>2, <2>3, <2>4, <2>5
<1>2. inbox' = inbox \/ \E b : inbox' = inbox \cup {[type |-> "heartbeat", id |-> b]}
  BY DEF Tick, ExpireLastSeen, LoseRedis, DeleteRobot, SendHeartbeat, transport
<1>3. \A b : [type |-> "heartbeat", id |-> b].type = "heartbeat"
  OBVIOUS
<1> QED
  BY <1>1, <1>2, <1>3, RestKeeps

LEMMA HeartbeatKeeps ==
  ASSUME Inv, ConnectivityOK, NEW m \in inbox, RefreshLastSeen(m)
  PROVE  ConnectivityOK'
<1>1. /\ UNCHANGED <<sent, row, queue, task, registered>> /\ (Smooth \/ \E k : Fault(k))
      /\ inbox' \in {inbox, inbox \ {m}} /\ m.type = "heartbeat"
  BY DEF RefreshLastSeen, Take, stored, robot, Smooth
<1> QED
  BY <1>1, RestKeeps

LEMMA RouteKeeps ==
  ASSUME Inv, ConnectivityOK, NEW m \in inbox, Route(m)
  PROVE  ConnectivityOK'
<1>1. /\ UNCHANGED <<sent, row, task, registered>> /\ (Smooth \/ \E k : Fault(k))
      /\ inbox' \in {inbox, inbox \ {m}} /\ m.type = "connection"
      /\ \/ queue' = queue \cup {[event |-> m, retries |-> 0]}
         \/ queue' = queue /\ Fault("broker")
  BY DEF Route, Take, stored, robot, Smooth
<1>2. row.sequence \in Nat
  BY DEF Inv, TypeOK, State
<1>3. SentOK' /\ RowOK'
  BY <1>1, SentStays, RowStays DEF ConnectivityOK
<1>4. PICK d : d = [event |-> m, retries |-> 0]
  OBVIOUS
<1>5. d.event = m /\ d.retries = 0
  BY <1>4
<1>6. Queued(d)'
  <2>1. WasSent(m)' /\ Times("database")' \in Nat
    BY <1>1, FaultsCounted DEF ConnectivityOK, CarriedOK, Inv, WasSent
  <2> QED
    BY <1>1, <1>5, <2>1 DEF Queued
<1>7. CarriedOK'
  BY <1>1, <1>4, <1>6, CarriedStays
<1>8. SavedOK'
  BY <1>1, <1>2, SavedStays
<1>9. ReportsOK'
  <2>1. Fault("broker") => ~Without({"broker"})'
    BY FaultRemembered DEF Inv
  <2>2. ASSUME NEW e \in inbox, e.type = "connection"
        PROVE  e \in inbox' \/ (\E x \in queue' : x.event = e) \/ ~Without({"broker"})'
    BY <1>1, <1>4, <1>5, <2>1
  <2> QED
    BY <1>1, <1>2, <2>2, ReportsStay
<1> QED
  BY <1>3, <1>7, <1>8, <1>9 DEF ConnectivityOK

-----------------------------------------------------------------------------
(* One slot takes a step *)

\* One slot goes on with x, and everything but the row and its slot stays.
LEMMA SlotKeeps ==
  ASSUME Inv, ConnectivityOK, Smooth \/ \E k : Fault(k), NEW p \in Processes, NEW s \in Slots, NEW x, Goto(p, s, x),
         UNCHANGED <<sent, inbox, queue>>, registered' => registered,
         row'.sequence \in Nat, row.sequence <= row'.sequence, RowOK',
         task[p][s].place # "idle", x.delivery = task[p][s].delivery,
         s = "consumer" /\ x.place \in {"cache", "announce", "settle"} =>
           (registered' => x.delivery.event.sequence <= row'.sequence)
  PROVE  ConnectivityOK'
<1>1. /\ task'[p][s] = x
      /\ \A q \in Processes, u \in Slots : q # p \/ u # s => task'[q][u] = task[q][u]
  BY DEF Goto, Inv, TypeOK
<1>2. SentOK'
  BY SentStays DEF ConnectivityOK
<1>3. CarriedOK'
  BY <1>1, CarriedStays
<1>4. SavedOK'
  <2>1. "consumer" \in Slots
    BY DEF Slots
  <2>2. ASSUME NEW q \in Processes, task'[q]["consumer"].place \in {"cache", "announce", "settle"}
        PROVE  \/ /\ task[q]["consumer"].place \in {"cache", "announce", "settle"}
                  /\ task'[q]["consumer"].delivery = task[q]["consumer"].delivery
               \/ registered' => task'[q]["consumer"].delivery.event.sequence <= row'.sequence
    BY <1>1, <2>1, <2>2
  <2> QED
    BY <2>2, SavedStays
<1>5. ReportsOK'
  BY ReportsStay
<1> QED
  BY <1>2, <1>3, <1>4, <1>5 DEF ConnectivityOK

LEMMA SaveKeeps ==
  ASSUME Inv, ConnectivityOK, NEW p \in Processes, NEW s \in Slots, SaveStatus(p, s)
  PROVE  ConnectivityOK'
<1>1. PICK t \in Task : t = task[p][s]
  BY SlotFacts
<1>2. PICK e \in Event : e = t.delivery.event
  BY <1>1, SaveFacts
<1>3. /\ t.place = "save" /\ row' = NewState(e) /\ row'.sequence = e.sequence /\ row.sequence < row'.sequence
      /\ row.sequence \in Nat /\ row'.sequence \in Nat
  BY <1>1, <1>2, SaveFacts
<1>4. /\ UNCHANGED <<sent, inbox, queue, registered>> /\ (Smooth \/ \E k : Fault(k)) /\ Applicable(e)
  BY <1>1, <1>2 DEF SaveStatus, robot, transport, AcceptStatusEvent
<1>5. PICK x : Goto(p, s, x) /\ x.delivery = t.delivery
  <2>1. PICK x : /\ Goto(p, s, x)
                 /\ x = [t EXCEPT !.place = "cache", !.state = NewState(e),
                                  !.changed = NewState(e).connection # row.connection]
    BY <1>1, <1>2 DEF SaveStatus
  <2>2. x.delivery = t.delivery
    BY <2>1 DEF Task
  <2> QED
    BY <2>1, <2>2
<1>6. PICK n : n = e.sequence
  OBVIOUS
<1>7. n \in 1..Len(sent) /\ e = sent[n]
  BY <1>1, <1>2, <1>3, <1>6 DEF ConnectivityOK, CarriedOK, WasSent
<1>8. RowOK'
  <2>1. Len(sent) \in Nat
    BY DEF Inv, TypeOK
  <2>2. PICK c : c = row'.connection
    OBVIOUS
  <2>3. Reported(n, c)
    <3>1. CASE e.type = "connection"
      <4>1. c = e.connection
        <5>1. e.connection \in Connections
          BY <1>7, <3>1 DEF ConnectivityOK, SentOK
        <5> QED
          BY <1>3, <2>2, <5>1 DEF NewState, Given, Connections
      <4>2. n \in 1..n /\ \A i \in (n + 1)..n : FALSE
        BY <1>7, <2>1
      <4> QED
        BY <1>7, <3>1, <4>1, <4>2 DEF Reported
    <3>2. CASE e.type = "status"
      <4>1. c = "ONLINE"
        BY <1>3, <1>4, <2>2, <3>2 DEF Applicable, NewState, Given
      <4> QED
        BY <1>7, <3>2, <4>1 DEF ConnectivityOK, SentOK
    <3> QED
      BY <3>1, <3>2 DEF Event
  <2> QED
    <3>1. Reported(n, c)'
      BY <1>4, <2>3 DEF Reported
    <3>2. row'.sequence = n /\ row'.connection = c
      BY <1>3, <1>6, <2>2
    <3>3. sent' = sent /\ n <= Len(sent)
      BY <1>4, <1>7, <2>1
    <3>4. Reported(row.sequence, row.connection)'
      BY ONLY <3>1, <3>2 DEF Reported
    <3> QED
      BY <3>2, <3>3, <3>4 DEF RowOK
<1> QED
  BY <1>1, <1>2, <1>3, <1>4, <1>5, <1>8, SlotKeeps

\* The connection consumer's event is refused only for its number.
LEMMA AdvanceKeeps ==
  ASSUME Inv, ConnectivityOK, NEW p \in Processes, NEW s \in Slots,
         IgnoreStatus(p, s) \/ UpdateCacheIfCurrent(p, s) \/ Publish(p, s)
  PROVE  ConnectivityOK'
<1>1. PICK t \in Task : t = task[p][s]
  BY SlotFacts
<1>2. /\ UNCHANGED <<sent, inbox, queue, registered, row>> /\ (Smooth \/ \E k : Fault(k))
      /\ t.place \in {"save", "cache", "announce"}
  BY <1>1 DEF IgnoreStatus, UpdateCacheIfCurrent, Publish, stored, robot, transport, Smooth
<1>3. PICK x : Goto(p, s, x) /\ x.delivery = t.delivery
  <2>1. PICK place : Goto(p, s, [t EXCEPT !.place = place])
    BY <1>1 DEF IgnoreStatus, UpdateCacheIfCurrent, Publish, AfterCache
  <2>2. [t EXCEPT !.place = place].delivery = t.delivery
    BY DEF Task
  <2> QED
    BY <2>1, <2>2
<1>4. row.sequence \in Nat /\ RowOK'
  <2>1. row.sequence \in Nat
    BY DEF Inv, TypeOK, State
  <2>2. UNCHANGED <<sent, row>> /\ RowOK
    BY <1>2 DEF ConnectivityOK
  <2>3. RowOK'
    BY <2>2, RowStays
  <2> QED
    BY <2>1, <2>3
<1>5. ASSUME s = "consumer", registered' PROVE t.delivery.event.sequence <= row.sequence
  <2>1. CASE t.place \in {"cache", "announce"}
    BY <1>1, <1>2, <1>5, <2>1 DEF ConnectivityOK, SavedOK
  <2>2. CASE t.place = "save"
    <3>1. ~AcceptStatusEvent(t.delivery.event)
      BY <1>1, <1>2, <1>5, <2>2 DEF IgnoreStatus, UpdateCacheIfCurrent, Publish
    <3>2. t.delivery.event.type = "connection"
      BY <1>1, <1>5, <2>2 DEF ConnectivityOK, CarriedOK, Queued
    <3> QED
      BY <3>1, <3>2 DEF AcceptStatusEvent, Applicable, DuplicateOrOld
  <2> QED
    BY <1>2, <2>1, <2>2
<1> QED
  BY <1>1, <1>2, <1>3, <1>4, <1>5, SlotKeeps

\* A consumer that settles leaves nothing to do, and one that fails a retry.
LEMMA EndKeeps ==
  ASSUME Inv, ConnectivityOK, NEW p \in Processes, NEW s \in Slots, Settle(p, s) \/ FailSave(p, s)
  PROVE  ConnectivityOK'
<1>1. PICK t \in Task : t = task[p][s]
  BY SlotFacts
<1>2. PICK d \in Delivery : d = t.delivery
  BY DEF Task
<1>3. /\ UNCHANGED <<sent, inbox, registered, row>> /\ (Smooth \/ \E k : Fault(k)) /\ Goto(p, s, Idle)
      /\ t.place # "idle" /\ row.sequence \in Nat /\ Idle.place = "idle"
  BY <1>1, IdleShape DEF Settle, FailSave, stored, robot, Smooth, Inv, TypeOK, State
<1>4. /\ task'[p][s] = Idle
      /\ \A q \in Processes, u \in Slots : q # p \/ u # s => task'[q][u] = task[q][u]
  BY <1>3 DEF Goto, Inv, TypeOK
<1>5. SentOK' /\ RowOK'
  BY <1>3, SentStays, RowStays DEF ConnectivityOK
<1>6. /\ Times("database") \in Nat /\ Times("database")' \in Nat /\ d.retries \in 0..RetryLimit
      /\ Fault("database") => Times("database")' = Times("database") + 1
  BY <1>3, FaultsCounted DEF Inv, Delivery
<1>7. ASSUME s \notin Handlers PROVE Queued(d)
  BY <1>1, <1>2, <1>3, <1>7 DEF ConnectivityOK, CarriedOK
<1>8. ASSUME s \notin Handlers, Fault("database")
      PROVE  \/ \E r : Retry(d) = {r} /\ r.event = d.event /\ Queued(r)'
             \/ Retry(d) = {} /\ Times("database")' > RetryLimit
  <2>1. Queued(d)
    BY <1>7, <1>8
  <2>2. CASE d.retries < RetryLimit
    <3>1. PICK r : r = [d EXCEPT !.retries = @ + 1]
      OBVIOUS
    <3>2. r.event = d.event /\ r.retries = d.retries + 1 /\ Retry(d) = {r}
      BY <2>2, <3>1 DEF Retry, Delivery
    <3>3. Queued(r)'
      BY <1>3, <1>6, <1>8, <2>1, <3>2 DEF Queued, WasSent
    <3> QED
      BY <3>2, <3>3
  <2>3. CASE ~(d.retries < RetryLimit)
    BY <1>6, <1>8, <2>1, <2>3 DEF Retry, Queued
  <2> QED
    BY <2>2, <2>3
<1>9. \/ queue' = queue
      \/ s \notin Handlers /\ queue' = queue \cup Retry(d) /\ Fault("database")
      \/ s = "consumer" /\ queue' = (queue \ {d}) \cup Retry(d) /\ Fault("database")
      \/ s = "consumer" /\ queue' = queue \ {d} /\ t.place = "settle"
  <2>1. CASE Settle(p, s)
    BY <1>1, <1>2, <2>1 DEF Settle
  <2>2. CASE FailSave(p, s)
    BY <1>1, <1>2, <2>2 DEF FailSave, Slots
  <2> QED
    BY <2>1, <2>2
<1>10. "consumer" \in Slots /\ "consumer" \notin Handlers
  BY DEF Slots
<1>11. CarriedOK'
  <2>1. \A x \in queue' : x \in queue \/ Queued(x)'
    BY <1>8, <1>9, <1>10
  <2> QED
    BY <1>3, <1>4, <2>1, CarriedStays
<1>12. SavedOK'
  BY <1>3, <1>4, <1>10, SavedStays
<1>13. ReportsOK'
  <2>1. s = "consumer" /\ t.place = "settle" => (registered' => d.event.sequence <= row'.sequence)
    BY <1>1, <1>2, <1>3 DEF ConnectivityOK, SavedOK
  <2>2. ASSUME NEW y \in queue
        PROVE  \/ \E x \in queue' : x.event = y.event
               \/ registered' => y.event.sequence <= row'.sequence
               \/ Times("database")' > RetryLimit
    BY <1>8, <1>9, <1>10, <2>1
  <2> QED
    BY <1>3, <2>2, ReportsStay
<1> QED
  BY <1>5, <1>11, <1>12, <1>13 DEF ConnectivityOK


\* A consumer takes an event of the queue, which stays there.
LEMMA ConsumeKeeps ==
  ASSUME Inv, ConnectivityOK, NEW p \in Processes, NEW d \in queue, Consume(p, d)
  PROVE  ConnectivityOK'
<1>1. PICK x : Goto(p, "consumer", x) /\ x = [Idle EXCEPT !.place = "save", !.delivery = d, !.received = now]
  BY DEF Consume, Receive
<1>2. x.place = "save" /\ x.delivery = d
  BY <1>1 DEF Idle
<1>3. /\ UNCHANGED <<sent, inbox, queue, registered, row>> /\ Smooth
      /\ row.sequence \in Nat /\ "consumer" \in Slots
  BY DEF Consume, stored, robot, transport, Smooth, Inv, TypeOK, State, Slots
<1>4. /\ task'[p]["consumer"] = x
      /\ \A q \in Processes, u \in Slots : q # p \/ u # "consumer" => task'[q][u] = task[q][u]
  BY <1>1, <1>3 DEF Goto, Inv, TypeOK
<1>5. SentOK' /\ RowOK'
  BY <1>3, SentStays, RowStays DEF ConnectivityOK
<1>6. Queued(d) /\ Queued(d)' /\ WasSent(d.event)
  BY <1>3, QueuedStays DEF ConnectivityOK, CarriedOK, Inv, TypeOK, Queued
<1>7. CarriedOK'
  BY <1>2, <1>3, <1>4, <1>6, CarriedStays
<1>8. SavedOK'
  BY <1>2, <1>3, <1>4, SavedStays
<1>9. ReportsOK'
  BY <1>3, ReportsStay
<1> QED
  BY <1>5, <1>7, <1>8, <1>9 DEF ConnectivityOK

\* A coroutine takes an operational event.
LEMMA HandleKeeps ==
  ASSUME Inv, ConnectivityOK, NEW p \in Processes, NEW s \in Slots, NEW e \in inbox, Handle(p, s, e)
  PROVE  ConnectivityOK'
<1>1. PICK d : d = [event |-> e, retries |-> 0]
  OBVIOUS
<1>2. PICK x : Goto(p, s, x) /\ x = [Idle EXCEPT !.place = "save", !.delivery = d, !.received = now]
  BY <1>1 DEF Handle, Receive
<1>3. x.place = "save" /\ x.delivery = d /\ d.event = e
  BY <1>1, <1>2 DEF Idle
<1>4. /\ UNCHANGED <<sent, queue, registered, row>> /\ (Smooth \/ \E k : Fault(k))
      /\ inbox' \in {inbox, inbox \ {e}} /\ e.type = "status" /\ s \in Handlers
      /\ row.sequence \in Nat /\ s # "consumer"
  BY DEF Handle, Take, stored, robot, Inv, TypeOK, State
<1>5. /\ task'[p][s] = x
      /\ \A q \in Processes, u \in Slots : q # p \/ u # s => task'[q][u] = task[q][u]
  BY <1>2 DEF Goto, Inv, TypeOK
<1>6. SentOK' /\ RowOK'
  BY <1>4, SentStays, RowStays DEF ConnectivityOK
<1>7. WasSent(e)
  BY <1>4 DEF ConnectivityOK, CarriedOK
<1>8. CarriedOK'
  BY <1>3, <1>4, <1>5, <1>7, CarriedStays
<1>9. SavedOK'
  <2>1. "consumer" \in Slots
    BY DEF Slots
  <2> QED
    BY <1>4, <1>5, <2>1, SavedStays
<1>10. ReportsOK'
  BY <1>4, ReportsStay
<1> QED
  BY <1>6, <1>8, <1>9, <1>10 DEF ConnectivityOK

\* A process that stops has acknowledged nothing more.
LEMMA CrashKeeps ==
  ASSUME Inv, ConnectivityOK, NEW p \in Processes, Crash(p)
  PROVE  ConnectivityOK'
<1>1. /\ UNCHANGED <<sent, inbox, queue, registered, row>> /\ (\E k : Fault(k))
      /\ row.sequence \in Nat /\ Idle.place = "idle"
  BY IdleShape DEF Crash, stored, robot, transport, Inv, TypeOK, State
<1>2. \A q \in Processes, u \in Slots : task'[q][u] = task[q][u] \/ task'[q][u] = Idle
  BY DEF Crash, Inv, TypeOK
<1>3. SentOK' /\ RowOK'
  BY <1>1, SentStays, RowStays DEF ConnectivityOK
<1>4. CarriedOK'
  BY <1>1, <1>2, CarriedStays
<1>5. SavedOK'
  <2>1. "consumer" \in Slots
    BY DEF Slots
  <2> QED
    BY <1>1, <1>2, <2>1, SavedStays
<1>6. ReportsOK'
  BY <1>1, ReportsStay
<1> QED
  BY <1>3, <1>4, <1>5, <1>6 DEF ConnectivityOK

\* The callback whose channel is gone keeps its event, which the queue keeps too.
LEMMA ReconnectKeeps ==
  ASSUME Inv, ConnectivityOK, NEW p \in Processes, Reconnect(p)
  PROVE  ConnectivityOK'
<1>1. PICK t \in Task : t = task[p]["consumer"] /\ t.place # "idle"
  BY SlotFacts DEF Reconnect, Slots
<1>2. PICK d \in Delivery : d = t.delivery
  BY DEF Task
<1>3. /\ UNCHANGED <<sent, inbox, queue, registered, row>> /\ (\E k : Fault(k))
      /\ row.sequence \in Nat /\ Idle.place = "idle" /\ "consumer" \in Slots /\ "orphan" \in Slots
      /\ "consumer" \notin Handlers
  <2>1. UNCHANGED <<sent, inbox, queue, registered, row>> /\ (\E k : Fault(k))
    BY DEF Reconnect, stored, robot, transport
  <2>2. row.sequence \in Nat /\ Idle.place = "idle"
    BY IdleShape DEF Inv, TypeOK, State
  <2>3. "consumer" \in Slots /\ "orphan" \in Slots /\ "consumer" \notin Handlers
    BY DEF Slots
  <2> QED
    BY <2>1, <2>2, <2>3
<1>4. /\ task'[p]["orphan"] = t /\ task'[p]["consumer"] = Idle
      /\ \A q \in Processes, u \in Slots : q # p \/ u \notin {"consumer", "orphan"} => task'[q][u] = task[q][u]
  BY <1>1, <1>3 DEF Reconnect, Inv, TypeOK
<1>5. SentOK' /\ RowOK'
  BY <1>3, SentStays, RowStays DEF ConnectivityOK
<1>6. Queued(d) /\ WasSent(d.event)
  BY <1>1, <1>2, <1>3 DEF ConnectivityOK, CarriedOK
<1>7. Queued(d)'
  BY <1>3, <1>6, QueuedStays
<1>8. CarriedOK'
  <2>1. ASSUME NEW q \in Processes, NEW u \in Slots, task'[q][u].place # "idle"
        PROVE  \/ task[q][u].place # "idle" /\ task'[q][u].delivery = task[q][u].delivery
               \/ \E y : task'[q][u].delivery = y /\ WasSent(y.event) /\ (u \notin Handlers => Queued(y)')
    BY <1>1, <1>2, <1>3, <1>4, <1>6, <1>7, <2>1
  <2> QED
    BY <1>3, <2>1, CarriedStays
<1>9. SavedOK'
  BY <1>3, <1>4, SavedStays
<1>10. ReportsOK'
  BY <1>3, ReportsStay
<1> QED
  BY <1>5, <1>8, <1>9, <1>10 DEF ConnectivityOK

-----------------------------------------------------------------------------

LEMMA ConnectivityInit == Init => ConnectivityOK
<1> SUFFICES ASSUME Init PROVE ConnectivityOK
  OBVIOUS
<1>1. sent = <<>> /\ Len(sent) = 0 /\ 1..Len(sent) = {}
  BY DEF Init
<1>2. row.sequence = 0 /\ row.connection = "OFFLINE"
  BY DEF Init, NoCache
<1>3. Reported(0, "OFFLINE") /\ "OFFLINE" \in Connections
  BY DEF Reported, Connections
<1>4. \A p \in Processes, s \in Slots : task[p][s].place = "idle"
  BY IdleShape, InitInv DEF Inv, Init
<1>5. SentOK /\ RowOK
  BY <1>1, <1>2, <1>3 DEF SentOK, RowOK
<1>6. CarriedOK /\ SavedOK
  <2>1. inbox = {} /\ queue = {} /\ "consumer" \in Slots
    BY DEF Init, Slots
  <2> QED
    BY <1>4, <2>1 DEF CarriedOK, SavedOK
<1> QED
  BY <1>1, <1>5, <1>6 DEF ConnectivityOK, ReportsOK

LEMMA ConnectivityStep == Inv /\ ConnectivityOK /\ [Next]_vars => ConnectivityOK'
<1> SUFFICES ASSUME Inv, ConnectivityOK, [Next]_vars PROVE ConnectivityOK'
  OBVIOUS
<1>1. CASE SendConnection \/ SendStatus
  BY <1>1, SendKeeps
<1>2. ASSUME NEW m \in inbox, Route(m) \/ RefreshLastSeen(m) PROVE ConnectivityOK'
  BY <1>2, RouteKeeps, HeartbeatKeeps
<1>3. ASSUME NEW p \in Processes, NEW d \in queue, Consume(p, d) PROVE ConnectivityOK'
  BY <1>3, ConsumeKeeps
<1>4. ASSUME NEW p \in Processes, NEW s \in Slots, NEW e \in inbox, Handle(p, s, e) PROVE ConnectivityOK'
  BY <1>4, HandleKeeps
<1>5. ASSUME NEW p \in Processes, NEW s \in Slots, Process(p, s) \/ FailSave(p, s) PROVE ConnectivityOK'
  BY <1>5, SaveKeeps, AdvanceKeeps, EndKeeps DEF Process
<1>6. CASE Tick \/ ExpireLastSeen \/ LoseRedis \/ DeleteRobot \/ SendHeartbeat
  BY <1>6, SurroundingsKeep
<1>7. ASSUME NEW p \in Processes, Crash(p) \/ Reconnect(p) PROVE ConnectivityOK'
  BY <1>7, CrashKeeps, ReconnectKeeps
<1>8. CASE UNCHANGED vars
  <2>1. UNCHANGED <<sent, row, queue, task, registered, inbox, faults>>
    BY <1>8 DEF vars, stored, robot, transport
  <2> QED
    BY <2>1, RestKeeps DEF Smooth
<1> QED
  BY <1>1, <1>2, <1>3, <1>4, <1>5, <1>6, <1>7, <1>8 DEF Next

\* The row stands for the reports up to its number, and every connectivity event
\* after it is in MQTT or in the queue, whatever is delivered twice, overtaken,
\* retried, or left behind by a crash or a replaced channel.
THEOREM ReportsAreKept == Spec => []ConnectivityOK
<1>1. Spec => []Inv
  BY InvHolds
<1> QED
  BY <1>1, ConnectivityInit, ConnectivityStep, PTL DEF Spec

\* With nothing left to handle, the row shows the robot's last connectivity
\* (process_status_event refuses no event that a later one has not replaced).
THEOREM ConnectivityIsSettled == Spec => []ConnectivityConverges
<1>1. Spec => []Inv /\ []ConnectivityOK
  BY InvHolds, ReportsAreKept
<1> QED
  BY <1>1, ConnectivityIsVisible, PTL

\* The snapshot in Redis (update_robot_status_cache) settles as well, unless Redis
\* failed or forgot, or a process died between the two transactions.
CachedConnectivityConverges ==
  Quiet /\ registered /\ Without({"broker", "redis write", "redis loss", "crash"})
        /\ Times("database") <= RetryLimit =>
    cache.connection = LastConnection

\* With nothing left to handle, the cache shows the robot's last connectivity too: the
\* row does, and no transaction is left that a difference could be waiting for.
THEOREM CachedConnectivityIsSettled == Spec => []CachedConnectivityConverges
<1>1. ConnectivityConverges /\ CacheCatchesUp => CachedConnectivityConverges
  <2>1. Without({"broker", "redis write", "redis loss", "crash"}) =>
          Without({"broker"}) /\ Without({"redis write", "redis loss", "crash"})
    BY DEF Without
  <2>2. Quiet => \A p \in Processes, s \in Slots : task[p][s].place # "cache"
    BY DEF Quiet
  <2> QED
    BY <2>1, <2>2 DEF ConnectivityConverges, CacheCatchesUp, CachedConnectivityConverges
<1> QED
  BY <1>1, ConnectivityIsSettled, CacheFollowsRow, PTL

=============================================================================
