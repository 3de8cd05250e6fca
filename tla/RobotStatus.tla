----------------------------- MODULE RobotStatus -----------------------------
(***************************************************************************)
(* The connectivity and heartbeat freshness of one robot                   *)
(* (app/services/bot_status.py and the routes that feed it).               *)
(*                                                                         *)
(* The robot's own messages arrive over MQTT.  Connectivity events are     *)
(* passed on to a RabbitMQ queue and handled by one consumer per backend   *)
(* process; operational events and heartbeats are handled directly, each   *)
(* by a coroutine of its own.  A status event is committed to PostgreSQL   *)
(* in one transaction, copied to Redis in a second one and only then       *)
(* broadcast, so another event may come in between any two of the three.   *)
(*                                                                         *)
(* Each transaction holds the lock of the robot's row from its first read  *)
(* to its commit, and every writer of the row and of the two Redis keys    *)
(* holds that lock, so a transaction is one step here.                     *)
(***************************************************************************)
EXTENDS Naturals, Sequences, FiniteSets, SequencesExt

CONSTANTS
  Processes,      \* the backend processes
  Handlers,       \* MQTT coroutines that can run at once in a process
  MaxSequence,    \* bound: the status events the robot sends
  MaxHeartbeats,  \* bound: the heartbeats the robot sends
  MaxTime,        \* bound: the clock
  RetryLimit,     \* RABBITMQ_MAX_RETRIES
  Disturbances,   \* what may go wrong in this instance
  MaxFaults       \* bound: how often something goes wrong

ASSUME StatusAssumption ==
  /\ {MaxSequence, MaxHeartbeats, MaxTime, RetryLimit, MaxFaults} \subseteq Nat
  /\ MaxSequence > 0 /\ MaxTime > 0
  /\ Handlers \cap {"consumer", "orphan"} = {}

Connections == {"ONLINE", "OFFLINE"}
Operations == {"IDLE", "EXECUTING"}

\* RobotStatusEvent: a field the robot left out is "NONE".
Event ==
  [type : {"connection", "status"}, sequence : 1..MaxSequence,
   connection : Connections \cup {"NONE"}, operation : Operations \cup {"NONE"}]

Heartbeat == [type : {"heartbeat"}, id : 1..MaxHeartbeats]

\* A message of the connectivity queue carries how often it was retried.
Delivery == [event : Event, retries : 0..RetryLimit]

\* The part of the row that the Redis cache copies; sequence 0 is a robot that
\* never sent a status event.
State == [connection : Connections, operation : Operations, sequence : 0..MaxSequence]

NoCache == [connection |-> "OFFLINE", operation |-> "IDLE", sequence |-> 0]

\* The consumer callback of a process, the callback whose channel was replaced
\* under it, and the MQTT coroutines.
Slots == Handlers \cup {"consumer", "orphan"}

VARIABLES
  registered,     \* PostgreSQL: the robot's row exists
  row,            \* PostgreSQL: its status and sequence number
  lastSeen,       \* PostgreSQL: its last_seen_at, 0 for NULL
  cache,          \* Redis robot:{id}:state
  live,           \* Redis robot:{id}:last_seen_at, 0 when absent
  now,            \* the backend's clock
  sent,           \* the status events the robot has sent, in its order
  beats,          \* the heartbeats the robot has sent
  inbox,          \* MQTT messages not yet handled
  queue,          \* the connectivity queue, unacknowledged messages included
  task,           \* what each slot of each process is doing
  history,        \* every state committed to the row, in order
  announced,      \* sequence numbers broadcast as robot.status, in order
  faults          \* what has gone wrong so far, in order

stored == <<registered, row, lastSeen, history>>
redis == <<cache, live>>
robot == <<sent, beats>>
transport == <<inbox, queue>>
vars == <<stored, redis, now, robot, transport, task, announced, faults>>

\* A slot keeps the delivery it works on, the time it received it, and the
\* accepted state and whether it changed the connectivity.
Task ==
  [place : {"idle", "save", "cache", "announce", "settle"}, delivery : Delivery,
   received : 0..MaxTime, state : State, changed : BOOLEAN]

NoEvent == [type |-> "connection", sequence |-> 1, connection |-> "ONLINE", operation |-> "NONE"]

Idle ==
  [place |-> "idle", delivery |-> [event |-> NoEvent, retries |-> 0],
   received |-> 0, state |-> NoCache, changed |-> FALSE]

\* A robot is created offline; nothing has been received from it.
Init ==
  /\ registered = TRUE
  /\ row = NoCache
  /\ lastSeen = 0
  /\ cache = NoCache
  /\ live = 0
  /\ now = 1
  /\ sent = <<>>
  /\ beats = 0
  /\ inbox = {}
  /\ queue = {}
  /\ task = [p \in Processes |-> [s \in Slots |-> Idle]]
  /\ history = <<>>
  /\ announced = <<>>
  /\ faults = <<>>

Fault(kind) ==
  /\ kind \in Disturbances
  /\ Len(faults) < MaxFaults
  /\ faults' = Append(faults, kind)

Smooth == UNCHANGED faults

Goto(p, s, t) == task' = [task EXCEPT ![p][s] = t]

-----------------------------------------------------------------------------
(* The robot, MQTT and RabbitMQ *)

LastConnection ==
  LET connections == {i \in DOMAIN sent : sent[i].type = "connection"}
  IN  IF connections = {} THEN "OFFLINE" ELSE sent[Max(connections)].connection

Send(e) ==
  /\ sent' = Append(sent, e)
  /\ inbox' = inbox \cup {e}
  /\ UNCHANGED <<stored, redis, now, beats, queue, task, announced, faults>>

\* robot.online and robot.offline; either may repeat the state already sent, as
\* a reconnect without an offline event and a last will after one do.
SendConnection ==
  /\ Len(sent) < MaxSequence
  /\ \E c \in Connections :
       Send([type |-> "connection", sequence |-> Len(sent) + 1, connection |-> c, operation |-> "NONE"])

\* robot.status.updated comes from a robot that is online: a new operational
\* status, or a connectivity, which may repeat or contradict the one it had.
SendStatus ==
  /\ Len(sent) < MaxSequence
  /\ LastConnection = "ONLINE"
  /\ \E c \in Connections \cup {"NONE"}, o \in Operations \cup {"NONE"} :
       /\ (c = "NONE") # (o = "NONE")
       /\ Send([type |-> "status", sequence |-> Len(sent) + 1, connection |-> c, operation |-> o])

SendHeartbeat ==
  /\ beats < MaxHeartbeats
  /\ LastConnection = "ONLINE"
  /\ beats' = beats + 1
  /\ inbox' = inbox \cup {[type |-> "heartbeat", id |-> beats + 1]}
  /\ UNCHANGED <<stored, redis, now, sent, queue, task, announced, faults>>

\* MQTT hands a message over; with quality of service 1 it may come again.
Take(m) ==
  /\ m \in inbox
  /\ \/ inbox' = inbox \ {m} /\ Smooth
     \/ inbox' = inbox /\ Fault("duplicate")

\* handle_message publishes a connectivity event to the queue; when the broker
\* refuses it, the event is lost and the failure logged.
Route(e) ==
  /\ e.type = "connection"
  /\ \/ Take(e) /\ queue' = queue \cup {[event |-> e, retries |-> 0]}
     \/ e \in inbox /\ inbox' = inbox \ {e} /\ Fault("broker") /\ UNCHANGED queue
  /\ UNCHANGED <<stored, redis, now, robot, task, announced>>

\* An unacknowledged message belongs to the consumer it was delivered to.
Held(d) ==
  \E p \in Processes : task[p]["consumer"].place # "idle" /\ task[p]["consumer"].delivery = d

Receive(p, s, d) ==
  /\ task[p][s].place = "idle"
  /\ Goto(p, s, [Idle EXCEPT !.place = "save", !.delivery = d, !.received = now])

\* prefetch_count = 1: a consumer has at most one delivery.
Consume(p, d) ==
  /\ d \in queue
  /\ ~Held(d)
  /\ Receive(p, "consumer", d)
  /\ UNCHANGED <<stored, redis, now, robot, transport, announced, faults>>

\* An operational event is processed where it arrives.
Handle(p, s, e) ==
  /\ s \in Handlers
  /\ e.type = "status"
  /\ Take(e)
  /\ Receive(p, s, [event |-> e, retries |-> 0])
  /\ UNCHANGED <<stored, redis, now, robot, queue, announced>>

-----------------------------------------------------------------------------
(* The status service *)

\* Variant: a heartbeat from a robot that is offline counts as well.
KnownRobot == registered

\* process_heartbeat_event refreshes the freshness of an online robot only.
Refreshable == registered /\ row.connection = "ONLINE"

\* The online check and the Redis write share one transaction, which ends without
\* a write when the robot is unknown or offline or when Redis is unavailable.
RefreshLastSeen(m) ==
  /\ m.type = "heartbeat"
  /\ \/ /\ Refreshable
        /\ Take(m)
        /\ live' = now
     \/ ~Refreshable /\ Take(m) /\ UNCHANGED live
     \/ /\ Refreshable
        /\ m \in inbox
        /\ inbox' = inbox \ {m}
        /\ Fault("redis write")
        /\ UNCHANGED live
  /\ UNCHANGED <<stored, cache, now, robot, queue, task, announced>>

\* An event that repeats the stored message repeats its sequence number too.
DuplicateOrOld(e) == e.sequence <= row.sequence

\* An operational event is for a robot that is online and leaves it so.
Applicable(e) ==
  e.type = "status" => row.connection = "ONLINE" /\ e.connection \in {"NONE", "ONLINE"}

\* Variant: only the repetition of the last event is refused.
AcceptInAnyOrder(e) ==
  /\ e.sequence # row.sequence
  /\ Applicable(e)

\* Variant: an operational event may come before the robot is online.
AcceptWhileOffline(e) ==
  /\ ~DuplicateOrOld(e)
  /\ e.type = "status" => e.connection \in {"NONE", row.connection}

\* _accept_status_event.
AcceptStatusEvent(e) ==
  /\ ~DuplicateOrOld(e)
  /\ Applicable(e)

Given(new, old) == IF new = "NONE" THEN old ELSE new

\* Variant: what the event leaves out is not kept.
NewStateFromEvent(e) == [connection |-> e.connection, operation |-> e.operation, sequence |-> e.sequence]

\* _new_state: the event's values over the stored ones.
NewState(e) ==
  [connection |-> Given(e.connection, row.connection),
   operation |-> Given(e.operation, row.operation),
   sequence |-> e.sequence]

\* Variant: the offline snapshot is whatever Redis holds.
LastSeenFromRedis(state, received) ==
  IF state.connection = row.connection THEN lastSeen
  ELSE IF state.connection = "ONLINE" THEN received
  ELSE live

\* Going online takes the time of receipt; going offline takes the live heartbeat
\* when it can be read and is newer than what is stored.
LastSeenForStatus(state, received) ==
  IF state.connection = row.connection THEN lastSeen
  ELSE IF state.connection = "ONLINE" THEN received
  ELSE IF live > lastSeen THEN live ELSE lastSeen

\* The first transaction, for an event it accepts.  An unreadable heartbeat
\* leaves the stored time as it is.
SaveStatus(p, s) ==
  LET t == task[p][s]
      e == t.delivery.event
      state == NewState(e)
      changed == state.connection # row.connection
  IN  /\ t.place = "save"
      /\ registered
      /\ AcceptStatusEvent(e)
      /\ row' = state
      /\ history' = Append(history, state)
      /\ \/ lastSeen' = LastSeenForStatus(state, t.received) /\ Smooth
         \/ changed /\ state.connection = "OFFLINE" /\ Fault("redis read") /\ UNCHANGED lastSeen
      /\ Goto(p, s, [t EXCEPT !.place = "cache", !.state = state, !.changed = changed])
      /\ UNCHANGED <<registered, redis, now, robot, transport, announced>>

\* The first transaction, for an unknown robot or an event it refuses.
IgnoreStatus(p, s) ==
  LET t == task[p][s]
  IN  /\ t.place = "save"
      /\ ~(registered /\ AcceptStatusEvent(t.delivery.event))
      /\ Goto(p, s, [t EXCEPT !.place = "settle"])
      /\ UNCHANGED <<stored, redis, now, robot, transport, announced, faults>>

\* The copy for the retry queue; at the limit the message is dead-lettered.
Retry(d) == IF d.retries < RetryLimit THEN {[d EXCEPT !.retries = @ + 1]} ELSE {}

\* The first transaction fails and nothing is stored.  The consumer replaces the
\* message by its retry; a callback whose channel is gone cannot settle the
\* original; a coroutine only logs.
FailSave(p, s) ==
  LET d == task[p][s].delivery
  IN  /\ task[p][s].place = "save"
      /\ Fault("database")
      /\ queue' = CASE s = "consumer" -> (queue \ {d}) \cup Retry(d)
                    [] s = "orphan" -> queue \cup Retry(d)
                    [] OTHER -> queue
      /\ Goto(p, s, Idle)
      /\ UNCHANGED <<stored, redis, now, robot, inbox, announced>>

\* Variant: only a change of connectivity is cached.
UpdateCacheOnChange(t) ==
  IF cache.sequence >= t.state.sequence \/ ~t.changed THEN UNCHANGED redis
  ELSE /\ cache' = t.state
       /\ live' = IF t.state.connection = "OFFLINE" THEN 0
                  ELSE IF live < t.received THEN t.received ELSE live

\* The script of update_robot_status_cache: a fence on the cached sequence, the
\* copy, and on a change of connectivity the start or the end of freshness.
UpdateRobotStatusCache(t) ==
  IF cache.sequence >= t.state.sequence THEN UNCHANGED redis
  ELSE /\ cache' = t.state
       /\ live' = IF ~t.changed THEN live
                  ELSE IF t.state.connection = "OFFLINE" THEN 0
                  ELSE IF live < t.received THEN t.received ELSE live

AfterCache(p, s, current) ==
  Goto(p, s, [task[p][s] EXCEPT !.place = IF task[p][s].changed /\ current THEN "announce" ELSE "settle"])

\* Variant: without the second look at the row's sequence number.
CurrentWhileRegistered(t) == registered

Current(t) == registered /\ row.sequence = t.delivery.event.sequence

\* The second transaction: the cache is written only while the row still holds
\* this event's sequence number.  An exception counts as still current.
UpdateCacheIfCurrent(p, s) ==
  LET t == task[p][s]
  IN  /\ t.place = "cache"
      /\ \/ Current(t) /\ UpdateRobotStatusCache(t) /\ AfterCache(p, s, TRUE) /\ Smooth
         \/ ~Current(t) /\ AfterCache(p, s, FALSE) /\ UNCHANGED redis /\ Smooth
         \/ AfterCache(p, s, TRUE) /\ UNCHANGED redis /\ Fault("redis write")
      /\ UNCHANGED <<stored, now, robot, transport, announced>>

\* The broadcast; a failed delivery is logged and forgotten.
Publish(p, s) ==
  LET t == task[p][s]
  IN  /\ t.place = "announce"
      /\ \/ announced' = Append(announced, t.state.sequence) /\ Smooth
         \/ UNCHANGED announced /\ Fault("delivery")
      /\ Goto(p, s, [t EXCEPT !.place = "settle"])
      /\ UNCHANGED <<stored, redis, now, robot, transport>>

\* The handler returns; the consumer acknowledges its delivery, unless the
\* channel it came from has been replaced.
Settle(p, s) ==
  LET t == task[p][s]
  IN  /\ t.place = "settle"
      /\ queue' = IF s = "consumer" THEN queue \ {t.delivery} ELSE queue
      /\ Goto(p, s, Idle)
      /\ UNCHANGED <<stored, redis, now, robot, inbox, announced, faults>>

-----------------------------------------------------------------------------
(* The surroundings *)

Tick ==
  /\ now < MaxTime
  /\ now' = now + 1
  /\ UNCHANGED <<stored, redis, robot, transport, task, announced, faults>>

\* HEARTBEAT_REDIS_TTL_SECONDS have passed since the key was written.
ExpireLastSeen ==
  /\ live # 0
  /\ live' = 0
  /\ Fault("expiry")
  /\ UNCHANGED <<stored, cache, now, robot, transport, task, announced>>

LoseRedis ==
  /\ cache # NoCache \/ live # 0
  /\ cache' = NoCache
  /\ live' = 0
  /\ Fault("redis loss")
  /\ UNCHANGED <<stored, now, robot, transport, task, announced>>

\* A process stops: its callbacks and coroutines are gone, and what it had not
\* acknowledged is delivered again.
Crash(p) ==
  /\ \E s \in Slots : task[p][s].place # "idle"
  /\ task' = [task EXCEPT ![p] = [s \in Slots |-> Idle]]
  /\ Fault("crash")
  /\ UNCHANGED <<stored, redis, now, robot, transport, announced>>

\* The robust connection comes back with a new channel while a callback runs:
\* the callback goes on, its message is delivered again.
Reconnect(p) ==
  /\ task[p]["consumer"].place # "idle"
  /\ task[p]["orphan"].place = "idle"
  /\ task' = [task EXCEPT ![p]["orphan"] = task[p]["consumer"], ![p]["consumer"] = Idle]
  /\ Fault("reconnect")
  /\ UNCHANGED <<stored, redis, now, robot, transport, announced>>

\* hard_delete_bot removes the row and leaves Redis alone.
DeleteRobot ==
  /\ registered
  /\ registered' = FALSE
  /\ Fault("delete")
  /\ UNCHANGED <<row, lastSeen, history, redis, now, robot, transport, task, announced>>

Process(p, s) ==
  \/ SaveStatus(p, s)
  \/ IgnoreStatus(p, s)
  \/ UpdateCacheIfCurrent(p, s)
  \/ Publish(p, s)
  \/ Settle(p, s)

Next ==
  \/ SendConnection \/ SendStatus \/ SendHeartbeat
  \/ \E m \in inbox : Route(m) \/ RefreshLastSeen(m)
  \/ \E p \in Processes : \E d \in queue : Consume(p, d)
  \/ \E p \in Processes, s \in Slots : \E e \in inbox : Handle(p, s, e)
  \/ \E p \in Processes, s \in Slots : Process(p, s) \/ FailSave(p, s)
  \/ Tick \/ ExpireLastSeen \/ LoseRedis \/ DeleteRobot
  \/ \E p \in Processes : Crash(p) \/ Reconnect(p)

Spec == Init /\ [][Next]_vars

-----------------------------------------------------------------------------
(* Properties *)

\* Type correctness: every variable holds a value of its type.
TypeOK ==
  /\ registered \in BOOLEAN
  /\ {row, cache} \subseteq State
  /\ {lastSeen, live} \subseteq 0..MaxTime
  /\ now \in 1..MaxTime
  /\ sent \in Seq(Event)
  /\ beats \in 0..MaxHeartbeats
  /\ inbox \subseteq Event \cup Heartbeat
  /\ queue \subseteq Delivery
  /\ task \in [Processes -> [Slots -> Task]]
  /\ history \in Seq(State)
  /\ announced \in Seq(1..MaxSequence)
  /\ faults \in Seq(Disturbances) /\ Len(faults) <= MaxFaults

\* Nothing the robot sent is left to do.
Quiet ==
  /\ inbox \subseteq Heartbeat
  /\ queue = {}
  /\ \A p \in Processes, s \in Slots : task[p][s].place = "idle"

\* The cache never leads the database and never falls back: a write to it copies
\* the state the row holds at that moment, whatever was redelivered, delayed or
\* lost on the way (_update_cache_if_current rechecks under the row lock).
CacheCopiesRow == [][cache' # cache => cache' \in {NoCache, row}]_vars

\* None of these kinds of failure has happened.
Without(kinds) == ToSet(faults) \cap kinds = {}

\* A cache that differs from the row is about to be written: the event that made
\* the row what it is has not reached its second transaction yet, and no overtaken
\* event is left to do it instead.  Redis failing or forgetting, or a process that
\* dies between the two transactions, leaves the cache behind; duplicates, refused
\* or retried events, failed transactions and replaced channels do not.
CacheCatchesUp ==
  registered /\ Without({"redis write", "redis loss", "crash"}) /\ cache # row =>
    \E p \in Processes, s \in Slots : task[p][s].place = "cache" /\ task[p][s].state = row

\* How often that kind of failure has happened.
Times(kind) == Cardinality({i \in DOMAIN faults : faults[i] = kind})

\* Once everything the robot sent has been dealt with, the row shows the last
\* connectivity the robot reported: no operational event that overtook a queued
\* connectivity event on its direct route made that event look stale, and no
\* delayed, repeated or redelivered event undid a later one.  (An event that the
\* broker refuses is lost, and so may be one when transactions fail more often
\* than a message is retried.)
ConnectivityConverges ==
  Quiet /\ registered /\ Without({"broker"}) /\ Times("database") <= RetryLimit =>
    row.connection = LastConnection

Before(i) == IF i = 1 THEN "OFFLINE" ELSE history[i - 1].connection

\* The sequence numbers whose commit changed the robot's connectivity.
Transitions == {history[i].sequence : i \in {j \in DOMAIN history : history[j].connection # Before(j)}}

\* One callback at a time works on connectivity events: there is one process, and
\* no callback outlived its channel.
Serial ==
  /\ \A p, q \in Processes : p = q
  /\ Without({"reconnect"})

\* Only a transition is broadcast, and none twice, even when its event is
\* redelivered, duplicated or processed again after a crash; and in the order the
\* robot went through them, so a client's last robot.status is the newest, even
\* after an exception in the second transaction, which counts as still current.
\* (With a second callback beside the first the order may be lost.)
BroadcastsFollowTransitions ==
  /\ IsInjective(announced) /\ ToSet(announced) \subseteq Transitions
  /\ Serial => \A i, j \in DOMAIN announced : i < j => announced[i] < announced[j]

\* The stored last_seen_at never moves backwards.  (A second callback can move it:
\* it saves a later transition with the earlier time at which it received it.)
LastSeenNeverGoesBack == [][Serial => lastSeen' >= lastSeen]_vars

\* An offline row's last_seen_at covers every heartbeat that was recorded: one
\* that won the row lock is in the offline snapshot, one that lost it was refused
\* (the claim of process_heartbeat_event's docstring).  Only where
\* Redis cannot be read does the snapshot do without.
OfflineCoversHeartbeats ==
  registered /\ row.connection = "OFFLINE" /\ Without({"redis read"}) => live <= lastSeen

\* The guide's row for robot.online and robot.offline: an accepted transition
\* results in a robot.status event.
TransitionsAreBroadcast == Quiet => Transitions \subseteq ToSet(announced)

=============================================================================
