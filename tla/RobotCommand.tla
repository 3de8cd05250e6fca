---------------------------- MODULE RobotCommand ----------------------------
(***************************************************************************)
(* The cleaning commands of one robot: RobotActionService, the Redis       *)
(* RobotCommandStore, the robot's RabbitMQ queue and the MQTT gateway.     *)
(* Every key, queue and topic is per robot, so one robot is the whole      *)
(* story.                                                                  *)
(*                                                                         *)
(* Every `await' of the Python code is a point where another task of any   *)
(* backend process may run, so a handler is a sequence of actions that     *)
(* move its task from one place (`at') to the next.  A Redis script is one *)
(* action.                                                                 *)
(*                                                                         *)
(* Time is abstracted to leases.  A lease is one deadline computed by      *)
(* _deadline(): clock plus a fixed timeout, so leases expire in the order  *)
(* in which they were granted, and `horizon' is the last expired one.  A   *)
(* lease is unique, as deadline and updated_at are in a saved record, so   *)
(* comparing records compares what the full-record CAS compares.           *)
(***************************************************************************)
EXTENDS Naturals, FiniteSets

CONSTANTS
  Commands,      \* command identifiers (uuid4), used once each
  NoCommand,     \* an absent reservation; as an origin, the dock centroid
  Assignments,   \* (group, map) pairs the robot may belong to
  Nowhere,       \* robot deleted, or without a map
  Workers,       \* consumers of the robot's queue; two when an old one lingers
  Reconcilers,   \* run_reconciler, get_command and offline events
  Submitters,    \* HTTP requests in submit()
  MaxAttempts,   \* 4 in the code: the first try and three retries
  Evictable,     \* kinds of keys allkeys-lru takes away in the instance
  MaxLeases,     \* bound: deadlines granted
  MaxHorizon,    \* bound: deadlines that expire
  MaxFaults,     \* bound: crashes, raised errors, evictions
  MaxChanges     \* bound: changes of liveness and assignment

ASSUME ConstantsAssumption ==
  /\ NoCommand \notin Commands
  /\ Nowhere \notin Assignments
  /\ MaxAttempts \in Nat \ {0}
  /\ MaxLeases \in Nat /\ MaxHorizon \in Nat
  /\ MaxFaults \in Nat /\ MaxChanges \in Nat
  /\ Evictable \subseteq {"record", "reservation", "marker", "position"}

ASSUME TasksAssumption ==
  /\ Workers \cap Reconcilers = {}
  /\ Workers \cap Submitters = {}
  /\ Reconcilers \cap Submitters = {}

VARIABLES
  active,      \* robot:{id}:active_command, the reservation
  records,     \* robot:{id}:command:{command_id}
  markers,     \* ...:dispatch:{attempt}, confirmed MQTT publications
  position,    \* robot:{id}:position, the last confirmed one
  issued,      \* command identifiers already used
  leases,      \* number of deadlines granted so far
  horizon,     \* deadlines up to this one have passed
  queue,       \* RabbitMQ: the robot's queue and its retry queue
  acks,        \* MQTT: answers on their way to the backend
  heard,       \* attempts that reached the robot's command topic
  verdict,     \* what the robot did with each attempt
  assignment,  \* PostgreSQL: the robot's current group and map
  live,        \* persisted ONLINE and a fresh last_seen_at
  task,        \* local state of the running handlers
  faults,      \* crashes, errors and evictions so far
  changes      \* changes of assignment or liveness so far

store   == <<active, records, markers, position, issued, leases>>
robot   == <<acks, heard, verdict>>
world   == <<horizon, assignment, live>>
budgets == <<faults, changes>>
vars    == <<store, robot, world, budgets, queue, task>>

Tasks    == Workers \cup Reconcilers \cup Submitters
Attempts == 1..MaxAttempts
Pending  == {"QUEUED", "AWAITING_ACK"}
Terminal == {"SUCCEEDED", "FAILED", "TIMED_OUT", "CANCELLED"}

\* A RobotCommandRecord; origin is the command that led there, or the dock.
Record == [status: Pending \cup Terminal \cup {"ABSENT"},
           attempt: 0..MaxAttempts,
           lease: Nat,
           assignment: Assignments \cup {Nowhere},
           origin: Commands \cup {NoCommand}]
Absent == [status |-> "ABSENT", attempt |-> 0, lease |-> 0,
           assignment |-> Nowhere, origin |-> NoCommand]

\* A RobotPositionRecord: the target of command `by'.
Position   == [by: Commands \cup {NoCommand},
               assignment: Assignments \cup {Nowhere}]
NoPosition == [by |-> NoCommand, assignment |-> Nowhere]

\* RobotCommand, and RobotAcknowledgement with its outcome.
Message   == [kind: {"command", "ack", "nack"},
              cmd: Commands, attempt: Attempts]
NoMessage == [kind |-> "none", cmd |-> NoCommand, attempt |-> 0]

Places == {"idle", "ready", "active", "record", "eligible", "liveness", "cancel",
           "act", "publish", "mqtt", "mark", "restore",
           "position", "reserve", "announce"}
Task   == [at: Places,
           msg: Message \cup {NoMessage},
           cmd: Commands \cup {NoCommand},
           snap: Record,     \* active_command: the record as it was read
           held: Record,     \* pending_command: the record as it was written
           facts: Assignments \cup {Nowhere},   \* context read by submit
           seen: Position]                      \* position read by submit
IdleTask == [at |-> "idle", msg |-> NoMessage, cmd |-> NoCommand,
             snap |-> Absent, held |-> Absent,
             facts |-> Nowhere, seen |-> NoPosition]

Expired(lease) == lease <= horizon

Goto(p, place) == task' = [task EXCEPT ![p].at = place]
Stop(p) == task' = [task EXCEPT ![p] = IdleTask]
\* After reconcile_robot returns, submit() goes on and other handlers end.
Leave(p) ==
  IF p \in Submitters
    THEN task' = [task EXCEPT ![p] = [IdleTask EXCEPT !.at = "position",
                                                      !.facts = task[p].facts]]
    ELSE Stop(p)

-----------------------------------------------------------------------------
(* RobotCommandStore *)

\* Variant: the reservation is not compared.
TransitionWithoutReservation(c, old, new) ==
  /\ records[c] = old
  /\ new.status \in {"QUEUED", "AWAITING_ACK", "SUCCEEDED"} => ~Expired(old.lease)

\* The checks of the transition script.
TransitionApplies(c, old, new) ==
  /\ active = c
  /\ records[c] = old
  /\ new.status \in {"QUEUED", "AWAITING_ACK", "SUCCEEDED"} => ~Expired(old.lease)

\* Its writes: a terminal status also releases the reservation.
Write(c, new) ==
  /\ records' = [records EXCEPT ![c] = new]
  /\ active' = IF new.status \in Terminal THEN NoCommand ELSE active

Transition(c, old, new) ==
  IF TransitionApplies(c, old, new) THEN Write(c, new)
                                    ELSE UNCHANGED <<records, active>>

Dispatched(c, rec) == <<c, rec.attempt>> \in markers

\* The origin submit() resolves: a position of the same group and map, or the
\* assigned dock's centroid.
ResolveOrigin(pos, place) ==
  IF pos.by # NoCommand /\ pos.assignment = place THEN pos.by ELSE NoCommand

\* The message bodies.
Envelope(c, a) == [kind |-> "command", cmd |-> c, attempt |-> a]
Answer(c, a, v) == [kind |-> IF v = "ok" THEN "ack" ELSE "nack",
                    cmd |-> c, attempt |-> a]

-----------------------------------------------------------------------------
Init ==
  /\ active = NoCommand
  /\ records = [c \in Commands |-> Absent]
  /\ markers = {}
  /\ position = NoPosition
  /\ issued = {}
  /\ leases = 0
  /\ horizon = 0
  /\ queue = {}
  /\ acks = {}
  /\ heard = {}
  /\ verdict = [c \in Commands |-> [a \in Attempts |-> "none"]]
  /\ assignment \in Assignments
  /\ live = TRUE
  /\ task = [p \in Tasks |-> IdleTask]
  /\ faults = 0
  /\ changes = 0

-----------------------------------------------------------------------------
(* How a handler starts *)

\* The queue hands a message to a consumer.  RabbitMQ may hold a second copy.
Deliver(w, m) ==
  /\ task[w].at = "idle"
  /\ queue' \in {queue, queue \ {m}}
  /\ task' = [task EXCEPT ![w] = [IdleTask EXCEPT !.at = "active", !.msg = m]]
  /\ UNCHANGED <<store, robot, world, budgets>>

\* reconcile_robot, from the one-second loop, get_command or an offline event.
StartReconcile(r) ==
  /\ task[r].at = "idle"
  /\ Goto(r, "active")
  /\ UNCHANGED <<store, robot, world, budgets, queue>>

\* submit() reads the robot's group and map in a transaction of its own ...
StartSubmit(s) ==
  /\ task[s].at = "idle"
  /\ assignment # Nowhere
  /\ Commands \ issued # {}
  /\ task' = [task EXCEPT ![s] = [IdleTask EXCEPT !.at = "ready",
                                                  !.facts = assignment]]
  /\ UNCHANGED <<store, robot, world, budgets, queue>>

\* ... and then its heartbeat; a live robot's pending work is reconciled first.
AdmitSubmit(s) ==
  /\ task[s].at = "ready"
  /\ IF live THEN Goto(s, "active") ELSE Stop(s)
  /\ UNCHANGED <<store, robot, world, budgets, queue>>

-----------------------------------------------------------------------------
(* RobotCommandStore.active() and _eligible(), shared by every handler *)

\* First GET of active(): the reserved command's identifier.
ReadReservation(p) ==
  /\ task[p].at = "active"
  /\ IF active = NoCommand
       THEN Leave(p)
       ELSE task' = [task EXCEPT ![p].at = "record", ![p].cmd = active]
  /\ UNCHANGED <<store, robot, world, budgets, queue>>

\* Does the saved record carry the message's command and attempt?
Matches(p, rec) ==
  /\ task[p].msg.cmd = task[p].cmd
  /\ task[p].msg.attempt = rec.attempt

\* Second GET of active(): the record.  A message that does not match is dropped.
ReadRecord(p) ==
  /\ task[p].at = "record"
  /\ records[task[p].cmd] # Absent
  /\ IF p \in Workers /\ ~Matches(p, records[task[p].cmd])
       THEN Stop(p)
       ELSE task' = [task EXCEPT ![p].at = "eligible",
                                 ![p].snap = records[task[p].cmd]]
  /\ UNCHANGED <<store, robot, world, budgets, queue>>

\* Variants: release whatever is reserved now; release nothing.
ReleaseAny(p) ==
  /\ task[p].at = "record"
  /\ records[task[p].cmd] = Absent
  /\ active' = NoCommand
  /\ Leave(p)
  /\ UNCHANGED <<records, markers, position, issued, leases>>
  /\ UNCHANGED <<robot, world, budgets, queue>>
ReleaseNothing(p) ==
  /\ task[p].at = "record"
  /\ records[task[p].cmd] = Absent
  /\ Leave(p)
  /\ UNCHANGED <<store, robot, world, budgets, queue>>

\* The record was evicted: release that reservation unless a newer one is there.
ReleaseDangling(p) ==
  /\ task[p].at = "record"
  /\ records[task[p].cmd] = Absent
  /\ active' = IF active = task[p].cmd THEN NoCommand ELSE active
  /\ Leave(p)
  /\ UNCHANGED <<records, markers, position, issued, leases>>
  /\ UNCHANGED <<robot, world, budgets, queue>>

\* The records a handler writes: settled, awaiting an answer, queued again.
Settled(rec, status) == [rec EXCEPT !.status = status]
Awaiting(rec, lease) == [rec EXCEPT !.status = "AWAITING_ACK", !.lease = lease]
QueuedAgain(rec, attempt, lease) ==
  [rec EXCEPT !.attempt = attempt, !.status = "QUEUED", !.lease = lease]

\* _eligible(): the saved deadline has passed.
TimeOut(p) ==
  /\ task[p].at = "eligible"
  /\ Expired(task[p].snap.lease)
  /\ Transition(task[p].cmd, task[p].snap, Settled(task[p].snap, "TIMED_OUT"))
  /\ Leave(p)
  /\ UNCHANGED <<markers, position, issued, leases, robot, world, budgets, queue>>

\* _eligible(): group and map as PostgreSQL says now, ...
CheckOwnership(p) ==
  /\ task[p].at = "eligible"
  /\ ~Expired(task[p].snap.lease)
  /\ Goto(p, IF assignment = task[p].snap.assignment THEN "liveness" ELSE "cancel")
  /\ UNCHANGED <<store, robot, world, budgets, queue>>

\* ... and then liveness, from the heartbeat in Redis.
CheckLiveness(p) ==
  /\ task[p].at = "liveness"
  /\ Goto(p, IF live THEN "act" ELSE "cancel")
  /\ UNCHANGED <<store, robot, world, budgets, queue>>

\* _eligible(): the robot moved to another group or map, or is not live.
Cancel(p) ==
  /\ task[p].at = "cancel"
  /\ Transition(task[p].cmd, task[p].snap, Settled(task[p].snap, "CANCELLED"))
  /\ Leave(p)
  /\ UNCHANGED <<markers, position, issued, leases, robot, world, budgets, queue>>

-----------------------------------------------------------------------------
(* process_message(): an execution acknowledgement *)

AtAnswer(w, kind) ==
  /\ task[w].at = "act"
  /\ task[w].msg.kind = kind
  /\ task[w].snap.status = "AWAITING_ACK"

\* Variant: the position is saved for the map the robot is listed on now.
SucceedHere(w) ==
  LET t == task[w]
      done == Settled(t.snap, "SUCCEEDED")
  IN
  /\ AtAnswer(w, "ack")
  /\ Transition(t.cmd, t.snap, done)
  /\ position' = IF TransitionApplies(t.cmd, t.snap, done)
                   THEN [by |-> t.cmd, assignment |-> assignment]
                   ELSE position
  /\ Stop(w)
  /\ UNCHANGED <<markers, issued, leases, robot, world, budgets, queue>>

\* A positive acknowledgement saves the target as the confirmed position.
Succeed(w) ==
  LET t == task[w]
      done == Settled(t.snap, "SUCCEEDED")
  IN
  /\ AtAnswer(w, "ack")
  /\ Transition(t.cmd, t.snap, done)
  /\ position' = IF TransitionApplies(t.cmd, t.snap, done)
                   THEN [by |-> t.cmd, assignment |-> t.snap.assignment]
                   ELSE position
  /\ Stop(w)
  /\ UNCHANGED <<markers, issued, leases, robot, world, budgets, queue>>

\* Variant: one retry too few.
GiveUpEarly(w) ==
  /\ AtAnswer(w, "nack")
  /\ task[w].msg.attempt + 1 >= MaxAttempts
  /\ Transition(task[w].cmd, task[w].snap, Settled(task[w].snap, "FAILED"))
  /\ Stop(w)
  /\ UNCHANGED <<markers, position, issued, leases, robot, world, budgets, queue>>

\* A negative acknowledgement of the last attempt.
GiveUp(w) ==
  /\ AtAnswer(w, "nack")
  /\ task[w].msg.attempt >= MaxAttempts
  /\ Transition(task[w].cmd, task[w].snap, Settled(task[w].snap, "FAILED"))
  /\ Stop(w)
  /\ UNCHANGED <<markers, position, issued, leases, robot, world, budgets, queue>>

\* Variant: retries without the limit.
RetryForever(w) ==
  LET t == task[w]
      next == QueuedAgain(t.snap, t.msg.attempt + 1, leases + 1)
  IN
  /\ AtAnswer(w, "nack")
  /\ IF TransitionApplies(t.cmd, t.snap, next)
       THEN /\ leases < MaxLeases
            /\ leases' = leases + 1
            /\ Write(t.cmd, next)
            /\ task' = [task EXCEPT ![w].at = "publish", ![w].held = next]
       ELSE Stop(w) /\ UNCHANGED <<records, active, leases>>
  /\ UNCHANGED <<markers, position, issued, robot, world, budgets, queue>>

\* A negative acknowledgement before that: queue the next attempt.
Retry(w) ==
  LET t == task[w]
      next == QueuedAgain(t.snap, t.msg.attempt + 1, leases + 1)
  IN
  /\ AtAnswer(w, "nack")
  /\ t.msg.attempt < MaxAttempts
  /\ IF TransitionApplies(t.cmd, t.snap, next)
       THEN /\ leases < MaxLeases
            /\ leases' = leases + 1
            /\ Write(t.cmd, next)
            /\ task' = [task EXCEPT ![w].at = "publish", ![w].held = next]
       ELSE Stop(w) /\ UNCHANGED <<records, active, leases>>
  /\ UNCHANGED <<markers, position, issued, robot, world, budgets, queue>>

-----------------------------------------------------------------------------
(* process_message(): a command to dispatch *)

\* QUEUED: save AWAITING_ACK with the acknowledgement deadline, then publish.
BeginDispatch(w) ==
  LET t == task[w]
      sent == Awaiting(t.snap, leases + 1)
  IN
  /\ t.at = "act"
  /\ t.msg.kind = "command"
  /\ t.snap.status = "QUEUED"
  /\ IF TransitionApplies(t.cmd, t.snap, sent)
       THEN /\ leases < MaxLeases
            /\ leases' = leases + 1
            /\ Write(t.cmd, sent)
            /\ task' = [task EXCEPT ![w].at = "mqtt", ![w].held = sent]
       ELSE Stop(w) /\ UNCHANGED <<records, active, leases>>
  /\ UNCHANGED <<markers, position, issued, robot, world, budgets, queue>>

\* AWAITING_ACK without a marker: an earlier dispatch died before confirming.
RecoverDispatch(w) ==
  /\ task[w].at = "act"
  /\ task[w].msg.kind = "command"
  /\ task[w].snap.status = "AWAITING_ACK"
  /\ ~Dispatched(task[w].cmd, task[w].snap)
  /\ task' = [task EXCEPT ![w].at = "mqtt", ![w].held = task[w].snap]
  /\ UNCHANGED <<store, robot, world, budgets, queue>>

\* Anything else: an answer nobody awaits, or a command already sent or settled.
Ignore(w) ==
  LET t == task[w] IN
  /\ t.at = "act"
  /\ IF t.msg.kind = "command"
       THEN /\ t.snap.status # "QUEUED"
            /\ t.snap.status = "AWAITING_ACK" => Dispatched(t.cmd, t.snap)
       ELSE t.snap.status # "AWAITING_ACK"
  /\ Stop(w)
  /\ UNCHANGED <<store, robot, world, budgets, queue>>

\* The one-shot client hands the attempt to the broker before the deadline;
\* the confirmation may still be lost on the way back.
MqttPublish(w) ==
  /\ task[w].at = "mqtt"
  /\ ~Expired(task[w].held.lease)
  /\ heard' = heard \cup {<<task[w].msg.cmd, task[w].msg.attempt>>}
  /\ \/ Goto(w, "mark") /\ UNCHANGED faults
     \/ Goto(w, "restore") /\ faults < MaxFaults /\ faults' = faults + 1
  /\ UNCHANGED <<store, acks, verdict, world, changes, queue>>

\* No connection, or the deadline passed first: nothing was sent.
MqttFail(w) ==
  /\ task[w].at = "mqtt"
  /\ \/ Expired(task[w].held.lease) /\ UNCHANGED faults
     \/ faults < MaxFaults /\ faults' = faults + 1
  /\ Goto(w, "restore")
  /\ UNCHANGED <<store, robot, world, changes, queue>>

\* mark_dispatched; its reply may be lost after the write.
MarkDispatched(w) ==
  /\ task[w].at = "mark"
  /\ markers' = markers \cup {<<task[w].cmd, task[w].held.attempt>>}
  /\ \/ Stop(w) /\ UNCHANGED faults
     \/ Goto(w, "restore") /\ faults < MaxFaults /\ faults' = faults + 1
  /\ UNCHANGED <<active, records, position, issued, leases>>
  /\ UNCHANGED <<robot, world, changes, queue>>

\* A handler error: the consumer retries the message or dead-letters it.
Redeliver(m) == queue' \in {queue, queue \cup {m}}

\* Variant: an uncertain publication is retried as the next attempt.
RestoreAsNext(w) ==
  /\ task[w].at = "restore"
  /\ task[w].snap.attempt < MaxAttempts
  /\ Transition(task[w].cmd, task[w].held,
                [task[w].snap EXCEPT !.attempt = @ + 1])
  /\ Redeliver(task[w].msg)
  /\ Stop(w)
  /\ UNCHANGED <<markers, position, issued, leases, robot, world, budgets>>

\* The except branch: put the previous snapshot back and re-raise.
Restore(w) ==
  /\ task[w].at = "restore"
  /\ Transition(task[w].cmd, task[w].held, task[w].snap)
  /\ Redeliver(task[w].msg)
  /\ Stop(w)
  /\ UNCHANGED <<markers, position, issued, leases, robot, world, budgets>>

-----------------------------------------------------------------------------
(* reconcile_robot() and submit() *)

\* Variant: only interrupted dispatches are resumed.
ResumeInterrupted(p) ==
  LET t == task[p] IN
  /\ t.at = "act"
  /\ IF t.snap.status = "AWAITING_ACK" /\ ~Dispatched(t.cmd, t.snap)
       THEN task' = [task EXCEPT ![p].at = "publish", ![p].held = t.snap]
       ELSE Leave(p)
  /\ UNCHANGED <<store, robot, world, budgets, queue>>

\* Eligible work that no broker message may represent any more is republished.
Resume(p) ==
  LET t == task[p] IN
  /\ t.at = "act"
  /\ IF \/ t.snap.status = "QUEUED"
        \/ t.snap.status = "AWAITING_ACK" /\ ~Dispatched(t.cmd, t.snap)
       THEN task' = [task EXCEPT ![p].at = "publish", ![p].held = t.snap]
       ELSE Leave(p)
  /\ UNCHANGED <<store, robot, world, budgets, queue>>

\* publish_command(): the saved intent as a broker message.
PublishCommand(p) ==
  /\ task[p].at = "publish"
  /\ queue' = queue \cup {Envelope(task[p].cmd, task[p].held.attempt)}
  /\ Leave(p)
  /\ UNCHANGED <<store, robot, world, budgets>>

\* submit() reads the confirmed position it will move from.
ReadPosition(s) ==
  /\ task[s].at = "position"
  /\ task' = [task EXCEPT ![s].at = "reserve", ![s].seen = position]
  /\ UNCHANGED <<store, robot, world, budgets, queue>>

\* The request is refused: no origin, a target outside the map, or (409) the
\* reservation script found the robot busy or its position changed.
RefuseMovement(s) ==
  /\ task[s].at = "reserve"
  /\ Stop(s)
  /\ UNCHANGED <<store, robot, world, budgets, queue>>

NewRecord(s) == [status |-> "QUEUED", attempt |-> 1, lease |-> leases + 1,
                 assignment |-> task[s].facts,
                 origin |-> ResolveOrigin(task[s].seen, task[s].facts)]

\* Variant: the position is not compared.
ReserveUnlessBusy(s) == active = NoCommand

\* The reserve script: no reservation, and the position submit() saw.
ReserveApplies(s) == active = NoCommand /\ position = task[s].seen

Reserve(s, c) ==
  /\ task[s].at = "reserve"
  /\ ReserveApplies(s)
  /\ c \notin issued
  /\ leases < MaxLeases
  /\ leases' = leases + 1
  /\ issued' = issued \cup {c}
  /\ active' = c
  /\ records' = [records EXCEPT ![c] = NewRecord(s)]
  /\ task' = [task EXCEPT ![s].at = "announce", ![s].cmd = c,
                          ![s].held = NewRecord(s)]
  /\ UNCHANGED <<markers, position, robot, world, budgets, queue>>

\* Publication of a fresh reservation; a failure is only logged.
Announce(s) ==
  /\ task[s].at = "announce"
  /\ \/ queue' = queue \cup {Envelope(task[s].cmd, task[s].held.attempt)} /\ UNCHANGED faults
     \/ UNCHANGED queue /\ faults < MaxFaults /\ faults' = faults + 1
  /\ Stop(s)
  /\ UNCHANGED <<store, robot, world, changes>>

-----------------------------------------------------------------------------
(* The robot and the acknowledgement ingress *)

\* The robot executes an attempt it heard once, and answers it any number of
\* times with the same outcome (it deduplicates by command and attempt).
RobotAnswer(c, a, v) ==
  /\ <<c, a>> \in heard
  /\ verdict[c][a] \in {"none", v}
  /\ verdict' = [verdict EXCEPT ![c] = [@ EXCEPT ![a] = v]]
  /\ acks' = acks \cup {Answer(c, a, v)}
  /\ UNCHANGED <<store, heard, world, budgets, queue, task>>

\* handle_message(): an answer for the reserved command enters the queue.  The
\* delay between the check and the publication is a delay in the queue.
ForwardAnswer(m) ==
  /\ m \in acks
  /\ active = m.cmd
  /\ records[active] # Absent
  /\ acks' = acks \ {m}
  /\ queue' = queue \cup {m}
  /\ UNCHANGED <<store, heard, verdict, world, budgets, task>>

\* Any other is dropped; active() releases a reservation without a record.
DropAnswer(m) ==
  /\ m \in acks
  /\ active # NoCommand => active # m.cmd \/ records[active] = Absent
  /\ acks' = acks \ {m}
  /\ active' = IF active # NoCommand /\ records[active] = Absent THEN NoCommand ELSE active
  /\ UNCHANGED <<records, markers, position, issued, leases>>
  /\ UNCHANGED <<heard, verdict, world, budgets, queue, task>>

-----------------------------------------------------------------------------
(* Time, the database, failures *)

\* The oldest unexpired deadline passes.
Tick ==
  /\ horizon < leases
  /\ horizon < MaxHorizon
  /\ horizon' = horizon + 1
  /\ UNCHANGED <<store, robot, assignment, live, budgets, queue, task>>

\* The robot is moved, deleted, or its liveness changes.
ChangeContext ==
  /\ changes < MaxChanges
  /\ changes' = changes + 1
  /\ \/ live' = ~live /\ UNCHANGED assignment
     \/ assignment' \in (Assignments \cup {Nowhere}) \ {assignment} /\ UNCHANGED live
  /\ UNCHANGED <<store, robot, horizon, faults, queue, task>>

\* The process dies, or loses its channel: the broker requeues the message.
Crash(w) ==
  /\ task[w].at # "idle"
  /\ faults < MaxFaults
  /\ faults' = faults + 1
  /\ queue' = queue \cup {task[w].msg}
  /\ Stop(w)
  /\ UNCHANGED <<store, robot, world, changes>>

\* A dependency raises outside the dispatch block.
Raise(p) ==
  /\ task[p].at \notin {"idle", "mqtt", "mark", "announce"}
  /\ faults < MaxFaults
  /\ faults' = faults + 1
  /\ IF p \in Workers THEN Redeliver(task[p].msg) ELSE UNCHANGED queue
  /\ Stop(p)
  /\ UNCHANGED <<store, robot, world, changes>>

\* allkeys-lru, or the 12-hour expiry.
Evict ==
  /\ faults < MaxFaults
  /\ faults' = faults + 1
  /\ \/ /\ "record" \in Evictable
        /\ \E c \in Commands : /\ records[c] # Absent
                               /\ records' = [records EXCEPT ![c] = Absent]
        /\ UNCHANGED <<active, markers, position>>
     \/ /\ "reservation" \in Evictable
        /\ active # NoCommand
        /\ active' = NoCommand
        /\ UNCHANGED <<records, markers, position>>
     \/ /\ "marker" \in Evictable
        /\ \E k \in markers : markers' = markers \ {k}
        /\ UNCHANGED <<active, records, position>>
     \/ /\ "position" \in Evictable
        /\ position # NoPosition
        /\ position' = NoPosition
        /\ UNCHANGED <<active, records, markers>>
  /\ UNCHANGED <<issued, leases, robot, world, changes, queue, task>>

-----------------------------------------------------------------------------
Common(p) ==
  \/ ReadReservation(p) \/ ReadRecord(p) \/ ReleaseDangling(p)
  \/ TimeOut(p) \/ CheckOwnership(p) \/ CheckLiveness(p) \/ Cancel(p)
  \/ PublishCommand(p)

Consume(w) ==
  \/ Succeed(w) \/ GiveUp(w) \/ Retry(w)
  \/ BeginDispatch(w) \/ RecoverDispatch(w) \/ Ignore(w)
  \/ MqttPublish(w) \/ MqttFail(w) \/ MarkDispatched(w) \/ Restore(w)

Submit(s) ==
  \/ AdmitSubmit(s) \/ ReadPosition(s) \/ RefuseMovement(s) \/ Announce(s)
  \/ \E c \in Commands : Reserve(s, c)

Next ==
  \/ \E p \in Tasks : Common(p) \/ Raise(p)
  \/ \E w \in Workers : Consume(w) \/ Crash(w) \/ \E m \in queue : Deliver(w, m)
  \/ \E r \in Reconcilers : StartReconcile(r)
  \/ \E p \in Reconcilers \cup Submitters : Resume(p)
  \/ \E s \in Submitters : StartSubmit(s) \/ Submit(s)
  \/ \E c \in Commands, a \in Attempts, v \in {"ok", "fail"} : RobotAnswer(c, a, v)
  \/ \E m \in acks : ForwardAnswer(m) \/ DropAnswer(m)
  \/ Tick \/ ChangeContext \/ Evict

Spec == Init /\ [][Next]_vars

\* Every started handler runs on, the one-second loop starts its next pass, and
\* the broker hands over every message it keeps.  Faults are finitely many, as
\* "transient" failures are.  Nothing is asked of robots, users or the database.
Fairness ==
  /\ \A r \in Reconcilers : WF_vars(StartReconcile(r)) /\ WF_vars(Common(r) \/ Resume(r))
  /\ \A w \in Workers : WF_vars(Common(w) \/ Consume(w))
  /\ \A w \in Workers, m \in Message : SF_vars(m \in queue /\ Deliver(w, m))

FairSpec == Spec /\ Fairness

-----------------------------------------------------------------------------
(* Properties *)

\* Type correctness: every variable holds a value of its type.  In particular no
\* stored record, marker, message or answer names an attempt past the limit that
\* _reconcile_command and reconcile_result keep (attempt <= MaxAttempts).
TypeOK ==
  /\ active \in Commands \cup {NoCommand}
  /\ records \in [Commands -> Record]
  /\ markers \subseteq Commands \X Attempts
  /\ position \in Position
  /\ issued \subseteq Commands
  /\ leases \in Nat
  /\ horizon \in Nat
  /\ queue \subseteq Message
  /\ acks \subseteq Message
  /\ heard \subseteq Commands \X Attempts
  /\ verdict \in [Commands -> [Attempts -> {"none", "ok", "fail"}]]
  /\ assignment \in Assignments \cup {Nowhere}
  /\ live \in BOOLEAN
  /\ task \in [Tasks -> Task]
  /\ faults \in Nat
  /\ changes \in Nat

\* One movement at a time: a record that still has to be settled is the one the
\* reservation names, and a reservation never names a settled record.
OneOutstandingCommand ==
  /\ active # NoCommand => records[active].status \in Pending \cup {"ABSENT"}
  /\ "reservation" \notin Evictable =>
       \A c \in Commands : records[c].status \in Pending => active = c

\* The saved outcome is what the robot did: SUCCEEDED means the robot did the
\* record's attempt, FAILED that it failed all of them, and every attempt before
\* the current one failed.
OutcomeIsGenuine ==
  \A c \in Commands :
    LET rec == records[c] IN
    /\ rec.status = "SUCCEEDED" => verdict[c][rec.attempt] = "ok"
    /\ rec.status = "FAILED" => /\ rec.attempt = MaxAttempts
                                /\ verdict[c][rec.attempt] = "fail"
    /\ \A a \in Attempts : a < rec.attempt => verdict[c][a] = "fail"

\* The robot never hears an attempt before it answered the previous ones with a
\* failure: redeliveries, recoveries and restored snapshots repeat an attempt,
\* they never run ahead.
RetriesFollowFailures ==
  \A k \in heard : \A a \in Attempts : a < k[2] => verdict[k[1]][a] = "fail"

\* A dispatch marker is only set for an attempt that reached the broker.
MarkersAreTruthful == markers \subseteq heard

\* While a command is reserved, the origin its target was computed from is the
\* last confirmed position: no movement starts from a place the robot left.
OriginIsCurrent ==
  active # NoCommand /\ records[active] # Absent =>
    LET rec == records[active] IN
    \/ /\ rec.origin # NoCommand
       /\ position = [by |-> rec.origin, assignment |-> rec.assignment]
    \/ rec.origin = NoCommand /\ position.assignment # rec.assignment
    \/ "position" \in Evictable /\ position = NoPosition

\* The confirmed position is the target of a command that succeeded.
PositionIsEarned ==
  position.by # NoCommand =>
    /\ records[position.by].status \in {"SUCCEEDED", "ABSENT"}
    /\ records[position.by] # Absent => records[position.by].assignment = position.assignment

\* A settled command stays settled: a late answer, a restored snapshot or a
\* reconciliation that read it earlier never reopens or rewrites it.
TerminalIsFinal ==
  [][\A c \in Commands : records[c].status \in Terminal =>
       records'[c] = records[c] \/ records'[c] = Absent]_vars

\* The confirmed position moves only with the success of the reserved command,
\* acknowledged for its current attempt and before its deadline, and to the map the
\* command was accepted on, wherever the robot is listed by then.
PositionMovesOnSuccess ==
  [][position' # position /\ position' # NoPosition =>
       /\ position' = [by |-> active, assignment |-> records[active].assignment]
       /\ records[active].status = "AWAITING_ACK"
       /\ records'[active].status = "SUCCEEDED"
       /\ ~Expired(records[active].lease)]_vars

\* An attempt number never goes back, whatever snapshot a handler still holds.
AttemptsAdvance ==
  [][\A c \in Commands : records'[c] = Absent \/ records'[c].attempt >= records[c].attempt]_vars

\* A reserved robot becomes free again, even when the record that would have
\* been settled is evicted.
ReservationEnds == \A c \in Commands : active = c ~> active # c

\* As time passes, a reserved robot becomes free again, even when the record that
\* would have been settled is evicted.
ReservationEndsInTime == WF_vars(Tick) => ReservationEnds

\* Saved dispatch intent is never lost: a reserved command reaches the live robot,
\* in spite of lost publications and crashes, or loses its reservation to its
\* deadline or to an eviction.
IntentReachesRobot ==
  \A c \in Commands : active = c ~> <<c, 1>> \in heard \/ active # c

-----------------------------------------------------------------------------
(* The inductive invariant: the safety properties above, strengthened by what *)
(* holds of records, messages and handlers between their steps.               *)

RecordShape ==
  \A c \in Commands : records[c] # Absent =>
    /\ c \in issued
    /\ records[c].status # "ABSENT"
    /\ records[c].attempt \in Attempts
    /\ records[c].assignment \in Assignments

PositionShape ==
  IF position.by = NoCommand THEN position = NoPosition ELSE position.by \in issued

\* A message tells the truth about what the robot did.
Truthful(m) ==
  /\ m.kind = "ack" => verdict[m.cmd][m.attempt] = "ok"
  /\ m.kind = "nack" => verdict[m.cmd][m.attempt] = "fail"

FailedBefore(c, a) == \A b \in Attempts : b < a => verdict[c][b] = "fail"

Sending == {"mqtt", "mark", "restore"}
Loaded  == {"eligible", "liveness", "cancel", "act"} \cup Sending
Naming  == {"record", "publish", "announce"} \cup Loaded

\* What a handler may rely on at each place.
HandlerShape(p) ==
  LET t == task[p] IN
  /\ t.at # "idle" =>
       /\ p \in Workers => t.msg \in Message /\ Truthful(t.msg)
       /\ p \in Submitters /\ t.at # "announce" => t.facts \in Assignments
  /\ t.at \in Naming => t.cmd \in Commands
  /\ t.at \in Loaded =>
       /\ t.snap.status # "ABSENT"
       /\ t.snap.attempt \in Attempts
       /\ t.snap.assignment \in Assignments
       /\ FailedBefore(t.cmd, t.snap.attempt)
       /\ p \in Workers => t.msg.cmd = t.cmd /\ t.msg.attempt = t.snap.attempt
  /\ t.at \in Sending =>
       /\ p \in Workers
       /\ t.snap.status \in Pending
       /\ t.held.status = "AWAITING_ACK"
       /\ t.held.attempt = t.snap.attempt
       /\ t.held.assignment = t.snap.assignment
       /\ t.held.origin = t.snap.origin
  /\ t.at \in {"publish", "announce"} => t.held.attempt \in Attempts
  /\ t.at = "mark" => <<t.cmd, t.held.attempt>> \in heard

InductiveInvariant ==
  /\ TypeOK
  /\ RecordShape
  /\ PositionShape
  /\ active # NoCommand => active \in issued
  /\ \A m \in queue \cup acks : Truthful(m)
  /\ \A p \in Tasks : HandlerShape(p)
  /\ OneOutstandingCommand
  /\ OutcomeIsGenuine
  /\ RetriesFollowFailures
  /\ MarkersAreTruthful
  /\ OriginIsCurrent
  /\ PositionIsEarned
=============================================================================
