------------------------- MODULE RobotCommandProofs -------------------------
(* Proofs about RobotCommand for every number of commands, tasks, attempts,  *)
(* deadlines and faults.                                                     *)
EXTENDS RobotCommand, TLAPS

-----------------------------------------------------------------------------
(* Values of the right type *)

\* The empty record, position, message and task belong to their types.
LEMMA EmptyTypes ==
  /\ Absent \in Record
  /\ NoPosition \in Position
  /\ IdleTask \in Task
BY ConstantsAssumption DEF Absent, Record, NoPosition, Position, IdleTask, Task, Places

\* A message about a command's attempt is a message.
LEMMA MessageTypes ==
  ASSUME NEW c \in Commands, NEW a \in Attempts, NEW v \in {"ok", "fail"}
  PROVE  Envelope(c, a) \in Message /\ Answer(c, a, v) \in Message
BY DEF Envelope, Answer, Message

\* Every way to move or end a handler leaves the local states typed.
LEMMA TaskTypes ==
  ASSUME TypeOK, NEW p \in Tasks
  PROVE  /\ \A place \in Places : Goto(p, place) => task' \in [Tasks -> Task]
         /\ Stop(p) => task' \in [Tasks -> Task]
         /\ Leave(p) => task' \in [Tasks -> Task]
<1>1. ASSUME NEW place \in Places, Goto(p, place) PROVE task' \in [Tasks -> Task]
  BY <1>1 DEF TypeOK, Goto, Task
<1>2. Stop(p) => task' \in [Tasks -> Task]
  BY EmptyTypes DEF TypeOK, Stop
<1>3. CASE p \in Submitters
  <2>1. [IdleTask EXCEPT !.at = "position", !.facts = task[p].facts] \in Task
    BY EmptyTypes DEF TypeOK, Task, IdleTask, Places
  <2>2. QED
    BY <1>1, <1>2, <1>3, <2>1 DEF Leave, TypeOK
<1>4. QED
  BY <1>1, <1>2, <1>3 DEF Leave

\* A transition to a typed record keeps the store typed.
LEMMA TransitionTypes ==
  ASSUME TypeOK, NEW c \in Commands, NEW old \in Record, NEW new \in Record
  PROVE  /\ Write(c, new) => /\ records' \in [Commands -> Record]
                             /\ active' \in Commands \cup {NoCommand}
         /\ Transition(c, old, new) => /\ records' \in [Commands -> Record]
                                       /\ active' \in Commands \cup {NoCommand}
BY DEF TypeOK, Transition, Write

-----------------------------------------------------------------------------
(* The two halves of the invariant *)

\* The part about the saved records and what the robot did.
StoreInvariant ==
  /\ RecordShape
  /\ PositionShape
  /\ active # NoCommand => active \in issued
  /\ OneOutstandingCommand
  /\ OutcomeIsGenuine
  /\ RetriesFollowFailures
  /\ MarkersAreTruthful
  /\ OriginIsCurrent
  /\ PositionIsEarned

\* A step that leaves the store and the robot alone keeps the first half.
LEMMA StoreFrame ==
  ASSUME InductiveInvariant, UNCHANGED <<store, heard, verdict>>
  PROVE  StoreInvariant'
BY DEF InductiveInvariant, StoreInvariant, store, RecordShape, PositionShape,
       OneOutstandingCommand, OutcomeIsGenuine, RetriesFollowFailures,
       MarkersAreTruthful, OriginIsCurrent, PositionIsEarned

\* The invariant after a step of one handler: its own state, the store and the
\* messages it added are all there is to look at.
LEMMA OneHandlerStep ==
  ASSUME InductiveInvariant, TypeOK', StoreInvariant', NEW p \in Tasks,
         \A q \in Tasks \ {p} : task'[q] = task[q],
         heard \subseteq heard', verdict' = verdict,
         HandlerShape(p)',
         \A m \in queue' \cup acks' : m \in queue \cup acks \/ Truthful(m)
  PROVE  InductiveInvariant'
<1>1. \A q \in Tasks : HandlerShape(q)'
  <2>1. ASSUME NEW q \in Tasks \ {p} PROVE HandlerShape(q)'
    <3>1. task'[q] = task[q] /\ HandlerShape(q)
      BY <2>1 DEF InductiveInvariant
    <3>2. QED
      BY <3>1 DEF HandlerShape, Truthful, FailedBefore
  <2>2. QED
    BY <2>1
<1>2. \A m \in queue' \cup acks' : Truthful(m)'
  BY DEF InductiveInvariant, Truthful
<1>3. QED
  BY <1>1, <1>2 DEF InductiveInvariant, StoreInvariant

\* An idle handler, and a request that goes on to read its position, are sound.
LEMMA StopShape ==
  ASSUME TypeOK, NEW p \in Tasks, Stop(p)
  PROVE  HandlerShape(p)' /\ \A q \in Tasks \ {p} : task'[q] = task[q]
BY DEF TypeOK, Stop, HandlerShape, IdleTask, Naming, Loaded, Sending

LEMMA LeaveShape ==
  ASSUME InductiveInvariant, NEW p \in Tasks, Leave(p),
         task[p].at \notin {"idle", "announce"}
  PROVE  HandlerShape(p)' /\ \A q \in Tasks \ {p} : task'[q] = task[q]
<1>1. CASE p \in Submitters
  <2>1. task[p].facts \in Assignments /\ HandlerShape(p)
    BY <1>1 DEF InductiveInvariant, HandlerShape
  <2>2. /\ task'[p] = [IdleTask EXCEPT !.at = "position", !.facts = task[p].facts]
        /\ \A q \in Tasks \ {p} : task'[q] = task[q]
    BY <1>1 DEF Leave, InductiveInvariant, TypeOK
  <2>3. p \notin Workers
    BY <1>1, TasksAssumption
  <2>4. QED
    BY <2>1, <2>2, <2>3 DEF HandlerShape, IdleTask, Naming, Loaded, Sending
<1>2. CASE p \notin Submitters
  BY <1>2, StopShape DEF Leave, InductiveInvariant
<1>3. QED
  BY <1>1, <1>2

-----------------------------------------------------------------------------
(* The transition script *)

\* A transition from a saved record to one of the same movement keeps the store
\* sound, provided the new status is justified by what the robot did.
LEMMA TransitionKeepsStore ==
  ASSUME InductiveInvariant,
         NEW c \in Commands, NEW old \in Record, NEW new \in Record,
         Transition(c, old, new),
         old.status # "ABSENT",
         new.status # "ABSENT", new.attempt \in Attempts,
         new.assignment = old.assignment, new.origin = old.origin,
         FailedBefore(c, new.attempt),
         new.status = "SUCCEEDED" => verdict[c][new.attempt] = "ok",
         new.status = "FAILED" => /\ new.attempt = MaxAttempts
                                  /\ verdict[c][new.attempt] = "fail",
         UNCHANGED <<markers, issued, heard, verdict>>,
         \/ position' = position
         \/ /\ TransitionApplies(c, old, new)
            /\ new.status = "SUCCEEDED"
            /\ position' = [by |-> c, assignment |-> old.assignment]
  PROVE  StoreInvariant'
<1>1. CASE ~TransitionApplies(c, old, new)
  BY <1>1, StoreFrame DEF Transition, store, InductiveInvariant,
     StoreInvariant, RecordShape, PositionShape, OneOutstandingCommand,
     OutcomeIsGenuine, RetriesFollowFailures, MarkersAreTruthful,
     OriginIsCurrent, PositionIsEarned
<1>2. CASE TransitionApplies(c, old, new)
  <2> USE ConstantsAssumption
  <2>1. /\ active = c /\ records[c] = old /\ old # Absent
        /\ records' = [records EXCEPT ![c] = new]
        /\ active' = IF new.status \in Terminal THEN NoCommand ELSE c
        /\ c # NoCommand
    BY <1>2 DEF Transition, TransitionApplies, Write, Absent
  <2>2. /\ records'[c] = new /\ new # Absent
        /\ \A d \in Commands \ {c} : records'[d] = records[d]
        /\ records \in [Commands -> Record]
    BY <2>1 DEF InductiveInvariant, TypeOK, Absent
  <2>3. old.status \in Pending /\ new.status \in Pending \cup Terminal
    BY <2>1 DEF InductiveInvariant, OneOutstandingCommand, Record
  <2>4. c \in issued /\ old.assignment \in Assignments
    BY <2>1 DEF InductiveInvariant, RecordShape
  <2>5. RecordShape'
    BY <2>2, <2>4 DEF InductiveInvariant, RecordShape
  <2>6. PositionShape'
    BY <2>4 DEF InductiveInvariant, PositionShape
  <2>7. (active # NoCommand => active \in issued)'
    BY <2>1, <2>4
  <2>8. OneOutstandingCommand'
    BY <2>1, <2>2, <2>3 DEF InductiveInvariant, OneOutstandingCommand,
       Pending, Terminal
  <2>9. OutcomeIsGenuine'
    BY <2>2 DEF InductiveInvariant, OutcomeIsGenuine, FailedBefore
  <2>10. RetriesFollowFailures' /\ MarkersAreTruthful'
    BY DEF InductiveInvariant, RetriesFollowFailures, MarkersAreTruthful
  <2>11. OriginIsCurrent'
    <3>1. CASE active' = NoCommand
      BY <3>1 DEF OriginIsCurrent
    <3>2. CASE active' # NoCommand
      <4>1. position' = position /\ active' = c
        BY <2>1, <3>2 DEF Terminal
      <4>2. QED
        BY <4>1, <2>1, <2>2 DEF InductiveInvariant, OriginIsCurrent
    <3>3. QED
      BY <3>1, <3>2
  <2>12. PositionIsEarned'
    <3>1. CASE position' = position
      <4>1. position.by # c
        BY <2>1, <2>3 DEF InductiveInvariant, PositionIsEarned, Pending
      <4>2. position.by # NoCommand => position.by \in Commands
        BY DEF InductiveInvariant, TypeOK, Position
      <4>3. QED
        BY <3>1, <4>1, <4>2, <2>2 DEF InductiveInvariant, PositionIsEarned
    <3>2. CASE /\ new.status = "SUCCEEDED"
               /\ position' = [by |-> c, assignment |-> old.assignment]
      BY <3>2, <2>2 DEF PositionIsEarned
    <3>3. QED
      BY <3>1, <3>2
  <2>13. QED
    BY <2>5, <2>6, <2>7, <2>8, <2>9, <2>10, <2>11, <2>12 DEF StoreInvariant
<1>3. QED
  BY <1>1, <1>2

-----------------------------------------------------------------------------
(* One lemma per step of a handler *)

\* Reading the reservation.
LEMMA ReadReservationStep ==
  ASSUME InductiveInvariant, NEW p \in Tasks, ReadReservation(p)
  PROVE  InductiveInvariant'
<1> USE DEF ReadReservation
<1>1. StoreInvariant'
  BY StoreFrame DEF robot
<1>2. CASE active = NoCommand
  <2>1. Leave(p) /\ TypeOK
    BY <1>2 DEF InductiveInvariant
  <2>2. TypeOK'
    BY <2>1, TaskTypes DEF TypeOK, store, robot, world, budgets
  <2>3. QED
    BY <1>1, <2>1, <2>2, LeaveShape, OneHandlerStep DEF robot
<1>3. CASE active # NoCommand
  <2>1. task' = [task EXCEPT ![p].at = "record", ![p].cmd = active]
    BY <1>3
  <2>2. active \in Commands /\ task[p] \in Task
    BY <1>3 DEF InductiveInvariant, TypeOK
  <2>3. TypeOK'
    BY <2>1, <2>2 DEF InductiveInvariant, TypeOK, store, robot, world, budgets, Task, Places
  <2>4. HandlerShape(p) /\ HandlerShape(p)' /\ \A q \in Tasks \ {p} : task'[q] = task[q]
    BY <2>1, <2>2 DEF InductiveInvariant, TypeOK, HandlerShape, Naming, Loaded,
       Sending, Task, Truthful, robot
  <2>5. QED
    BY <1>1, <2>3, <2>4, OneHandlerStep DEF robot
<1>4. QED
  BY <1>2, <1>3

\* Reading the record the reservation named.
LEMMA ReadRecordStep ==
  ASSUME InductiveInvariant, NEW p \in Tasks, ReadRecord(p)
  PROVE  InductiveInvariant'
<1> USE DEF ReadRecord
<1>1. StoreInvariant'
  BY StoreFrame DEF robot
<1>2. CASE p \in Workers /\ ~Matches(p, records[task[p].cmd])
  <2>1. Stop(p) /\ TypeOK
    BY <1>2 DEF InductiveInvariant
  <2>2. TypeOK'
    BY <2>1, TaskTypes DEF TypeOK, store, robot, world, budgets
  <2>3. QED
    BY <1>1, <2>1, <2>2, StopShape, OneHandlerStep DEF robot
<1>3. CASE ~(p \in Workers /\ ~Matches(p, records[task[p].cmd]))
  <2> DEFINE rec == records[task[p].cmd]
  <2>1. task' = [task EXCEPT ![p].at = "eligible", ![p].snap = rec]
    BY <1>3
  <2>2. /\ task[p].cmd \in Commands /\ task[p] \in Task /\ HandlerShape(p)
        /\ rec \in Record /\ rec # Absent
    BY DEF InductiveInvariant, TypeOK, HandlerShape, Naming
  <2>3. TypeOK'
    BY <2>1, <2>2 DEF InductiveInvariant, TypeOK, store, robot, world, budgets, Task, Places
  <2>4. /\ rec.status # "ABSENT" /\ rec.attempt \in Attempts
        /\ rec.assignment \in Assignments
        /\ FailedBefore(task[p].cmd, rec.attempt)
    BY <2>2 DEF InductiveInvariant, RecordShape, OutcomeIsGenuine, FailedBefore
  <2>5. p \in Workers => task[p].msg.cmd = task[p].cmd /\ task[p].msg.attempt = rec.attempt
    BY <1>3 DEF Matches
  <2>6. /\ task'[p] = [task[p] EXCEPT !.at = "eligible", !.snap = rec]
        /\ \A q \in Tasks \ {p} : task'[q] = task[q]
    BY <2>1 DEF InductiveInvariant, TypeOK
  <2> HIDE DEF rec
  <2>7. HandlerShape(p)'
    BY <2>2, <2>4, <2>5, <2>6 DEF HandlerShape, Naming, Loaded, Sending, Task,
       Truthful, FailedBefore, robot
  <2>8. QED
    BY <1>1, <2>3, <2>6, <2>7, OneHandlerStep DEF robot
<1>4. QED
  BY <1>2, <1>3

\* Giving up a reservation whose record is gone keeps the store sound.
LEMMA ReleaseKeepsStore ==
  ASSUME InductiveInvariant,
         active' = active \/ (active' = NoCommand /\ records[active] = Absent),
         UNCHANGED <<records, markers, position, issued, heard, verdict>>
  PROVE  StoreInvariant'
<1>1. OneOutstandingCommand'
  BY DEF InductiveInvariant, OneOutstandingCommand, Absent, Pending
<1>2. QED
  BY <1>1 DEF InductiveInvariant, StoreInvariant, RecordShape, PositionShape,
     OutcomeIsGenuine, RetriesFollowFailures, MarkersAreTruthful, OriginIsCurrent,
     PositionIsEarned

\* Releasing a reservation whose record was evicted.
LEMMA ReleaseDanglingStep ==
  ASSUME InductiveInvariant, NEW p \in Tasks, ReleaseDangling(p)
  PROVE  InductiveInvariant'
<1> USE DEF ReleaseDangling
<1>1. Leave(p) /\ TypeOK /\ HandlerShape(p) /\ task[p].cmd \in Commands
  BY DEF InductiveInvariant, HandlerShape, Naming
<1>2. TypeOK'
  BY <1>1, TaskTypes DEF TypeOK, robot, world, budgets
<1>3. active' = active \/ (active' = NoCommand /\ records[active] = Absent)
  BY <1>1
<1>4. records' = records /\ UNCHANGED <<markers, position, issued, heard, verdict>>
  BY DEF robot
<1>5. StoreInvariant'
  BY <1>3, <1>4, ReleaseKeepsStore
<1>6. QED
  BY <1>1, <1>2, <1>5, LeaveShape, OneHandlerStep DEF robot

\* Settling the record a handler read, with a status it is entitled to.
LEMMA SettleStep ==
  ASSUME InductiveInvariant, NEW p \in Tasks,
         task[p].at \in Loaded \ Sending,
         NEW status \in {"FAILED", "TIMED_OUT", "CANCELLED"},
         status = "FAILED" => /\ task[p].snap.attempt = MaxAttempts
                              /\ verdict[task[p].cmd][MaxAttempts] = "fail",
         Transition(task[p].cmd, task[p].snap, Settled(task[p].snap, status)),
         Leave(p),
         UNCHANGED <<markers, position, issued, leases, robot, world, budgets, queue>>
  PROVE  InductiveInvariant'
<1>1. HandlerShape(p) /\ TypeOK /\ task[p] \in Task
  BY DEF InductiveInvariant, TypeOK
<1>2. /\ task[p].cmd \in Commands /\ task[p].snap \in Record
      /\ task[p].snap.status # "ABSENT" /\ task[p].snap.attempt \in Attempts
      /\ FailedBefore(task[p].cmd, task[p].snap.attempt)
  BY <1>1 DEF HandlerShape, Naming, Loaded, Task
<1>3. /\ Settled(task[p].snap, status) \in Record
      /\ Settled(task[p].snap, status).status = status
      /\ Settled(task[p].snap, status).attempt = task[p].snap.attempt
      /\ Settled(task[p].snap, status).assignment = task[p].snap.assignment
      /\ Settled(task[p].snap, status).origin = task[p].snap.origin
  BY <1>2 DEF Settled, Record, Terminal
<1>4. StoreInvariant'
  BY <1>2, <1>3, TransitionKeepsStore DEF robot
<1>5. TypeOK'
  BY <1>1, <1>2, <1>3, TransitionTypes, TaskTypes DEF TypeOK, robot, world, budgets
<1>6. QED
  BY <1>4, <1>5, LeaveShape, OneHandlerStep DEF robot, Loaded, Sending

\* Settling a record whose deadline passed.
LEMMA TimeOutStep ==
  ASSUME InductiveInvariant, NEW p \in Tasks, TimeOut(p)
  PROVE  InductiveInvariant'
BY SettleStep DEF TimeOut, Loaded, Sending

\* Settling a record whose robot moved away or is not live.
LEMMA CancelStep ==
  ASSUME InductiveInvariant, NEW p \in Tasks, Cancel(p)
  PROVE  InductiveInvariant'
BY SettleStep DEF Cancel, Loaded, Sending

\* A handler that goes on with what it has read keeps it.
LEMMA GotoShape ==
  ASSUME InductiveInvariant, NEW p \in Tasks, task[p].at \in Loaded,
         NEW place \in {"liveness", "cancel", "act"}, Goto(p, place),
         UNCHANGED <<store, robot, world, budgets, queue>>
  PROVE  InductiveInvariant'
<1>1. StoreInvariant'
  BY StoreFrame DEF robot
<1>2. TypeOK'
  BY TaskTypes DEF InductiveInvariant, TypeOK, store, robot, world, budgets, Places
<1>3. /\ task'[p] = [task[p] EXCEPT !.at = place]
      /\ task[p] \in Task
      /\ \A q \in Tasks \ {p} : task'[q] = task[q]
  BY DEF Goto, InductiveInvariant, TypeOK
<1>4. /\ task'[p].at = place /\ task'[p].msg = task[p].msg
      /\ task'[p].cmd = task[p].cmd /\ task'[p].snap = task[p].snap
      /\ task'[p].facts = task[p].facts
  BY <1>3 DEF Task
<1>5. HandlerShape(p) /\ verdict' = verdict /\ heard' = heard
  BY DEF InductiveInvariant, robot
<1>6. HandlerShape(p)'
  BY <1>4, <1>5 DEF HandlerShape, Naming, Loaded, Sending, Truthful, FailedBefore
<1>7. QED
  BY <1>1, <1>2, <1>3, <1>6, OneHandlerStep DEF robot

\* The deadline, ownership and liveness checks that let a handler act or cancel.
LEMMA EligibilitySteps ==
  ASSUME InductiveInvariant, NEW p \in Tasks, CheckOwnership(p) \/ CheckLiveness(p)
  PROVE  InductiveInvariant'
<1>1. PICK place \in {"liveness", "cancel", "act"} : Goto(p, place)
  BY DEF CheckOwnership, CheckLiveness
<1>2. QED
  BY <1>1, GotoShape DEF CheckOwnership, CheckLiveness, Loaded

\* What a consumer knows when it acts on an acknowledgement.
LEMMA AnswerFacts ==
  ASSUME InductiveInvariant, NEW w \in Workers, NEW kind \in {"ack", "nack"},
         AtAnswer(w, kind)
  PROVE  /\ task[w] \in Task /\ task[w].cmd \in Commands /\ task[w].snap \in Record
         /\ task[w].snap.attempt \in Attempts
         /\ task[w].snap.assignment \in Assignments
         /\ task[w].msg.attempt = task[w].snap.attempt
         /\ FailedBefore(task[w].cmd, task[w].snap.attempt)
         /\ kind = "ack" => verdict[task[w].cmd][task[w].snap.attempt] = "ok"
         /\ kind = "nack" => verdict[task[w].cmd][task[w].snap.attempt] = "fail"
         /\ w \in Tasks /\ w \notin Submitters
<1>1. w \in Tasks /\ HandlerShape(w) /\ task[w] \in Task /\ w \notin Submitters
  BY TasksAssumption DEF InductiveInvariant, TypeOK, Tasks
<1>2. QED
  BY <1>1 DEF AtAnswer, HandlerShape, Naming, Loaded, Truthful, Task

\* Settling a record whose last attempt failed.
LEMMA GiveUpStep ==
  ASSUME InductiveInvariant, NEW w \in Workers, GiveUp(w)
  PROVE  InductiveInvariant'
<1>1. /\ task[w].snap.attempt = MaxAttempts
      /\ verdict[task[w].cmd][MaxAttempts] = "fail"
      /\ w \in Tasks /\ w \notin Submitters
  BY AnswerFacts, ConstantsAssumption DEF GiveUp, Attempts
<1>2. Leave(w)
  BY <1>1 DEF GiveUp, Leave
<1>3. QED
  BY <1>1, <1>2, SettleStep DEF GiveUp, AtAnswer, Loaded, Sending

\* Settling a record the robot completed, and saving its position.
LEMMA SucceedStep ==
  ASSUME InductiveInvariant, NEW w \in Workers, Succeed(w)
  PROVE  InductiveInvariant'
<1> DEFINE done == Settled(task[w].snap, "SUCCEEDED")
<1>1. /\ task[w] \in Task /\ task[w].cmd \in Commands /\ task[w].snap \in Record
      /\ task[w].snap.attempt \in Attempts
      /\ task[w].snap.assignment \in Assignments
      /\ FailedBefore(task[w].cmd, task[w].snap.attempt)
      /\ verdict[task[w].cmd][task[w].snap.attempt] = "ok"
      /\ w \in Tasks
  BY AnswerFacts DEF Succeed
<1>2. /\ done \in Record /\ done.status = "SUCCEEDED"
      /\ done.attempt = task[w].snap.attempt
      /\ done.assignment = task[w].snap.assignment
      /\ done.origin = task[w].snap.origin
  BY <1>1 DEF Settled, Record, Terminal
<1>3. /\ Transition(task[w].cmd, task[w].snap, done)
      /\ \/ position' = position
         \/ /\ TransitionApplies(task[w].cmd, task[w].snap, done)
            /\ position' = [by |-> task[w].cmd, assignment |-> task[w].snap.assignment]
      /\ task[w].snap.status = "AWAITING_ACK"
  BY DEF Succeed, AtAnswer
<1> HIDE DEF done
<1>4. StoreInvariant'
  BY <1>1, <1>2, <1>3, TransitionKeepsStore DEF robot, Succeed
<1>5. TypeOK'
  BY <1>1, <1>2, <1>3, TransitionTypes, TaskTypes
     DEF InductiveInvariant, TypeOK, robot, world, budgets, Position, Succeed
<1>6. QED
  BY <1>1, <1>4, <1>5, StopShape, OneHandlerStep DEF robot, Succeed, InductiveInvariant

\* A handler that only ends leaves everything else alone.
LEMMA EndStep ==
  ASSUME InductiveInvariant, NEW p \in Tasks, Stop(p),
         UNCHANGED <<store, robot, world, changes>>,
         faults' \in Nat, queue' \subseteq Message,
         \A m \in queue' : m \in queue \/ Truthful(m)
  PROVE  InductiveInvariant'
<1>1. StoreInvariant'
  BY StoreFrame DEF robot
<1>2. TypeOK'
  BY TaskTypes DEF InductiveInvariant, TypeOK, store, robot, world
<1>3. QED
  BY <1>1, <1>2, StopShape, OneHandlerStep DEF InductiveInvariant, robot

\* The records a handler writes before a publication: what they share with the
\* record they replace.
LEMMA UpdateTypes ==
  ASSUME NEW r \in Record, NEW lease \in Nat, NEW a \in Attempts
  PROVE  /\ Awaiting(r, lease) \in Record
         /\ Awaiting(r, lease).status = "AWAITING_ACK"
         /\ Awaiting(r, lease).attempt = r.attempt
         /\ Awaiting(r, lease).assignment = r.assignment
         /\ Awaiting(r, lease).origin = r.origin
         /\ QueuedAgain(r, a, lease) \in Record
         /\ QueuedAgain(r, a, lease).status = "QUEUED"
         /\ QueuedAgain(r, a, lease).attempt = a
         /\ QueuedAgain(r, a, lease).assignment = r.assignment
         /\ QueuedAgain(r, a, lease).origin = r.origin
<1>1. a \in 0..MaxAttempts /\ {"QUEUED", "AWAITING_ACK"} \subseteq Pending
  BY ConstantsAssumption DEF Attempts, Pending
<1>2. QED
  BY <1>1 DEF Record, Awaiting, QueuedAgain

\* Queueing the next attempt.
LEMMA RetryStep ==
  ASSUME InductiveInvariant, NEW w \in Workers, Retry(w)
  PROVE  InductiveInvariant'
<1> DEFINE next == QueuedAgain(task[w].snap, task[w].msg.attempt + 1, leases + 1)
<1>1. /\ task[w] \in Task /\ task[w].cmd \in Commands /\ task[w].snap \in Record
      /\ task[w].snap.attempt \in Attempts
      /\ task[w].snap.assignment \in Assignments
      /\ FailedBefore(task[w].cmd, task[w].snap.attempt)
      /\ verdict[task[w].cmd][task[w].snap.attempt] = "fail"
      /\ task[w].msg.attempt = task[w].snap.attempt
      /\ w \in Tasks /\ w \notin Submitters
  BY AnswerFacts DEF Retry
<1>2. CASE TransitionApplies(task[w].cmd, task[w].snap, next)
  <2>1. /\ leases \in Nat /\ task[w].snap.attempt < MaxAttempts
        /\ leases' = leases + 1
        /\ Write(task[w].cmd, next)
        /\ task' = [task EXCEPT ![w].at = "publish", ![w].held = next]
        /\ task[w].snap.status = "AWAITING_ACK"
    BY <1>1, <1>2 DEF Retry, AtAnswer, InductiveInvariant, TypeOK
  <2>2. /\ next \in Record /\ next.status = "QUEUED"
        /\ next.attempt = task[w].snap.attempt + 1 /\ next.attempt \in Attempts
        /\ next.assignment = task[w].snap.assignment
        /\ next.origin = task[w].snap.origin
    <3>1. PICK a \in Attempts : a = task[w].msg.attempt + 1
      BY <1>1, <2>1, ConstantsAssumption DEF Attempts
    <3>2. PICK lease \in Nat : lease = leases + 1
      BY <2>1
    <3>3. next = QueuedAgain(task[w].snap, a, lease)
      BY <3>1, <3>2
    <3> HIDE DEF next
    <3>4. /\ next \in Record /\ next.status = "QUEUED" /\ next.attempt = a
          /\ next.assignment = task[w].snap.assignment
          /\ next.origin = task[w].snap.origin
      <4>1. task[w].snap \in Record
        BY <1>1
      <4>2. QED
        BY <3>3, <4>1, UpdateTypes
    <3>5. QED
      BY <1>1, <3>1, <3>4
  <2>3. FailedBefore(task[w].cmd, next.attempt)
    BY <1>1, <2>2 DEF FailedBefore, Attempts
  <2>4. Transition(task[w].cmd, task[w].snap, next)
    BY <1>2, <2>1 DEF Transition
  <2> HIDE DEF next
  <2>5. StoreInvariant'
    BY <1>1, <2>1, <2>2, <2>3, <2>4, TransitionKeepsStore DEF robot, Retry
  <2>6. /\ task'[w] = [task[w] EXCEPT !.at = "publish", !.held = next]
        /\ \A q \in Tasks \ {w} : task'[q] = task[q]
        /\ task'[w] \in Task
        /\ task' \in [Tasks -> Task]
    BY <1>1, <2>1, <2>2 DEF InductiveInvariant, TypeOK, Task, Places
  <2>7. TypeOK'
    BY <1>1, <2>1, <2>2, <2>6, TransitionTypes
       DEF InductiveInvariant, TypeOK, robot, world, budgets, Retry, Write
  <2>8. /\ task'[w].at = "publish" /\ task'[w].held = next
        /\ task'[w].msg = task[w].msg /\ task'[w].cmd = task[w].cmd
        /\ task[w].at = "act"
    BY <1>1, <2>6 DEF Task, Retry, AtAnswer
  <2>9. HandlerShape(w) /\ verdict' = verdict /\ heard' = heard
    BY <1>1 DEF InductiveInvariant, robot, Retry
  <2>10. HandlerShape(w)'
    BY <1>1, <2>2, <2>8, <2>9 DEF HandlerShape, Naming, Loaded, Sending, Truthful
  <2>11. QED
    BY <1>1, <2>5, <2>6, <2>7, <2>9, <2>10, OneHandlerStep DEF robot, Retry
<1>3. CASE ~TransitionApplies(task[w].cmd, task[w].snap, next)
  BY <1>1, <1>3, EndStep DEF Retry, store, budgets, InductiveInvariant, TypeOK
<1>4. QED
  BY <1>2, <1>3

\* What a consumer knows when it acts on a command message.
LEMMA CommandFacts ==
  ASSUME InductiveInvariant, NEW w \in Workers, task[w].at \in Loaded
  PROVE  /\ task[w] \in Task /\ task[w].cmd \in Commands /\ task[w].snap \in Record
         /\ task[w].msg \in Message /\ Truthful(task[w].msg)
         /\ task[w].snap.status # "ABSENT"
         /\ task[w].snap.attempt \in Attempts
         /\ task[w].snap.assignment \in Assignments
         /\ task[w].msg.cmd = task[w].cmd
         /\ task[w].msg.attempt = task[w].snap.attempt
         /\ FailedBefore(task[w].cmd, task[w].snap.attempt)
         /\ w \in Tasks /\ w \notin Submitters
         /\ HandlerShape(w)
<1>1. w \in Tasks /\ HandlerShape(w) /\ task[w] \in Task /\ w \notin Submitters
  BY TasksAssumption DEF InductiveInvariant, TypeOK, Tasks
<1>2. QED
  BY <1>1 DEF HandlerShape, Naming, Loaded, Sending, Task

\* A consumer that goes on to publish holds the record that awaits its answer.
LEMMA SendingShape ==
  ASSUME InductiveInvariant, NEW w \in Workers, task[w].at = "act",
         NEW sent \in Record,
         sent.status = "AWAITING_ACK",
         sent.attempt = task[w].snap.attempt,
         sent.assignment = task[w].snap.assignment,
         sent.origin = task[w].snap.origin,
         task[w].snap.status \in Pending,
         task' = [task EXCEPT ![w].at = "mqtt", ![w].held = sent],
         UNCHANGED robot
  PROVE  /\ HandlerShape(w)'
         /\ task' \in [Tasks -> Task]
         /\ \A q \in Tasks \ {w} : task'[q] = task[q]
<1>1. /\ task[w] \in Task /\ task[w].cmd \in Commands /\ task[w].snap \in Record
      /\ task[w].msg \in Message /\ Truthful(task[w].msg)
      /\ task[w].snap.status # "ABSENT"
      /\ task[w].snap.attempt \in Attempts
      /\ task[w].snap.assignment \in Assignments
      /\ task[w].msg.cmd = task[w].cmd
      /\ task[w].msg.attempt = task[w].snap.attempt
      /\ FailedBefore(task[w].cmd, task[w].snap.attempt)
      /\ w \in Tasks /\ w \notin Submitters
  BY CommandFacts DEF Loaded
<1>2. /\ task'[w] = [task[w] EXCEPT !.at = "mqtt", !.held = sent]
      /\ task' \in [Tasks -> Task]
      /\ \A q \in Tasks \ {w} : task'[q] = task[q]
  BY <1>1 DEF InductiveInvariant, TypeOK, Task, Places
<1>3. /\ task'[w].at = "mqtt" /\ task'[w].held = sent
      /\ task'[w].msg = task[w].msg /\ task'[w].cmd = task[w].cmd
      /\ task'[w].snap = task[w].snap
  BY <1>1, <1>2 DEF Task
<1>4. verdict' = verdict /\ heard' = heard
  BY DEF robot
<1>5. HandlerShape(w)'
  BY <1>1, <1>3, <1>4 DEF HandlerShape, Naming, Loaded, Sending, Truthful, FailedBefore
<1>6. QED
  BY <1>2, <1>5

\* Saving the dispatch before its publication.
LEMMA BeginDispatchStep ==
  ASSUME InductiveInvariant, NEW w \in Workers, BeginDispatch(w)
  PROVE  InductiveInvariant'
<1> DEFINE sent == Awaiting(task[w].snap, leases + 1)
<1>1. /\ task[w] \in Task /\ task[w].cmd \in Commands /\ task[w].snap \in Record
      /\ task[w].snap.attempt \in Attempts
      /\ FailedBefore(task[w].cmd, task[w].snap.attempt)
      /\ w \in Tasks /\ task[w].snap.status = "QUEUED" /\ task[w].at = "act"
  BY CommandFacts DEF BeginDispatch, Loaded
<1>2. CASE TransitionApplies(task[w].cmd, task[w].snap, sent)
  <2>1. /\ leases \in Nat /\ leases' = leases + 1
        /\ Write(task[w].cmd, sent)
        /\ task' = [task EXCEPT ![w].at = "mqtt", ![w].held = sent]
    BY <1>2 DEF BeginDispatch, InductiveInvariant, TypeOK
  <2>2. /\ sent \in Record /\ sent.status = "AWAITING_ACK"
        /\ sent.attempt = task[w].snap.attempt
        /\ sent.assignment = task[w].snap.assignment
        /\ sent.origin = task[w].snap.origin
    BY <1>1, <2>1, UpdateTypes
  <2>3. Transition(task[w].cmd, task[w].snap, sent)
    BY <1>2, <2>1 DEF Transition
  <2> HIDE DEF sent
  <2>4. StoreInvariant'
    BY <1>1, <2>1, <2>2, <2>3, TransitionKeepsStore DEF robot, BeginDispatch
  <2>5. /\ HandlerShape(w)' /\ task' \in [Tasks -> Task]
        /\ \A q \in Tasks \ {w} : task'[q] = task[q]
    BY <1>1, <2>1, <2>2, SendingShape DEF BeginDispatch, Pending
  <2>6. TypeOK'
    BY <1>1, <2>1, <2>2, <2>5, TransitionTypes
       DEF InductiveInvariant, TypeOK, robot, world, budgets, BeginDispatch
  <2>7. QED
    BY <1>1, <2>4, <2>5, <2>6, OneHandlerStep DEF robot, BeginDispatch
<1>3. CASE ~TransitionApplies(task[w].cmd, task[w].snap, sent)
  BY <1>1, <1>3, EndStep DEF BeginDispatch, store, budgets, InductiveInvariant, TypeOK
<1>4. QED
  BY <1>2, <1>3

\* Taking up a dispatch that was never confirmed.
LEMMA RecoverDispatchStep ==
  ASSUME InductiveInvariant, NEW w \in Workers, RecoverDispatch(w)
  PROVE  InductiveInvariant'
<1> USE DEF RecoverDispatch
<1>1. task[w] \in Task /\ task[w].snap \in Record /\ w \in Tasks
  BY CommandFacts DEF Loaded
<1>2. /\ task[w].snap.status \in Pending
  BY <1>1 DEF Record, Pending
<1>3. /\ HandlerShape(w)' /\ task' \in [Tasks -> Task]
      /\ \A q \in Tasks \ {w} : task'[q] = task[q]
  BY <1>1, <1>2, SendingShape
<1>4. StoreInvariant'
  BY StoreFrame DEF robot
<1>5. TypeOK'
  BY <1>3 DEF InductiveInvariant, TypeOK, store, robot, world, budgets
<1>6. QED
  BY <1>1, <1>3, <1>4, <1>5, OneHandlerStep DEF robot

\* Dropping a message that asks for nothing.
LEMMA IgnoreStep ==
  ASSUME InductiveInvariant, NEW w \in Workers, Ignore(w)
  PROVE  InductiveInvariant'
BY EndStep DEF Ignore, Tasks, budgets, InductiveInvariant, TypeOK

\* What a consumer holds between saving a dispatch and confirming it.
LEMMA SendingFacts ==
  ASSUME InductiveInvariant, NEW w \in Workers, task[w].at \in Sending
  PROVE  /\ task[w].held \in Record /\ task[w].held.status = "AWAITING_ACK"
         /\ task[w].held.attempt = task[w].snap.attempt
         /\ task[w].held.assignment = task[w].snap.assignment
         /\ task[w].held.origin = task[w].snap.origin
         /\ task[w].snap.status \in Pending
         /\ task[w].at = "mark" => <<task[w].cmd, task[w].held.attempt>> \in heard
BY CommandFacts DEF HandlerShape, Loaded, Task

\* A consumer that goes on from a publication keeps what it holds.
LEMMA PublishedShape ==
  ASSUME InductiveInvariant, NEW w \in Workers, task[w].at \in Sending,
         NEW place \in {"mark", "restore"}, Goto(w, place),
         verdict' = verdict,
         place = "mark" => <<task[w].cmd, task[w].held.attempt>> \in heard'
  PROVE  /\ HandlerShape(w)' /\ task' \in [Tasks -> Task] /\ w \in Tasks
         /\ \A q \in Tasks \ {w} : task'[q] = task[q]
<1>1. /\ HandlerShape(w) /\ w \in Tasks /\ w \notin Submitters /\ task[w] \in Task
      /\ TypeOK
  BY CommandFacts DEF Loaded, InductiveInvariant
<1>2. task' \in [Tasks -> Task]
  BY <1>1, TaskTypes DEF Places
<1>3. /\ task'[w] = [task[w] EXCEPT !.at = place]
      /\ \A q \in Tasks \ {w} : task'[q] = task[q]
  BY <1>1 DEF Goto, TypeOK
<1>4. /\ task'[w].at = place /\ task'[w].msg = task[w].msg
      /\ task'[w].cmd = task[w].cmd /\ task'[w].snap = task[w].snap
      /\ task'[w].held = task[w].held
  BY <1>1, <1>3 DEF Task
<1>5. HandlerShape(w)'
  BY <1>1, <1>4 DEF HandlerShape, Naming, Loaded, Sending, Truthful, FailedBefore
<1>6. QED
  BY <1>1, <1>2, <1>3, <1>5

\* The attempt reaches the robot's topic.
LEMMA MqttPublishStep ==
  ASSUME InductiveInvariant, NEW w \in Workers, MqttPublish(w)
  PROVE  InductiveInvariant'
<1>1. /\ task[w].at \in Sending
      /\ heard' = heard \cup {<<task[w].msg.cmd, task[w].msg.attempt>>}
      /\ verdict' = verdict /\ UNCHANGED store
  BY DEF MqttPublish, Sending
<1>2. /\ task[w].msg.cmd = task[w].cmd /\ task[w].cmd \in Commands
      /\ task[w].msg.attempt = task[w].snap.attempt
      /\ task[w].held.attempt = task[w].snap.attempt
      /\ task[w].snap.attempt \in Attempts
      /\ FailedBefore(task[w].cmd, task[w].snap.attempt)
  BY <1>1, CommandFacts, SendingFacts DEF Loaded
<1>3. PICK place \in {"mark", "restore"} : Goto(w, place)
  BY DEF MqttPublish
<1>4. /\ HandlerShape(w)' /\ task' \in [Tasks -> Task] /\ w \in Tasks
      /\ \A q \in Tasks \ {w} : task'[q] = task[q]
  BY <1>1, <1>2, <1>3, PublishedShape
<1>5. RetriesFollowFailures' /\ MarkersAreTruthful'
  BY <1>1, <1>2 DEF InductiveInvariant, RetriesFollowFailures, MarkersAreTruthful,
     FailedBefore, store
<1>6. StoreInvariant'
  BY <1>1, <1>5 DEF InductiveInvariant, StoreInvariant, RecordShape, PositionShape,
     OneOutstandingCommand, OutcomeIsGenuine, OriginIsCurrent, PositionIsEarned, store
<1>7. TypeOK'
  BY <1>1, <1>2, <1>4 DEF InductiveInvariant, TypeOK, store, world, MqttPublish
<1>8. QED
  BY <1>1, <1>4, <1>6, <1>7, OneHandlerStep DEF MqttPublish

\* The publication failed, or its deadline passed first.
LEMMA MqttFailStep ==
  ASSUME InductiveInvariant, NEW w \in Workers, MqttFail(w)
  PROVE  InductiveInvariant'
<1>1. /\ task[w].at \in Sending /\ verdict' = verdict /\ Goto(w, "restore")
      /\ UNCHANGED <<store, robot, world, changes, queue>>
  BY DEF MqttFail, Sending, robot
<1>2. /\ HandlerShape(w)' /\ task' \in [Tasks -> Task] /\ w \in Tasks
      /\ \A q \in Tasks \ {w} : task'[q] = task[q]
  BY <1>1, PublishedShape
<1>3. StoreInvariant'
  BY <1>1, StoreFrame DEF robot
<1>4. TypeOK'
  BY <1>1, <1>2 DEF InductiveInvariant, TypeOK, store, robot, world, MqttFail
<1>5. QED
  BY <1>1, <1>2, <1>3, <1>4, OneHandlerStep DEF robot

\* Recording the confirmed publication.
LEMMA MarkDispatchedStep ==
  ASSUME InductiveInvariant, NEW w \in Workers, MarkDispatched(w)
  PROVE  InductiveInvariant'
<1>1. /\ task[w].at \in Sending /\ verdict' = verdict /\ heard' = heard
      /\ acks' = acks /\ queue' = queue /\ faults' \in Nat
      /\ markers' = markers \cup {<<task[w].cmd, task[w].held.attempt>>}
      /\ UNCHANGED <<active, records, position, issued, leases, world, changes>>
  BY DEF MarkDispatched, Sending, robot, InductiveInvariant, TypeOK
<1>2. /\ task[w].cmd \in Commands /\ task[w].held.attempt \in Attempts
      /\ <<task[w].cmd, task[w].held.attempt>> \in heard
      /\ w \in Tasks /\ TypeOK
  BY <1>1, CommandFacts, SendingFacts DEF Loaded, MarkDispatched, InductiveInvariant
<1>3. /\ HandlerShape(w)' /\ task' \in [Tasks -> Task]
      /\ \A q \in Tasks \ {w} : task'[q] = task[q]
  <2>1. CASE Stop(w)
    BY <1>2, <2>1, StopShape, TaskTypes
  <2>2. CASE Goto(w, "restore")
    BY <1>1, <2>2, PublishedShape
  <2>3. QED
    BY <2>1, <2>2 DEF MarkDispatched
<1>4. StoreInvariant'
  BY <1>1, <1>2 DEF InductiveInvariant, StoreInvariant, RecordShape, PositionShape,
     OneOutstandingCommand, OutcomeIsGenuine, OriginIsCurrent, PositionIsEarned,
     RetriesFollowFailures, MarkersAreTruthful
<1>5. TypeOK'
  BY <1>1, <1>2, <1>3 DEF TypeOK, world
<1>6. QED
  BY <1>1, <1>2, <1>3, <1>4, <1>5, OneHandlerStep

\* Putting the previous snapshot back after a failed or uncertain publication.
LEMMA RestoreStep ==
  ASSUME InductiveInvariant, NEW w \in Workers, Restore(w)
  PROVE  InductiveInvariant'
<1>1. task[w].at \in Sending /\ Stop(w) /\ TypeOK
  BY DEF Restore, Sending, InductiveInvariant
<1>2. /\ task[w].cmd \in Commands /\ task[w].snap \in Record
      /\ task[w].held \in Record /\ task[w].held.status = "AWAITING_ACK"
      /\ task[w].snap.status \in Pending
      /\ task[w].snap.attempt \in Attempts
      /\ task[w].snap.assignment = task[w].held.assignment
      /\ task[w].snap.origin = task[w].held.origin
      /\ FailedBefore(task[w].cmd, task[w].snap.attempt)
      /\ task[w].msg \in Message /\ Truthful(task[w].msg) /\ w \in Tasks
  BY <1>1, CommandFacts, SendingFacts DEF Loaded
<1>3. Transition(task[w].cmd, task[w].held, task[w].snap)
  BY DEF Restore
<1>4. StoreInvariant'
  BY <1>2, <1>3, TransitionKeepsStore DEF Pending, Restore, robot
<1>5. queue' \subseteq Message /\ \A m \in queue' : m \in queue \/ Truthful(m)
  BY <1>1, <1>2 DEF Restore, Redeliver, TypeOK
<1>6. TypeOK'
  BY <1>1, <1>2, <1>3, <1>5, TransitionTypes, TaskTypes
     DEF TypeOK, robot, world, budgets, Restore
<1>7. QED
  BY <1>1, <1>2, <1>4, <1>5, <1>6, StopShape, OneHandlerStep DEF robot, Restore

\* Taking up saved work again, outside the queue.
LEMMA ResumeStep ==
  ASSUME InductiveInvariant, NEW p \in Reconcilers \cup Submitters, Resume(p)
  PROVE  InductiveInvariant'
<1>1. /\ p \in Tasks /\ p \notin Workers /\ task[p] \in Task /\ HandlerShape(p)
      /\ task[p].at = "act" /\ TypeOK
      /\ UNCHANGED <<store, robot, world, budgets, queue>>
  BY TasksAssumption DEF Tasks, InductiveInvariant, TypeOK, Resume
<1>2. StoreInvariant'
  BY <1>1, StoreFrame DEF robot
<1>3. CASE task' = [task EXCEPT ![p].at = "publish", ![p].held = task[p].snap]
  <2>1. /\ task'[p] = [task[p] EXCEPT !.at = "publish", !.held = task[p].snap]
        /\ task' \in [Tasks -> Task]
        /\ \A q \in Tasks \ {p} : task'[q] = task[q]
    BY <1>1, <1>3 DEF TypeOK, Task, Places
  <2>2. /\ task'[p].at = "publish" /\ task'[p].held = task[p].snap
        /\ task'[p].cmd = task[p].cmd /\ task'[p].facts = task[p].facts
    BY <1>1, <2>1 DEF Task
  <2>3. HandlerShape(p)'
    BY <1>1, <2>2 DEF HandlerShape, Naming, Loaded, Sending
  <2>4. TypeOK'
    BY <1>1, <2>1 DEF TypeOK, store, robot, world, budgets
  <2>5. QED
    BY <1>1, <1>2, <2>1, <2>3, <2>4, OneHandlerStep DEF robot
<1>4. CASE Leave(p)
  <2>1. TypeOK'
    BY <1>1, <1>4, TaskTypes DEF TypeOK, store, robot, world, budgets
  <2>2. QED
    BY <1>1, <1>2, <1>4, <2>1, LeaveShape, OneHandlerStep DEF robot
<1>5. QED
  BY <1>3, <1>4 DEF Resume

\* Queueing a saved intent.
LEMMA PublishCommandStep ==
  ASSUME InductiveInvariant, NEW p \in Tasks, PublishCommand(p)
  PROVE  InductiveInvariant'
<1>1. /\ Leave(p) /\ task[p].at = "publish" /\ TypeOK /\ HandlerShape(p)
      /\ UNCHANGED <<store, robot, world, budgets>>
      /\ queue' = queue \cup {Envelope(task[p].cmd, task[p].held.attempt)}
  BY DEF PublishCommand, InductiveInvariant
<1>2. /\ Envelope(task[p].cmd, task[p].held.attempt) \in Message
      /\ Truthful(Envelope(task[p].cmd, task[p].held.attempt))
  BY <1>1, MessageTypes DEF HandlerShape, Naming, Truthful, Envelope
<1>3. StoreInvariant'
  BY <1>1, StoreFrame DEF robot
<1>4. TypeOK'
  BY <1>1, <1>2, TaskTypes DEF TypeOK, store, robot, world, budgets
<1>5. QED
  BY <1>1, <1>2, <1>3, <1>4, LeaveShape, OneHandlerStep DEF robot

\* A fresh reservation's command is queued, or only logged as lost.
LEMMA AnnounceStep ==
  ASSUME InductiveInvariant, NEW s \in Submitters, Announce(s)
  PROVE  InductiveInvariant'
<1>1. /\ s \in Tasks /\ HandlerShape(s) /\ TypeOK /\ task[s].at = "announce"
  BY DEF Tasks, InductiveInvariant, Announce
<1>2. /\ Envelope(task[s].cmd, task[s].held.attempt) \in Message
      /\ Truthful(Envelope(task[s].cmd, task[s].held.attempt))
  BY <1>1, MessageTypes DEF HandlerShape, Naming, Truthful, Envelope
<1>3. /\ queue' \in {queue, queue \cup {Envelope(task[s].cmd, task[s].held.attempt)}}
      /\ faults' \in Nat
  BY <1>1 DEF Announce, TypeOK
<1>4. QED
  BY <1>1, <1>2, <1>3, EndStep DEF Announce, TypeOK

\* submit() refuses the movement, or lost the race for the reservation.
LEMMA RefusalSteps ==
  ASSUME InductiveInvariant, NEW s \in Submitters, RefuseMovement(s)
  PROVE  InductiveInvariant'
BY EndStep DEF RefuseMovement, Tasks, budgets, InductiveInvariant, TypeOK

\* submit() reads the position it will move from.
LEMMA ReadPositionStep ==
  ASSUME InductiveInvariant, NEW s \in Submitters, ReadPosition(s)
  PROVE  InductiveInvariant'
<1>1. /\ s \in Tasks /\ s \notin Workers /\ task[s] \in Task /\ HandlerShape(s)
      /\ task[s].at = "position" /\ TypeOK
      /\ task' = [task EXCEPT ![s].at = "reserve", ![s].seen = position]
      /\ UNCHANGED <<store, robot, world, budgets, queue>>
  BY TasksAssumption DEF Tasks, InductiveInvariant, TypeOK, ReadPosition
<1>2. StoreInvariant'
  BY <1>1, StoreFrame DEF robot
<1>3. /\ task'[s] = [task[s] EXCEPT !.at = "reserve", !.seen = position]
      /\ task' \in [Tasks -> Task]
      /\ \A q \in Tasks \ {s} : task'[q] = task[q]
  BY <1>1 DEF TypeOK, Task, Places
<1>4. task'[s].at = "reserve" /\ task'[s].facts = task[s].facts
  BY <1>1, <1>3 DEF Task
<1>5. HandlerShape(s)'
  BY <1>1, <1>4 DEF HandlerShape, Naming, Loaded, Sending
<1>6. TypeOK'
  BY <1>1, <1>3 DEF TypeOK, store, robot, world, budgets
<1>7. QED
  BY <1>1, <1>2, <1>3, <1>5, <1>6, OneHandlerStep DEF robot

\* A reconciliation or a request starts, or the queue delivers a message.
LEMMA StartReconcileStep ==
  ASSUME InductiveInvariant, NEW r \in Reconcilers, StartReconcile(r)
  PROVE  InductiveInvariant'
<1>1. /\ r \in Tasks /\ r \notin Workers /\ r \notin Submitters
      /\ task[r] \in Task /\ TypeOK /\ Goto(r, "active")
      /\ UNCHANGED <<store, robot, world, budgets, queue>>
  BY TasksAssumption DEF Tasks, InductiveInvariant, TypeOK, StartReconcile
<1>2. StoreInvariant'
  BY <1>1, StoreFrame DEF robot
<1>3. /\ task'[r].at = "active" /\ task' \in [Tasks -> Task]
      /\ \A q \in Tasks \ {r} : task'[q] = task[q]
  BY <1>1 DEF TypeOK, Goto, Task, Places
<1>4. HandlerShape(r)'
  BY <1>1, <1>3 DEF HandlerShape, Naming, Loaded, Sending
<1>5. TypeOK'
  BY <1>1, <1>3 DEF TypeOK, store, robot, world, budgets
<1>6. QED
  BY <1>1, <1>2, <1>3, <1>4, <1>5, OneHandlerStep DEF robot

\* A request starts with the assignment it read.
LEMMA StartSubmitStep ==
  ASSUME InductiveInvariant, NEW s \in Submitters, StartSubmit(s)
  PROVE  InductiveInvariant'
<1> DEFINE new == [IdleTask EXCEPT !.at = "ready", !.facts = assignment]
<1>1. /\ s \in Tasks /\ s \notin Workers /\ TypeOK
      /\ task' = [task EXCEPT ![s] = new] /\ assignment \in Assignments
      /\ UNCHANGED <<store, robot, world, budgets, queue>>
  BY TasksAssumption DEF Tasks, InductiveInvariant, TypeOK, StartSubmit
<1>2. StoreInvariant'
  BY <1>1, StoreFrame DEF robot
<1>3. new \in Task /\ new.at = "ready" /\ new.facts \in Assignments
  BY <1>1, EmptyTypes DEF Task, IdleTask, Places
<1>4. /\ task'[s] = new /\ task' \in [Tasks -> Task]
      /\ \A q \in Tasks \ {s} : task'[q] = task[q]
  BY <1>1, <1>3 DEF TypeOK
<1> HIDE DEF new
<1>5. HandlerShape(s)'
  BY <1>1, <1>3, <1>4 DEF HandlerShape, Naming, Loaded, Sending
<1>6. TypeOK'
  BY <1>1, <1>4 DEF TypeOK, store, robot, world, budgets
<1>7. QED
  BY <1>1, <1>2, <1>4, <1>5, <1>6, OneHandlerStep DEF robot

\* A request goes on only for a live robot.
LEMMA AdmitSubmitStep ==
  ASSUME InductiveInvariant, NEW s \in Submitters, AdmitSubmit(s)
  PROVE  InductiveInvariant'
<1>1. /\ s \in Tasks /\ s \notin Workers /\ task[s] \in Task /\ HandlerShape(s)
      /\ task[s].at = "ready" /\ TypeOK
      /\ UNCHANGED <<store, robot, world, budgets, queue>>
  BY TasksAssumption DEF Tasks, InductiveInvariant, TypeOK, AdmitSubmit
<1>2. CASE Stop(s)
  BY <1>1, <1>2, EndStep DEF budgets, TypeOK
<1>3. CASE Goto(s, "active")
  <2>1. /\ task'[s] = [task[s] EXCEPT !.at = "active"] /\ task' \in [Tasks -> Task]
        /\ \A q \in Tasks \ {s} : task'[q] = task[q]
    BY <1>1, <1>3 DEF TypeOK, Goto, Task, Places
  <2>2. task'[s].at = "active" /\ task'[s].facts = task[s].facts
    BY <1>1, <2>1 DEF Task
  <2>3. HandlerShape(s)'
    BY <1>1, <2>2 DEF HandlerShape, Naming, Loaded, Sending
  <2>4. TypeOK'
    BY <1>1, <2>1 DEF TypeOK, store, robot, world, budgets
  <2>5. StoreInvariant'
    BY <1>1, StoreFrame DEF robot
  <2>6. QED
    BY <1>1, <2>1, <2>3, <2>4, <2>5, OneHandlerStep DEF robot
<1>4. QED
  BY <1>2, <1>3 DEF AdmitSubmit

\* A consumer starts with a message of the queue.
LEMMA DeliverStep ==
  ASSUME InductiveInvariant, NEW w \in Workers, NEW m \in queue, Deliver(w, m)
  PROVE  InductiveInvariant'
<1> DEFINE new == [IdleTask EXCEPT !.at = "active", !.msg = m]
<1>1. /\ w \in Tasks /\ w \notin Submitters /\ TypeOK
      /\ task' = [task EXCEPT ![w] = new]
      /\ m \in Message /\ Truthful(m) /\ queue' \subseteq queue
      /\ UNCHANGED <<store, robot, world, budgets>>
  BY TasksAssumption DEF Tasks, InductiveInvariant, TypeOK, Deliver
<1>2. StoreInvariant'
  BY <1>1, StoreFrame DEF robot
<1>3. new \in Task /\ new.at = "active" /\ new.msg = m
  BY <1>1, EmptyTypes DEF Task, IdleTask, Places
<1>4. /\ task'[w] = new /\ task' \in [Tasks -> Task]
      /\ \A q \in Tasks \ {w} : task'[q] = task[q]
  BY <1>1, <1>3 DEF TypeOK
<1> HIDE DEF new
<1>5. HandlerShape(w)'
  BY <1>1, <1>3, <1>4 DEF HandlerShape, Naming, Loaded, Sending, Truthful, robot
<1>6. TypeOK'
  BY <1>1, <1>4 DEF TypeOK, store, robot, world, budgets
<1>7. QED
  BY <1>1, <1>2, <1>4, <1>5, <1>6, OneHandlerStep DEF robot

\* A consumer dies: the broker requeues what it was handed.
LEMMA CrashStep ==
  ASSUME InductiveInvariant, NEW w \in Workers, Crash(w)
  PROVE  InductiveInvariant'
<1>1. w \in Tasks /\ HandlerShape(w) /\ TypeOK /\ task[w].msg \in Message /\ Truthful(task[w].msg)
  BY DEF Tasks, InductiveInvariant, HandlerShape, Crash
<1>2. QED
  BY <1>1, EndStep DEF Crash, TypeOK

\* A dependency raises: a consumer's message is retried or dead-lettered.
LEMMA RaiseStep ==
  ASSUME InductiveInvariant, NEW p \in Tasks, Raise(p)
  PROVE  InductiveInvariant'
<1>1. /\ HandlerShape(p) /\ TypeOK
      /\ p \in Workers => task[p].msg \in Message /\ Truthful(task[p].msg)
  BY DEF InductiveInvariant, HandlerShape, Raise
<1>2. /\ queue' \subseteq Message /\ faults' \in Nat
      /\ \A m \in queue' : m \in queue \/ Truthful(m)
  BY <1>1 DEF Raise, Redeliver, TypeOK
<1>3. QED
  BY <1>2, EndStep DEF Raise

\* The reservation: a fresh record whose origin is the position just compared.
LEMMA ReserveStep ==
  ASSUME InductiveInvariant, NEW s \in Submitters, NEW c \in Commands, Reserve(s, c)
  PROVE  InductiveInvariant'
<1> DEFINE new == NewRecord(s)
<1>1. /\ s \in Tasks /\ s \notin Workers /\ task[s] \in Task /\ HandlerShape(s)
      /\ TypeOK /\ task[s].facts \in Assignments
      /\ active = NoCommand /\ position = task[s].seen /\ c \notin issued
      /\ issued' = issued \cup {c} /\ active' = c /\ leases' = leases + 1
      /\ records' = [records EXCEPT ![c] = new]
      /\ task' = [task EXCEPT ![s].at = "announce", ![s].cmd = c, ![s].held = new]
      /\ UNCHANGED <<markers, position, robot, world, budgets, queue>>
  BY TasksAssumption DEF Tasks, InductiveInvariant, TypeOK, Reserve, ReserveApplies, HandlerShape
<1>2. ResolveOrigin(position, task[s].facts) \in Commands \cup {NoCommand}
  BY <1>1 DEF TypeOK, Position, ResolveOrigin
<1>3. /\ new \in Record /\ new.status = "QUEUED" /\ new.attempt = 1
      /\ new.assignment = task[s].facts
      /\ new.origin = ResolveOrigin(position, task[s].facts)
  BY <1>1, <1>2, ConstantsAssumption DEF NewRecord, Record, Pending, TypeOK
<1> HIDE DEF new
<1>4. /\ records'[c] = new /\ new # Absent /\ c # NoCommand
      /\ \A d \in Commands \ {c} : records'[d] = records[d]
      /\ records[c] = Absent /\ position.by # c
  <2>1. new # Absent /\ c # NoCommand
    BY <1>3, ConstantsAssumption DEF Absent
  <2>2. records[c] = Absent /\ position.by # c
    BY <1>1, <2>1 DEF InductiveInvariant, RecordShape, PositionShape
  <2>3. QED
    BY <1>1, <2>1, <2>2 DEF TypeOK
<1>5. verdict' = verdict /\ heard' = heard
  BY <1>1 DEF robot
<1>6. RecordShape' /\ PositionShape' /\ (active # NoCommand => active \in issued)'
  <2>1. 1 \in Attempts
    BY ConstantsAssumption DEF Attempts
  <2>2. RecordShape'
    BY <1>1, <1>3, <1>4, <2>1 DEF InductiveInvariant, RecordShape
  <2>3. QED
    BY <1>1, <2>2 DEF InductiveInvariant, PositionShape
<1>7. OneOutstandingCommand'
  <2>1. new.status \in Pending
    BY <1>3 DEF Pending
  <2>2. "reservation" \notin Evictable =>
           \A d \in Commands : records[d].status \notin Pending
    BY <1>1, ConstantsAssumption DEF InductiveInvariant, OneOutstandingCommand
  <2>3. QED
    BY <1>1, <1>4, <2>1, <2>2 DEF OneOutstandingCommand
<1>8. OutcomeIsGenuine'
  <2>1. \A a \in Attempts : ~(a < new.attempt)
    BY <1>3 DEF Attempts
  <2>2. new.status \notin {"SUCCEEDED", "FAILED"}
    BY <1>3
  <2>3. QED
    BY <1>4, <1>5, <2>1, <2>2 DEF InductiveInvariant, OutcomeIsGenuine
<1>9. RetriesFollowFailures' /\ MarkersAreTruthful'
  BY <1>1, <1>5 DEF InductiveInvariant, RetriesFollowFailures, MarkersAreTruthful
<1>10. OriginIsCurrent'
  <2>1. CASE position.by # NoCommand /\ position.assignment = task[s].facts
    <3>1. position = [by |-> new.origin, assignment |-> new.assignment]
      BY <1>1, <1>3, <2>1 DEF TypeOK, Position, ResolveOrigin
    <3>2. QED
      BY <1>1, <1>3, <1>4, <2>1, <3>1 DEF OriginIsCurrent, ResolveOrigin
  <2>2. CASE ~(position.by # NoCommand /\ position.assignment = task[s].facts)
    <3>1. new.origin = NoCommand
      BY <1>3, <2>2 DEF ResolveOrigin
    <3>2. position.assignment # new.assignment
      BY <1>1, <1>3, <2>2, ConstantsAssumption
         DEF InductiveInvariant, PositionShape, NoPosition
    <3>3. QED
      BY <1>1, <1>4, <3>1, <3>2 DEF OriginIsCurrent
  <2>3. QED
    BY <2>1, <2>2
<1>11. PositionIsEarned'
  <2>1. position.by # NoCommand => position.by \in Commands
    BY <1>1 DEF TypeOK, Position
  <2>2. QED
    BY <1>1, <1>4, <2>1 DEF InductiveInvariant, PositionIsEarned
<1>12. StoreInvariant'
  BY <1>6, <1>7, <1>8, <1>9, <1>10, <1>11 DEF StoreInvariant
<1>13. /\ task'[s] = [task[s] EXCEPT !.at = "announce", !.cmd = c, !.held = new]
       /\ task' \in [Tasks -> Task]
       /\ \A q \in Tasks \ {s} : task'[q] = task[q]
  BY <1>1, <1>3 DEF TypeOK, Task, Places
<1>14. task'[s].at = "announce" /\ task'[s].cmd = c /\ task'[s].held = new
  BY <1>1, <1>13 DEF Task
<1>15. HandlerShape(s)'
  BY <1>1, <1>3, <1>14, ConstantsAssumption DEF HandlerShape, Naming, Loaded, Sending, Attempts
<1>16. TypeOK'
  BY <1>1, <1>3, <1>13 DEF TypeOK, robot, world, budgets
<1>17. QED
  BY <1>1, <1>5, <1>12, <1>13, <1>15, <1>16, OneHandlerStep DEF robot

-----------------------------------------------------------------------------
(* The robot, the broker, the clock and the database *)

\* The invariant after a step of the environment: no handler moves.
LEMMA EnvironmentFrame ==
  ASSUME InductiveInvariant, TypeOK', StoreInvariant', task' = task,
         heard' = heard, verdict' = verdict,
         \A m \in queue' \cup acks' : m \in queue \cup acks \/ Truthful(m)
  PROVE  InductiveInvariant'
<1>1. \A p \in Tasks : HandlerShape(p)'
  <2>1. ASSUME NEW p \in Tasks PROVE HandlerShape(p)'
    <3>1. task'[p] = task[p] /\ HandlerShape(p)
      BY DEF InductiveInvariant
    <3>2. QED
      BY <3>1 DEF HandlerShape, Truthful, FailedBefore
  <2>2. QED
    BY <2>1
<1>2. \A m \in queue' \cup acks' : Truthful(m)'
  BY DEF InductiveInvariant, Truthful
<1>3. QED
  BY <1>1, <1>2 DEF InductiveInvariant, StoreInvariant

\* The robot decides an attempt once: what was said of it stays true.
LEMMA RobotAnswerStep ==
  ASSUME InductiveInvariant, NEW c \in Commands, NEW a \in Attempts,
         NEW v \in {"ok", "fail"}, RobotAnswer(c, a, v)
  PROVE  InductiveInvariant'
<1>1. /\ TypeOK /\ heard' = heard /\ task' = task /\ queue' = queue
      /\ acks' = acks \cup {Answer(c, a, v)}
      /\ UNCHANGED <<store, world, budgets>>
      /\ verdict[c][a] \in {"none", v}
      /\ verdict' = [verdict EXCEPT ![c] = [verdict[c] EXCEPT ![a] = v]]
  BY DEF InductiveInvariant, RobotAnswer
<1>2. /\ \A d \in Commands, b \in Attempts :
            verdict[d][b] # "none" => verdict'[d][b] = verdict[d][b]
      /\ verdict'[c][a] = v
      /\ verdict' \in [Commands -> [Attempts -> {"none", "ok", "fail"}]]
  BY <1>1 DEF TypeOK
<1>3. Answer(c, a, v) \in Message /\ Truthful(Answer(c, a, v))'
  BY <1>2, MessageTypes DEF Truthful, Answer
<1>4. \A m \in Message : Truthful(m) => Truthful(m)'
  BY <1>2 DEF Truthful, Message
<1>5. \A d \in Commands, b \in Attempts : FailedBefore(d, b) => FailedBefore(d, b)'
  BY <1>2 DEF FailedBefore
<1>6. \A m \in queue' \cup acks' : Truthful(m)'
  BY <1>1, <1>3, <1>4 DEF InductiveInvariant, TypeOK
<1>7. \A p \in Tasks : HandlerShape(p)'
  <2>1. ASSUME NEW p \in Tasks PROVE HandlerShape(p)'
    <3>1. task'[p] = task[p] /\ HandlerShape(p) /\ heard' = heard
      BY <1>1 DEF InductiveInvariant
    <3>2. QED
      BY <1>4, <1>5, <3>1 DEF HandlerShape, Naming, Loaded
  <2>2. QED
    BY <2>1
<1>8. OutcomeIsGenuine'
  <2>1. ASSUME NEW d \in Commands, records[d] # Absent
        PROVE  records[d].attempt \in Attempts
    BY <2>1 DEF InductiveInvariant, RecordShape
  <2>2. ASSUME NEW d \in Commands
        PROVE  /\ records[d].status = "SUCCEEDED" => verdict'[d][records[d].attempt] = "ok"
               /\ records[d].status = "FAILED" =>
                    /\ records[d].attempt = MaxAttempts
                    /\ verdict'[d][records[d].attempt] = "fail"
               /\ \A b \in Attempts : b < records[d].attempt => verdict'[d][b] = "fail"
    BY <1>2, <2>1 DEF InductiveInvariant, OutcomeIsGenuine, Absent
  <2>3. records' = records
    BY <1>1 DEF store
  <2>4. QED
    BY <2>2, <2>3 DEF OutcomeIsGenuine
<1>9. RetriesFollowFailures'
  <2>1. \A k \in heard : k[1] \in Commands
    BY <1>1 DEF TypeOK
  <2>2. QED
    BY <1>1, <1>2, <2>1 DEF InductiveInvariant, RetriesFollowFailures
<1>10. TypeOK'
  BY <1>1, <1>2, <1>3 DEF TypeOK, store, world, budgets
<1>11. QED
  BY <1>1, <1>6, <1>7, <1>8, <1>9, <1>10
     DEF InductiveInvariant, RecordShape, PositionShape, OneOutstandingCommand,
         MarkersAreTruthful, OriginIsCurrent, PositionIsEarned, store

\* An answer enters the queue, or a deadline passes, or the context changes.
LEMMA EnvironmentSteps ==
  ASSUME InductiveInvariant,
         (\E m \in acks : ForwardAnswer(m)) \/ Tick \/ ChangeContext
  PROVE  InductiveInvariant'
<1>1. /\ UNCHANGED <<store, heard, verdict, task>>
      /\ queue' \cup acks' \subseteq queue \cup acks
  BY DEF ForwardAnswer, Tick, ChangeContext, robot
<1>2. StoreInvariant'
  BY <1>1, StoreFrame
<1>3. TypeOK'
  <2>1. horizon' \in Nat /\ assignment' \in Assignments \cup {Nowhere}
        /\ live' \in BOOLEAN /\ faults' \in Nat /\ changes' \in Nat
    <3>1. CASE \E m \in acks : ForwardAnswer(m)
      BY <3>1 DEF InductiveInvariant, TypeOK, ForwardAnswer, world, budgets
    <3>2. CASE Tick
      BY <3>2 DEF InductiveInvariant, TypeOK, Tick, budgets
    <3>3. CASE ChangeContext
      <4>1. live \in BOOLEAN /\ live' \in {live, ~live}
        BY <3>3 DEF InductiveInvariant, TypeOK, ChangeContext
      <4>2. live' \in BOOLEAN
        BY <4>1
      <4>3. /\ horizon' \in Nat /\ assignment' \in Assignments \cup {Nowhere}
            /\ faults' \in Nat /\ changes' \in Nat
        BY <3>3 DEF InductiveInvariant, TypeOK, ChangeContext
      <4>4. QED
        BY <4>2, <4>3
    <3>4. QED
      BY <3>1, <3>2, <3>3
  <2>2. QED
    BY <1>1, <2>1 DEF InductiveInvariant, TypeOK, store
<1>4. QED
  BY <1>1, <1>2, <1>3, EnvironmentFrame

\* An answer nobody awaits is dropped.
LEMMA DropAnswerStep ==
  ASSUME InductiveInvariant, NEW m \in acks, DropAnswer(m)
  PROVE  InductiveInvariant'
<1>1. StoreInvariant'
  BY ReleaseKeepsStore DEF DropAnswer
<1>2. TypeOK'
  BY DEF DropAnswer, InductiveInvariant, TypeOK, world, budgets
<1>3. QED
  BY <1>1, <1>2, EnvironmentFrame DEF DropAnswer

\* An evicted key weakens nothing that is still said of the others.
LEMMA EvictStep ==
  ASSUME InductiveInvariant, Evict
  PROVE  InductiveInvariant'
<1>1. /\ UNCHANGED <<issued, leases, robot, world, changes, queue, task>>
      /\ faults' \in Nat /\ TypeOK
  BY DEF Evict, InductiveInvariant, TypeOK
<1>2. ASSUME NEW c \in Commands, records' = [records EXCEPT ![c] = Absent],
             UNCHANGED <<active, markers, position>>
      PROVE  TypeOK' /\ StoreInvariant'
  <2>1. /\ records'[c] = Absent
        /\ \A d \in Commands \ {c} : records'[d] = records[d]
        /\ records' \in [Commands -> Record]
    BY <1>1, <1>2, EmptyTypes DEF TypeOK
  <2>2. /\ Absent.status = "ABSENT"
        /\ \A b \in Attempts : ~(b < Absent.attempt)
    BY DEF Absent, Attempts
  <2>3. TypeOK'
    BY <1>1, <1>2, <2>1 DEF TypeOK, robot, world
  <2>4. OutcomeIsGenuine'
    BY <1>1, <2>1, <2>2 DEF InductiveInvariant, OutcomeIsGenuine, robot
  <2>5. OneOutstandingCommand'
    BY <1>2, <2>1, <2>2 DEF InductiveInvariant, TypeOK, OneOutstandingCommand, Pending
  <2>6. RecordShape' /\ OriginIsCurrent'
    BY <1>1, <1>2, <2>1 DEF InductiveInvariant, TypeOK, RecordShape, OriginIsCurrent
  <2>7. PositionIsEarned'
    BY <1>2, <2>1, <2>2 DEF InductiveInvariant, TypeOK, Position, PositionIsEarned
  <2>8. QED
    BY <1>1, <1>2, <2>3, <2>4, <2>5, <2>6, <2>7
       DEF InductiveInvariant, StoreInvariant, PositionShape, RetriesFollowFailures,
           MarkersAreTruthful, robot
<1>3. ASSUME "reservation" \in Evictable, active' = NoCommand,
             UNCHANGED <<records, markers, position>>
      PROVE  TypeOK' /\ StoreInvariant'
  BY <1>1, <1>3 DEF InductiveInvariant, StoreInvariant, TypeOK, RecordShape, PositionShape,
     OneOutstandingCommand, OutcomeIsGenuine, RetriesFollowFailures, MarkersAreTruthful,
     OriginIsCurrent, PositionIsEarned, robot, world
<1>4. ASSUME markers' \subseteq markers, UNCHANGED <<active, records, position>>
      PROVE  TypeOK' /\ StoreInvariant'
  BY <1>1, <1>4 DEF InductiveInvariant, StoreInvariant, TypeOK, RecordShape, PositionShape,
     OneOutstandingCommand, OutcomeIsGenuine, RetriesFollowFailures, MarkersAreTruthful,
     OriginIsCurrent, PositionIsEarned, robot, world
<1>5. ASSUME "position" \in Evictable, position' = NoPosition,
             UNCHANGED <<active, records, markers>>
      PROVE  TypeOK' /\ StoreInvariant'
  <2>1. NoPosition.by = NoCommand
    BY DEF NoPosition
  <2>2. QED
    BY <1>1, <1>5, <2>1, EmptyTypes DEF InductiveInvariant, StoreInvariant, TypeOK,
       RecordShape, PositionShape, OneOutstandingCommand, OutcomeIsGenuine,
       RetriesFollowFailures, MarkersAreTruthful, OriginIsCurrent, PositionIsEarned,
       robot, world
<1>6. TypeOK' /\ StoreInvariant'
  BY <1>2, <1>3, <1>4, <1>5 DEF Evict
<1>7. QED
  BY <1>1, <1>6, EnvironmentFrame DEF robot

-----------------------------------------------------------------------------
(* The invariant *)

\* The initial states satisfy the invariant.
LEMMA InitInvariant == Init => InductiveInvariant
<1> SUFFICES ASSUME Init PROVE InductiveInvariant
  OBVIOUS
<1>1. TypeOK
  BY EmptyTypes DEF Init, TypeOK
<1>2. \A p \in Tasks : HandlerShape(p)
  BY DEF Init, HandlerShape, IdleTask, Naming, Loaded, Sending
<1>3. /\ RecordShape /\ PositionShape /\ OneOutstandingCommand
      /\ RetriesFollowFailures /\ MarkersAreTruthful /\ OriginIsCurrent
  BY DEF Init, RecordShape, PositionShape, NoPosition, OneOutstandingCommand, Absent,
     Pending, RetriesFollowFailures, MarkersAreTruthful, OriginIsCurrent
<1>4. OutcomeIsGenuine
  <2>1. \A a \in Attempts : ~(a < Absent.attempt)
    BY DEF Absent, Attempts
  <2>2. Absent.status = "ABSENT"
    BY DEF Absent
  <2>3. \A c \in Commands : records[c] = Absent
    BY DEF Init
  <2>4. QED
    BY <2>1, <2>2, <2>3 DEF OutcomeIsGenuine
<1>5. PositionIsEarned
  BY DEF Init, PositionIsEarned, NoPosition
<1>6. QED
  BY <1>1, <1>2, <1>3, <1>4, <1>5 DEF Init, InductiveInvariant

\* Steps that change nothing keep the invariant.
LEMMA StutterStep ==
  ASSUME InductiveInvariant, UNCHANGED vars
  PROVE  InductiveInvariant'
<1>1. /\ UNCHANGED <<store, robot, world, budgets, queue, task>>
  BY DEF vars
<1>2. StoreInvariant'
  BY <1>1, StoreFrame DEF robot
<1>3. TypeOK'
  BY <1>1 DEF InductiveInvariant, TypeOK, store, robot, world, budgets
<1>4. QED
  BY <1>1, <1>2, <1>3, EnvironmentFrame DEF robot

\* Every step keeps the invariant.
LEMMA NextInvariant ==
  ASSUME InductiveInvariant, [Next]_vars
  PROVE  InductiveInvariant'
<1>1. ASSUME NEW p \in Tasks, Common(p) \/ Raise(p) PROVE InductiveInvariant'
  BY <1>1, ReadReservationStep, ReadRecordStep, ReleaseDanglingStep, TimeOutStep,
     EligibilitySteps, CancelStep, PublishCommandStep, RaiseStep DEF Common
<1>2. ASSUME NEW w \in Workers, Consume(w) PROVE InductiveInvariant'
  BY <1>2, SucceedStep, GiveUpStep, RetryStep, BeginDispatchStep, RecoverDispatchStep,
     IgnoreStep, MqttPublishStep, MqttFailStep, MarkDispatchedStep, RestoreStep
     DEF Consume
<1>3. ASSUME NEW w \in Workers, Crash(w) \/ \E m \in queue : Deliver(w, m)
      PROVE  InductiveInvariant'
  BY <1>3, CrashStep, DeliverStep
<1>4. ASSUME NEW s \in Submitters, StartSubmit(s) \/ Submit(s) PROVE InductiveInvariant'
  BY <1>4, StartSubmitStep, AdmitSubmitStep, ReadPositionStep, RefusalSteps, AnnounceStep, ReserveStep
     DEF Submit
<1>5. QED
  BY <1>1, <1>2, <1>3, <1>4, StartReconcileStep, ResumeStep, RobotAnswerStep,
     EnvironmentSteps, DropAnswerStep, EvictStep, StutterStep DEF Next

\* The inductive invariant holds in every reachable state, for every number of
\* commands, consumers, requests, attempts, deadlines and faults.
THEOREM InvariantHolds == Spec => []InductiveInvariant
<1>1. InductiveInvariant /\ [Next]_vars => InductiveInvariant'
  BY NextInvariant
<1>2. QED
  BY InitInvariant, <1>1, PTL DEF Spec

\* Every variable keeps its type; in particular an attempt never exceeds the
\* limit and every message names a real attempt.
THEOREM TypeCorrect == Spec => []TypeOK
<1>1. InductiveInvariant => TypeOK
  BY DEF InductiveInvariant
<1>2. QED
  BY InvariantHolds, <1>1, PTL

\* One movement at a time: what the Redis reservation is for.
THEOREM OneCommandAtATime == Spec => []OneOutstandingCommand
<1>1. InductiveInvariant => OneOutstandingCommand
  BY DEF InductiveInvariant
<1>2. QED
  BY InvariantHolds, <1>1, PTL

\* A saved outcome is what the robot did with the record's attempts.
THEOREM OutcomesAreGenuine == Spec => []OutcomeIsGenuine
<1>1. InductiveInvariant => OutcomeIsGenuine
  BY DEF InductiveInvariant
<1>2. QED
  BY InvariantHolds, <1>1, PTL

\* No attempt is published before all earlier ones failed.
THEOREM AttemptsInOrder == Spec => []RetriesFollowFailures
<1>1. InductiveInvariant => RetriesFollowFailures
  BY DEF InductiveInvariant
<1>2. QED
  BY InvariantHolds, <1>1, PTL

\* A movement always starts from the confirmed position, whatever the request
\* had read before it reserved the robot.
THEOREM OriginsAreCurrent == Spec => []OriginIsCurrent
<1>1. InductiveInvariant => OriginIsCurrent
  BY DEF InductiveInvariant
<1>2. QED
  BY InvariantHolds, <1>1, PTL

\* A confirmed position was earned by a command that succeeded there, and a
\* dispatch marker by an attempt that reached the robot's topic.
THEOREM PositionsAndMarkersAreEarned == Spec => [](PositionIsEarned /\ MarkersAreTruthful)
<1>1. InductiveInvariant => PositionIsEarned /\ MarkersAreTruthful
  BY DEF InductiveInvariant
<1>2. QED
  BY InvariantHolds, <1>1, PTL

-----------------------------------------------------------------------------
(* What a step may do to a record and to the position *)

\* A step leaves the records alone, forgets one, or rewrites one that is not
\* settled without going back in its attempts.
RecordMove ==
  \/ records' = records
  \/ \E c \in Commands, new \in Record :
       /\ records' = [records EXCEPT ![c] = new]
       /\ \/ new = Absent
          \/ records[c].status \notin Terminal /\ new.attempt >= records[c].attempt

\* A transition rewrites the reserved command's record, which is not settled.
LEMMA TransitionMoves ==
  ASSUME InductiveInvariant, NEW c \in Commands, NEW old \in Record, NEW new \in Record,
         Transition(c, old, new), new.attempt >= old.attempt
  PROVE  RecordMove
<1>1. CASE TransitionApplies(c, old, new)
  <2>1. active = c /\ records[c] = old /\ records' = [records EXCEPT ![c] = new]
    BY <1>1 DEF Transition, TransitionApplies, Write
  <2>2. records[c].status \notin Terminal
    BY <2>1, ConstantsAssumption
       DEF InductiveInvariant, OneOutstandingCommand, Pending, Terminal
  <2>3. QED
    BY <2>1, <2>2 DEF RecordMove
<1>2. CASE ~TransitionApplies(c, old, new)
  BY <1>2 DEF Transition, RecordMove
<1>3. QED
  BY <1>1, <1>2

\* A handler that has read a record holds it, and settling keeps its attempt.
LEMMA SettlingMoves ==
  ASSUME InductiveInvariant, NEW p \in Tasks, task[p].at \in Loaded,
         NEW status \in Terminal,
         Transition(task[p].cmd, task[p].snap, Settled(task[p].snap, status))
  PROVE  RecordMove
<1>1. /\ task[p].cmd \in Commands /\ task[p].snap \in Record
      /\ task[p].snap.attempt \in Attempts
  BY DEF InductiveInvariant, TypeOK, HandlerShape, Naming, Task
<1>2. /\ Settled(task[p].snap, status) \in Record
      /\ Settled(task[p].snap, status).attempt = task[p].snap.attempt
  BY <1>1 DEF Settled, Record
<1>3. task[p].snap.attempt \in Nat
  BY <1>1 DEF Attempts
<1>4. Settled(task[p].snap, status).attempt >= task[p].snap.attempt
  BY <1>2, <1>3
<1>5. QED
  BY <1>1, <1>2, <1>4, TransitionMoves

\* Queueing the next attempt moves forward.
LEMMA RetryMoves ==
  ASSUME InductiveInvariant, NEW w \in Workers, Retry(w)
  PROVE  RecordMove
<1> DEFINE next == QueuedAgain(task[w].snap, task[w].msg.attempt + 1, leases + 1)
<1>1. /\ task[w].cmd \in Commands /\ task[w].snap \in Record
      /\ task[w].snap.attempt \in Attempts
      /\ task[w].msg.attempt = task[w].snap.attempt
  BY AnswerFacts DEF Retry
<1>2. CASE TransitionApplies(task[w].cmd, task[w].snap, next)
  <2>1. PICK a \in Attempts : a = task[w].msg.attempt + 1
    BY <1>1, ConstantsAssumption DEF Retry, Attempts
  <2>2. PICK lease \in Nat : lease = leases + 1
    BY DEF InductiveInvariant, TypeOK
  <2>3. next = QueuedAgain(task[w].snap, a, lease)
    BY <2>1, <2>2
  <2>4. Transition(task[w].cmd, task[w].snap, next)
    BY <1>2 DEF Retry, Transition
  <2> HIDE DEF next
  <2>5. next \in Record /\ next.attempt = a
    <3>1. task[w].snap \in Record
      BY <1>1
    <3>2. QED
      BY <2>3, <3>1, UpdateTypes
  <2>6. next.attempt >= task[w].snap.attempt
    BY <1>1, <2>1, <2>5 DEF Attempts
  <2>7. QED
    BY <1>1, <2>4, <2>5, <2>6, TransitionMoves
<1>3. CASE ~TransitionApplies(task[w].cmd, task[w].snap, next)
  BY <1>3 DEF Retry, RecordMove
<1>4. QED
  BY <1>2, <1>3

\* Saving a dispatch keeps the attempt.
LEMMA BeginDispatchMoves ==
  ASSUME InductiveInvariant, NEW w \in Workers, BeginDispatch(w)
  PROVE  RecordMove
<1> DEFINE sent == Awaiting(task[w].snap, leases + 1)
<1>1. /\ task[w].cmd \in Commands /\ task[w].snap \in Record
      /\ task[w].snap.attempt \in Attempts /\ leases + 1 \in Nat
  BY CommandFacts DEF BeginDispatch, Loaded, InductiveInvariant, TypeOK
<1>2. sent \in Record /\ sent.attempt = task[w].snap.attempt
  BY <1>1, UpdateTypes
<1>3. CASE TransitionApplies(task[w].cmd, task[w].snap, sent)
  <2>1. Transition(task[w].cmd, task[w].snap, sent)
    BY <1>3 DEF BeginDispatch, Transition
  <2> HIDE DEF sent
  <2>2. sent.attempt >= task[w].snap.attempt
    BY <1>1, <1>2 DEF Attempts
  <2>3. QED
    BY <1>1, <1>2, <2>1, <2>2, TransitionMoves
<1>4. CASE ~TransitionApplies(task[w].cmd, task[w].snap, sent)
  BY <1>4 DEF BeginDispatch, RecordMove
<1>5. QED
  BY <1>3, <1>4

\* A restored snapshot has the attempt of the record it replaces.
LEMMA RestoreMoves ==
  ASSUME InductiveInvariant, NEW w \in Workers, Restore(w)
  PROVE  RecordMove
<1>1. /\ task[w].at \in Sending
      /\ Transition(task[w].cmd, task[w].held, task[w].snap)
  BY DEF Restore, Sending
<1>2. /\ task[w].cmd \in Commands /\ task[w].snap \in Record
      /\ task[w].held \in Record /\ task[w].held.attempt = task[w].snap.attempt
      /\ task[w].snap.attempt \in Attempts
  BY <1>1, CommandFacts, SendingFacts DEF Loaded
<1>3. task[w].snap.attempt >= task[w].held.attempt
  BY <1>2 DEF Attempts
<1>4. QED
  BY <1>1, <1>2, <1>3, TransitionMoves

\* A reservation writes a record that was never saved.
LEMMA ReserveMoves ==
  ASSUME InductiveInvariant, NEW s \in Submitters, NEW c \in Commands, Reserve(s, c)
  PROVE  RecordMove
<1>1. /\ InductiveInvariant' /\ records' = [records EXCEPT ![c] = NewRecord(s)]
      /\ records[c] = Absent
  BY ReserveStep DEF Reserve, InductiveInvariant, RecordShape
<1>2. NewRecord(s) \in Record
  BY <1>1 DEF InductiveInvariant, TypeOK
<1>3. /\ records[c].status \notin Terminal
      /\ NewRecord(s).attempt >= records[c].attempt
  BY <1>1 DEF Absent, Terminal, NewRecord
<1>4. QED
  BY <1>1, <1>2, <1>3 DEF RecordMove

\* Every step is a record move.
LEMMA NextMoves ==
  ASSUME InductiveInvariant, [Next]_vars
  PROVE  RecordMove
<1>1. ASSUME NEW p \in Tasks, TimeOut(p) \/ Cancel(p) PROVE RecordMove
  BY <1>1, SettlingMoves DEF TimeOut, Cancel, Loaded, Terminal
<1>2. ASSUME NEW w \in Workers, GiveUp(w) \/ Succeed(w) PROVE RecordMove
  BY <1>2, SettlingMoves DEF GiveUp, Succeed, AtAnswer, Loaded, Terminal, Tasks
<1>3. ASSUME NEW p \in Tasks, Common(p) \/ Raise(p) PROVE RecordMove
  BY <1>1, <1>3 DEF Common, ReadReservation, ReadRecord, ReleaseDangling, CheckOwnership,
     CheckLiveness, PublishCommand, Raise, store, RecordMove
<1>4. ASSUME NEW w \in Workers, Consume(w) PROVE RecordMove
  BY <1>2, <1>4, RetryMoves, BeginDispatchMoves, RestoreMoves
     DEF Consume, RecoverDispatch, Ignore, MqttPublish, MqttFail, MarkDispatched, store,
         RecordMove
<1>5. ASSUME NEW w \in Workers, Crash(w) \/ \E m \in queue : Deliver(w, m)
      PROVE  RecordMove
  BY <1>5 DEF Crash, Deliver, store, RecordMove
<1>6. ASSUME NEW s \in Submitters, StartSubmit(s) \/ Submit(s) PROVE RecordMove
  BY <1>6, ReserveMoves DEF StartSubmit, Submit, AdmitSubmit, ReadPosition, RefuseMovement,
     Announce, store, RecordMove
<1>7. CASE Evict
  BY <1>7, EmptyTypes DEF Evict, RecordMove
<1>8. ASSUME NEW c \in Commands, NEW a \in Attempts, NEW v \in {"ok", "fail"},
             RobotAnswer(c, a, v)
      PROVE  RecordMove
  BY <1>8 DEF RobotAnswer, store, RecordMove
<1>9. ASSUME NEW p \in Reconcilers \cup Submitters,
             Resume(p) \/ (p \in Reconcilers /\ StartReconcile(p))
      PROVE  RecordMove
  BY <1>9 DEF Resume, StartReconcile, store, RecordMove
<1>10. ASSUME \/ \E m \in acks : ForwardAnswer(m) \/ DropAnswer(m)
              \/ Tick \/ ChangeContext
       PROVE  RecordMove
  BY <1>10 DEF ForwardAnswer, DropAnswer, Tick, ChangeContext, store, RecordMove
<1>11. CASE UNCHANGED vars
  BY <1>11 DEF vars, store, RecordMove
<1>12. QED
  BY <1>3, <1>4, <1>5, <1>6, <1>7, <1>8, <1>9, <1>10, <1>11 DEF Next

\* A settled command stays settled, whatever snapshots other handlers hold.
THEOREM SettledIsFinal == Spec => TerminalIsFinal
<1>1. ASSUME InductiveInvariant, [Next]_vars
      PROVE  [\A c \in Commands : records[c].status \in Terminal =>
                records'[c] = records[c] \/ records'[c] = Absent]_vars
  <2>1. RecordMove
    BY <1>1, NextMoves
  <2>2. records \in [Commands -> Record]
    BY <1>1 DEF InductiveInvariant, TypeOK
  <2>3. QED
    BY <2>1, <2>2 DEF RecordMove
<1>2. QED
  BY InvariantHolds, <1>1, PTL DEF Spec, TerminalIsFinal

\* Attempts are numbered upwards, whatever snapshots other handlers hold.
THEOREM AttemptsNeverGoBack == Spec => AttemptsAdvance
<1>1. ASSUME InductiveInvariant, [Next]_vars
      PROVE  [\A c \in Commands : records'[c] = Absent \/ records'[c].attempt >= records[c].attempt]_vars
  <2>1. RecordMove
    BY <1>1, NextMoves
  <2>2. records \in [Commands -> Record]
    BY <1>1 DEF InductiveInvariant, TypeOK
  <2>3. \A c \in Commands : records[c].attempt >= records[c].attempt
    BY <2>2 DEF Record
  <2>4. QED
    BY <2>1, <2>2, <2>3 DEF RecordMove
<1>2. QED
  BY InvariantHolds, <1>1, PTL DEF Spec, AttemptsAdvance

\* Only a success that passes the script's checks, or an eviction, moves the
\* confirmed position.
LEMMA PositionMoves ==
  ASSUME [Next]_vars
  PROVE  \/ position' = position
         \/ position' = NoPosition
         \/ \E w \in Workers : Succeed(w)
<1>1. ASSUME NEW p \in Tasks, Common(p) \/ Raise(p) PROVE position' = position
  BY <1>1 DEF Common, ReadReservation, ReadRecord, ReleaseDangling, TimeOut,
     CheckOwnership, CheckLiveness, Cancel, PublishCommand, Raise, store
<1>2. ASSUME NEW w \in Workers, Consume(w), ~Succeed(w) PROVE position' = position
  BY <1>2 DEF Consume, GiveUp, Retry, BeginDispatch, RecoverDispatch, Ignore, MqttPublish,
     MqttFail, MarkDispatched, Restore, store
<1>3. ASSUME NEW w \in Workers, Crash(w) \/ \E m \in queue : Deliver(w, m)
      PROVE  position' = position
  BY <1>3 DEF Crash, Deliver, store
<1>4. ASSUME NEW s \in Submitters, StartSubmit(s) \/ Submit(s) PROVE position' = position
  BY <1>4 DEF StartSubmit, Submit, AdmitSubmit, ReadPosition, RefuseMovement, Announce,
     Reserve, store
<1>5. ASSUME NEW p \in Reconcilers \cup Submitters,
             Resume(p) \/ (p \in Reconcilers /\ StartReconcile(p))
      PROVE  position' = position
  BY <1>5 DEF Resume, StartReconcile, store
<1>6. ASSUME NEW c \in Commands, NEW a \in Attempts, NEW v \in {"ok", "fail"},
             RobotAnswer(c, a, v)
      PROVE  position' = position
  BY <1>6 DEF RobotAnswer, store
<1>7. ASSUME \/ \E m \in acks : ForwardAnswer(m) \/ DropAnswer(m)
             \/ Tick \/ ChangeContext
      PROVE  position' = position
  BY <1>7 DEF ForwardAnswer, DropAnswer, Tick, ChangeContext, store
<1>8. CASE Evict
  BY <1>8 DEF Evict
<1>9. CASE UNCHANGED vars
  BY <1>9 DEF vars, store
<1>10. QED
  BY <1>1, <1>2, <1>3, <1>4, <1>5, <1>6, <1>7, <1>8, <1>9 DEF Next

\* The position moves exactly with the success of the reserved command, before
\* its deadline, and to the map of that command.
THEOREM PositionFollowsSuccess == Spec => PositionMovesOnSuccess
<1>1. ASSUME InductiveInvariant, [Next]_vars
      PROVE  [position' # position /\ position' # NoPosition =>
                /\ position' = [by |-> active, assignment |-> records[active].assignment]
                /\ records[active].status = "AWAITING_ACK"
                /\ records'[active].status = "SUCCEEDED"
                /\ ~Expired(records[active].lease)]_vars
  <2>1. SUFFICES ASSUME NEW w \in Workers, Succeed(w), position' # position
                 PROVE  /\ position' = [by |-> active, assignment |-> records[active].assignment]
                        /\ records[active].status = "AWAITING_ACK"
                        /\ records'[active].status = "SUCCEEDED"
                        /\ ~Expired(records[active].lease)
    BY <1>1, PositionMoves
  <2> DEFINE done == Settled(task[w].snap, "SUCCEEDED")
  <2>2. /\ task[w].cmd \in Commands /\ task[w].snap \in Record
        /\ records \in [Commands -> Record]
    BY <1>1, <2>1, AnswerFacts DEF Succeed, InductiveInvariant, TypeOK
  <2>3. done.status = "SUCCEEDED"
    BY <2>2 DEF Settled, Record
  <2>4. /\ TransitionApplies(task[w].cmd, task[w].snap, done)
        /\ Transition(task[w].cmd, task[w].snap, done)
        /\ position' = [by |-> task[w].cmd, assignment |-> task[w].snap.assignment]
        /\ task[w].snap.status = "AWAITING_ACK"
    BY <2>1 DEF Succeed, AtAnswer
  <2> HIDE DEF done
  <2>5. /\ active = task[w].cmd /\ records[active] = task[w].snap
        /\ records' = [records EXCEPT ![task[w].cmd] = done]
        /\ ~Expired(task[w].snap.lease)
    BY <2>3, <2>4 DEF TransitionApplies, Transition, Write
  <2>6. QED
    BY <2>2, <2>3, <2>4, <2>5
<1>2. QED
  BY InvariantHolds, <1>1, PTL DEF Spec, PositionMovesOnSuccess
=============================================================================
