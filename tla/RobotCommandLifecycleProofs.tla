---------------------- MODULE RobotCommandLifecycleProofs ----------------------
(* RobotCommand implements CommandLifecycle, for every number of commands,     *)
(* handlers, attempts, deadlines and faults, as long as Redis keeps its keys.  *)
EXTENDS RobotCommandProofs, RobotCommandRefinement

-----------------------------------------------------------------------------
(* Every step is a step or a stutter of the abstract specification *)

\* Redis keeps the record of every command that was accepted.
Kept == \A c \in issued : records[c] # Absent

Sound == InductiveInvariant /\ Kept

\* What a step of RobotCommand has to do.
Promised == Kept' /\ [Lifecycle!Next]_(Lifecycle!lifecycle)

\* The phases and attempts that a caller sees.
Phases == [c \in Commands |-> Phase(records[c])]
Tries  == [c \in Commands |-> records[c].attempt]

\* The phase of each status.
LEMMA PhaseOf ==
  ASSUME NEW rec
  PROVE  /\ rec.status = "ABSENT" => Phase(rec) = "new"
         /\ rec.status = "QUEUED" => Phase(rec) = "queued"
         /\ rec.status = "AWAITING_ACK" => Phase(rec) = "dispatched"
         /\ rec.status = "SUCCEEDED" => Phase(rec) = "succeeded"
         /\ rec.status = "FAILED" => Phase(rec) = "failed"
         /\ rec.status \in {"TIMED_OUT", "CANCELLED"} => Phase(rec) = "abandoned"
BY DEF Phase

\* A step that leaves the reservation, the records and the position alone.
LEMMA QuietPromised ==
  ASSUME Kept, UNCHANGED <<active, records, position, issued>>
  PROVE  Promised
BY DEF Kept, Promised, Lifecycle!lifecycle

\* Rewriting one record changes one phase and one number of attempts.
LEMMA Rewritten ==
  ASSUME Sound, NEW c \in Commands, NEW new \in Record, new.status # "ABSENT",
         records' = [records EXCEPT ![c] = new], issued' \subseteq issued \cup {c}
  PROVE  /\ Kept'
         /\ Phases' = [Phases EXCEPT ![c] = Phase(new)] /\ Phases[c] = Phase(records[c])
         /\ Tries' = [Tries EXCEPT ![c] = new.attempt] /\ Tries[c] = records[c].attempt
<1>1. records \in [Commands -> Record] /\ issued \subseteq Commands
  BY DEF Sound, InductiveInvariant, TypeOK
<1>2. /\ records'[c] = new /\ new # Absent
      /\ \A d \in Commands \ {c} : records'[d] = records[d]
  BY <1>1 DEF Absent
<1>3. Kept'
  BY <1>1, <1>2 DEF Sound, Kept
<1>4. Phases' = [d \in Commands |-> Phase(records'[d])]
  BY DEF Phases, Phase
<1>5. Phases' = [Phases EXCEPT ![c] = Phase(new)]
  <2>1. \A d \in Commands : Phase(records'[d]) = IF d = c THEN Phase(new) ELSE Phase(records[d])
    BY <1>2
  <2>2. Phases' = [d \in Commands |-> IF d = c THEN Phase(new) ELSE Phase(records[d])]
    BY <1>4, <2>1
  <2> QED
    BY <2>2 DEF Phases
<1>6. Tries' = [Tries EXCEPT ![c] = new.attempt]
  <2>1. Tries' = [d \in Commands |-> IF d = c THEN new.attempt ELSE records[d].attempt]
    BY <1>2 DEF Tries
  <2> QED
    BY <2>1 DEF Tries
<1> QED
  BY <1>3, <1>5, <1>6 DEF Phases, Tries

\* The records that may follow each other, and the position that goes with them.
Follows(c, old, new) ==
  \/ /\ new.attempt = old.attempt /\ position' = position
     /\ \/ new.status = old.status
        \/ old.status = "QUEUED" /\ new.status = "AWAITING_ACK"
        \/ old.status = "AWAITING_ACK" /\ new.status = "QUEUED"
        \/ new.status \in {"TIMED_OUT", "CANCELLED"}
        \/ old.status = "AWAITING_ACK" /\ new.status = "FAILED" /\ old.attempt = MaxAttempts
  \/ /\ old.status = "AWAITING_ACK" /\ new.status = "QUEUED"
     /\ old.attempt < MaxAttempts /\ new.attempt = old.attempt + 1 /\ position' = position
  \/ /\ old.status = "AWAITING_ACK" /\ new.status = "SUCCEEDED"
     /\ new.attempt = old.attempt /\ position'.by = c

\* A transition from a record to one that may follow it is an abstract step, and
\* one that does not apply is a stutter.
LEMMA TransitionPromised ==
  ASSUME Sound, NEW c \in Commands, NEW old \in Record, NEW new \in Record,
         Transition(c, old, new), issued' = issued,
         IF TransitionApplies(c, old, new) THEN Follows(c, old, new) ELSE position' = position
  PROVE  Promised
<1>1. CASE ~TransitionApplies(c, old, new)
  BY <1>1, QuietPromised DEF Sound, Transition
<1>2. CASE TransitionApplies(c, old, new)
  <2>1. /\ active = c /\ records[c] = old /\ records' = [records EXCEPT ![c] = new]
        /\ active' = IF new.status \in Terminal THEN NoCommand ELSE c
    BY <1>2 DEF Transition, TransitionApplies, Write
  <2>2. old.status \in Pending
    <3>1. c \in issued /\ old # Absent
      BY <2>1, ConstantsAssumption DEF Sound, Kept, InductiveInvariant
    <3> QED
      BY <2>1, <3>1, ConstantsAssumption
         DEF Sound, InductiveInvariant, OneOutstandingCommand, RecordShape
  <2>3. Follows(c, old, new)
    BY <1>2
  <2>4. new.status # "ABSENT"
    BY <2>2, <2>3 DEF Follows, Pending
  <2>5. /\ Kept'
        /\ Phases' = [Phases EXCEPT ![c] = Phase(new)] /\ Phases[c] = Phase(old)
        /\ Tries' = [Tries EXCEPT ![c] = new.attempt] /\ Tries[c] = old.attempt
    BY <2>1, <2>4, Rewritten
  <2>6. CASE new.status = old.status /\ new.attempt = old.attempt /\ position' = position
    <3>1. Phase(new) = Phase(old) /\ active' = active
      BY <2>1, <2>2, <2>6 DEF Phase, Pending, Terminal
    <3>2. Phases' = Phases /\ Tries' = Tries
      BY <2>5, <2>6, <3>1 DEF Phases, Tries
    <3> QED
      BY <2>5, <2>6, <3>1, <3>2 DEF Promised, Lifecycle!lifecycle, Phases, Tries
  <2>7. Tries' = Tries \/ new.attempt # old.attempt
    BY <2>5 DEF Tries
  <2>8. CASE ~(new.status = old.status /\ new.attempt = old.attempt /\ position' = position)
    <3>1. Lifecycle!Next
      <4>1. CASE /\ old.status = "QUEUED" /\ new.status = "AWAITING_ACK"
                 /\ new.attempt = old.attempt /\ position' = position
        <5>1. Lifecycle!Dispatch(c)
          BY <2>1, <2>5, <2>7, <4>1, PhaseOf
             DEF Lifecycle!Dispatch, Lifecycle!Step, Phases, Tries, Terminal
        <5> QED
          BY <5>1 DEF Lifecycle!Next
      <4>2. CASE /\ old.status = "AWAITING_ACK" /\ new.status = "QUEUED"
                 /\ new.attempt = old.attempt /\ position' = position
        <5>1. Lifecycle!Withdraw(c)
          BY <2>1, <2>5, <2>7, <4>2, PhaseOf
             DEF Lifecycle!Withdraw, Lifecycle!Step, Phases, Tries, Terminal
        <5> QED
          BY <5>1 DEF Lifecycle!Next
      <4>3. CASE /\ new.status \in {"TIMED_OUT", "CANCELLED"}
                 /\ new.attempt = old.attempt /\ position' = position
        <5>1. Lifecycle!Abandon(c)
          BY <2>1, <2>2, <2>5, <2>7, <4>3, PhaseOf
             DEF Lifecycle!Abandon, Lifecycle!Step, Lifecycle!Open, Phases, Tries, Terminal,
                 Pending
        <5> QED
          BY <5>1 DEF Lifecycle!Next
      <4>4. CASE /\ old.status = "AWAITING_ACK" /\ new.status = "FAILED"
                 /\ old.attempt = MaxAttempts
                 /\ new.attempt = old.attempt /\ position' = position
        <5>1. Lifecycle!Fail(c)
          BY <2>1, <2>5, <2>7, <4>4, PhaseOf
             DEF Lifecycle!Fail, Lifecycle!Step, Phases, Tries, Terminal
        <5> QED
          BY <5>1 DEF Lifecycle!Next
      <4>5. CASE /\ old.status = "AWAITING_ACK" /\ new.status = "QUEUED"
                 /\ old.attempt < MaxAttempts /\ new.attempt = old.attempt + 1
                 /\ position' = position
        <5>1. Tries' = [Tries EXCEPT ![c] = @ + 1]
          BY <2>5, <4>5
        <5>2. Lifecycle!TryAgain(c)
          BY <2>1, <2>5, <4>5, <5>1, PhaseOf
             DEF Lifecycle!TryAgain, Lifecycle!Step, Phases, Tries, Terminal
        <5> QED
          BY <5>2 DEF Lifecycle!Next
      <4>6. CASE /\ old.status = "AWAITING_ACK" /\ new.status = "SUCCEEDED"
                 /\ new.attempt = old.attempt /\ position'.by = c
        <5>1. Lifecycle!Complete(c)
          BY <2>1, <2>5, <2>7, <4>6, PhaseOf
             DEF Lifecycle!Complete, Lifecycle!Step, Phases, Tries, Terminal
        <5> QED
          BY <5>1 DEF Lifecycle!Next
      <4> QED
        BY <2>3, <2>8, <4>1, <4>2, <4>3, <4>4, <4>5, <4>6 DEF Follows
    <3> QED
      BY <2>5, <3>1 DEF Promised
  <2> QED
    BY <2>6, <2>8
<1> QED
  BY <1>1, <1>2

-----------------------------------------------------------------------------
(* The actions that write the store *)

\* Settling the record a handler read as timed out, cancelled or failed.
LEMMA SettlingPromised ==
  ASSUME Sound, NEW p \in Tasks, task[p].at \in Loaded,
         NEW status \in {"TIMED_OUT", "CANCELLED", "FAILED"},
         status = "FAILED" => /\ task[p].snap.status = "AWAITING_ACK"
                              /\ task[p].snap.attempt = MaxAttempts,
         Transition(task[p].cmd, task[p].snap, Settled(task[p].snap, status)),
         UNCHANGED <<issued, position>>
  PROVE  Promised
<1>1. task[p].cmd \in Commands /\ task[p].snap \in Record
  BY DEF Sound, InductiveInvariant, TypeOK, HandlerShape, Naming, Task
<1>2. PICK new \in Record : new = Settled(task[p].snap, status)
  BY <1>1 DEF Settled, Record, Terminal
<1>3. new.status = status /\ new.attempt = task[p].snap.attempt
  BY <1>1, <1>2 DEF Settled, Record
<1>4. Follows(task[p].cmd, task[p].snap, new)
  BY <1>3 DEF Follows
<1> QED
  BY <1>1, <1>2, <1>4, TransitionPromised

\* The last attempt failed.
LEMMA GiveUpPromised ==
  ASSUME Sound, NEW w \in Workers, GiveUp(w)
  PROVE  Promised
<1>1. /\ task[w].snap.attempt \in Attempts /\ task[w].msg.attempt = task[w].snap.attempt
      /\ w \in Tasks
  BY AnswerFacts DEF GiveUp, Sound
<1>2. task[w].snap.attempt = MaxAttempts
  BY <1>1, ConstantsAssumption DEF GiveUp, Attempts
<1> QED
  BY <1>1, <1>2, SettlingPromised DEF GiveUp, AtAnswer, Loaded

\* The robot did the attempt.
LEMMA SucceedPromised ==
  ASSUME Sound, NEW w \in Workers, Succeed(w)
  PROVE  Promised
<1> DEFINE done == Settled(task[w].snap, "SUCCEEDED")
<1>1. task[w].cmd \in Commands /\ task[w].snap \in Record
  BY AnswerFacts DEF Succeed, Sound
<1>2. /\ done \in Record /\ done.status = "SUCCEEDED"
      /\ done.attempt = task[w].snap.attempt
  BY <1>1 DEF Settled, Record, Terminal
<1>3. /\ Transition(task[w].cmd, task[w].snap, done) /\ issued' = issued
      /\ position' = IF TransitionApplies(task[w].cmd, task[w].snap, done)
                       THEN [by |-> task[w].cmd, assignment |-> task[w].snap.assignment]
                       ELSE position
      /\ task[w].snap.status = "AWAITING_ACK"
  BY DEF Succeed, AtAnswer
<1> HIDE DEF done
<1>4. TransitionApplies(task[w].cmd, task[w].snap, done) => Follows(task[w].cmd, task[w].snap, done)
  BY <1>2, <1>3 DEF Follows
<1> QED
  BY <1>1, <1>2, <1>3, <1>4, TransitionPromised

\* The next attempt is queued.
LEMMA RetryPromised ==
  ASSUME Sound, NEW w \in Workers, Retry(w)
  PROVE  Promised
<1> DEFINE next == QueuedAgain(task[w].snap, task[w].msg.attempt + 1, leases + 1)
<1>1. /\ task[w].cmd \in Commands /\ task[w].snap \in Record
      /\ task[w].snap.attempt \in Attempts
      /\ task[w].msg.attempt = task[w].snap.attempt
      /\ task[w].msg.attempt < MaxAttempts /\ task[w].snap.status = "AWAITING_ACK"
  BY AnswerFacts DEF Retry, Sound, AtAnswer
<1>2. PICK a \in Attempts : a = task[w].msg.attempt + 1
  BY <1>1, ConstantsAssumption DEF Attempts
<1>3. PICK lease \in Nat : lease = leases + 1
  BY DEF Sound, InductiveInvariant, TypeOK
<1>4. next \in Record /\ next.attempt = a /\ next.status = "QUEUED"
  <2>1. next = QueuedAgain(task[w].snap, a, lease)
    BY <1>2, <1>3
  <2> HIDE DEF next
  <2> QED
    BY <1>1, <2>1, UpdateTypes
<1>5. Transition(task[w].cmd, task[w].snap, next) /\ UNCHANGED <<position, issued>>
  BY DEF Retry, Transition
<1> HIDE DEF next
<1>6. Follows(task[w].cmd, task[w].snap, next)
  BY <1>1, <1>2, <1>4, <1>5 DEF Follows
<1> QED
  BY <1>1, <1>4, <1>5, <1>6, TransitionPromised

\* The dispatch of a queued command is saved.
LEMMA BeginDispatchPromised ==
  ASSUME Sound, NEW w \in Workers, BeginDispatch(w)
  PROVE  Promised
<1> DEFINE sent == Awaiting(task[w].snap, leases + 1)
<1>1. /\ task[w].cmd \in Commands /\ task[w].snap \in Record
      /\ task[w].snap.attempt \in Attempts /\ leases + 1 \in Nat
  BY CommandFacts DEF BeginDispatch, Loaded, Sound, InductiveInvariant, TypeOK
<1>2. sent \in Record /\ sent.attempt = task[w].snap.attempt /\ sent.status = "AWAITING_ACK"
  BY <1>1, UpdateTypes
<1>3. /\ Transition(task[w].cmd, task[w].snap, sent) /\ UNCHANGED <<position, issued>>
      /\ task[w].snap.status = "QUEUED"
  BY DEF BeginDispatch, Transition
<1> HIDE DEF sent
<1>4. Follows(task[w].cmd, task[w].snap, sent)
  BY <1>2, <1>3 DEF Follows
<1> QED
  BY <1>1, <1>2, <1>3, <1>4, TransitionPromised

\* The snapshot of a dispatch that could not be confirmed is restored.
LEMMA RestorePromised ==
  ASSUME Sound, NEW w \in Workers, Restore(w)
  PROVE  Promised
<1>1. /\ task[w].at \in Sending /\ UNCHANGED <<position, issued>>
      /\ Transition(task[w].cmd, task[w].held, task[w].snap)
  BY DEF Restore, Sending
<1>2. /\ task[w].cmd \in Commands /\ task[w].snap \in Record
      /\ task[w].held \in Record /\ task[w].held.attempt = task[w].snap.attempt
      /\ task[w].held.status = "AWAITING_ACK" /\ task[w].snap.status \in Pending
  BY <1>1, CommandFacts, SendingFacts DEF Loaded, Sound
<1>3. Follows(task[w].cmd, task[w].held, task[w].snap)
  BY <1>1, <1>2 DEF Follows, Pending
<1> QED
  BY <1>1, <1>2, <1>3, TransitionPromised

\* A movement is accepted.
LEMMA ReservePromised ==
  ASSUME Sound, NEW s \in Submitters, NEW c \in Commands, Reserve(s, c)
  PROVE  Promised
<1>1. /\ InductiveInvariant' /\ records' = [records EXCEPT ![c] = NewRecord(s)]
      /\ records[c] = Absent /\ records \in [Commands -> Record]
      /\ active = NoCommand /\ active' = c /\ issued' = issued \cup {c}
      /\ position' = position
  BY ReserveStep DEF Reserve, ReserveApplies, Sound, InductiveInvariant, RecordShape, TypeOK
<1>2. PICK new \in Record : new = NewRecord(s)
  <2>1. records'[c] \in Record
    BY <1>1 DEF InductiveInvariant, TypeOK
  <2> QED
    BY <1>1, <2>1
<1>3. new.status = "QUEUED" /\ new.attempt = 1
  BY <1>2 DEF NewRecord
<1>4. /\ Kept'
      /\ Phases' = [Phases EXCEPT ![c] = Phase(new)] /\ Phases[c] = Phase(Absent)
      /\ Tries' = [Tries EXCEPT ![c] = 1]
  <2>1. /\ records' = [records EXCEPT ![c] = new] /\ new.status # "ABSENT"
        /\ issued' \subseteq issued \cup {c}
    BY <1>1, <1>2, <1>3
  <2>2. /\ Kept'
        /\ Phases' = [Phases EXCEPT ![c] = Phase(new)] /\ Phases[c] = Phase(records[c])
        /\ Tries' = [Tries EXCEPT ![c] = new.attempt]
    BY <2>1, Rewritten
  <2> QED
    BY <1>1, <1>3, <2>2
<1>5. Lifecycle!Accept(c)
  BY <1>1, <1>3, <1>4, PhaseOf DEF Lifecycle!Accept, Phases, Tries, Absent
<1> QED
  BY <1>4, <1>5 DEF Promised, Lifecycle!Next

\* A reserved command has a record, so no reservation is released for want of one.
LEMMA ReleasePromised ==
  ASSUME Sound, active' = active \/ (active # NoCommand /\ records[active] = Absent),
         UNCHANGED <<records, position, issued>>
  PROVE  Promised
<1>1. active # NoCommand => active \in issued
  BY DEF Sound, InductiveInvariant
<1> QED
  BY <1>1, QuietPromised DEF Sound, Kept

-----------------------------------------------------------------------------
(* Next *)

\* Every step, as long as nothing is evicted, keeps the promise.
LEMMA NextPromised ==
  ASSUME Evictable = {}, Sound, [Next]_vars
  PROVE  Promised
<1> DEFINE Quiet == UNCHANGED <<active, records, position, issued>>
<1>1. ASSUME NEW p \in Tasks, TimeOut(p) \/ Cancel(p) PROVE Promised
  BY <1>1, SettlingPromised DEF TimeOut, Cancel, Loaded
<1>2. ASSUME NEW p \in Tasks, ReleaseDangling(p) PROVE Promised
  <2>1. task[p].cmd \in Commands
    BY <1>2 DEF ReleaseDangling, Sound, InductiveInvariant, HandlerShape, Naming
  <2> QED
    BY <1>2, <2>1, ReleasePromised, ConstantsAssumption DEF ReleaseDangling
<1>3. ASSUME NEW p \in Tasks, Common(p) \/ Raise(p) PROVE Promised
  <2>1. CASE TimeOut(p) \/ Cancel(p) \/ ReleaseDangling(p)
    BY <1>1, <1>2, <2>1
  <2>2. CASE ~(TimeOut(p) \/ Cancel(p) \/ ReleaseDangling(p))
    <3>1. Quiet
      BY <1>3, <2>2 DEF Common, ReadReservation, ReadRecord, CheckOwnership, CheckLiveness,
         PublishCommand, Raise, store
    <3> QED
      BY <3>1, QuietPromised DEF Sound
  <2> QED
    BY <2>1, <2>2
<1>4. ASSUME NEW w \in Workers, Consume(w) PROVE Promised
  <2>1. ASSUME \/ RecoverDispatch(w) \/ Ignore(w) \/ MqttPublish(w) \/ MqttFail(w)
               \/ MarkDispatched(w)
        PROVE  Quiet
    BY <2>1 DEF RecoverDispatch, Ignore, MqttPublish, MqttFail, MarkDispatched, store
  <2> QED
    BY <1>4, <2>1, QuietPromised, SucceedPromised, GiveUpPromised, RetryPromised,
       BeginDispatchPromised, RestorePromised DEF Consume, Sound
<1>5. ASSUME NEW w \in Workers, Crash(w) \/ \E m \in queue : Deliver(w, m) PROVE Quiet
  BY <1>5 DEF Crash, Deliver, store
<1>6. ASSUME NEW s \in Submitters, StartSubmit(s) \/ Submit(s) PROVE Promised
  <2>1. ASSUME \/ StartSubmit(s) \/ AdmitSubmit(s) \/ ReadPosition(s) \/ RefuseMovement(s)
               \/ Announce(s)
        PROVE  Quiet
    BY <2>1 DEF StartSubmit, AdmitSubmit, ReadPosition, RefuseMovement, Announce, store
  <2> QED
    BY <1>6, <2>1, QuietPromised, ReservePromised DEF Submit, Sound
<1>7. ASSUME NEW p \in Reconcilers \cup Submitters,
             Resume(p) \/ (p \in Reconcilers /\ StartReconcile(p))
      PROVE  Quiet
  BY <1>7 DEF Resume, StartReconcile, store
<1>8. ASSUME NEW c \in Commands, NEW a \in Attempts, NEW v \in {"ok", "fail"},
             RobotAnswer(c, a, v)
      PROVE  Quiet
  BY <1>8 DEF RobotAnswer, store
<1>9. ASSUME NEW m \in acks, DropAnswer(m) PROVE Promised
  BY <1>9, ReleasePromised DEF DropAnswer
<1>10. ASSUME (\E m \in acks : ForwardAnswer(m)) \/ Tick \/ ChangeContext PROVE Quiet
  BY <1>10 DEF ForwardAnswer, Tick, ChangeContext, store
<1>11. ~Evict
  BY DEF Evict
<1>12. CASE UNCHANGED vars
  <2>1. Quiet
    BY <1>12 DEF vars, store
  <2> QED
    BY <2>1, QuietPromised DEF Sound
<1> HIDE DEF Quiet
<1>13. Quiet => Promised
  BY QuietPromised DEF Sound, Quiet
<1> QED
  BY <1>3, <1>4, <1>5, <1>6, <1>7, <1>8, <1>9, <1>10, <1>11, <1>12, <1>13 DEF Next

\* The service keeps the promise of CommandLifecycle, for any number of commands,
\* consumers, requests, retries and faults, as long as Redis evicts nothing.
THEOREM LifecycleImplemented ==
  ASSUME Evictable = {}
  PROVE  Spec => ImplementsLifecycle
<1>1. Init => Kept /\ Lifecycle!Init
  BY PhaseOf DEF Init, Kept, Lifecycle!Init, Absent, NoPosition
<1>2. InductiveInvariant /\ Kept /\ [Next]_vars =>
        Kept' /\ [Lifecycle!Next]_(Lifecycle!lifecycle)
  BY NextPromised DEF Sound, Promised
<1> QED
  BY <1>1, <1>2, InvariantHolds, PTL DEF Spec, ImplementsLifecycle, Lifecycle!Spec
=============================================================================
