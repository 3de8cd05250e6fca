------------------------ MODULE RabbitConsumerProofs -------------------------
(***************************************************************************)
(* Proofs about RabbitConsumer, for any number of messages, callbacks,     *)
(* retries and faults: every variable keeps its type, no message is lost,  *)
(* the client does what MessageDelivery promises, and no message is tried  *)
(* too often while nothing fails.                                          *)
(***************************************************************************)
EXTENDS RabbitConsumer, FiniteSetTheorems, TLAPS

USE ConsumerAssumption

\* A retry is a copy as long as the limit is not reached.
LEMMA NextRetryIsCopy ==
  ASSUME NEW c \in Copy, c.retries < RetryLimit
  PROVE  NextRetry(c) \in Copy /\ NextRetry(c).message = c.message
BY DEF Copy, NextRetry

LEMMA IdleIsTask == Idle \in Task
<1>1. PICK m \in Messages : TRUE
  OBVIOUS
<1>2. [message |-> m, retries |-> 0] \in Copy
  BY DEF Copy
<1>3. (CHOOSE c \in Copy : TRUE) \in Copy
  BY <1>2
<1> QED
  BY <1>3 DEF Idle, Task

LEMMA PutTakeType ==
  ASSUME NEW queue \in [Copy -> Nat], NEW c \in Copy
  PROVE  /\ Put(queue, c) \in [Copy -> Nat]
         /\ queue[c] > 0 => Take(queue, c) \in [Copy -> Nat]
BY DEF Put, Take

\* What a new channel hands out again is counted in natural numbers, and a copy
\* some callback held is among it.
LEMMA HeldCopiesCount ==
  ASSUME NEW c \in Copy
  PROVE  /\ HeldCopies(c) \in Nat
         /\ \A k \in Holding : task[k].copy = c => HeldCopies(c) > 0
<1> DEFINE S == {k \in Holding : task[k].copy = c}
<1>1. IsFiniteSet(S)
  BY FS_Subset DEF Holding
<1>2. Cardinality(S) \in Nat /\ (Cardinality(S) = 0 <=> S = {})
  BY <1>1, FS_CardinalityType, FS_EmptySet
<1>3. HeldCopies(c) = Cardinality(S)
  BY DEF HeldCopies
<1> HIDE DEF S
<1>4. ASSUME NEW k \in Holding, task[k].copy = c
      PROVE  HeldCopies(c) > 0
  <2>1. S # {}
    BY <1>4 DEF S
  <2> QED
    BY <2>1, <1>2, <1>3
<1> QED
  BY <1>2, <1>3, <1>4

\* A step of one callback to another task.
LEMMA GotoType ==
  ASSUME TypeOK, NEW k \in Callbacks, NEW t \in Task, Goto(k, t),
         t.at = "publish" => t.copy.retries < RetryLimit
  PROVE  /\ task' \in [Callbacks -> Task]
         /\ \A j \in Callbacks : task'[j].at = "publish" => task'[j].copy.retries < RetryLimit
BY DEF TypeOK, Goto

-----------------------------------------------------------------------------
LEMMA TypeInit == Init => TypeOK
<1> SUFFICES ASSUME Init PROVE TypeOK
  OBVIOUS
<1>1. task \in [Callbacks -> Task] /\ \A k \in Callbacks : task[k].at = "idle"
  BY IdleIsTask DEF Init, Idle
<1> QED
  BY <1>1 DEF Init, TypeOK

LEMMA TypeStep == TypeOK /\ [Next]_vars => TypeOK'
<1> SUFFICES ASSUME TypeOK, [Next]_vars PROVE TypeOK'
  OBVIOUS
<1>1. ASSUME NEW m \in Messages, Publish(m) PROVE TypeOK'
  <2>1. [message |-> m, retries |-> 0] \in Copy
    BY DEF Copy
  <2> QED
    BY <1>1, <2>1, PutTakeType DEF Publish, TypeOK
<1>2. ASSUME NEW k \in Callbacks, NEW c \in Copy, Deliver(k, c) PROVE TypeOK'
  <2>1. ready' \in [Copy -> Nat]
    BY <1>2, PutTakeType DEF Deliver, TypeOK
  <2>2. \E t \in Task : Goto(k, t) /\ t.at # "publish"
    <3> DEFINE rejected == [at |-> "settle", copy |-> c, open |-> TRUE, verdict |-> "reject"]
               called == [at |-> "handle", copy |-> c, open |-> TRUE, verdict |-> "none"]
    <3>1. rejected \in Task /\ called \in Task /\ rejected.at # "publish" /\ called.at # "publish"
      BY DEF Task
    <3>2. Goto(k, rejected) \/ Goto(k, called)
      BY <1>2 DEF Deliver
    <3> HIDE DEF rejected, called
    <3> QED
      BY <3>1, <3>2
  <2> QED
    BY <1>2, <2>1, <2>2, GotoType DEF Deliver, TypeOK
<1>3. ASSUME NEW k \in Callbacks, Step(k) PROVE TypeOK'
  <2> DEFINE c == task[k].copy
  <2>0. task[k] \in Task /\ c \in Copy /\ c.message \in Messages
    BY DEF TypeOK, Task, Copy
  <2>1. ASSUME NEW v \in {"ack", "reject", "requeue"}, Verdict(k, v)
        PROVE  \E t \in Task : Goto(k, t) /\ t.at # "publish"
    <3> DEFINE t == [task[k] EXCEPT !.at = "settle", !.verdict = v]
    <3>1. t \in Task /\ t.at # "publish"
      BY <2>0, <2>1 DEF Task
    <3>2. Goto(k, t)
      BY <2>1 DEF Verdict
    <3> HIDE DEF t
    <3> QED
      BY <3>1, <3>2
  <2>2. ASSUME Call(k) PROVE calls' \in [Messages -> Nat]
    BY <2>0, <2>2 DEF Call, TypeOK
  <2>3. CASE HandlerSucceeds(k)
    BY <2>0, <2>1, <2>2, <2>3, GotoType DEF HandlerSucceeds, TypeOK, queues
  <2>4. CASE HandlerFails(k)
    <3>1. CASE Exhausted(c)
      <4>1. Verdict(k, "reject")
        BY <3>1, <2>4 DEF HandlerFails
      <4> QED
        BY <4>1, <2>1, <2>2, <2>4, GotoType DEF HandlerFails, TypeOK, queues
    <3>2. CASE ~Exhausted(c)
      <4>1. c.retries < RetryLimit
        BY <2>0, <3>2 DEF Exhausted, Copy
      <4>2. [task[k] EXCEPT !.at = "publish"] \in Task
        BY <2>0 DEF Task
      <4>3. Goto(k, [task[k] EXCEPT !.at = "publish"])
        BY <3>2, <2>4 DEF HandlerFails
      <4>4. [task[k] EXCEPT !.at = "publish"].copy = c
        BY <2>0 DEF Task
      <4> QED
        BY <4>1, <4>2, <4>3, <4>4, <2>2, <2>4, GotoType DEF HandlerFails, TypeOK, queues
    <3> QED
      BY <3>1, <3>2
  <2>5. CASE ScheduleRetry(k)
    <3>1. NextRetry(c) \in Copy
      BY <2>0, <2>5, NextRetryIsCopy DEF ScheduleRetry, TypeOK
    <3>2. delayed' \in [Copy -> Nat]
      BY <3>1, <2>5, PutTakeType DEF ScheduleRetry, TypeOK
    <3> QED
      BY <3>2, <2>1, <2>5, GotoType DEF ScheduleRetry, TypeOK
  <2>6. CASE RetainOriginal(k)
    <3>1. NextRetry(c) \in Copy
      BY <2>0, <2>6, NextRetryIsCopy DEF RetainOriginal, TypeOK
    <3>2. delayed' \in [Copy -> Nat]
      BY <3>1, <2>6, PutTakeType DEF RetainOriginal, TypeOK
    <3>3. faults' \in 0..MaxFaults
      BY <2>6 DEF RetainOriginal, Fault, TypeOK
    <3> QED
      BY <3>2, <3>3, <2>1, <2>6, GotoType DEF RetainOriginal, TypeOK
  <2>7. CASE Settle(k)
    <3>1. ready' \in [Copy -> Nat] /\ dead' \in [Copy -> Nat]
      BY <2>0, <2>7, PutTakeType DEF Settle, TypeOK
    <3>2. Goto(k, Idle) /\ Idle.at # "publish"
      BY <2>7 DEF Settle, Idle
    <3> QED
      BY <3>1, <3>2, <2>7, IdleIsTask, GotoType DEF Settle, TypeOK
  <2>8. CASE FailSettle(k)
    <3>1. Goto(k, Idle) /\ Idle.at # "publish"
      BY <2>8 DEF FailSettle, Idle
    <3> QED
      BY <3>1, <2>8, IdleIsTask, GotoType DEF FailSettle, TypeOK, queues
  <2> QED
    BY <1>3, <2>3, <2>4, <2>5, <2>6, <2>7, <2>8 DEF Step
<1>4. ASSUME NEW c \in Copy, Return(c) PROVE TypeOK'
  BY <1>4, PutTakeType DEF Return, TypeOK
<1>5. ASSUME Redeliver PROVE ready' \in [Copy -> Nat]
  BY <1>5, HeldCopiesCount DEF Redeliver, TypeOK
<1>6. CASE LoseChannel
  <2>1. /\ task' \in [Callbacks -> Task]
        /\ \A k \in Callbacks : task'[k].at = "publish" => task'[k].copy.retries < RetryLimit
    BY <1>6 DEF LoseChannel, TypeOK, Task
  <2>2. faults' \in 0..MaxFaults
    BY <1>6 DEF LoseChannel, Fault, TypeOK
  <2> QED
    BY <1>5, <1>6, <2>1, <2>2 DEF LoseChannel, TypeOK
<1>7. CASE Crash
  <2>1. /\ task' \in [Callbacks -> Task]
        /\ \A k \in Callbacks : task'[k].at = "idle"
    BY <1>7, IdleIsTask DEF Crash, Idle
  <2>2. faults' \in 0..MaxFaults
    BY <1>7 DEF Crash, Fault, TypeOK
  <2> QED
    BY <1>5, <1>7, <2>1, <2>2 DEF Crash, TypeOK
<1>8. CASE UNCHANGED vars
  BY <1>8 DEF vars, queues, TypeOK
<1> QED
  BY <1>1, <1>2, <1>3, <1>4, <1>6, <1>7, <1>8 DEF Next

\* Type correctness: in every behaviour of the consumer each variable has its
\* type, and no copy carries more retries than the subscription allows.
THEOREM TypeCorrect == Spec => []TypeOK
<1>1. Init => TypeOK
  BY TypeInit
<1>2. TypeOK /\ [Next]_vars => TypeOK'
  BY TypeStep
<1> QED
  BY <1>1, <1>2, PTL DEF Spec

-----------------------------------------------------------------------------
(***************************************************************************)
(* Nothing is lost.  NothingLost is not inductive: a delivery that is about*)
(* to be acknowledged counts as a copy of the broker, and is none the step *)
(* after.  The strengthening does not count it: the copy for the retry     *)
(* queue, or the handler's success, must have taken its place before.      *)
(***************************************************************************)
Waits(c) == ready[c] > 0 \/ delayed[c] > 0 \/ dead[c] > 0

\* The callback's delivery still stands for its message.
Keeps(k, c) ==
  /\ task[k].at # "idle" /\ task[k].open /\ task[k].copy = c
  /\ ~(task[k].at = "settle" /\ task[k].verdict = "ack")

Secured(m) ==
  \/ m \in handled
  \/ \E c \in Copy : c.message = m /\ (Waits(c) \/ \E k \in Callbacks : Keeps(k, c))

AllSecured ==
  /\ \A m \in published : Secured(m)
  /\ \A k \in Callbacks : task[k].at = "settle" => task[k].verdict # "none"

LEMMA SecuredIsKept == TypeOK /\ AllSecured => NothingLost
<1> SUFFICES ASSUME TypeOK, AllSecured, NEW m \in published, m \notin handled
             PROVE  \E c \in Copy : c.message = m /\ Kept(c)
  BY DEF NothingLost
<1>1. PICK c \in Copy : c.message = m /\ (Waits(c) \/ \E k \in Callbacks : Keeps(k, c))
  BY DEF AllSecured, Secured
<1>2. ready[c] \in Nat /\ delayed[c] \in Nat /\ dead[c] \in Nat
  BY DEF TypeOK
<1>3. Waits(c) => Kept(c)
  BY <1>2 DEF Waits, Kept
<1>4. ASSUME NEW k \in Callbacks, Keeps(k, c) PROVE Kept(c)
  BY <1>4 DEF Keeps, Kept, Holding
<1> QED
  BY <1>1, <1>3, <1>4

\* A step that takes nothing from what secures a message.
LEMMA StillSecured ==
  ASSUME NEW m, Secured(m), handled \subseteq handled',
         \A c \in Copy : Waits(c) => Waits(c)',
         \A c \in Copy : \A k \in Callbacks : Keeps(k, c) => Keeps(k, c)' \/ Waits(c)' \/ c.message \in handled'
  PROVE  Secured(m)'
BY DEF Secured

LEMMA SecuredInit == Init => AllSecured
BY DEF Init, AllSecured, Idle

\* A callback that moves from one task to another on the same channel leaves
\* the other callbacks alone.
LEMMA OthersKeep ==
  ASSUME TypeOK, NEW k \in Callbacks, NEW t, Goto(k, t), NEW j \in Callbacks \ {k}, NEW c \in Copy
  PROVE  Keeps(j, c)' <=> Keeps(j, c)
BY DEF Goto, Keeps, TypeOK

LEMMA PutWaits ==
  ASSUME NEW queue \in [Copy -> Nat], NEW c \in Copy, NEW d \in Copy
  PROVE  /\ Put(queue, c)[c] > 0
         /\ queue[d] > 0 => Put(queue, c)[d] > 0
         /\ d # c /\ queue[d] > 0 => Take(queue, c)[d] > 0
BY DEF Put, Take

LEMMA SecuredStep == TypeOK /\ AllSecured /\ [Next]_vars => AllSecured'
<1> SUFFICES ASSUME TypeOK, AllSecured, [Next]_vars PROVE AllSecured'
  OBVIOUS
<1> USE DEF AllSecured
<1>1. ASSUME NEW m \in Messages, Publish(m) PROVE AllSecured'
  <2> DEFINE c == [message |-> m, retries |-> 0]
  <2>1. c \in Copy /\ c.message = m
    BY DEF Copy
  <2>2. Waits(c)'
    BY <1>1, <2>1, PutWaits DEF Publish, Waits, TypeOK
  <2>3. Secured(m)'
    BY <2>1, <2>2 DEF Secured
  <2>4. ASSUME NEW n \in published PROVE Secured(n)'
    <3>1. \A d \in Copy : Waits(d) => Waits(d)'
      BY <1>1, <2>1, PutWaits DEF Publish, Waits, TypeOK
    <3>2. \A d \in Copy, k \in Callbacks : Keeps(k, d) => Keeps(k, d)'
      BY <1>1 DEF Publish, Keeps
    <3> QED
      BY <1>1, <3>1, <3>2, StillSecured DEF Publish
  <2> QED
    BY <1>1, <2>3, <2>4 DEF Publish
<1>2. ASSUME NEW k \in Callbacks, NEW c \in Copy, Deliver(k, c) PROVE AllSecured'
  <2>1. Keeps(k, c)' /\ (task'[k].at = "settle" => task'[k].verdict # "none")
    BY <1>2 DEF Deliver, Goto, Keeps, TypeOK
  <2>2. \A d \in Copy : Waits(d) /\ d # c => Waits(d)'
    BY <1>2, PutWaits DEF Deliver, Waits, TypeOK
  <2>3. \A d \in Copy, j \in Callbacks : Keeps(j, d) => Keeps(j, d)'
    BY <1>2 DEF Deliver, Goto, Keeps, TypeOK
  <2>4. \A n \in published : Secured(n)'
    BY <1>2, <2>1, <2>2, <2>3 DEF Secured, Deliver
  <2>5. \A j \in Callbacks \ {k} : task'[j] = task[j]
    BY <1>2 DEF Deliver, Goto, TypeOK
  <2> QED
    BY <1>2, <2>1, <2>4, <2>5 DEF Deliver
<1>3. ASSUME NEW k \in Callbacks, Step(k) PROVE AllSecured'
  <2>a. task[k] \in Task /\ task[k].copy \in Copy
    BY DEF TypeOK, Task
  <2>b. PICK c \in Copy : c = task[k].copy
    BY <2>a
  <2>0. task[k] \in Task /\ task[k].copy = c /\ c \in Copy /\ c.message \in Messages
    BY <2>a, <2>b DEF Copy
  <2>1. \A j \in Callbacks \ {k} : task'[j] = task[j]
    BY <1>3 DEF Step, HandlerSucceeds, HandlerFails, ScheduleRetry, RetainOriginal, Settle,
                FailSettle, Verdict, Goto, TypeOK
  <2>2. \A d \in Copy, j \in Callbacks \ {k} : Keeps(j, d) => Keeps(j, d)'
    BY <2>1 DEF Keeps
  <2>3. published' = published
    BY <1>3 DEF Step, HandlerSucceeds, HandlerFails, ScheduleRetry, RetainOriginal, Settle,
                FailSettle
  \* It is enough to look at the one callback.
  <2>4. SUFFICES /\ handled \subseteq handled'
                 /\ \A d \in Copy : Waits(d) => Waits(d)'
                 /\ Keeps(k, c) => Keeps(k, c)' \/ Waits(c)' \/ c.message \in handled'
                                     \/ \E d \in Copy : d.message = c.message /\ Waits(d)'
                 /\ task'[k].at = "settle" => task'[k].verdict # "none"
    <3>1. \A d \in Copy : Keeps(k, d) => d = c
      BY <2>0 DEF Keeps
    <3>2. ASSUME /\ handled \subseteq handled'
                 /\ \A d \in Copy : Waits(d) => Waits(d)'
                 /\ Keeps(k, c) => Keeps(k, c)' \/ Waits(c)' \/ c.message \in handled'
                                     \/ \E d \in Copy : d.message = c.message /\ Waits(d)',
                 NEW m \in published
          PROVE  Secured(m)'
      <4>1. CASE m \in handled
        BY <3>2, <4>1 DEF Secured
      <4>2. ASSUME NEW d \in Copy, d.message = m, Waits(d) PROVE Secured(m)'
        BY <3>2, <4>2 DEF Secured
      <4>3. ASSUME NEW d \in Copy, d.message = m, NEW j \in Callbacks, Keeps(j, d)
            PROVE  Secured(m)'
        <5>1. CASE j # k
          <6>1. Keeps(j, d)'
            BY <2>2, <4>3, <5>1
          <6> QED
            BY <4>3, <6>1 DEF Secured
        <5>2. CASE j = k
          <6>1. d = c /\ Keeps(k, c)
            BY <3>1, <4>3, <5>2
          <6> QED
            BY <2>0, <3>2, <4>3, <6>1 DEF Secured
        <5> QED
          BY <5>1, <5>2
      <4> QED
        BY <4>1, <4>2, <4>3 DEF AllSecured, Secured
    <3>3. ASSUME task'[k].at = "settle" => task'[k].verdict # "none",
                 NEW j \in Callbacks
          PROVE  task'[j].at = "settle" => task'[j].verdict # "none"
      BY <2>1, <3>3
    <3> QED
      BY <2>3, <3>2, <3>3
  <2>5. CASE HandlerSucceeds(k)
    <3>1. handled \subseteq handled' /\ c.message \in handled'
      BY <2>5, <2>0 DEF HandlerSucceeds
    <3>2. \A d \in Copy : Waits(d) => Waits(d)'
      BY <2>5 DEF HandlerSucceeds, queues, Waits
    <3>3. task'[k].at = "settle" => task'[k].verdict # "none"
      BY <2>5, <2>0 DEF HandlerSucceeds, Verdict, Goto, TypeOK, Task
    <3> QED
      BY <3>1, <3>2, <3>3
  <2>6. CASE HandlerFails(k)
    <3>1. handled' = handled /\ \A d \in Copy : Waits(d) => Waits(d)'
      BY <2>6 DEF HandlerFails, queues, Waits
    <3>2. \/ task'[k] = [task[k] EXCEPT !.at = "settle", !.verdict = "reject"]
          \/ task'[k] = [task[k] EXCEPT !.at = "publish"]
      BY <2>6 DEF HandlerFails, Verdict, Goto, TypeOK
    <3>a. /\ task'[k].copy = c /\ task'[k].open = task[k].open
          /\ \/ task'[k].at = "settle" /\ task'[k].verdict = "reject"
             \/ task'[k].at = "publish"
      BY <3>2, <2>0 DEF Task
    <3>3. /\ Keeps(k, c) => Keeps(k, c)'
          /\ task'[k].at = "settle" => task'[k].verdict # "none"
      BY <3>a DEF Keeps
    <3> QED
      BY <3>1, <3>3
  <2>7. CASE ScheduleRetry(k)
    <3>1. NextRetry(c) \in Copy /\ NextRetry(c).message = c.message
      BY <2>0, <2>7, NextRetryIsCopy DEF ScheduleRetry, TypeOK
    <3>2. delayed' = Put(delayed, NextRetry(c)) /\ delayed'[NextRetry(c)] > 0
      BY <2>0, <2>7, <3>1, PutWaits DEF ScheduleRetry, TypeOK
    <3>3. \A d \in Copy : Waits(d) => Waits(d)'
      BY <2>7, <3>1, <3>2, PutWaits DEF ScheduleRetry, TypeOK, Waits
    <3>4. task'[k].at = "settle" => task'[k].verdict # "none"
      BY <2>7, <2>0 DEF ScheduleRetry, Verdict, Goto, TypeOK, Task
    <3> QED
      BY <2>7, <3>1, <3>2, <3>3, <3>4 DEF ScheduleRetry, Waits
  <2>8. CASE RetainOriginal(k)
    <3>1. NextRetry(c) \in Copy
      BY <2>0, <2>8, NextRetryIsCopy DEF RetainOriginal, TypeOK
    <3>2. \A d \in Copy : Waits(d) => Waits(d)'
      <4>1. delayed' = delayed \/ delayed' = Put(delayed, NextRetry(c))
        BY <2>0, <2>8 DEF RetainOriginal
      <4>2. \A d \in Copy : delayed[d] > 0 => delayed'[d] > 0
        BY <3>1, <4>1, PutWaits DEF TypeOK
      <4> QED
        BY <2>8, <4>2 DEF RetainOriginal, Waits
    <3>3. Keeps(k, c) => Keeps(k, c)'
      BY <2>8, <2>0 DEF RetainOriginal, Verdict, Goto, TypeOK, Task, Keeps
    <3>4. task'[k].at = "settle" => task'[k].verdict # "none"
      BY <2>8, <2>0 DEF RetainOriginal, Verdict, Goto, TypeOK, Task
    <3> QED
      BY <2>8, <3>2, <3>3, <3>4 DEF RetainOriginal
  <2>9. CASE Settle(k)
    <3>1. \A d \in Copy : Waits(d) => Waits(d)'
      BY <2>9, <2>0, PutWaits DEF Settle, TypeOK, Waits
    <3>2. Keeps(k, c) => Waits(c)'
      <4> SUFFICES ASSUME Keeps(k, c) PROVE Waits(c)'
        OBVIOUS
      <4>1. task[k].verdict = "reject" \/ task[k].verdict = "requeue"
        BY <2>9, <2>0 DEF Settle, Keeps, Task
      <4>2. ASSUME task[k].verdict = "reject" PROVE Waits(c)'
        <5>1. dead' = Put(dead, c)
          BY <2>0, <2>9, <4>2 DEF Settle
        <5>2. dead'[c] > 0
          BY <5>1, <2>0, PutWaits DEF TypeOK
        <5> QED
          BY <5>2 DEF Waits
      <4>3. ASSUME task[k].verdict = "requeue" PROVE Waits(c)'
        <5>1. ready' = Put(ready, c)
          BY <2>0, <2>9, <4>3 DEF Settle
        <5>2. ready'[c] > 0
          BY <5>1, <2>0, PutWaits DEF TypeOK
        <5> QED
          BY <5>2 DEF Waits
      <4> QED
        BY <4>1, <4>2, <4>3
    <3>3. task'[k].at # "settle"
      BY <2>9 DEF Settle, Goto, TypeOK, Idle
    <3> QED
      BY <2>9, <3>1, <3>2, <3>3 DEF Settle
  <2>10. CASE FailSettle(k)
    BY <2>10, <2>0 DEF FailSettle, Goto, TypeOK, Idle, queues, Waits, Keeps
  <2> QED
    BY <1>3, <2>5, <2>6, <2>7, <2>8, <2>9, <2>10 DEF Step
<1>4. ASSUME NEW c \in Copy, Return(c) PROVE AllSecured'
  <2>1. \A d \in Copy : Waits(d) => Waits(d)'
    BY <1>4, PutWaits DEF Return, Waits, TypeOK
  <2>2. \A d \in Copy, j \in Callbacks : Keeps(j, d) => Keeps(j, d)'
    BY <1>4 DEF Return, Keeps
  <2> QED
    BY <1>4, <2>1, <2>2, StillSecured DEF Return
<1>5. ASSUME Redeliver, UNCHANGED <<published, delayed, dead, calls, handled>>,
             \A k \in Callbacks : task'[k].at = "settle" => task'[k].verdict # "none"
      PROVE  AllSecured'
  <2>1. \A d \in Copy : Waits(d) => Waits(d)'
    BY <1>5, HeldCopiesCount DEF Redeliver, Waits, TypeOK
  <2>2. ASSUME NEW d \in Copy, NEW j \in Callbacks, Keeps(j, d) PROVE Waits(d)'
    <3>1. j \in Holding /\ task[j].copy = d
      BY <2>2 DEF Keeps, Holding
    <3>2. HeldCopies(d) > 0 /\ HeldCopies(d) \in Nat
      BY <3>1, HeldCopiesCount
    <3> QED
      BY <1>5, <3>2 DEF Redeliver, Waits, TypeOK
  <2> QED
    BY <1>5, <2>1, <2>2, StillSecured
<1>6. CASE LoseChannel
  <2>1. \A k \in Callbacks : task'[k].at = "settle" => task'[k].verdict # "none"
    BY <1>6 DEF LoseChannel, TypeOK, Task
  <2> QED
    BY <1>5, <1>6, <2>1 DEF LoseChannel
<1>7. CASE Crash
  <2>1. \A k \in Callbacks : task'[k].at = "settle" => task'[k].verdict # "none"
    BY <1>7 DEF Crash, Idle
  <2> QED
    BY <1>5, <1>7, <2>1 DEF Crash
<1>8. CASE UNCHANGED vars
  BY <1>8 DEF vars, queues, Secured, Waits, Keeps
<1> QED
  BY <1>1, <1>2, <1>3, <1>4, <1>6, <1>7, <1>8 DEF Next

\* Whatever channel, publication or process fails, and however often, a message
\* once published has been handled or the broker still has a copy of it.
THEOREM NoMessageLost == Spec => []NothingLost
<1>1. Init => TypeOK /\ AllSecured
  BY TypeInit, SecuredInit
<1>2. TypeOK /\ AllSecured /\ [Next]_vars => (TypeOK /\ AllSecured)'
  BY TypeStep, SecuredStep
<1>3. TypeOK /\ AllSecured => NothingLost
  BY SecuredIsKept
<1> QED
  BY <1>1, <1>2, <1>3, PTL DEF Spec

-----------------------------------------------------------------------------
(***************************************************************************)
(* The client implements MessageDelivery.  A copy counts the tries its     *)
(* message has had: whoever gives a message up has called the handler      *)
(* with it as often as the policy says.                                    *)
(***************************************************************************)
Counted(c) == c.message \in published /\ c.retries <= calls[c.message]

\* What a callback knows of the message it holds.
Tried(t) ==
  /\ Counted(t.copy)
  /\ t.at \in {"handle", "publish"} => t.copy.message \notin Malformed
  /\ t.at = "publish" => t.copy.retries < calls[t.copy.message]
  /\ t.at = "settle" /\ t.verdict = "reject" =>
       t.copy.message \in Malformed \/ calls[t.copy.message] >= Needed(t.copy.message)

TriesCounted ==
  /\ \A c \in Copy : Waits(c) => Counted(c)
  /\ \A k \in Callbacks : task[k].at # "idle" => Tried(task[k])

Aside == {m \in Messages : \E c \in Copy : c.message = m /\ dead[c] > 0}

\* Initially nothing waits and no callback is at work.
LEMMA TriesInit == Init => TriesCounted
BY DEF Init, TriesCounted, Waits, Idle

\* Calls and publications are only added, so a copy stays counted.
LEMMA StillCounted ==
  ASSUME TypeOK, published \subseteq published', calls' \in [Messages -> Nat],
         \A m \in Messages : calls[m] <= calls'[m]
  PROVE  /\ \A c \in Copy : Counted(c) => Counted(c)'
         /\ \A t \in Task : Tried(t) => Tried(t)'
<1>1. \A m \in Messages : calls[m] \in Nat /\ calls'[m] \in Nat /\ Needed(m) \in Nat
  BY DEF TypeOK, Needed
<1>2. \A c \in Copy : c.message \in Messages /\ c.retries \in Nat
  BY DEF Copy
<1>3. ASSUME NEW c \in Copy, Counted(c) PROVE Counted(c)'
  BY <1>1, <1>2, <1>3 DEF Counted
<1>4. ASSUME NEW t \in Task, Tried(t) PROVE Tried(t)'
  <2>1. t.copy \in Copy /\ Counted(t.copy) /\ Counted(t.copy)'
    BY <1>3, <1>4 DEF Tried, Task
  <2> QED
    BY <1>1, <1>2, <1>4, <2>1 DEF Tried
<1> QED
  BY <1>3, <1>4

\* One callback moves on, and whatever waits then was counted before.
LEMMA CountedMove ==
  ASSUME TypeOK, TriesCounted, published \subseteq published', calls' \in [Messages -> Nat],
         \A m \in Messages : calls[m] <= calls'[m],
         NEW k \in Callbacks, NEW t \in Task, Goto(k, t), t.at # "idle" => Tried(t)',
         \A c \in Copy : Waits(c)' => Waits(c) \/ Counted(c)'
  PROVE  TriesCounted'
<1>1. \A c \in Copy : Waits(c)' => Counted(c)'
  BY StillCounted DEF TriesCounted
<1>2. ASSUME NEW j \in Callbacks, task'[j].at # "idle" PROVE Tried(task[j])'
  <2>1. CASE j = k
    <3>1. task'[j] = t
      BY <2>1 DEF Goto, TypeOK
    <3> QED
      BY <1>2, <3>1 DEF Tried, Counted
  <2>2. CASE j # k
    <3>1. task'[j] = task[j] /\ task[j] \in Task
      BY <2>2 DEF Goto, TypeOK
    <3>2. PICK x \in Task : x = task[j]
      BY <3>1
    <3>3. Tried(x)'
      BY <1>2, <3>1, <3>2, StillCounted DEF TriesCounted
    <3> QED
      BY <3>1, <3>2, <3>3 DEF Tried, Counted
  <2> QED
    BY <2>1, <2>2
<1> QED
  BY <1>1, <1>2 DEF TriesCounted

\* What a new channel hands out again was waiting or held.
LEMMA HandedOutAgain ==
  ASSUME TypeOK, Redeliver, NEW c \in Copy, ready'[c] > 0
  PROVE  ready[c] > 0 \/ \E k \in Holding : task[k].copy = c
<1> DEFINE S == {k \in Holding : task[k].copy = c}
<1>1. ready'[c] = ready[c] + Cardinality(S) /\ ready[c] \in Nat
  BY DEF Redeliver, HeldCopies, TypeOK
<1>2. S = {} => Cardinality(S) = 0
  BY FS_EmptySet
<1> HIDE DEF S
<1>3. S # {} \/ ready[c] > 0
  BY <1>1, <1>2
<1> QED
  BY <1>3 DEF S

\* Every step keeps the count, and is a step of MessageDelivery or hidden by it.
LEMMA TriesStep ==
  ASSUME TypeOK, TypeOK', TriesCounted, [Next]_vars
  PROVE  TriesCounted' /\ [Delivery!Next]_(Delivery!vars)
<1>1. /\ calls' \in [Messages -> Nat]
      /\ \A m \in Messages : calls[m] \in Nat /\ dead \in [Copy -> Nat] /\ dead' \in [Copy -> Nat]
  BY DEF TypeOK
<1>2. ASSUME UNCHANGED <<published, calls, handled, dead>> PROVE UNCHANGED Delivery!vars
  BY <1>2 DEF Delivery!vars
<1>3. ASSUME NEW m \in Messages, Publish(m) PROVE TriesCounted' /\ Delivery!Accept(m)
  <2> DEFINE c == [message |-> m, retries |-> 0]
  <2>1. c \in Copy /\ c.message = m /\ c.retries = 0 /\ 0 <= calls[m]
    BY <1>1 DEF Copy
  <2>2. \A d \in Copy : Waits(d)' => Waits(d) \/ d = c
    BY <1>3, <2>1 DEF Publish, Waits, Put, TypeOK
  <2>3. published \subseteq published' /\ m \in published' /\ calls' = calls
    BY <1>3 DEF Publish
  <2>4. Counted(c)'
    BY <2>1, <2>3 DEF Counted
  <2>5. \A d \in Copy : Counted(d) => Counted(d)'
    BY <1>1, <2>3, StillCounted
  <2>6. \A d \in Copy : Waits(d)' => Counted(d)'
    BY <2>2, <2>4, <2>5 DEF TriesCounted
  <2>7. \A k \in Callbacks : task[k].at # "idle" => Tried(task[k])'
    <3>1. ASSUME NEW t \in Task, Tried(t) PROVE Tried(t)'
      BY <1>1, <2>3, <3>1, StillCounted
    <3>2. ASSUME NEW k \in Callbacks, task[k].at # "idle" PROVE Tried(task[k])'
      <4>1. PICK x \in Task : x = task[k] /\ task'[k] = x
        BY <1>3 DEF Publish, TypeOK
      <4>2. Tried(x)'
        BY <3>1, <3>2, <4>1 DEF TriesCounted
      <4> QED
        BY <4>1, <4>2 DEF Tried, Counted
    <3> QED
      BY <3>2
  <2>8. TriesCounted'
    BY <1>3, <2>6, <2>7 DEF TriesCounted, Publish
  <2>9. Delivery!Accept(m)
    BY <1>3 DEF Publish, Delivery!Accept
  <2> QED
    BY <2>8, <2>9
<1>4. ASSUME NEW k \in Callbacks, NEW c \in Copy, Deliver(k, c) PROVE TriesCounted'
  <2>1. Counted(c) /\ c.message \in Messages
    BY <1>4 DEF Deliver, TriesCounted, Waits, Copy
  <2>2. /\ published' = published /\ calls' = calls
        /\ \A d \in Copy : Waits(d)' => Waits(d)
    BY <1>4 DEF Deliver, Waits, Take, TypeOK
  <2> DEFINE rejected == [at |-> "settle", copy |-> c, open |-> TRUE, verdict |-> "reject"]
             called == [at |-> "handle", copy |-> c, open |-> TRUE, verdict |-> "none"]
  <2>3. /\ rejected \in Task /\ called \in Task
        /\ rejected.copy = c /\ rejected.at = "settle" /\ rejected.verdict = "reject"
        /\ called.copy = c /\ called.at = "handle"
    BY DEF Task
  <2>a. IF c.message \in Malformed THEN Goto(k, rejected) ELSE Goto(k, called)
    BY <1>4 DEF Deliver
  <2> HIDE DEF rejected, called
  <2>b. PICK t \in Task : Goto(k, t) /\ t.copy = c /\
          \/ c.message \in Malformed /\ t.at = "settle" /\ t.verdict = "reject"
          \/ c.message \notin Malformed /\ t.at = "handle"
    BY <2>3, <2>a
  <2>4. Counted(c)' /\ t.at \in {"settle", "handle"}
    BY <2>1, <2>2, <2>b DEF Counted
  <2>5. Tried(t)'
    BY <2>4, <2>b DEF Tried
  <2> QED
    BY <1>1, <2>2, <2>b, <2>5, CountedMove
<1>5. ASSUME NEW c \in Copy, Return(c) PROVE TriesCounted'
  <2>1. \A d \in Copy : Waits(d)' => Waits(d)
    BY <1>5 DEF Return, Waits, Put, Take, TypeOK
  <2> QED
    BY <1>5, <2>1 DEF Return, TriesCounted, Tried, Counted
<1>6. ASSUME Redeliver, UNCHANGED <<published, delayed, dead, calls>>
      PROVE  \A c \in Copy : Waits(c)' => Counted(c)'
  <2> SUFFICES ASSUME NEW c \in Copy, Waits(c)' PROVE Counted(c)
    BY <1>6 DEF Counted
  <2>1. Waits(c) \/ \E k \in Holding : task[k].copy = c
    BY <1>6, HandedOutAgain DEF Waits
  <2> QED
    BY <2>1 DEF TriesCounted, Tried, Holding
<1>7. ASSUME LoseChannel PROVE TriesCounted'
  <2>1. \A k \in Callbacks : /\ task'[k].at = task[k].at /\ task'[k].copy = task[k].copy
                             /\ task'[k].verdict = task[k].verdict
    BY <1>7 DEF LoseChannel, TypeOK, Task
  <2>2. \A k \in Callbacks : task'[k].at # "idle" => Tried(task[k])'
    BY <1>7, <2>1 DEF LoseChannel, TriesCounted, Tried, Counted
  <2> QED
    BY <1>6, <1>7, <2>2 DEF LoseChannel, TriesCounted
<1>8. ASSUME Crash PROVE TriesCounted'
  <2>1. \A k \in Callbacks : task'[k].at = "idle"
    BY <1>8 DEF Crash, Idle
  <2> QED
    BY <1>6, <1>8, <2>1 DEF Crash, TriesCounted
<1>9. ASSUME NEW k \in Callbacks, Step(k) PROVE TriesCounted' /\ [Delivery!Next]_(Delivery!vars)
  <2>1. PICK x \in Task : x = task[k]
    BY DEF TypeOK
  <2>2. PICK c \in Copy : c = x.copy /\ c.message \in Messages /\ c.retries \in 0..RetryLimit
    BY DEF Task, Copy
  <2>3. PICK m \in Messages : m = c.message
    BY <2>2
  <2>4. x.at # "idle" => Tried(x) /\ Counted(c)
    BY <2>1, <2>2 DEF TriesCounted, Tried
  <2>5. /\ [x EXCEPT !.at = "publish"] \in Task
        /\ [x EXCEPT !.at = "publish"].copy = c
        /\ [x EXCEPT !.at = "publish"].at = "publish"
    BY <2>2 DEF Task
  <2>6. \A v \in {"ack", "reject", "requeue"} :
          /\ [x EXCEPT !.at = "settle", !.verdict = v] \in Task
          /\ [x EXCEPT !.at = "settle", !.verdict = v].copy = c
          /\ [x EXCEPT !.at = "settle", !.verdict = v].at = "settle"
          /\ [x EXCEPT !.at = "settle", !.verdict = v].verdict = v
    BY <2>2 DEF Task
  <2>7. ASSUME Call(k)
        PROVE  /\ calls' = [calls EXCEPT ![m] = @ + 1] /\ x.at = "handle"
               /\ m \in published \ Malformed /\ c.retries < calls'[m] /\ 0 < calls'[m]
               /\ \A n \in Messages : calls[n] <= calls'[n]
    BY <1>1, <2>1, <2>2, <2>3, <2>4, <2>7 DEF Call, Tried, Counted
  <2>8. CASE HandlerSucceeds(k)
    <3> DEFINE t == [x EXCEPT !.at = "settle", !.verdict = "ack"]
    <3>1. t \in Task /\ t.at = "settle" /\ t.verdict = "ack" /\ t.copy = c /\ Goto(k, t)
      BY <2>1, <2>6, <2>8 DEF HandlerSucceeds, Verdict
    <3> HIDE DEF t
    <3>2. Tried(t)'
      BY <2>3, <2>7, <2>8, <3>1, <1>1, <2>2 DEF HandlerSucceeds, Tried, Counted
    <3>3. TriesCounted'
      BY <1>1, <2>7, <2>8, <3>1, <3>2, CountedMove DEF HandlerSucceeds, queues, Waits
    <3>4. Delivery!Try(m)
      BY <2>1, <2>2, <2>3, <2>7, <2>8 DEF HandlerSucceeds, queues, Delivery!Try
    <3> QED
      BY <3>3, <3>4 DEF Delivery!Next
  <2>9. CASE HandlerFails(k)
    <3>1. PICK t \in Task : /\ Goto(k, t) /\ t.copy = c
                            /\ \/ t.at = "publish"
                               \/ t.at = "settle" /\ t.verdict = "reject" /\ Exhausted(c)
      <4>1. CASE Exhausted(c)
        BY <2>1, <2>2, <2>6, <2>9, <4>1 DEF HandlerFails, Verdict
      <4>2. CASE ~Exhausted(c)
        BY <2>1, <2>2, <2>5, <2>9, <4>2 DEF HandlerFails
      <4> QED
        BY <4>1, <4>2
    <3>2. Call(k) /\ UNCHANGED <<published, queues, handled>>
      BY <2>9 DEF HandlerFails
    <3>3. Exhausted(c) => calls'[m] >= Needed(m)
      BY <1>1, <2>2, <2>3, <2>7, <3>2 DEF Exhausted, Needed
    <3>4. Tried(t)'
      <4>1. Counted(t.copy)' /\ t.copy.message = m /\ t.copy = c
        BY <1>1, <2>2, <2>3, <2>7, <3>1, <3>2 DEF Counted
      <4> QED
        BY <4>1, <2>7, <3>1, <3>2, <3>3 DEF Tried, Needed
    <3>5. TriesCounted'
      BY <1>1, <2>7, <3>1, <3>2, <3>4, CountedMove DEF queues, Waits
    <3>6. Delivery!Try(m)
      BY <2>7, <3>2 DEF queues, Delivery!Try
    <3> QED
      BY <3>5, <3>6 DEF Delivery!Next
  <2>10. CASE ScheduleRetry(k) \/ RetainOriginal(k)
    <3>1. /\ UNCHANGED <<published, ready, dead, calls, handled>>
          /\ delayed' \in {delayed, Put(delayed, NextRetry(c))} /\ x.at = "publish"
          /\ Verdict(k, "ack") \/ Verdict(k, "requeue")
      BY <2>1, <2>2, <2>10 DEF ScheduleRetry, RetainOriginal
    <3>2. PICK t \in Task : Goto(k, t) /\ t.copy = c /\ t.at = "settle" /\ t.verdict # "reject"
      BY <2>1, <2>6, <3>1 DEF Verdict
    <3>3. Tried(t)'
      BY <2>4, <3>1, <3>2 DEF Tried, Counted
    <3>4. NextRetry(c) \in Copy /\ NextRetry(c).message = m /\ NextRetry(c).retries = c.retries + 1
      <4>1. c.retries < RetryLimit
        BY <2>1, <2>2, <3>1 DEF TypeOK
      <4> QED
        BY <2>2, <2>3, <4>1, NextRetryIsCopy DEF NextRetry, Copy
    <3>5. Counted(NextRetry(c))'
      BY <1>1, <2>2, <2>3, <2>4, <3>1, <3>4 DEF Tried, Counted
    <3>6. \A d \in Copy : Waits(d)' => Waits(d) \/ d = NextRetry(c)
      BY <3>1, <3>4 DEF Waits, Put, TypeOK
    <3>7. TriesCounted'
      BY <1>1, <3>1, <3>2, <3>3, <3>5, <3>6, CountedMove
    <3> QED
      BY <1>2, <3>1, <3>7
  <2>11. CASE Settle(k)
    <3>1. /\ UNCHANGED <<published, delayed, calls, handled>> /\ x.at = "settle"
          /\ ready' \in {ready, Put(ready, c)}
          /\ dead' = IF x.verdict = "reject" THEN Put(dead, c) ELSE dead
      BY <2>1, <2>2, <2>11 DEF Settle
    <3>2. Idle \in Task /\ Idle.at = "idle" /\ Goto(k, Idle)
      BY <2>11, IdleIsTask DEF Settle, Idle
    <3>3. \A d \in Copy : Waits(d)' => Waits(d) \/ d = c
      BY <3>1 DEF Waits, Put, TypeOK
    <3>4. TriesCounted'
      BY <1>1, <2>4, <3>1, <3>2, <3>3, CountedMove DEF Counted
    <3>5. CASE x.verdict = "reject"
      <4>1. m \in published /\ (m \in Malformed \/ calls[m] >= Needed(m))
        BY <2>2, <2>3, <2>4, <3>1, <3>5 DEF Tried, Counted
      <4>2. Aside' = Aside \cup {m}
        BY <1>1, <2>2, <2>3, <3>1, <3>5 DEF Aside, Put
      <4>3. Delivery!SetAside(m)
        BY <3>1, <4>1, <4>2 DEF Delivery!SetAside, Aside
      <4> QED
        BY <3>4, <4>3 DEF Delivery!Next
    <3>6. CASE x.verdict # "reject"
      BY <1>2, <3>1, <3>4, <3>6
    <3> QED
      BY <3>5, <3>6
  <2>12. CASE FailSettle(k)
    <3>1. UNCHANGED <<published, queues, calls, handled>>
      BY <2>12 DEF FailSettle
    <3>2. Idle \in Task /\ Idle.at = "idle" /\ Goto(k, Idle)
      BY <2>12, IdleIsTask DEF FailSettle, Idle
    <3>3. TriesCounted'
      BY <1>1, <3>1, <3>2, CountedMove DEF queues, Waits
    <3> QED
      BY <1>2, <3>1, <3>3 DEF queues
  <2> QED
    BY <1>9, <2>8, <2>9, <2>10, <2>11, <2>12 DEF Step
<1>10. CASE UNCHANGED vars
  BY <1>2, <1>10 DEF vars, queues, TriesCounted, Waits, Tried, Counted
<1>11. UNCHANGED <<published, calls, handled, dead>> => UNCHANGED Delivery!vars
  BY <1>2
<1>12. CASE \/ \E k \in Callbacks, c \in Copy : Deliver(k, c)
            \/ \E c \in Copy : Return(c)
            \/ LoseChannel
            \/ Crash
  <2>1. UNCHANGED <<published, calls, handled, dead>>
    BY <1>12 DEF Deliver, Return, LoseChannel, Crash
  <2> QED
    BY <1>4, <1>5, <1>7, <1>8, <1>11, <1>12, <2>1
<1> QED
  BY <1>3, <1>9, <1>10, <1>12 DEF Next, Delivery!Next

\* Every behaviour of the client is one that MessageDelivery allows: a message is tried
\* after it was accepted only, never when malformed, and set aside only when it is
\* malformed or the handler has failed as often as the policy says, whatever
\* channels, publications and processes fail in between.
THEOREM DeliveryImplemented == Spec => Delivery!Spec
<1>1. Init => TypeOK /\ TriesCounted /\ Delivery!Init
  <2>1. Init => Delivery!Init
    BY DEF Init, Delivery!Init
  <2> QED
    BY <2>1, TypeInit, TriesInit
<1>2. TypeOK /\ TriesCounted /\ [Next]_vars =>
        (TypeOK /\ TriesCounted)' /\ [Delivery!Next]_(Delivery!vars)
  BY TypeStep, TriesStep
<1> QED
  BY <1>1, <1>2, PTL DEF Spec, Delivery!Spec

-----------------------------------------------------------------------------
(***************************************************************************)
(* How often a message is tried while nothing fails.  TriesAreBounded says *)
(* nothing of a message that is under way; the strengthening follows it:   *)
(* it is in one place only, as one copy in one of the queues or as the     *)
(* delivery of one callback, and the copy's retry count is the number of   *)
(* calls made so far.  A delivery that is about to be acknowledged is the  *)
(* message's place no more: its handler returned, or a retry stands for it.*)
(***************************************************************************)
Works(k, m) ==
  /\ task[k].at # "idle" /\ task[k].copy.message = m
  /\ ~(task[k].at = "settle" /\ task[k].verdict = "ack")

Alone(m) ==
  /\ \A c \in Copy : c.message = m => ready[c] + delayed[c] + dead[c] <= 1
  /\ \A c, d \in Copy : c.message = m /\ d.message = m /\ Waits(c) /\ Waits(d) => c = d
  /\ \A k \in Callbacks, c \in Copy : Works(k, m) /\ c.message = m => ~Waits(c)
  /\ \A j, k \in Callbacks : Works(j, m) /\ Works(k, m) => j = k

\* The next call with c is the one its retry count announces.
Untried(c) == calls[c.message] = c.retries /\ (c.message \in NotRetried => c.retries = 0)

Progress(t, m) ==
  /\ t.at = "handle" => Untried(t.copy)
  /\ t.at = "publish" => calls[m] = t.copy.retries + 1 /\ m \notin NotRetried
  /\ t.at = "settle" => t.verdict = "reject"

Due(m) ==
  /\ \A c \in Copy : c.message = m /\ ready[c] + delayed[c] > 0 => Untried(c)
  /\ \A c \in Copy : c.message = m /\ Waits(c) => m \notin handled
  /\ \A k \in Callbacks : Works(k, m) => m \notin handled /\ Progress(task[k], m)
  /\ m \notin published => calls[m] = 0 /\ m \notin handled
  /\ calls[m] <= Needed(m)

Tracked == faults = 0 => \A m \in Messages : Alone(m) /\ Due(m)

LEMMA TrackedIsBounded == TypeOK /\ Tracked => TriesAreBounded
<1> SUFFICES ASSUME TypeOK, faults = 0, NEW m \in Messages, Alone(m), Due(m)
             PROVE  /\ calls[m] <= Needed(m)
                    /\ m \in handled \/ (\E c \in Copy : c.message = m /\ dead[c] > 0) =>
                         \A c \in Copy : c.message = m =>
                           ready[c] + delayed[c] = 0 /\ (m \in handled => dead[c] = 0)
  BY DEF Tracked, TriesAreBounded
<1>1. \A c \in Copy : ready[c] \in Nat /\ delayed[c] \in Nat /\ dead[c] \in Nat
  BY DEF TypeOK
<1>2. ASSUME NEW c \in Copy, c.message = m, m \in handled
      PROVE  ready[c] + delayed[c] = 0 /\ dead[c] = 0
  <2>1. ~Waits(c)
    BY <1>2 DEF Due
  <2> QED
    BY <1>1, <2>1 DEF Waits
<1>3. ASSUME NEW c \in Copy, c.message = m, NEW d \in Copy, d.message = m, dead[d] > 0
      PROVE  ready[c] + delayed[c] = 0
  <2>1. Waits(c) => c = d
    BY <1>3 DEF Alone, Waits
  <2>2. ready[d] + delayed[d] + dead[d] <= 1
    BY <1>3 DEF Alone
  <2> QED
    BY <1>1, <1>3, <2>1, <2>2 DEF Waits
<1> QED
  BY <1>2, <1>3 DEF Due

LEMMA TrackedInit == Init => Tracked
<1> SUFFICES ASSUME Init, NEW m \in Messages PROVE Alone(m) /\ Due(m)
  BY DEF Tracked
<1>1. /\ \A c \in Copy : ready[c] = 0 /\ delayed[c] = 0 /\ dead[c] = 0
      /\ \A k \in Callbacks : task[k].at = "idle"
      /\ calls[m] = 0 /\ handled = {}
  BY DEF Init, Idle
<1>2. Needed(m) \in Nat
  BY DEF Needed
<1>3. (\A c \in Copy : ~Waits(c)) /\ \A k \in Callbacks : ~Works(k, m)
  BY <1>1 DEF Waits, Works
<1> QED
  BY <1>1, <1>2, <1>3 DEF Alone, Due

\* A step that has nothing to do with m, or that only ends a delivery of it.
LEMMA Untouched ==
  ASSUME NEW m \in Messages, Alone(m), Due(m),
         \A c \in Copy : c.message = m =>
           ready'[c] = ready[c] /\ delayed'[c] = delayed[c] /\ dead'[c] = dead[c],
         \A k \in Callbacks : Works(k, m)' => Works(k, m) /\ task'[k] = task[k],
         calls'[m] = calls[m], m \in handled' => m \in handled, published \subseteq published'
  PROVE  Alone(m)' /\ Due(m)'
<1>1. \A c \in Copy : c.message = m => (Waits(c)' <=> Waits(c)) /\ (Untried(c)' <=> Untried(c))
  BY DEF Waits, Untried
<1>2. Alone(m)'
  BY <1>1 DEF Alone
<1>3. ASSUME NEW k \in Callbacks, Works(k, m)' PROVE m \notin handled' /\ Progress(task[k], m)'
  <2>1. Works(k, m) /\ task'[k] = task[k] /\ m \notin handled /\ Progress(task[k], m)
    BY <1>3 DEF Due
  <2>2. task[k].copy.message = m
    BY <2>1 DEF Works
  <2> QED
    BY <2>1, <2>2 DEF Progress, Untried
<1>4. Due(m)'
  BY <1>1, <1>3 DEF Due, Needed
<1> QED
  BY <1>2, <1>4

\* After the step m is one copy in a queue.
LEMMA Landed ==
  ASSUME TypeOK', NEW m \in Messages, NEW c \in Copy, c.message = m,
         \A k \in Callbacks : ~Works(k, m)',
         \A d \in Copy : d.message = m /\ d # c => ready'[d] = 0 /\ delayed'[d] = 0 /\ dead'[d] = 0,
         ready'[c] + delayed'[c] + dead'[c] <= 1,
         ready'[c] + delayed'[c] > 0 => Untried(c)',
         m \notin handled', m \in published', calls'[m] <= Needed(m)
  PROVE  Alone(m)' /\ Due(m)'
<1>1. \A d \in Copy : d.message = m /\ Waits(d)' => d = c
  BY DEF Waits
<1>2. \A d \in Copy : d.message = m => ready'[d] + delayed'[d] + dead'[d] <= 1
  OBVIOUS
<1>3. Alone(m)'
  BY <1>1, <1>2 DEF Alone
<1>4. \A d \in Copy : d.message = m /\ ready'[d] + delayed'[d] > 0 => d = c
  OBVIOUS
<1>5. Due(m)'
  BY <1>4 DEF Due, Needed
<1> QED
  BY <1>3, <1>5

\* After the step m is the delivery of one callback, or nowhere any more.
LEMMA InHand ==
  ASSUME NEW m \in Messages, NEW k \in Callbacks,
         \A c \in Copy : c.message = m => ready'[c] = 0 /\ delayed'[c] = 0 /\ dead'[c] = 0,
         \A j \in Callbacks : Works(j, m)' => j = k,
         Works(k, m)' => m \notin handled' /\ Progress(task[k], m)',
         m \in published', calls'[m] <= Needed(m)
  PROVE  Alone(m)' /\ Due(m)'
<1>1. \A c \in Copy : c.message = m => ~Waits(c)'
  BY DEF Waits
<1> QED
  BY <1>1 DEF Alone, Due, Needed

LEMMA TrackedStep ==
  ASSUME TypeOK, TypeOK', TriesCounted, Tracked, [Next]_vars
  PROVE  Tracked'
<1> SUFFICES ASSUME faults' = 0, NEW m \in Messages
             PROVE  Alone(m)' /\ Due(m)'
  BY DEF Tracked
<1>1. \A c \in Copy : /\ ready[c] \in Nat /\ delayed[c] \in Nat /\ dead[c] \in Nat
                      /\ c.message \in Messages /\ c.retries \in Nat
  <2>1. \A c \in Copy : c.message \in Messages /\ c.retries \in Nat
    BY DEF Copy
  <2> QED
    BY <2>1 DEF TypeOK
<1>2. ~Fault
  BY DEF Fault, TypeOK
<1>3. UNCHANGED vars \/ faults' = faults
  BY <1>2 DEF Next, Step, Publish, Deliver, HandlerSucceeds, HandlerFails, ScheduleRetry, RetainOriginal,
              Settle, FailSettle, Return, LoseChannel, Crash
<1>4. Alone(m) /\ Due(m)
  BY <1>3 DEF vars, Tracked
<1>5. calls[m] \in Nat /\ Needed(m) \in Nat
  BY DEF TypeOK, Needed
<1>6. ASSUME NEW n \in Messages, Publish(n) PROVE Alone(m)' /\ Due(m)'
  <2> DEFINE c == [message |-> n, retries |-> 0]
  <2>1. c \in Copy /\ c.message = n /\ c.retries = 0
    BY DEF Copy
  <2>2. /\ \A d \in Copy : /\ ready'[d] = IF d = c THEN ready[d] + 1 ELSE ready[d]
                           /\ delayed'[d] = delayed[d] /\ dead'[d] = dead[d]
        /\ task' = task /\ calls' = calls /\ handled' = handled /\ n \notin published
        /\ published' = published \cup {n}
    BY <1>6, <2>1 DEF Publish, Put, TypeOK
  <2> HIDE DEF c
  <2>3. CASE m # n
    BY <1>4, <2>1, <2>2, <2>3, Untouched DEF Works
  <2>4. CASE m = n
    <3>1. \A d \in Copy : d.message = m => ready[d] = 0 /\ delayed[d] = 0 /\ dead[d] = 0
      BY <1>1, <2>2, <2>4 DEF TriesCounted, Counted, Waits
    <3>2. \A k \in Callbacks : ~Works(k, m)'
      BY <2>2, <2>4 DEF TriesCounted, Tried, Counted, Works
    <3>3. calls'[m] = 0 /\ m \notin handled' /\ m \in published'
      BY <1>4, <2>2, <2>4 DEF Due
    <3>4. Untried(c)'
      BY <2>1, <2>4, <3>3 DEF Untried
    <3> QED
      BY <1>5, <2>1, <2>2, <2>4, <3>1, <3>2, <3>3, <3>4, Landed
  <2> QED
    BY <2>3, <2>4
<1>7. ASSUME NEW k \in Callbacks, NEW c \in Copy, Deliver(k, c) PROVE Alone(m)' /\ Due(m)'
  <2>1. PICK t : /\ t = task'[k] /\ t.copy = c
                 /\ \/ t.at = "settle" /\ t.verdict = "reject"
                    \/ t.at = "handle"
    BY <1>7 DEF Deliver, Goto, TypeOK
  <2>2. /\ ready[c] > 0
        /\ \A d \in Copy : /\ ready'[d] = IF d = c THEN ready[d] - 1 ELSE ready[d]
                           /\ delayed'[d] = delayed[d] /\ dead'[d] = dead[d]
        /\ \A j \in Callbacks \ {k} : task'[j] = task[j]
        /\ task[k].at = "idle"
        /\ published' = published /\ calls' = calls /\ handled' = handled
    BY <1>7 DEF Deliver, Goto, Take, TypeOK
  <2>3. CASE m # c.message
    <3>1. \A j \in Callbacks : Works(j, m)' => Works(j, m) /\ task'[j] = task[j]
      BY <2>1, <2>2, <2>3 DEF Works
    <3> QED
      BY <1>4, <2>2, <2>3, <3>1, Untouched
  <2>4. CASE m = c.message
    <3>1. Waits(c) /\ Untried(c) /\ m \notin handled
      BY <1>1, <1>4, <2>2, <2>4 DEF Waits, Due
    <3>2. ready[c] + delayed[c] + dead[c] <= 1
      BY <1>4, <2>4 DEF Alone
    <3>3. \A d \in Copy : d.message = m /\ d # c => ~Waits(d)
      BY <1>4, <2>4, <3>1 DEF Alone
    <3>4. \A d \in Copy : d.message = m => ready'[d] = 0 /\ delayed'[d] = 0 /\ dead'[d] = 0
      BY <1>1, <2>2, <3>2, <3>3 DEF Waits
    <3>5. \A j \in Callbacks : Works(j, m)' => j = k
      BY <1>4, <2>2, <2>4, <3>1 DEF Alone, Works
    <3>6. Progress(task[k], m)'
      BY <2>1, <2>2, <3>1 DEF Progress, Untried
    <3>7. m \in published'
      BY <2>2, <2>4, <3>1 DEF TriesCounted, Counted
    <3> QED
      BY <1>4, <2>2, <3>1, <3>4, <3>5, <3>6, <3>7, InHand DEF Due
  <2> QED
    BY <2>3, <2>4
<1>8. ASSUME NEW k \in Callbacks, Step(k) PROVE Alone(m)' /\ Due(m)'
  <2>1. PICK x \in Task : x = task[k]
    BY DEF TypeOK
  <2>2. PICK c \in Copy : c = x.copy
    BY DEF Task
  <2>3. \A j \in Callbacks \ {k} : task'[j] = task[j]
    BY <1>8 DEF Step, HandlerSucceeds, HandlerFails, ScheduleRetry, RetainOriginal, Settle,
                FailSettle, Verdict, Goto, TypeOK
  <2>4. ASSUME x.at \in {"handle", "publish"} \/ (x.at = "settle" /\ x.verdict # "ack"), m = c.message
        PROVE  /\ Works(k, m) /\ m \in published /\ m \notin handled /\ Progress(x, m)
               /\ \A d \in Copy : d.message = m => ready[d] = 0 /\ delayed[d] = 0 /\ dead[d] = 0
               /\ \A j \in Callbacks \ {k} : ~Works(j, m)'
    <3>1. Works(k, m) /\ m \in published
      BY <2>1, <2>2, <2>4 DEF Works, TriesCounted, Tried, Counted
    <3>2. m \notin handled /\ Progress(x, m)
      BY <1>4, <2>1, <3>1 DEF Due
    <3>3. \A d \in Copy : d.message = m => ~Waits(d)
      BY <1>4, <3>1 DEF Alone
    <3>4. \A j \in Callbacks \ {k} : ~Works(j, m)'
      BY <1>4, <2>3, <3>1 DEF Alone, Works
    <3> QED
      BY <1>1, <3>1, <3>2, <3>3, <3>4 DEF Waits
  \* The callback works on another message, or only gives its delivery back.
  <2>5. ASSUME UNCHANGED <<published>>,
               \A d \in Copy : d.message = m =>
                 ready'[d] = ready[d] /\ delayed'[d] = delayed[d] /\ dead'[d] = dead[d],
               ~Works(k, m)', calls'[m] = calls[m], m \in handled' => m \in handled
        PROVE  Alone(m)' /\ Due(m)'
    <3>1. \A j \in Callbacks : Works(j, m)' => Works(j, m) /\ task'[j] = task[j]
      BY <2>3, <2>5 DEF Works
    <3> QED
      BY <1>4, <2>5, <3>1, Untouched
  <2>6. \A v : Verdict(k, v) => /\ task'[k] = [x EXCEPT !.at = "settle", !.verdict = v]
                                /\ task'[k].at = "settle" /\ task'[k].verdict = v /\ task'[k].copy = c
    BY <2>1, <2>2 DEF Verdict, Goto, TypeOK, Task
  <2>7. CASE HandlerSucceeds(k)
    <3>1. /\ x.at = "handle" /\ calls' = [calls EXCEPT ![c.message] = @ + 1]
          /\ handled' = handled \cup {c.message} /\ UNCHANGED <<published, queues>>
          /\ task'[k].at = "settle" /\ task'[k].verdict = "ack" /\ task'[k].copy = c
      BY <2>1, <2>2, <2>6, <2>7 DEF HandlerSucceeds, Call
    <3>2. ~Works(k, m)'
      BY <3>1 DEF Works
    <3>3. CASE m # c.message
      BY <2>5, <3>1, <3>2, <3>3 DEF queues, TypeOK
    <3>4. CASE m = c.message
      <4>1. Untried(c) /\ m \in published
        BY <2>2, <2>4, <3>1, <3>4 DEF Progress
      <4>2. calls'[m] <= Needed(m)
        BY <1>1, <1>5, <3>1, <3>4, <4>1 DEF Untried, Needed, Copy, TypeOK
      <4> QED
        BY <2>4, <3>1, <3>2, <3>4, <4>1, <4>2, InHand DEF queues
    <3> QED
      BY <3>3, <3>4
  <2>8. CASE HandlerFails(k)
    <3>1. /\ x.at = "handle" /\ calls' = [calls EXCEPT ![c.message] = @ + 1]
          /\ UNCHANGED <<published, queues, handled>>
      BY <2>1, <2>2, <2>8 DEF HandlerFails, Call
    <3>2. /\ task'[k].copy = c
          /\ \/ task'[k].at = "settle" /\ task'[k].verdict = "reject"
             \/ task'[k].at = "publish" /\ c.message \notin NotRetried
      <4>1. CASE Exhausted(c)
        BY <2>1, <2>2, <2>6, <2>8, <4>1 DEF HandlerFails
      <4>2. CASE ~Exhausted(c)
        BY <2>1, <2>2, <2>8, <4>2 DEF HandlerFails, Goto, Task, TypeOK, Exhausted
      <4> QED
        BY <4>1, <4>2
    <3>3. CASE m # c.message
      <4>1. ~Works(k, m)'
        BY <3>2, <3>3 DEF Works
      <4> QED
        BY <2>5, <3>1, <3>3, <4>1 DEF queues, TypeOK
    <3>4. CASE m = c.message
      <4>1. Untried(c) /\ m \in published /\ m \notin handled
        BY <2>2, <2>4, <3>1, <3>4 DEF Progress
      <4>2. calls'[m] = c.retries + 1
        BY <3>1, <3>4, <4>1 DEF Untried, TypeOK
      <4>3. calls'[m] <= Needed(m)
        BY <1>1, <3>4, <4>1, <4>2 DEF Untried, Needed, Copy
      <4>4. Progress(task[k], m)'
        BY <3>2, <3>4, <4>2 DEF Progress
      <4> QED
        BY <2>4, <3>1, <3>4, <4>1, <4>3, <4>4, InHand DEF queues
    <3> QED
      BY <3>3, <3>4
  <2>9. CASE ScheduleRetry(k)
    <3>1. /\ x.at = "publish" /\ delayed' = Put(delayed, NextRetry(c))
          /\ UNCHANGED <<published, ready, dead, calls, handled>>
          /\ task'[k].at = "settle" /\ task'[k].verdict = "ack"
      BY <2>1, <2>2, <2>6, <2>9 DEF ScheduleRetry
    <3>2. PICK n \in Copy : n = NextRetry(c) /\ n.message = c.message /\ n.retries = c.retries + 1
      <4>1. c.retries < RetryLimit
        BY <2>1, <2>2, <3>1 DEF TypeOK
      <4> QED
        BY <4>1, NextRetryIsCopy DEF NextRetry, Copy
    <3>3. ~Works(k, m)'
      BY <3>1 DEF Works
    <3>4. \A d \in Copy : delayed'[d] = IF d = n THEN delayed[d] + 1 ELSE delayed[d]
      BY <3>1, <3>2 DEF Put, TypeOK
    <3>5. CASE m # c.message
      BY <2>5, <3>1, <3>2, <3>3, <3>4, <3>5
    <3>6. CASE m = c.message
      <4>1. calls'[m] = n.retries /\ m \notin NotRetried /\ m \in published /\ m \notin handled
        BY <2>2, <2>4, <3>1, <3>2, <3>6 DEF Progress
      <4>2. Untried(n)' /\ calls'[m] <= Needed(m)
        BY <3>2, <3>6, <4>1 DEF Untried, Needed, Copy
      <4>3. \A j \in Callbacks : ~Works(j, m)'
        BY <2>4, <3>1, <3>3, <3>6
      <4>4. /\ ready'[n] + delayed'[n] + dead'[n] <= 1
            /\ \A d \in Copy : d.message = m /\ d # n => ready'[d] = 0 /\ delayed'[d] = 0 /\ dead'[d] = 0
        BY <2>4, <3>1, <3>2, <3>4, <3>6
      <4> QED
        BY <3>1, <3>2, <3>6, <4>1, <4>2, <4>3, <4>4, Landed
    <3> QED
      BY <3>5, <3>6
  <2>10. CASE RetainOriginal(k)
    BY <1>2, <2>10 DEF RetainOriginal
  <2>11. CASE Settle(k)
    <3>1. /\ x.at = "settle" /\ UNCHANGED <<published, delayed, calls, handled>> /\ task'[k].at = "idle"
          /\ ready' = (IF x.verdict = "requeue" THEN Put(ready, c) ELSE ready)
          /\ dead' = (IF x.verdict = "reject" THEN Put(dead, c) ELSE dead)
      BY <2>1, <2>2, <2>11 DEF Settle, Goto, Idle, TypeOK
    <3>2. ~Works(k, m)'
      BY <3>1 DEF Works
    <3>3. CASE m # c.message
      <4>1. \A d \in Copy : d # c => ready'[d] = ready[d] /\ dead'[d] = dead[d]
        BY <3>1 DEF Put, TypeOK
      <4> QED
        BY <2>5, <3>1, <3>2, <3>3, <4>1
    <3>4. CASE m = c.message /\ x.verdict = "ack"
      BY <2>5, <3>1, <3>2, <3>4
    <3>5. CASE m = c.message /\ x.verdict # "ack"
      <4>1. x.verdict = "reject" /\ m \in published /\ m \notin handled
        BY <2>4, <3>1, <3>5 DEF Progress
      <4>2. /\ ready' = ready
            /\ \A d \in Copy : dead'[d] = IF d = c THEN dead[d] + 1 ELSE dead[d]
        BY <3>1, <4>1 DEF Put, TypeOK
      <4>3. /\ ready'[c] + delayed'[c] + dead'[c] <= 1 /\ ready'[c] + delayed'[c] = 0
            /\ \A d \in Copy : d.message = m /\ d # c => ready'[d] = 0 /\ delayed'[d] = 0 /\ dead'[d] = 0
        BY <2>4, <3>1, <3>5, <4>2
      <4>4. \A j \in Callbacks : ~Works(j, m)'
        BY <2>4, <3>1, <3>2, <3>5
      <4>5. calls'[m] <= Needed(m)
        BY <1>4, <3>1 DEF Due
      <4> QED
        BY <3>1, <3>5, <4>1, <4>3, <4>4, <4>5, Landed
    <3> QED
      BY <3>3, <3>4, <3>5
  <2>12. CASE FailSettle(k)
    <3>1. ~Works(k, m)'
      BY <2>12 DEF FailSettle, Goto, Idle, TypeOK, Works
    <3> QED
      BY <2>5, <2>12, <3>1 DEF FailSettle, queues
  <2> QED
    BY <1>8, <2>7, <2>8, <2>9, <2>10, <2>11, <2>12 DEF Step
<1>9. ASSUME NEW c \in Copy, Return(c) PROVE Alone(m)' /\ Due(m)'
  <2>1. /\ delayed[c] > 0
        /\ \A d \in Copy : /\ delayed'[d] = IF d = c THEN delayed[d] - 1 ELSE delayed[d]
                           /\ ready'[d] = IF d = c THEN ready[d] + 1 ELSE ready[d]
                           /\ dead'[d] = dead[d]
        /\ UNCHANGED <<published, task, calls, handled>>
    BY <1>9 DEF Return, Put, Take, TypeOK
  <2>2. CASE m # c.message
    BY <1>4, <2>1, <2>2, Untouched DEF Works
  <2>3. CASE m = c.message
    <3>1. Waits(c) /\ Untried(c) /\ m \notin handled /\ m \in published
      BY <1>1, <1>4, <2>1, <2>3 DEF Waits, Due, TriesCounted, Counted
    <3>2. ready[c] + delayed[c] + dead[c] <= 1
      BY <1>4, <2>3 DEF Alone
    <3>3. \A d \in Copy : d.message = m /\ d # c => ~Waits(d)
      BY <1>4, <2>3, <3>1 DEF Alone
    <3>4. \A d \in Copy : d.message = m /\ d # c => ready'[d] = 0 /\ delayed'[d] = 0 /\ dead'[d] = 0
      BY <1>1, <2>1, <3>3 DEF Waits
    <3>5. \A k \in Callbacks : ~Works(k, m)'
      BY <1>4, <2>1, <2>3, <3>1 DEF Alone, Works
    <3>6. Untried(c)' /\ calls'[m] <= Needed(m)
      BY <1>4, <2>1, <3>1 DEF Untried, Due
    <3> QED
      BY <1>1, <2>1, <2>3, <3>1, <3>2, <3>4, <3>5, <3>6, Landed
  <2> QED
    BY <2>2, <2>3
<1>10. ~LoseChannel /\ ~Crash
  BY <1>2 DEF LoseChannel, Crash
<1>11. CASE UNCHANGED vars
  BY <1>4, <1>11, Untouched DEF vars, queues, Works
<1> QED
  BY <1>6, <1>7, <1>8, <1>9, <1>10, <1>11 DEF Next

\* As long as nothing fails, the handler is called with a message no more often than
\* the policy says, and neither once it succeeded nor once the message was given up.
THEOREM TriesBounded == Spec => []TriesAreBounded
<1>1. Init => TypeOK /\ TriesCounted /\ Tracked
  BY TypeInit, TriesInit, TrackedInit
<1>2. TypeOK /\ TriesCounted /\ Tracked /\ [Next]_vars => (TypeOK /\ TriesCounted /\ Tracked)'
  BY TypeStep, TriesStep, TrackedStep
<1>3. TypeOK /\ Tracked => TriesAreBounded
  BY TrackedIsBounded
<1> QED
  BY <1>1, <1>2, <1>3, PTL DEF Spec

=============================================================================
