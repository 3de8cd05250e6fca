--------------------------- MODULE RabbitConsumer ----------------------------
(***************************************************************************)
(* One subscription of RabbitMQClient (app/external/queues/queue.py): how  *)
(* each delivery is decoded, handled, retried through the delayed queue,   *)
(* dead-lettered and settled, while the broker loses channels, refuses     *)
(* publications, or accepts them without the client learning of it.        *)
(*                                                                         *)
(* A callback holds its delivery from the broker's hand-over to the        *)
(* settlement.  When its channel closes, the broker takes the message back *)
(* and delivers it again, but the callback runs on.                        *)
(***************************************************************************)
EXTENDS Naturals, FiniteSets

CONSTANTS
  Messages,    \* the messages published to the queue
  Malformed,   \* those with a bad header or a body that is no JSON object
  NotRetried,  \* those of a subscription with requeue_on_error = False
  RetryLimit,  \* max_retries of the subscription
  Callbacks,   \* the callbacks that can run at once, those of lost channels included
  Prefetch,    \* prefetch_count: unacknowledged deliveries of the open channel
  MaxFaults    \* bound: how often something goes wrong

ASSUME ConsumerAssumption ==
  /\ Messages # {} /\ IsFiniteSet(Callbacks)
  /\ Malformed \subseteq Messages /\ NotRetried \subseteq Messages
  /\ RetryLimit \in Nat /\ Prefetch \in Nat \ {0} /\ MaxFaults \in Nat

\* A copy of a message carries x-retry-count.
Copy == [message : Messages, retries : 0..RetryLimit]

VARIABLES
  published,  \* the messages published so far
  ready,      \* how many of each copy wait in the queue
  delayed,    \* how many wait in the retry queue for their TTL
  dead,       \* how many were dead-lettered
  task,       \* what each callback is doing
  calls,      \* how often the handler was called with each message
  handled,    \* the messages a handler returned from without an error
  faults      \* how often something has gone wrong

queues == <<ready, delayed, dead>>
vars == <<published, queues, task, calls, handled, faults>>

\* open: the callback's channel is still the one its delivery came from.
Task ==
  [at : {"idle", "handle", "publish", "settle"}, copy : Copy, open : BOOLEAN,
   verdict : {"none", "ack", "reject", "requeue"}]

Idle == [at |-> "idle", copy |-> CHOOSE c \in Copy : TRUE, open |-> FALSE, verdict |-> "none"]

Init ==
  /\ published = {}
  /\ ready = [c \in Copy |-> 0]
  /\ delayed = [c \in Copy |-> 0]
  /\ dead = [c \in Copy |-> 0]
  /\ task = [k \in Callbacks |-> Idle]
  /\ calls = [m \in Messages |-> 0]
  /\ handled = {}
  /\ faults = 0

Goto(k, t) == task' = [task EXCEPT ![k] = t]

Put(queue, c) == [queue EXCEPT ![c] = @ + 1]

Take(queue, c) == [queue EXCEPT ![c] = @ - 1]

Fault == faults < MaxFaults /\ faults' = faults + 1

\* publish: a persistent message whose retry count is zero.
Publish(m) ==
  /\ m \notin published
  /\ published' = published \cup {m}
  /\ ready' = Put(ready, [message |-> m, retries |-> 0])
  /\ UNCHANGED <<delayed, dead, task, calls, handled, faults>>

Holding == {k \in Callbacks : task[k].at # "idle" /\ task[k].open}

\* The broker hands a message over; what cannot be decoded is rejected at once.
Deliver(k, c) ==
  /\ task[k].at = "idle"
  /\ ready[c] > 0
  /\ Cardinality(Holding) < Prefetch
  /\ ready' = Take(ready, c)
  /\ IF c.message \in Malformed
     THEN Goto(k, [at |-> "settle", copy |-> c, open |-> TRUE, verdict |-> "reject"])
     ELSE Goto(k, [at |-> "handle", copy |-> c, open |-> TRUE, verdict |-> "none"])
  /\ UNCHANGED <<published, delayed, dead, calls, handled, faults>>

Verdict(k, verdict) == Goto(k, [task[k] EXCEPT !.at = "settle", !.verdict = verdict])

Call(k) ==
  /\ task[k].at = "handle"
  /\ calls' = [calls EXCEPT ![task[k].copy.message] = @ + 1]

\* The handler returns.
HandlerSucceeds(k) ==
  /\ Call(k)
  /\ handled' = handled \cup {task[k].copy.message}
  /\ Verdict(k, "ack")
  /\ UNCHANGED <<published, queues, faults>>

\* Variant: one retry more.
PastLastRetry(c) == c.message \in NotRetried \/ c.retries > RetryLimit

Exhausted(c) == c.message \in NotRetried \/ c.retries >= RetryLimit

\* The handler raises: the message is dead-lettered or retried.
HandlerFails(k) ==
  /\ Call(k)
  /\ IF Exhausted(task[k].copy) THEN Verdict(k, "reject")
     ELSE Goto(k, [task[k] EXCEPT !.at = "publish"])
  /\ UNCHANGED <<published, queues, handled, faults>>

\* Variant: the copy keeps its retry count.
SameRetry(c) == c

NextRetry(c) == [c EXCEPT !.retries = @ + 1]

\* The copy for the retry queue is confirmed, and the original may go.
ScheduleRetry(k) ==
  /\ task[k].at = "publish"
  /\ delayed' = Put(delayed, NextRetry(task[k].copy))
  /\ Verdict(k, "ack")
  /\ UNCHANGED <<published, ready, dead, calls, handled, faults>>

\* Variant: a copy that could not be published is acknowledged all the same.
ForgetRetry(k) ==
  /\ task[k].at = "publish"
  /\ Fault
  /\ UNCHANGED delayed
  /\ Verdict(k, "ack")
  /\ UNCHANGED <<published, ready, dead, calls, handled>>

\* The publication fails or its confirmation does not come: the original stays,
\* and the copy may be there as well.
RetainOriginal(k) ==
  /\ task[k].at = "publish"
  /\ Fault
  /\ delayed' \in {delayed, Put(delayed, NextRetry(task[k].copy))}
  /\ Verdict(k, "requeue")
  /\ UNCHANGED <<published, ready, dead, calls, handled>>

\* Variant: nack is left out.
SettleUnlessRequeued(k) ==
  LET c == task[k].copy
      verdict == task[k].verdict
  IN  /\ task[k].at = "settle" /\ task[k].open /\ verdict # "requeue"
      /\ dead' = IF verdict = "reject" THEN Put(dead, c) ELSE dead
      /\ Goto(k, Idle)
      /\ UNCHANGED <<published, ready, delayed, calls, handled, faults>>

\* ack, reject(requeue=False), which dead-letters, or nack(requeue=True).
Settle(k) ==
  LET c == task[k].copy
      verdict == task[k].verdict
  IN  /\ task[k].at = "settle" /\ task[k].open
      /\ ready' = IF verdict = "requeue" THEN Put(ready, c) ELSE ready
      /\ dead' = IF verdict = "reject" THEN Put(dead, c) ELSE dead
      /\ Goto(k, Idle)
      /\ UNCHANGED <<published, delayed, calls, handled, faults>>

\* The channel of the delivery is gone: nothing can be settled on it.
FailSettle(k) ==
  /\ task[k].at = "settle" /\ ~task[k].open
  /\ Goto(k, Idle)
  /\ UNCHANGED <<published, queues, calls, handled, faults>>

\* The TTL of the retry queue sends a copy back to the queue.
Return(c) ==
  /\ delayed[c] > 0
  /\ delayed' = Take(delayed, c)
  /\ ready' = Put(ready, c)
  /\ UNCHANGED <<published, dead, task, calls, handled, faults>>

HeldCopies(c) == Cardinality({k \in Holding : task[k].copy = c})

Redeliver == ready' = [c \in Copy |-> ready[c] + HeldCopies(c)]

\* The robust connection comes back with a new channel.
LoseChannel ==
  /\ Holding # {}
  /\ Fault
  /\ Redeliver
  /\ task' = [k \in Callbacks |-> [task[k] EXCEPT !.open = FALSE]]
  /\ UNCHANGED <<published, delayed, dead, calls, handled>>

\* The process stops, and with it every callback.
Crash ==
  /\ \E k \in Callbacks : task[k].at # "idle"
  /\ Fault
  /\ Redeliver
  /\ task' = [k \in Callbacks |-> Idle]
  /\ UNCHANGED <<published, delayed, dead, calls, handled>>

Step(k) ==
  \/ HandlerSucceeds(k) \/ HandlerFails(k)
  \/ ScheduleRetry(k) \/ RetainOriginal(k)
  \/ Settle(k) \/ FailSettle(k)

Next ==
  \/ \E m \in Messages : Publish(m)
  \/ \E k \in Callbacks, c \in Copy : Deliver(k, c)
  \/ \E k \in Callbacks : Step(k)
  \/ \E c \in Copy : Return(c)
  \/ LoseChannel
  \/ Crash

Spec == Init /\ [][Next]_vars

\* Handlers end, the broker delivers what it holds and the TTL runs out; a
\* publication is confirmed or refused.
FairSpec ==
  /\ Spec
  /\ \A k \in Callbacks : WF_vars(Step(k))
  /\ \A c \in Copy : WF_vars(\E k \in Callbacks : Deliver(k, c)) /\ WF_vars(Return(c))

-----------------------------------------------------------------------------
(* Properties *)

\* Type correctness: every variable holds a value of its type.  In particular no
\* copy is retried past the limit.
TypeOK ==
  /\ published \subseteq Messages
  /\ ready \in [Copy -> Nat] /\ delayed \in [Copy -> Nat] /\ dead \in [Copy -> Nat]
  /\ task \in [Callbacks -> Task]
  /\ \A k \in Callbacks : task[k].at = "publish" => task[k].copy.retries < RetryLimit
  /\ calls \in [Messages -> Nat]
  /\ handled \subseteq Messages
  /\ faults \in 0..MaxFaults

\* A copy the broker still has, unacknowledged deliveries included.
Kept(c) == ready[c] + delayed[c] + dead[c] > 0 \/ \E k \in Holding : task[k].copy = c

\* Whatever channel, publication or process fails, a published message has been
\* handled or the broker still has a copy of it.
NothingLost ==
  \A m \in published : m \in handled \/ \E c \in Copy : c.message = m /\ Kept(c)

Needed(m) == IF m \in NotRetried THEN 1 ELSE RetryLimit + 1

\* Unless something fails, the handler is called with a message no more often
\* than the policy says, and not again once it succeeded or was given up.
TriesAreBounded ==
  faults = 0 => \A m \in Messages :
    /\ calls[m] <= Needed(m)
    /\ m \in handled \/ (\E c \in Copy : c.message = m /\ dead[c] > 0) =>
         \A c \in Copy : c.message = m => ready[c] + delayed[c] = 0 /\ (m \in handled => dead[c] = 0)

Delivery == INSTANCE MessageDelivery WITH
  Tries <- [m \in Messages |-> Needed(m)],
  accepted <- published, tried <- calls, aside <- {m \in Messages : \E c \in Copy : c.message = m /\ dead[c] > 0}

\* The client keeps the promise of MessageDelivery.
ImplementsDelivery == Delivery!FairSpec
=============================================================================
