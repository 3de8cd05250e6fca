-------------------------- MODULE CommandLifecycle --------------------------
(***************************************************************************)
(* What the robot-action service promises a caller, without Redis, brokers *)
(* or interleavings: at most one accepted command per robot, a bounded     *)
(* number of attempts, one final outcome, and a confirmed place that only  *)
(* a completed command changes.                                            *)
(***************************************************************************)
EXTENDS Naturals

CONSTANTS Commands, Nobody, MaxAttempts

VARIABLES
  holder,   \* the accepted command, or Nobody
  phase,    \* where each command stands
  tries,    \* attempts each command was allowed so far
  place     \* the command whose target is the confirmed place

lifecycle == <<holder, phase, tries, place>>

Open == {"queued", "dispatched"}
Init ==
  /\ holder = Nobody
  /\ phase = [c \in Commands |-> "new"]
  /\ tries = [c \in Commands |-> 0]
  /\ place = Nobody

Accept(c) ==
  /\ holder = Nobody
  /\ phase[c] = "new"
  /\ holder' = c
  /\ phase' = [phase EXCEPT ![c] = "queued"]
  /\ tries' = [tries EXCEPT ![c] = 1]
  /\ UNCHANGED place

Step(c, from, to) ==
  /\ holder = c
  /\ phase[c] \in from
  /\ phase' = [phase EXCEPT ![c] = to]

Dispatch(c) == Step(c, {"queued"}, "dispatched") /\ UNCHANGED <<holder, tries, place>>

\* The dispatch could not be confirmed; the same attempt is sent again.
Withdraw(c) == Step(c, {"dispatched"}, "queued") /\ UNCHANGED <<holder, tries, place>>

TryAgain(c) ==
  /\ Step(c, {"dispatched"}, "queued")
  /\ tries[c] < MaxAttempts
  /\ tries' = [tries EXCEPT ![c] = @ + 1]
  /\ UNCHANGED <<holder, place>>

Complete(c) ==
  /\ Step(c, {"dispatched"}, "succeeded")
  /\ holder' = Nobody
  /\ place' = c
  /\ UNCHANGED tries

Fail(c) ==
  /\ Step(c, {"dispatched"}, "failed")
  /\ tries[c] = MaxAttempts
  /\ holder' = Nobody
  /\ UNCHANGED <<tries, place>>

\* Timed out or cancelled.
Abandon(c) ==
  /\ Step(c, Open, "abandoned")
  /\ holder' = Nobody
  /\ UNCHANGED <<tries, place>>

Next ==
  \E c \in Commands :
    \/ Accept(c) \/ Dispatch(c) \/ Withdraw(c) \/ TryAgain(c)
    \/ Complete(c) \/ Fail(c) \/ Abandon(c)

Spec == Init /\ [][Next]_lifecycle
=============================================================================
