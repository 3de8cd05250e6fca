----------------------- MODULE RobotCommandRefinement -----------------------
(* RobotCommand implements CommandLifecycle as long as Redis keeps its keys. *)
EXTENDS RobotCommand

Phase(rec) ==
  CASE rec.status = "ABSENT"       -> "new"
    [] rec.status = "QUEUED"       -> "queued"
    [] rec.status = "AWAITING_ACK" -> "dispatched"
    [] rec.status = "SUCCEEDED"    -> "succeeded"
    [] rec.status = "FAILED"       -> "failed"
    [] rec.status \in {"TIMED_OUT", "CANCELLED"} -> "abandoned"

Lifecycle == INSTANCE CommandLifecycle WITH
  Nobody <- NoCommand,
  holder <- active,
  phase  <- [c \in Commands |-> Phase(records[c])],
  tries  <- [c \in Commands |-> records[c].attempt],
  place  <- position.by

\* The service keeps the promise of CommandLifecycle: one accepted command, one
\* outcome, bounded tries, and a place changed by completed commands only.
ImplementsLifecycle == Lifecycle!Spec
=============================================================================
