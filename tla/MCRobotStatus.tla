---------------------------- MODULE MCRobotStatus ----------------------------
(* Instances of RobotStatus for TLC. *)
EXTENDS RobotStatus, TLC

\* Backend processes, and coroutines of one process, are interchangeable.
Symmetric == Permutations(Processes) \cup Permutations(Handlers)
=============================================================================
