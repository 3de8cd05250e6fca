--------------------------- MODULE MCRobotCommand ---------------------------
(* RobotCommand on small instances.  Command identifiers are interchangeable, *)
(* and so are requests and consumers, so the safety runs use their symmetry.  *)
EXTENDS RobotCommandRefinement, TLC

Symmetry == Permutations(Commands) \cup Permutations(Workers) \cup Permutations(Submitters)
=============================================================================
