----------------------------- MODULE MCMapLayout -----------------------------
(* Instances of MapLayout for TLC. *)
EXTENDS MapLayout, TLC

Interval(i, j) == [lo |-> i, hi |-> j]

\* A workspace and its first half.
Workspaces == {Interval(0, 4), Interval(0, 2)}

\* Zones that touch, one of them across the middle.
Areas == {Interval(0, 1), Interval(1, 3)}

\* A station inside the workspace and near its edge, and outside its first half.
Docks == {Interval(2, 3)}

\* Requests in progress are interchangeable.
Symmetry == Permutations(Requests)
=============================================================================
