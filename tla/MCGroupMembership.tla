-------------------------- MODULE MCGroupMembership --------------------------
(* Instances of GroupMembership for TLC. *)
EXTENDS GroupMembership, TLC

\* Requests in progress are interchangeable.
Symmetric == Permutations(Requests)
=============================================================================
