------------------------ MODULE GroupMembershipProofs ------------------------
(***************************************************************************)
(* Proofs about GroupMembership, for any number of users, requests,        *)
(* invitations and faults.                                                 *)
(***************************************************************************)
EXTENDS GroupMembership, SequenceTheorems, TLAPS

USE MembershipAssumption

-----------------------------------------------------------------------------
(* The hierarchy of roles *)

\* A role has a rank, and nobody ranks above an owner.
LEMMA RankOfRole ==
  ASSUME NEW r \in Roles
  PROVE  Rank(r) \in 1..5 /\ ROLE_HIERACHY[Rank(r)] = r
<1>1. \E i \in 1..5 : ROLE_HIERACHY[i] = r
  BY DEF Roles, ROLE_HIERACHY
<1> QED
  BY <1>1 DEF Rank

LEMMA OwnersRankHighest ==
  ASSUME NEW r \in Roles, NEW own \in Roles, Rank(r) < Rank(own)
  PROVE  r # "OWNER"
<1>1. Rank("OWNER") \in 1..5 /\ ROLE_HIERACHY[Rank("OWNER")] = "OWNER"
  BY RankOfRole DEF Roles
<1>2. Rank("OWNER") = 5
  BY <1>1 DEF ROLE_HIERACHY
<1>3. Rank(own) \in 1..5
  BY RankOfRole
<1> QED
  BY <1>2, <1>3

-----------------------------------------------------------------------------
(***************************************************************************)
(* What a request in progress has established.  The role of a membership   *)
(* and the cached roles depend on it: a request writes what it checked,    *)
(* read or was told some steps before.  Founders are out of reach of an    *)
(* invitation once it is validated, and of a change once the second check  *)
(* has compared their rank with the caller's.                              *)
(***************************************************************************)
Checking == {"authorise", "lookup", "fill"}

Shape(t) ==
  /\ t.place \in Checking => t.op \in {"visit", "invite", "update", "delete"}
  /\ t.round = 2 => t.op \in {"update", "delete"} /\ t.row \in Membership
  /\ t.op = "invite" => t.role \in Invitable
  /\ t.op = "invite" /\ t.place \in {"load", "write"} => t.target \notin Founders
  /\ t.round = 2 /\ t.target \in Founders => t.row.role = "OWNER"
  /\ t.op \in {"update", "delete"} /\ t.place \in {"revoke", "write"} => t.target \notin Founders
  /\ t.op = "update" /\ t.place = "write" => t.role # "OWNER"
  /\ t.place = "fill" => t.own \in held[t.caller]
  /\ t.place = "cache" => t.role \in held[t.target]
  /\ t.place = "store" => t.id \in 1..Len(offers) /\ offers[t.id].member = t.target

AcceptedIsHeld == \A u \in Users : rows[u].status = "ACCEPTED" => rows[u].role \in held[u]

PendingIsMade ==
  \A u \in Users : rows[u].status = "PENDING" => rows[u].invitation \in 1..Len(offers)

(***************************************************************************)
(* The inductive invariant: what holds of PostgreSQL, of Redis, of the     *)
(* requests and of the rest.                                               *)
(***************************************************************************)
DatabaseOK ==
  /\ rows \in [Users -> Membership \cup {Absent}]
  /\ offers \in Seq([member : Users, role : Roles]) /\ Len(offers) <= MaxInvitations
  /\ held \in [Users -> SUBSET Roles] /\ overtaken \subseteq Users
  /\ unindexed \subseteq 1..Len(offers)
  /\ OwnersStay /\ AcceptedIsHeld /\ PendingIsMade /\ PendingAsOffered

RedisOK ==
  /\ stored \subseteq 1..Len(offers)
  /\ pending \in [Users -> 0..Len(offers)]
  /\ cache \in [Users -> Roles \cup {"NONE"}]
  /\ CachedRoleWasHeld /\ OneStoredPerMember

RequestsOK ==
  /\ task \in [Requests -> Task]
  /\ \A s \in Requests : Shape(task[s]) /\ (task[s].place = "fill" => task[s].own # "NONE")

RestOK ==
  /\ expired \subseteq 1..Len(offers) /\ drifted \subseteq Users
  /\ started \in 0..MaxRequests /\ faults \in 0..MaxFaults

Inv == DatabaseOK /\ RedisOK /\ RequestsOK /\ RestOK

LEMMA InvImpliesTypeOK == Inv => TypeOK
BY DEF Inv, DatabaseOK, RedisOK, RequestsOK, RestOK, TypeOK

\* Offers, held roles and lost indices only ever grow.
Grows ==
  /\ \A u \in Users : held[u] \subseteq held'[u]
  /\ unindexed \subseteq unindexed'
  /\ Len(offers) \in Nat /\ Len(offers') \in Nat /\ Len(offers) <= Len(offers')
  /\ \A i \in 1..Len(offers) : offers'[i] = offers[i]

LEMMA IdleShape == Idle \in Task /\ Shape(Idle) /\ Idle.place = "idle" /\ Idle.round = 1
<1>1. (CHOOSE u \in Users : TRUE) \in Users
  OBVIOUS
<1> QED
  BY <1>1 DEF Idle, Task, Shape, Checking, Roles, Absent

LEMMA IdleShapeNext == Shape(Idle)'
BY DEF Idle, Shape, Checking

\* One request moves on, and the others keep what they have established.
LEMMA OneRequestMoves ==
  ASSUME Inv, Grows, NEW s \in Requests, NEW t \in Task, Goto(s, t), Shape(t)',
         t.place = "fill" => t.own # "NONE"
  PROVE  RequestsOK'
<1>1. task' = [task EXCEPT ![s] = t] /\ task \in [Requests -> Task]
  BY DEF Goto, Inv, RequestsOK
<1>2. ASSUME NEW r \in Requests, r # s PROVE Shape(task[r])'
  <2>1. PICK x \in Task : x = task[r]
    BY <1>1
  <2>2. Shape(x)
    BY <2>1 DEF Inv, RequestsOK
  <2>3. x.caller \in Users /\ x.target \in Users
    BY DEF Task
  <2>4. Shape(x)'
    BY <2>2, <2>3 DEF Shape, Grows
  <2>5. task'[r] = x
    BY <1>1, <1>2, <2>1
  <2> QED
    BY <2>4, <2>5 DEF Shape
<1>3. Shape(task[s])'
  <2>1. task'[s] = t
    BY <1>1
  <2> QED
    BY <2>1 DEF Shape
<1> QED
  BY <1>1, <1>2, <1>3 DEF Inv, RequestsOK

\* The requests stay where they are.
LEMMA NoRequestMoves == ASSUME Inv, Grows, UNCHANGED task PROVE RequestsOK'
<1>1. ASSUME NEW r \in Requests PROVE Shape(task[r])'
  <2>1. PICK x \in Task : x = task[r]
    BY DEF Inv, RequestsOK
  <2>2. Shape(x)
    BY <2>1 DEF Inv, RequestsOK
  <2>3. x.caller \in Users /\ x.target \in Users
    BY DEF Task
  <2>4. Shape(x)'
    BY <2>2, <2>3 DEF Shape, Grows
  <2>5. task'[r] = x
    BY <2>1
  <2> QED
    BY <2>4, <2>5 DEF Shape
<1> QED
  BY <1>1 DEF Inv, RequestsOK

LEMMA SameDatabase == ASSUME Inv, UNCHANGED database PROVE Grows /\ DatabaseOK'
BY DEF Inv, DatabaseOK, database, Grows, OwnersStay, AcceptedIsHeld, PendingIsMade, PendingAsOffered

LEMMA SameRedis == ASSUME Inv, Grows, UNCHANGED redis PROVE RedisOK'
<1>1. cache' = cache /\ stored' = stored /\ pending' = pending
  BY DEF redis
<1>2. CachedRoleWasHeld'
  BY <1>1 DEF Inv, RedisOK, CachedRoleWasHeld, Grows
<1>3. OneStoredPerMember'
  BY <1>1 DEF Inv, RedisOK, OneStoredPerMember, Grows
<1> QED
  BY <1>1, <1>2, <1>3 DEF Inv, RedisOK, Grows

LEMMA SameRest ==
  ASSUME Inv, Grows, UNCHANGED <<expired, started, faults>>, drifted' \subseteq Users
  PROVE  RestOK'
BY DEF Inv, RestOK, Grows

\* One membership is written: whoever becomes accepted holds the role from then on.
LEMMA CommitRow ==
  ASSUME Inv, NEW s \in Requests, NEW u \in Users, NEW row \in Membership \cup {Absent},
         Commit(s, u, row)
  PROVE  /\ rows' = [rows EXCEPT ![u] = row] /\ rows' \in [Users -> Membership \cup {Absent}]
         /\ held' \in [Users -> SUBSET Roles]
         /\ \A v \in Users : held[v] \subseteq held'[v]
         /\ row.status = "ACCEPTED" => row.role \in held'[u]
         /\ AcceptedIsHeld' /\ drifted' \subseteq Users
         /\ u \notin Founders /\ row.role # "OWNER" => OwnersStay'
<1>1. /\ rows' = [rows EXCEPT ![u] = row]
      /\ held' = IF row.status = "ACCEPTED" THEN [held EXCEPT ![u] = @ \cup {row.role}] ELSE held
      /\ drifted' \in {drifted, drifted \cup {u}}
  BY DEF Commit, Cross
<1>2. rows \in [Users -> Membership \cup {Absent}] /\ held \in [Users -> SUBSET Roles] /\ drifted \subseteq Users
  BY DEF Inv, DatabaseOK, RestOK
<1>3. row.status = "ACCEPTED" => row.role \in Roles
  BY DEF Membership, Absent
<1>4. /\ held' \in [Users -> SUBSET Roles]
      /\ \A v \in Users : held[v] \subseteq held'[v]
      /\ row.status = "ACCEPTED" => row.role \in held'[u]
  BY <1>1, <1>2, <1>3
<1>5. AcceptedIsHeld'
  <2>1. \A v \in Users : rows'[v] = IF v = u THEN row ELSE rows[v]
    BY <1>1, <1>2
  <2>2. \A v \in Users : rows[v].status = "ACCEPTED" => rows[v].role \in held[v]
    BY DEF Inv, DatabaseOK, AcceptedIsHeld
  <2> QED
    BY <1>4, <2>1, <2>2 DEF AcceptedIsHeld
<1>6. u \notin Founders /\ row.role # "OWNER" => OwnersStay'
  BY <1>1, <1>2 DEF Inv, DatabaseOK, OwnersStay
<1> QED
  BY <1>1, <1>2, <1>4, <1>5, <1>6

\* One membership is written, or deleted, and it is not an open one.
LEMMA CommitClosedRow ==
  ASSUME Inv, NEW s \in Requests, NEW u \in Users \ Founders, NEW row \in Membership \cup {Absent},
         Commit(s, u, row), row.status # "PENDING", row.role # "OWNER",
         UNCHANGED <<offers, overtaken, unindexed>>
  PROVE  /\ Grows /\ DatabaseOK' /\ drifted' \subseteq Users
         /\ row.status = "ACCEPTED" => row.role \in held'[u]
<1>1. /\ rows' = [rows EXCEPT ![u] = row] /\ rows' \in [Users -> Membership \cup {Absent}]
      /\ held' \in [Users -> SUBSET Roles]
      /\ \A v \in Users : held[v] \subseteq held'[v]
      /\ row.status = "ACCEPTED" => row.role \in held'[u]
      /\ AcceptedIsHeld' /\ drifted' \subseteq Users
      /\ OwnersStay'
  BY CommitRow
<1>2. Grows
  BY <1>1 DEF Grows, Inv, DatabaseOK
<1>3. PendingIsMade' /\ PendingAsOffered'
  BY <1>1 DEF PendingIsMade, PendingAsOffered, Inv, DatabaseOK
<1> QED
  BY <1>1, <1>2, <1>3 DEF Inv, DatabaseOK

\* A request that only moves on, and one that is over.
LEMMA Moves ==
  ASSUME Inv, NEW s \in Requests, NEW t \in Task, Goto(s, t), Shape(t),
         t.place = "fill" => t.own # "NONE",
         UNCHANGED <<database, expired, redis, started, drifted, faults>>
  PROVE  Inv'
<1>1. Shape(t)'
  BY DEF Shape, database
<1>2. Grows /\ DatabaseOK'
  BY SameDatabase
<1>3. RedisOK' /\ RestOK'
  BY <1>2, SameRedis, SameRest DEF Inv, RestOK
<1>4. RequestsOK'
  BY <1>1, <1>2, OneRequestMoves
<1> QED
  BY <1>2, <1>3, <1>4 DEF Inv

LEMMA Ends ==
  ASSUME Inv, Grows, NEW s \in Requests, Finish(s)
  PROVE  RequestsOK'
BY IdleShape, IdleShapeNext, OneRequestMoves DEF Finish

LEMMA OnlyEnds ==
  ASSUME Inv, NEW s \in Requests, Finish(s),
         UNCHANGED <<database, expired, redis, started, drifted, faults>>
  PROVE  Inv'
BY IdleShape, Moves DEF Finish

-----------------------------------------------------------------------------
(* The permission check *)

\* What is left of a request when its caller is known to have the role own: it
\* is over, or it goes on with what the rules allow.
LEMMA Decided ==
  ASSUME Inv, NEW s \in Requests, NEW own \in Roles, task[s].place \in Checking, Decide(s, own)
  PROVE  \E t \in Task : Goto(s, t) /\ Shape(t) /\ Shape(t)' /\ t.place # "fill"
<1> PICK t \in Task : t = task[s]
  BY DEF Inv, RequestsOK
<1>1. Shape(t) /\ t.place \in Checking
  BY DEF Inv, RequestsOK
<1>2. \/ Goto(s, Idle)
      \/ /\ AfterCheck(t) # "idle" /\ Entitled(t, own)
         /\ Goto(s, [t EXCEPT !.place = AfterCheck(t), !.own = own])
  BY DEF Decide, Finish
<1>3. CASE Goto(s, Idle)
  <2>1. Idle.place # "fill"
    BY DEF Idle
  <2> QED
    BY <1>3, <2>1, IdleShape, IdleShapeNext
<1>4. ASSUME AfterCheck(t) # "idle", Entitled(t, own),
             Goto(s, [t EXCEPT !.place = AfterCheck(t), !.own = own])
      PROVE  \E x \in Task : Goto(s, x) /\ Shape(x) /\ Shape(x)' /\ x.place # "fill"
  <2>1. t.op \in {"visit", "invite", "update", "delete"} /\ t.round \in {1, 2}
    BY <1>1 DEF Shape, Task
  <2>2. t.op # "visit"
    BY <1>4, <2>1 DEF AfterCheck
  <2>3. \/ t.op = "invite" /\ AfterCheck(t) = "validate"
        \/ t.op \in {"update", "delete"} /\ t.round = 1 /\ AfterCheck(t) = "load"
        \/ t.op = "update" /\ t.round = 2 /\ AfterCheck(t) = "write"
        \/ t.op = "delete" /\ t.round = 2 /\ AfterCheck(t) = "revoke"
    BY <2>1, <2>2 DEF AfterCheck
  <2>4. PICK place \in {"validate", "load", "write", "revoke"} : place = AfterCheck(t)
    BY <2>3
  <2>5. PICK x : x = [t EXCEPT !.place = place, !.own = own]
    OBVIOUS
  <2>51. /\ x \in Task /\ x.place = place /\ x.own = own
         /\ x.op = t.op /\ x.round = t.round /\ x.caller = t.caller /\ x.target = t.target
         /\ x.role = t.role /\ x.row = t.row
    <3>1. place \in {"fill", "validate", "load", "revoke", "write"} /\ own \in Roles \cup {"NONE"}
      OBVIOUS
    <3> QED
      BY ONLY <2>5, <3>1, t \in Task DEF Task
  <2>6. t.round = 2 => t.row.role # "OWNER" /\ (t.op = "update" => t.role # "OWNER")
    <3> SUFFICES ASSUME t.round = 2
                 PROVE  t.row.role # "OWNER" /\ (t.op = "update" => t.role # "OWNER")
      OBVIOUS
    <3>1. t.row.role \in Roles /\ t.role \in Roles /\ t.op # "visit"
      BY <1>1, <2>2 DEF Shape, Membership, Task
    <3>2. Rank(t.row.role) < Rank(own) /\ (t.op = "update" => Rank(t.role) < Rank(own))
      BY <1>4, <3>1 DEF Entitled
    <3> QED
      BY <3>1, <3>2, OwnersRankHighest
  <2>7. Shape(x) /\ Shape(x)'
    BY <1>1, <2>3, <2>4, <2>51, <2>6 DEF Shape, Checking
  <2> QED
    BY <1>4, <2>4, <2>5, <2>51, <2>7
<1> QED
  BY <1>2, <1>3, <1>4

LEMMA CheckCachedRoleInv == ASSUME Inv, NEW s \in Requests, CheckCachedRole(s) PROVE Inv'
<1> PICK t \in Task : t = task[s]
  BY DEF Inv, RequestsOK
<1>1. Shape(t) /\ t.place = "authorise" /\ t.caller \in Users
  BY DEF Inv, RequestsOK, CheckCachedRole, Task
<1>2. cache[t.caller] \in Roles \cup {"NONE"}
  BY <1>1 DEF Inv, RedisOK
<1>3. CASE cache[t.caller] # "NONE"
  <2>1. Decide(s, cache[t.caller])
    BY <1>3 DEF CheckCachedRole
  <2>2. PICK x \in Task : Goto(s, x) /\ Shape(x) /\ Shape(x)' /\ x.place # "fill"
    BY <1>1, <1>2, <1>3, <2>1, Decided DEF Checking
  <2> QED
    BY <2>2, Moves DEF CheckCachedRole
<1>4. CASE cache[t.caller] = "NONE"
  <2> DEFINE x == [t EXCEPT !.place = "lookup"]
  <2>1. Goto(s, x)
    BY <1>4 DEF CheckCachedRole, Proceed
  <2>2. x \in Task /\ Shape(x) /\ x.place # "fill"
    BY <1>1 DEF Task, Shape, Checking
  <2> HIDE DEF x
  <2> QED
    BY <2>1, <2>2, Moves DEF CheckCachedRole
<1> QED
  BY <1>3, <1>4

LEMMA LookUpRoleInv == ASSUME Inv, NEW s \in Requests, LookUpRole(s) PROVE Inv'
<1> PICK t \in Task : t = task[s]
  BY DEF Inv, RequestsOK
<1>1. Shape(t) /\ t.place = "lookup" /\ t.caller \in Users
  BY DEF Inv, RequestsOK, LookUpRole, Task
<1>2. CASE AcceptedMembership(t.caller)
  <2>1. rows[t.caller].role \in held[t.caller] /\ rows[t.caller].role \in Roles
    BY <1>1, <1>2 DEF Inv, DatabaseOK, AcceptedIsHeld, AcceptedMembership, Membership, Absent
  <2>2. PICK own \in Roles : own = rows[t.caller].role
    BY <2>1
  <2>3. PICK x \in Task : x = [t EXCEPT !.place = "fill", !.own = own]
    BY DEF Task
  <2>4. Goto(s, x)
    BY <1>2, <2>2, <2>3 DEF LookUpRole
  <2>5. /\ x.place = "fill" /\ x.own = own /\ x.caller = t.caller /\ x.op = t.op /\ x.row = t.row
        /\ x.round = t.round /\ x.role = t.role /\ x.target = t.target
    BY <2>3 DEF Task
  <2>6. Shape(x) /\ x.own # "NONE"
    BY <1>1, <2>1, <2>2, <2>5 DEF Shape, Checking, Roles
  <2> QED
    BY <2>4, <2>6, Moves DEF LookUpRole
<1>3. CASE ~AcceptedMembership(t.caller)
  <2>1. Goto(s, Idle) /\ Idle.place # "fill"
    BY <1>3 DEF LookUpRole, Finish, Idle
  <2> QED
    BY <2>1, IdleShape, Moves DEF LookUpRole
<1> QED
  BY <1>2, <1>3

\* Redis gets a role its user has held, or forgets the one it has.
LEMMA RoleCached ==
  ASSUME Inv, UNCHANGED database, NEW u \in Users, NEW role \in Roles \cup {"NONE"},
         role = "NONE" \/ role \in held[u],
         cache' = [cache EXCEPT ![u] = role], UNCHANGED <<stored, pending>>
  PROVE  RedisOK'
<1>1. cache' \in [Users -> Roles \cup {"NONE"}]
  BY DEF Inv, RedisOK
<1>2. CachedRoleWasHeld'
  BY DEF Inv, RedisOK, CachedRoleWasHeld, database
<1>3. OneStoredPerMember'
  BY DEF Inv, RedisOK, OneStoredPerMember, database
<1> QED
  BY <1>1, <1>2, <1>3 DEF Inv, RedisOK, database

LEMMA FillRoleInv == ASSUME Inv, NEW s \in Requests, FillRole(s) PROVE Inv'
<1> PICK t \in Task : t = task[s]
  BY DEF Inv, RequestsOK
<1>1. t.place = "fill" /\ t.caller \in Users /\ t.own \in Roles /\ t.own \in held[t.caller]
  BY DEF Inv, RequestsOK, FillRole, Task, Shape
<1>2. Decide(s, t.own)
  BY DEF FillRole
<1>3. PICK x \in Task : Goto(s, x) /\ Shape(x) /\ Shape(x)' /\ x.place # "fill"
  BY <1>1, <1>2, Decided DEF Checking
<1>4. Grows /\ DatabaseOK' /\ RestOK'
  BY SameDatabase, SameRest DEF FillRole, Inv, RestOK
<1>5. RedisOK'
  BY <1>1, <1>4, RoleCached DEF FillRole
<1> QED
  BY <1>3, <1>4, <1>5, OneRequestMoves DEF Inv

LEMMA BeginInv ==
  ASSUME Inv, NEW s \in Requests, NEW c \in Users, NEW u \in Users, NEW r \in Asked \cup {"GUEST"},
         NEW op \in {"visit", "invite", "update", "delete"}, Begin(s, op, c, u, r)
  PROVE  Inv'
<1>1. PICK x : x = [Idle EXCEPT !.op = op, !.place = "authorise", !.caller = c, !.target = u, !.role = r]
  OBVIOUS
<1>2. r \in Roles
  BY DEF Roles
<1>3. /\ x \in Task /\ x.op = op /\ x.place = "authorise" /\ x.role = r /\ x.round = 1
  BY ONLY <1>1, <1>2, IdleShape, c \in Users, u \in Users,
          op \in {"visit", "invite", "update", "delete"} DEF Task
<1>4. op = "invite" => r \in Invitable
  BY DEF Begin
<1>5. Shape(x) /\ Shape(x)'
  BY <1>3, <1>4 DEF Shape, Checking
<1>6. Goto(s, x)
  BY <1>1 DEF Begin
<1>7. Grows /\ DatabaseOK' /\ RedisOK'
  BY SameDatabase, SameRedis DEF Begin
<1>8. RestOK'
  BY <1>7 DEF Begin, Free, Inv, RestOK, Grows, database
<1> QED
  BY <1>3, <1>5, <1>6, <1>7, <1>8, OneRequestMoves DEF Inv

-----------------------------------------------------------------------------
(* invite_group_members *)

LEMMA ValidateInv == ASSUME Inv, NEW s \in Requests, Validate(s) PROVE Inv'
<1> PICK t \in Task : t = task[s]
  BY DEF Inv, RequestsOK
<1>1. Shape(t) /\ t.place = "validate" /\ t.op = "invite" /\ t.target \in Users /\ t.round = 1
  BY DEF Inv, RequestsOK, Validate, At, Task, Shape
<1>2. CASE NotYetMember(t.target)
  <2>1. PICK seen \in Membership \cup {Absent} : seen = rows[t.target]
    BY <1>1 DEF Inv, DatabaseOK
  <2>2. t.target \notin Founders
    BY <1>1, <1>2 DEF NotYetMember, Inv, DatabaseOK, OwnersStay, Accepted
  <2>3. PICK x : x = [t EXCEPT !.place = "load", !.seen = seen]
    OBVIOUS
  <2>4. /\ x \in Task /\ x.place = "load" /\ x.op = t.op /\ x.role = t.role /\ x.target = t.target
        /\ x.round = t.round
    BY ONLY <2>3, t \in Task, seen \in Membership \cup {Absent} DEF Task
  <2>5. Shape(x)
    BY <1>1, <2>2, <2>4 DEF Shape, Checking
  <2>6. Goto(s, x)
    BY <1>2, <2>1, <2>3 DEF Validate
  <2> QED
    BY <2>4, <2>5, <2>6, Moves DEF Validate
<1>3. CASE ~NotYetMember(t.target)
  BY <1>3, OnlyEnds DEF Validate
<1> QED
  BY <1>2, <1>3

LEMMA LoadInvitedInv == ASSUME Inv, NEW s \in Requests, LoadInvited(s) PROVE Inv'
<1> PICK t \in Task : t = task[s]
  BY DEF Inv, RequestsOK
<1>1. Shape(t) /\ t.place = "load" /\ t.op = "invite" /\ t.target \in Users /\ t.round = 1
  BY DEF Inv, RequestsOK, LoadInvited, At, Task, Shape
<1>2. PICK row \in Membership \cup {Absent} : row = rows[t.target]
  BY <1>1 DEF Inv, DatabaseOK
<1>3. PICK x : x = [t EXCEPT !.place = "write", !.row = row]
  OBVIOUS
<1>4. /\ x \in Task /\ x.place = "write" /\ x.op = t.op /\ x.role = t.role /\ x.target = t.target
      /\ x.round = t.round
  BY ONLY <1>3, t \in Task, row \in Membership \cup {Absent} DEF Task
<1>5. Shape(x)
  BY <1>1, <1>4 DEF Shape, Checking
<1>6. Goto(s, x)
  BY <1>2, <1>3 DEF LoadInvited
<1> QED
  BY <1>4, <1>5, <1>6, Moves DEF LoadInvited

\* What is written is a membership below the owner's, open unless the loaded row
\* was open and the stored one is not any more.
LEMMA RefreshedRow ==
  ASSUME NEW t \in Task, NEW id \in Ids, rows[t.target] \in Membership \cup {Absent},
         t.role \in Invitable, (t.row = Absent) <=> (rows[t.target] = Absent),
         rows[t.target].role # "OWNER"
  PROVE  /\ Refreshed(t, id) \in Membership
         /\ Refreshed(t, id).role # "OWNER" /\ Refreshed(t, id).invitation = id
         /\ Refreshed(t, id).status \in {"PENDING", rows[t.target].status}
         /\ t.row = rows[t.target] => Refreshed(t, id).role = t.role
<1>1. PICK old \in Membership \cup {Absent} : old = rows[t.target]
  OBVIOUS
<1>2. PICK row \in Membership \cup {Absent} : row = t.row
  BY DEF Task
<1>3. PICK role \in Roles : role = t.role
  BY DEF Task
<1>4. Absent.role = "NONE" /\ Absent.status = "NONE"
  BY DEF Absent
<1>5. \A m \in Membership : m.role \in Roles /\ m.status \in {"PENDING", "ACCEPTED", "REJECTED"}
  BY DEF Membership
<1>6. row.role = role => row # Absent
  BY <1>4 DEF Roles
<1>7. row.status = "PENDING" => row # Absent
  BY <1>4
<1>8. PICK newRole : newRole = IF row.role = role THEN old.role ELSE role
  OBVIOUS
<1>9. PICK newStatus : newStatus = IF row.status = "PENDING" THEN old.status ELSE "PENDING"
  OBVIOUS
<1>10. newRole \in Roles /\ newRole # "OWNER"
  BY <1>1, <1>2, <1>3, <1>5, <1>6, <1>8 DEF Invitable
<1>11. newStatus \in {"PENDING", "ACCEPTED", "REJECTED"} /\ newStatus \in {"PENDING", old.status}
  BY <1>1, <1>2, <1>5, <1>7, <1>9
<1>12. Refreshed(t, id) = [role |-> newRole, status |-> newStatus, invitation |-> id]
  BY <1>1, <1>2, <1>3, <1>8, <1>9 DEF Refreshed
<1>13. [role |-> newRole, status |-> newStatus, invitation |-> id] \in Membership
  BY <1>10, <1>11 DEF Membership
<1>14. row = old => newRole = role
  BY <1>8
<1> QED
  BY <1>1, <1>2, <1>3, <1>10, <1>11, <1>12, <1>13, <1>14

LEMMA UpsertPendingInv == ASSUME Inv, NEW s \in Requests, UpsertPending(s) PROVE Inv'
<1> PICK t \in Task : t = task[s]
  BY DEF Inv, RequestsOK
<1>1. /\ t.place = "write" /\ t.op = "invite" /\ t.target \in Users \ Founders /\ t.round = 1
      /\ t.role \in Invitable
  BY DEF Inv, RequestsOK, UpsertPending, At, Task, Shape
<1> PICK u \in Users \ Founders : u = t.target
  BY <1>1
<1>2. /\ Len(offers) \in Nat /\ Len(offers) < MaxInvitations
      /\ offers \in Seq([member : Users, role : Roles])
      /\ rows \in [Users -> Membership \cup {Absent}]
  BY DEF UpsertPending, Inv, DatabaseOK
<1> PICK id \in Ids : id = Len(offers) + 1
  BY <1>2 DEF Ids
<1>3. PICK row : row = Refreshed(t, id)
  OBVIOUS
<1>4. rows[u].role # "OWNER" /\ rows[u] \in Membership \cup {Absent}
  BY <1>2 DEF Inv, DatabaseOK, OwnersStay
<1>5. /\ row \in Membership /\ row.role # "OWNER" /\ row.invitation = id
      /\ row.status \in {"PENDING", rows[u].status}
      /\ t.row = rows[u] => row.role = t.role
  BY <1>1, <1>3, <1>4, RefreshedRow DEF UpsertPending
<1>6. Commit(s, u, row)
  BY <1>3 DEF UpsertPending
<1>7. /\ rows' = [rows EXCEPT ![u] = row] /\ rows' \in [Users -> Membership \cup {Absent}]
      /\ held' \in [Users -> SUBSET Roles]
      /\ \A v \in Users : held[v] \subseteq held'[v]
      /\ AcceptedIsHeld' /\ drifted' \subseteq Users /\ OwnersStay'
  BY <1>5, <1>6, CommitRow
<1>8. PICK offer \in [member : Users, role : Roles] : offer = [member |-> u, role |-> t.role]
  BY <1>1 DEF Task
<1>9. /\ offers' = Append(offers, offer)
      /\ overtaken' = IF rows[u] = t.seen /\ t.row = t.seen THEN overtaken ELSE overtaken \cup {u}
  BY <1>8 DEF UpsertPending
<1>10. /\ offers' \in Seq([member : Users, role : Roles])
       /\ Len(offers') = id /\ offers'[id] = offer
       /\ \A i \in 1..Len(offers) : offers'[i] = offers[i]
  BY <1>2, <1>9
<1>11. Grows
  BY <1>2, <1>7, <1>10 DEF Grows, UpsertPending
<1>12. overtaken' \subseteq Users /\ overtaken \subseteq overtaken'
  BY <1>9 DEF Inv, DatabaseOK
<1>13. PendingIsMade'
  BY <1>2, <1>5, <1>7, <1>10 DEF PendingIsMade, Inv, DatabaseOK
<1>14. PendingAsOffered'
  <2> SUFFICES ASSUME NEW v \in Users, v \notin overtaken', rows'[v].status = "PENDING"
               PROVE  /\ offers'[rows'[v].invitation].member = v
                      /\ offers'[rows'[v].invitation].role = rows'[v].role
    BY DEF PendingAsOffered
  <2>1. CASE v = u
    <3>1. rows'[v] = row /\ t.row = rows[u]
      BY <1>2, <1>7, <1>9, <2>1
    <3> QED
      BY <1>5, <1>8, <1>10, <2>1, <3>1
  <2>2. CASE v # u
    <3>1. rows'[v] = rows[v] /\ v \notin overtaken
      BY <1>2, <1>7, <1>12, <2>2
    <3>2. /\ rows[v].invitation \in 1..Len(offers)
          /\ offers[rows[v].invitation].member = v /\ offers[rows[v].invitation].role = rows[v].role
      BY <3>1 DEF Inv, DatabaseOK, PendingIsMade, PendingAsOffered
    <3> QED
      BY <1>10, <3>1, <3>2
  <2> QED
    BY <2>1, <2>2
<1>15. DatabaseOK'
  <2>1. unindexed' = unindexed /\ unindexed \subseteq 1..Len(offers)
    BY DEF UpsertPending, Inv, DatabaseOK
  <2>2. unindexed' \subseteq 1..Len(offers')
    BY <1>2, <1>10, <2>1
  <2> QED
    BY <1>2, <1>7, <1>10, <1>12, <1>13, <1>14, <2>2 DEF DatabaseOK, Ids
<1>16. PICK x : x = [t EXCEPT !.place = "store", !.id = id]
  OBVIOUS
<1>17. /\ x \in Task /\ x.place = "store" /\ x.id = id /\ x.op = t.op /\ x.role = t.role
       /\ x.target = t.target /\ x.round = t.round
  BY ONLY <1>16, t \in Task, id \in Ids DEF Task
<1>18. Shape(x)'
  BY <1>1, <1>2, <1>8, <1>10, <1>17 DEF Shape, Checking
<1>19. Goto(s, x)
  BY <1>16 DEF UpsertPending
<1>20. RequestsOK'
  BY <1>11, <1>17, <1>18, <1>19, OneRequestMoves
<1> QED
  BY <1>7, <1>11, <1>15, <1>20, SameRedis, SameRest DEF UpsertPending, Inv

LEMMA FailUpsertInv == ASSUME Inv, NEW s \in Requests, FailUpsert(s) PROVE Inv'
BY OnlyEnds DEF FailUpsert

LEMMA ReplacePendingInvitationInv ==
  ASSUME Inv, NEW s \in Requests, ReplacePendingInvitation(s) PROVE Inv'
<1> PICK t \in Task : t = task[s]
  BY DEF Inv, RequestsOK
<1>1. /\ t.place = "store" /\ t.target \in Users
      /\ t.id \in 1..Len(offers) /\ offers[t.id].member = t.target
  BY DEF Inv, RequestsOK, ReplacePendingInvitation, At, Task, Shape
<1>2. /\ stored' = (stored \ {pending[t.target]}) \cup {t.id}
      /\ pending' = [pending EXCEPT ![t.target] = t.id]
  BY DEF ReplacePendingInvitation
<1>3. Grows /\ DatabaseOK' /\ RestOK' /\ offers' = offers /\ unindexed' = unindexed
  BY SameDatabase, SameRest DEF ReplacePendingInvitation, Inv, RestOK, database
<1>4. stored' \subseteq 1..Len(offers') /\ pending' \in [Users -> 0..Len(offers')]
  <2>1. Len(offers) \in Nat /\ t.id \in 0..Len(offers)
    BY <1>1, <1>3 DEF Grows
  <2>2. stored' \subseteq 1..Len(offers')
    BY <1>1, <1>2, <1>3 DEF Inv, RedisOK
  <2>3. pending' \in [Users -> 0..Len(offers)]
    BY <1>2, <2>1 DEF Inv, RedisOK
  <2> QED
    BY <1>3, <2>2, <2>3
<1>5. OneStoredPerMember'
  <2> SUFFICES ASSUME NEW id \in stored' \ unindexed PROVE pending'[offers[id].member] = id
    BY <1>3 DEF OneStoredPerMember
  <2>1. CASE id = t.id
    BY <1>1, <1>2, <2>1 DEF Inv, RedisOK
  <2>2. CASE id # t.id
    <3>1. id \in stored /\ id # pending[t.target] /\ pending[offers[id].member] = id
      BY <1>2, <2>2 DEF Inv, RedisOK, OneStoredPerMember
    <3>2. offers[id].member # t.target
      BY <3>1
    <3> QED
      BY <1>2, <3>1, <3>2 DEF Inv, RedisOK
  <2> QED
    BY <2>1, <2>2
<1>6. CachedRoleWasHeld' /\ cache' = cache
  BY DEF ReplacePendingInvitation, Inv, RedisOK, CachedRoleWasHeld, database
<1>7. RedisOK'
  BY <1>4, <1>5, <1>6 DEF Inv, RedisOK
<1> QED
  BY <1>3, <1>7, Ends DEF ReplacePendingInvitation, Inv

-----------------------------------------------------------------------------
(* update_group_member and delete_group_member *)

LEMMA LoadTargetInv == ASSUME Inv, NEW s \in Requests, LoadTarget(s) PROVE Inv'
<1> PICK t \in Task : t = task[s]
  BY DEF Inv, RequestsOK
<1>1. t.op \in {"update", "delete"} /\ t.place = "load" /\ t.target \in Users
  BY DEF Inv, RequestsOK, LoadTarget, Task
<1>2. PICK row \in Membership \cup {Absent} : row = rows[t.target]
  BY <1>1 DEF Inv, DatabaseOK
<1>3. CASE row # Absent /\ (t.op = "update" => row.status = "ACCEPTED")
  <2>1. PICK x : x = [t EXCEPT !.place = "authorise", !.round = 2, !.own = "NONE", !.row = row]
    OBVIOUS
  <2>2. /\ x \in Task /\ x.place = "authorise" /\ x.op = t.op /\ x.round = 2 /\ x.row = row
        /\ x.target = t.target
    BY ONLY <2>1, t \in Task, row \in Membership \cup {Absent} DEF Task
  <2>3. t.target \in Founders => row.role = "OWNER"
    BY <1>2 DEF Inv, DatabaseOK, OwnersStay, Accepted
  <2>4. Shape(x)
    BY <1>1, <1>3, <2>2, <2>3 DEF Shape, Checking
  <2>5. Goto(s, x)
    BY <1>2, <1>3, <2>1 DEF LoadTarget
  <2> QED
    BY <2>2, <2>4, <2>5, Moves DEF LoadTarget
<1>4. CASE ~(row # Absent /\ (t.op = "update" => row.status = "ACCEPTED"))
  BY <1>2, <1>4, OnlyEnds DEF LoadTarget
<1> QED
  BY <1>3, <1>4

\* A request whose target is not a founder goes on to another place.
LEMMA GoesOn ==
  ASSUME NEW t \in Task, Shape(t), NEW place \in {"write", "cache", "evict", "consume"},
         t.op \in {"update", "delete", "accept"}, t.place \notin Checking,
         place = "write" => t.op = "delete" /\ t.place = "revoke"
  PROVE  LET x == [t EXCEPT !.place = place]
         IN  x \in Task /\ (place # "cache" => Shape(x))
<1>1. PICK x : x = [t EXCEPT !.place = place]
  OBVIOUS
<1>2. /\ x \in Task /\ x.place = place /\ x.op = t.op /\ x.round = t.round /\ x.role = t.role
      /\ x.row = t.row /\ x.target = t.target
  BY ONLY <1>1, t \in Task, place \in {"write", "cache", "evict", "consume"} DEF Task
<1>3. place # "cache" => Shape(x)
  BY <1>2 DEF Shape, Checking
<1> QED
  BY <1>1, <1>2, <1>3

LEMMA UpdateRoleInv == ASSUME Inv, NEW s \in Requests, UpdateRole(s) PROVE Inv'
<1> PICK t \in Task : t = task[s]
  BY DEF Inv, RequestsOK
<1>1. /\ Shape(t) /\ t.place = "write" /\ t.op = "update" /\ t.target \in Users \ Founders
      /\ t.role \in Roles \ {"OWNER"}
  BY DEF Inv, RequestsOK, UpdateRole, At, Task, Shape
<1> PICK u \in Users \ Founders : u = t.target
  BY <1>1
<1>2. PICK old \in Membership : old = rows[u] /\ old.status = "ACCEPTED"
  BY DEF UpdateRole, Inv, DatabaseOK, Absent
<1>3. PICK row : row = [old EXCEPT !.role = t.role]
  OBVIOUS
<1>4. row \in Membership /\ row.status = "ACCEPTED" /\ row.role = t.role
  BY <1>1, <1>2, <1>3 DEF Membership
<1>5. Commit(s, u, row)
  BY <1>2, <1>3 DEF UpdateRole
<1>6. Grows /\ DatabaseOK' /\ drifted' \subseteq Users /\ t.role \in held'[u]
  BY <1>1, <1>4, <1>5, CommitClosedRow DEF UpdateRole
<1>7. PICK x : x = [t EXCEPT !.place = "cache"]
  OBVIOUS
<1>8. /\ x \in Task /\ x.place = "cache" /\ x.op = t.op /\ x.round = t.round /\ x.role = t.role
      /\ x.row = t.row /\ x.target = u
  BY ONLY <1>7, t \in Task, u = t.target DEF Task
<1>9. Shape(x)'
  BY <1>1, <1>6, <1>8 DEF Shape, Checking
<1>10. Goto(s, x)
  BY <1>7 DEF UpdateRole, Proceed
<1>11. RequestsOK'
  BY <1>6, <1>8, <1>9, <1>10, OneRequestMoves
<1> QED
  BY <1>6, <1>11, SameRedis, SameRest DEF UpdateRole, Inv

\* An invitation is consumed, with its index unless that names another one.
LEMMA Consumed ==
  ASSUME Inv, NEW u \in Users, NEW id \in Nat, Consume(u, id), UNCHANGED <<database, cache>>
  PROVE  RedisOK'
<1>1. /\ pending' = IF pending[u] = id THEN [pending EXCEPT ![u] = 0] ELSE pending
      /\ stored' = stored \ {id}
  BY DEF Consume
<1>2. offers' = offers /\ unindexed' = unindexed /\ Len(offers) \in Nat
  BY DEF database, Inv, DatabaseOK
<1>3. stored' \subseteq 1..Len(offers') /\ pending' \in [Users -> 0..Len(offers')]
  <2>1. 0 \in 0..Len(offers)
    BY <1>2
  <2> QED
    BY <1>1, <1>2, <2>1 DEF Inv, RedisOK
<1>4. OneStoredPerMember'
  <2> SUFFICES ASSUME NEW i \in stored' \ unindexed PROVE pending'[offers[i].member] = i
    BY <1>2 DEF OneStoredPerMember
  <2>1. i \in stored /\ i # id /\ pending[offers[i].member] = i
    BY <1>1 DEF Inv, RedisOK, OneStoredPerMember
  <2> QED
    BY <1>1, <2>1 DEF Inv, RedisOK
<1>5. CachedRoleWasHeld' /\ cache' = cache
  BY DEF Inv, RedisOK, CachedRoleWasHeld, database
<1> QED
  BY <1>3, <1>4, <1>5 DEF Inv, RedisOK

LEMMA RevokeInvitationInv == ASSUME Inv, NEW s \in Requests, RevokeInvitation(s) PROVE Inv'
<1> PICK t \in Task : t = task[s]
  BY DEF Inv, RequestsOK
<1>1. Shape(t) /\ t.place = "revoke" /\ t.op = "delete" /\ t.target \in Users
  BY DEF Inv, RequestsOK, RevokeInvitation, At, Task
<1>2. Grows /\ DatabaseOK' /\ UNCHANGED <<database, cache>>
  BY SameDatabase DEF RevokeInvitation
<1>3. RedisOK'
  <2>1. CASE t.row.status = "PENDING" /\ t.row.invitation \in stored
    <3>1. t.row.invitation \in 1..Len(offers) /\ Len(offers) \in Nat
      BY <2>1, <1>2 DEF Inv, RedisOK, Grows
    <3>3. t.row.invitation \in Nat
      BY <3>1
    <3>2. Consume(t.target, t.row.invitation)
      BY <2>1 DEF RevokeInvitation
    <3> QED
      BY <1>1, <1>2, <3>3, <3>2, Consumed
  <2>2. CASE ~(t.row.status = "PENDING" /\ t.row.invitation \in stored)
    BY <1>2, <2>2, SameRedis DEF RevokeInvitation, redis
  <2> QED
    BY <2>1, <2>2
<1>4. drifted' \subseteq Users
  BY <1>1 DEF RevokeInvitation, Cross, Inv, RestOK
<1>5. PICK x : x = [t EXCEPT !.place = "write"]
  OBVIOUS
<1>6. x \in Task /\ Shape(x) /\ x.place = "write"
  <2>1. x \in Task /\ Shape(x)
    BY <1>1, <1>5, GoesOn DEF Checking
  <2>2. x.place = "write"
    BY ONLY <1>5, t \in Task DEF Task
  <2> QED
    BY <2>1, <2>2
<1>7. Shape(x)'
  BY <1>2, <1>6 DEF Shape, database
<1>8. Goto(s, x)
  BY <1>5 DEF RevokeInvitation, Proceed
<1>9. RequestsOK'
  BY <1>2, <1>6, <1>7, <1>8, OneRequestMoves
<1> QED
  BY <1>2, <1>3, <1>4, <1>9, SameRest DEF RevokeInvitation, Inv

LEMMA HardDeleteInv == ASSUME Inv, NEW s \in Requests, HardDelete(s) PROVE Inv'
<1> PICK t \in Task : t = task[s]
  BY DEF Inv, RequestsOK
<1>1. Shape(t) /\ t.place = "write" /\ t.op = "delete" /\ t.target \in Users \ Founders
  BY DEF Inv, RequestsOK, HardDelete, At, Task, Shape
<1>2. Absent.status = "NONE" /\ Absent.role = "NONE"
  BY DEF Absent
<1>3. Grows /\ DatabaseOK' /\ drifted' \subseteq Users
  BY <1>1, <1>2, CommitClosedRow DEF HardDelete
<1>4. PICK x : x = [t EXCEPT !.place = "evict"]
  OBVIOUS
<1>5. /\ x \in Task /\ x.place = "evict" /\ x.op = t.op /\ x.round = t.round /\ x.role = t.role
      /\ x.row = t.row /\ x.target = t.target
  BY ONLY <1>4, t \in Task DEF Task
<1>6. Shape(x)'
  BY <1>1, <1>5 DEF Shape, Checking
<1>7. Goto(s, x)
  BY <1>4 DEF HardDelete, Proceed
<1>8. RequestsOK'
  BY <1>3, <1>5, <1>6, <1>7, OneRequestMoves
<1> QED
  BY <1>3, <1>8, SameRedis, SameRest DEF HardDelete, Inv

LEMMA TargetGoneInv == ASSUME Inv, NEW s \in Requests, TargetGone(s) PROVE Inv'
BY OnlyEnds DEF TargetGone

LEMMA EvictRoleInv == ASSUME Inv, NEW s \in Requests, EvictRole(s) PROVE Inv'
<1>1. task[s].target \in Users
  BY DEF Inv, RequestsOK, Task
<1>2. Grows /\ DatabaseOK' /\ RestOK' /\ RedisOK'
  BY <1>1, SameDatabase, SameRest, RoleCached DEF EvictRole, Inv, RestOK
<1> QED
  BY <1>2, Ends DEF EvictRole, Inv

-----------------------------------------------------------------------------
(* validate_group_invitation *)

LEMMA OpenInvitationInv ==
  ASSUME Inv, NEW s \in Requests, NEW id \in stored, OpenInvitation(s, id)
  PROVE  Inv'
<1>1. id \in Ids /\ offers[id].member \in Users
  <2>1. /\ offers \in Seq([member : Users, role : Roles])
        /\ id \in 1..Len(offers) /\ Len(offers) <= MaxInvitations
    BY DEF Inv, RedisOK, DatabaseOK
  <2>2. offers[id] \in [member : Users, role : Roles] /\ Len(offers) \in Nat
    BY <2>1, ElementOfSeq, LenProperties
  <2>3. offers[id].member \in Users
    BY <2>2
  <2>4. MaxInvitations \in Nat
    OBVIOUS
  <2>5. id \in 1..MaxInvitations
    BY <2>1, <2>2, <2>4
  <2> QED
    BY <2>3, <2>5 DEF Ids
<1> PICK u \in Users : u = offers[id].member
  BY <1>1
<1> PICK i \in Ids : i = id
  BY <1>1
<1>2. PICK x : x = [Idle EXCEPT !.op = "accept", !.place = "write", !.caller = u, !.target = u, !.id = i]
  OBVIOUS
<1>3. x \in Task /\ x.op = "accept" /\ x.place = "write" /\ x.round = 1
  BY ONLY <1>2, IdleShape, u \in Users, i \in Ids DEF Task
<1>4. Shape(x)'
  BY <1>3 DEF Shape, Checking
<1>5. Goto(s, x)
  BY <1>2 DEF OpenInvitation
<1>6. Grows /\ DatabaseOK' /\ RedisOK'
  BY SameDatabase, SameRedis DEF OpenInvitation
<1>7. RestOK'
  BY <1>6 DEF OpenInvitation, Free, Inv, RestOK, Grows, database
<1>8. RequestsOK'
  BY <1>3, <1>4, <1>5, <1>6, OneRequestMoves
<1> QED
  BY <1>6, <1>7, <1>8 DEF Inv

LEMMA AcceptPendingInv == ASSUME Inv, NEW s \in Requests, AcceptPending(s) PROVE Inv'
<1> PICK t \in Task : t = task[s]
  BY DEF Inv, RequestsOK
<1>1. Shape(t) /\ t.place = "write" /\ t.op = "accept" /\ t.target \in Users /\ Redeemable(t)
  BY DEF Inv, RequestsOK, AcceptPending, At, Task
<1>2. PICK old \in Membership : old = rows[t.target] /\ old.status = "PENDING"
  BY <1>1 DEF Redeemable, Inv, DatabaseOK, Absent
<1>3. t.target \notin Founders /\ old.role # "OWNER"
  BY <1>1, <1>2 DEF Inv, DatabaseOK, OwnersStay, Accepted
<1>4. PICK u \in Users \ Founders : u = t.target
  BY <1>1, <1>3
<1>5. PICK role \in Roles : role = old.role
  BY DEF Membership
<1>6. PICK row : row = Accepted(role)
  OBVIOUS
<1>7. row \in Membership /\ row.status = "ACCEPTED" /\ row.role = role
  BY <1>6 DEF Accepted, Membership
<1>8. Commit(s, u, row)
  BY <1>2, <1>4, <1>5, <1>6 DEF AcceptPending
<1>9. Grows /\ DatabaseOK' /\ drifted' \subseteq Users /\ role \in held'[u]
  BY <1>3, <1>5, <1>7, <1>8, CommitClosedRow DEF AcceptPending
<1>10. PICK x : x = [t EXCEPT !.place = "cache", !.role = role]
  OBVIOUS
<1>11. /\ x \in Task /\ x.place = "cache" /\ x.op = t.op /\ x.round = t.round /\ x.role = role
       /\ x.row = t.row /\ x.target = u
  BY ONLY <1>4, <1>10, t \in Task, role \in Roles DEF Task
<1>12. Shape(x)'
  BY <1>1, <1>9, <1>11 DEF Shape, Checking
<1>13. Goto(s, x)
  BY <1>2, <1>5, <1>10 DEF AcceptPending
<1>14. RequestsOK'
  BY <1>9, <1>11, <1>12, <1>13, OneRequestMoves
<1> QED
  BY <1>9, <1>14, SameRedis, SameRest DEF AcceptPending, Inv

LEMMA AcceptAgainInv == ASSUME Inv, NEW s \in Requests, AcceptAgain(s) PROVE Inv'
<1> PICK t \in Task : t = task[s]
  BY DEF Inv, RequestsOK
<1>1. Shape(t) /\ t.place = "write" /\ t.op = "accept" /\ t.target \in Users
  BY DEF Inv, RequestsOK, AcceptAgain, At, Task
<1>2. CASE rows[t.target].status = "ACCEPTED"
  <2>1. rows[t.target].role \in held[t.target] /\ held[t.target] \subseteq Roles
    BY <1>1, <1>2 DEF Inv, DatabaseOK, AcceptedIsHeld
  <2>2. PICK role \in Roles : role = rows[t.target].role
    BY <2>1
  <2>3. PICK x : x = [t EXCEPT !.place = "cache", !.role = role]
    OBVIOUS
  <2>4. /\ x \in Task /\ x.place = "cache" /\ x.op = t.op /\ x.round = t.round /\ x.role = role
        /\ x.row = t.row /\ x.target = t.target
    BY ONLY <2>3, t \in Task, role \in Roles DEF Task
  <2>5. Shape(x)
    BY <1>1, <2>1, <2>2, <2>4 DEF Shape, Checking
  <2>6. Goto(s, x)
    BY <1>2, <2>2, <2>3 DEF AcceptAgain
  <2> QED
    BY <2>4, <2>5, <2>6, Moves DEF AcceptAgain
<1>3. CASE rows[t.target].status # "ACCEPTED"
  BY <1>3, OnlyEnds DEF AcceptAgain
<1> QED
  BY <1>2, <1>3

LEMMA CacheRoleInv == ASSUME Inv, NEW s \in Requests, CacheRole(s) PROVE Inv'
<1> PICK t \in Task : t = task[s]
  BY DEF Inv, RequestsOK
<1>1. Shape(t) /\ t.place = "cache" /\ t.target \in Users /\ t.role \in Roles /\ t.role \in held[t.target]
  BY DEF Inv, RequestsOK, CacheRole, Task, Shape
<1>2. Grows /\ DatabaseOK' /\ RestOK' /\ UNCHANGED database
  BY SameDatabase, SameRest DEF CacheRole, Inv, RestOK
<1>3. RedisOK'
  BY <1>1, <1>2, RoleCached DEF CacheRole
<1>4. RequestsOK'
  <2>1. CASE t.op = "accept"
    <3>1. PICK x : x = [t EXCEPT !.place = "consume"]
      OBVIOUS
    <3>2. x \in Task /\ Shape(x)
      BY <1>1, <2>1, <3>1, GoesOn DEF Checking
    <3>3. x.place = "consume"
      BY ONLY <3>1, t \in Task DEF Task
    <3>4. Shape(x)'
      BY <1>2, <3>2 DEF Shape, database
    <3>5. Goto(s, x)
      BY <2>1, <3>1 DEF CacheRole, Proceed
    <3> QED
      BY <1>2, <3>2, <3>3, <3>4, <3>5, OneRequestMoves
  <2>2. CASE t.op # "accept"
    BY <1>2, <2>2, Ends DEF CacheRole
  <2> QED
    BY <2>1, <2>2
<1> QED
  BY <1>2, <1>3, <1>4 DEF Inv

LEMMA ConsumeAcceptedInv == ASSUME Inv, NEW s \in Requests, ConsumeAccepted(s) PROVE Inv'
<1>1. task[s].target \in Users /\ task[s].id \in Nat
  BY DEF Inv, RequestsOK, Task, Ids
<1>2. Grows /\ DatabaseOK' /\ RestOK'
  BY SameDatabase, SameRest DEF ConsumeAccepted, Inv, RestOK
<1>3. RedisOK'
  BY <1>1, Consumed DEF ConsumeAccepted
<1> QED
  BY <1>2, <1>3, Ends DEF ConsumeAccepted, Inv

-----------------------------------------------------------------------------
(* Time, the reconciler and failures *)

LEMMA ExpireInv == ASSUME Inv, NEW id \in Ids, Expire(id) PROVE Inv'
<1>1. Grows /\ DatabaseOK' /\ RedisOK' /\ RequestsOK' /\ offers' = offers
  BY SameDatabase, SameRedis, NoRequestMoves DEF Expire, database
<1>2. RestOK'
  BY <1>1 DEF Expire, Inv, RestOK
<1> QED
  BY <1>1, <1>2 DEF Inv

LEMMA DropInvitationInv == ASSUME Inv, NEW id \in Ids, DropInvitation(id) PROVE Inv'
<1>1. Grows /\ DatabaseOK' /\ RequestsOK' /\ RestOK'
  BY SameDatabase, NoRequestMoves, SameRest DEF DropInvitation, Inv, RestOK
<1>2. offers[id] \in [member : Users, role : Roles]
  <2>1. offers \in Seq([member : Users, role : Roles]) /\ id \in 1..Len(offers)
    BY DEF DropInvitation, Inv, DatabaseOK, RestOK
  <2> QED
    BY <2>1, ElementOfSeq
<1>3. offers[id].member \in Users /\ id \in Nat
  BY <1>2 DEF Ids
<1>4. RedisOK'
  BY <1>3, Consumed DEF DropInvitation
<1> QED
  BY <1>1, <1>4 DEF Inv

LEMMA RejectExpiredInv == ASSUME Inv, RejectExpired PROVE Inv'
<1>1. rows \in [Users -> Membership \cup {Absent}]
  BY DEF Inv, DatabaseOK
<1>2. ASSUME NEW u \in Users
      PROVE  /\ rows'[u] \in Membership \cup {Absent} /\ rows'[u].role = rows[u].role
             /\ \/ rows'[u] = rows[u]
                \/ rows[u].status = "PENDING" /\ rows'[u].status = "REJECTED"
  <2>1. PICK old \in Membership \cup {Absent} : old = rows[u]
    BY <1>1
  <2>2. CASE Due(old)
    <3>1. old \in Membership /\ old.status = "PENDING"
      BY <2>2 DEF Due, Absent
    <3>2. rows'[u] = [old EXCEPT !.status = "REJECTED", !.invitation = 0]
      BY <2>1, <2>2 DEF RejectExpired
    <3>3. PICK new : new = [old EXCEPT !.status = "REJECTED", !.invitation = 0]
      OBVIOUS
    <3>4. new \in Membership /\ new.role = old.role /\ new.status = "REJECTED"
      BY ONLY <3>1, <3>3 DEF Membership
    <3> QED
      BY <2>1, <3>1, <3>2, <3>3, <3>4
  <2>3. CASE ~Due(old)
    BY <2>1, <2>3 DEF RejectExpired
  <2> QED
    BY <2>2, <2>3
<1>3. rows' \in [Users -> Membership \cup {Absent}]
  BY <1>2 DEF RejectExpired
<1>4. Grows
  <2>1. UNCHANGED <<held, offers, unindexed>>
    BY DEF RejectExpired
  <2>2. Len(offers) \in Nat
    BY LenProperties DEF Inv, DatabaseOK
  <2> QED
    BY <2>1, <2>2 DEF Grows
<1>5. OwnersStay'
  <2>1. ASSUME NEW u \in Founders PROVE rows'[u] = Accepted("OWNER")
    BY <1>2 DEF OwnersStay, Inv, DatabaseOK, Accepted
  <2>2. ASSUME NEW u \in Users \ Founders PROVE rows'[u].role # "OWNER"
    BY <1>2 DEF OwnersStay, Inv, DatabaseOK
  <2> QED
    BY <2>1, <2>2 DEF OwnersStay
<1>6. AcceptedIsHeld' /\ PendingIsMade' /\ PendingAsOffered'
  <2>1. held' = held /\ offers' = offers /\ overtaken' = overtaken
    BY DEF RejectExpired
  <2>2. \A u \in Users : rows'[u].status \in {"ACCEPTED", "PENDING"} => rows'[u] = rows[u]
    BY <1>2
  <2> QED
    BY <2>1, <2>2 DEF AcceptedIsHeld, PendingIsMade, PendingAsOffered, Inv, DatabaseOK
<1>7. DatabaseOK'
  BY <1>3, <1>5, <1>6 DEF DatabaseOK, Inv, RejectExpired
<1> QED
  BY <1>4, <1>7, SameRedis, SameRest, NoRequestMoves DEF RejectExpired, Inv, RestOK

LEMMA AbandonInv == ASSUME Inv, NEW s \in Requests, Abandon(s) PROVE Inv'
<1>1. Grows /\ DatabaseOK' /\ RedisOK'
  BY SameDatabase, SameRedis DEF Abandon
<1>2. drifted' \subseteq Users
  BY DEF Abandon, Inv, RestOK, RequestsOK, Task
<1>3. faults' \in 0..MaxFaults
  BY DEF Abandon, Fault, Inv, RestOK
<1>4. RestOK'
  BY <1>1, <1>2, <1>3 DEF Abandon, Inv, RestOK, database
<1> QED
  BY <1>1, <1>4, Ends DEF Abandon, Inv

LEMMA ForgetRoleInv == ASSUME Inv, NEW u \in Users, ForgetRole(u) PROVE Inv'
<1>1. Grows /\ DatabaseOK' /\ RequestsOK'
  BY SameDatabase, NoRequestMoves DEF ForgetRole
<1>2. RedisOK'
  BY RoleCached DEF ForgetRole
<1>3. RestOK'
  BY DEF ForgetRole, Fault, Inv, RestOK, database
<1> QED
  BY <1>1, <1>2, <1>3 DEF Inv

\* Redis lets go of an invitation: its index stays.
LEMMA ForgetInvitationInv == ASSUME Inv, NEW id \in Ids, ForgetInvitation(id) PROVE Inv'
<1>1. Grows /\ DatabaseOK' /\ RequestsOK'
  BY SameDatabase, NoRequestMoves DEF ForgetInvitation
<1>2. UNCHANGED <<offers, held, unindexed, pending, cache>> /\ stored' = stored \ {id}
  BY DEF ForgetInvitation, database
<1>3. RedisOK'
  BY <1>2 DEF Inv, RedisOK, CachedRoleWasHeld, OneStoredPerMember
<1>4. offers[id] \in [member : Users, role : Roles]
  <2>1. offers \in Seq([member : Users, role : Roles]) /\ id \in 1..Len(offers)
    BY DEF ForgetInvitation, Inv, DatabaseOK, RedisOK
  <2> QED
    BY <2>1, ElementOfSeq
<1>5. drifted' \subseteq Users /\ faults' \in 0..MaxFaults
  BY <1>4 DEF ForgetInvitation, Fault, Inv, RestOK
<1>6. RestOK'
  BY <1>2, <1>5 DEF ForgetInvitation, Inv, RestOK
<1> QED
  BY <1>1, <1>3, <1>6 DEF Inv

\* Redis lets go of an index: its invitation is one without an index from then on.
LEMMA ForgetIndexInv == ASSUME Inv, NEW u \in Users, ForgetIndex(u) PROVE Inv'
<1>1. /\ UNCHANGED <<rows, offers, held, overtaken, expired, stored, cache, task, started>>
      /\ pending' = [pending EXCEPT ![u] = 0] /\ unindexed' = unindexed \cup {pending[u]}
      /\ drifted' = drifted \cup {u} /\ pending[u] # 0
  BY DEF ForgetIndex
<1>2. Len(offers) \in Nat /\ pending \in [Users -> 0..Len(offers)]
  BY LenProperties DEF Inv, DatabaseOK, RedisOK
<1>3. pending[u] \in 1..Len(offers) /\ pending' \in [Users -> 0..Len(offers)]
  BY <1>1, <1>2
<1>4. Grows /\ RequestsOK'
  BY <1>1, <1>2, NoRequestMoves DEF Grows
<1>5. DatabaseOK'
  BY <1>1, <1>3 DEF Inv, DatabaseOK, OwnersStay, AcceptedIsHeld, PendingIsMade, PendingAsOffered
<1>6. OneStoredPerMember'
  <2> SUFFICES ASSUME NEW id \in stored \ unindexed, id # pending[u] PROVE pending'[offers[id].member] = id
    BY <1>1 DEF OneStoredPerMember
  <2>1. pending[offers[id].member] = id
    BY DEF Inv, RedisOK, OneStoredPerMember
  <2> QED
    BY <1>1, <1>2, <2>1
<1>7. RedisOK'
  BY <1>1, <1>3, <1>6 DEF Inv, RedisOK, CachedRoleWasHeld
<1>8. RestOK'
  BY <1>1 DEF ForgetIndex, Fault, Inv, RestOK
<1> QED
  BY <1>4, <1>5, <1>7, <1>8 DEF Inv

-----------------------------------------------------------------------------
(* The theorems *)

LEMMA InvInit == Init => Inv
<1> SUFFICES ASSUME Init PROVE Inv
  OBVIOUS
<1>1. /\ Accepted("OWNER") \in Membership /\ Accepted("OWNER").role = "OWNER"
      /\ Accepted("OWNER").status = "ACCEPTED" /\ Absent.role = "NONE" /\ Absent.status = "NONE"
  BY DEF Accepted, Membership, Roles, Absent
<1>2. offers = <<>> /\ Len(offers) = 0 /\ MaxInvitations \in Nat /\ MaxRequests \in Nat /\ MaxFaults \in Nat
  BY DEF Init
<1>3. DatabaseOK
  <2>1. rows \in [Users -> Membership \cup {Absent}] /\ OwnersStay
    BY <1>1 DEF Init, OwnersStay
  <2>2. held \in [Users -> SUBSET Roles]
    BY DEF Init, Roles
  <2>3. AcceptedIsHeld /\ PendingIsMade /\ PendingAsOffered
    BY <1>1 DEF Init, AcceptedIsHeld, PendingIsMade, PendingAsOffered
  <2>4. offers \in Seq([member : Users, role : Roles]) /\ Len(offers) <= MaxInvitations
    BY <1>2
  <2> QED
    BY <2>1, <2>2, <2>3, <2>4 DEF DatabaseOK, Init
<1>4. RedisOK
  BY <1>2 DEF Init, RedisOK, CachedRoleWasHeld, OneStoredPerMember, Roles
<1>5. RequestsOK
  BY IdleShape DEF Init, RequestsOK
<1>6. RestOK
  BY <1>2 DEF Init, RestOK
<1> QED
  BY <1>3, <1>4, <1>5, <1>6 DEF Inv

LEMMA InvStep == Inv /\ [Next]_vars => Inv'
<1> SUFFICES ASSUME Inv, [Next]_vars PROVE Inv'
  OBVIOUS
<1>1. ASSUME NEW s \in Requests, NEW c \in Users, NEW u \in Users, NEW r \in Asked \cup {"GUEST"},
             NEW op \in {"visit", "invite", "update", "delete"}, Begin(s, op, c, u, r)
      PROVE  Inv'
  BY <1>1, BeginInv
<1>2. ASSUME NEW s \in Requests, NEW id \in stored, OpenInvitation(s, id) PROVE Inv'
  BY <1>2, OpenInvitationInv
<1>3. ASSUME NEW s \in Requests, Check(s) PROVE Inv'
  BY <1>3, CheckCachedRoleInv, LookUpRoleInv, FillRoleInv DEF Check
<1>4. ASSUME NEW s \in Requests, Invite(s) PROVE Inv'
  BY <1>4, ValidateInv, LoadInvitedInv, UpsertPendingInv, FailUpsertInv, ReplacePendingInvitationInv DEF Invite
<1>5. ASSUME NEW s \in Requests, Manage(s) PROVE Inv'
  BY <1>5, LoadTargetInv, UpdateRoleInv, RevokeInvitationInv, HardDeleteInv, TargetGoneInv, EvictRoleInv DEF Manage
<1>6. ASSUME NEW s \in Requests, Accept(s) PROVE Inv'
  BY <1>6, AcceptPendingInv, AcceptAgainInv, CacheRoleInv, ConsumeAcceptedInv DEF Accept
<1>7. ASSUME NEW s \in Requests, Abandon(s) PROVE Inv'
  BY <1>7, AbandonInv
<1>8. ASSUME NEW id \in Ids, Expire(id) \/ DropInvitation(id) \/ ForgetInvitation(id) PROVE Inv'
  BY <1>8, ExpireInv, DropInvitationInv, ForgetInvitationInv
<1>9. ASSUME RejectExpired PROVE Inv'
  BY <1>9, RejectExpiredInv
<1>10. ASSUME NEW u \in Users, ForgetRole(u) \/ ForgetIndex(u) PROVE Inv'
  BY <1>10, ForgetRoleInv, ForgetIndexInv
<1>11. ASSUME UNCHANGED vars PROVE Inv'
  BY <1>11, SameDatabase, SameRedis, SameRest, NoRequestMoves DEF vars, Inv, RestOK
<1> QED
  BY <1>1, <1>2, <1>3, <1>4, <1>5, <1>6, <1>7, <1>8, <1>9, <1>10, <1>11 DEF Next, Free

\* The invariant holds throughout.
THEOREM InvHolds == Spec => []Inv
BY InvInit, InvStep, PTL DEF Spec

\* Every reachable state is well typed: invitations and indices stay within what
\* was made, and a looked-up role is one.
THEOREM TypeCorrect == Spec => []TypeOK
BY InvHolds, InvImpliesTypeOK, PTL

\* Stale roles in the permission check never cost the group its founders, nor do
\* they give it another owner.
THEOREM GroupKeepsItsOwners == Spec => []OwnersStay
<1>1. Inv => OwnersStay
  BY DEF Inv, DatabaseOK
<1> QED
  BY <1>1, InvHolds, PTL

\* Every role the permission check gets from Redis was its user's role as an
\* accepted member.
THEOREM CacheIsEarned == Spec => []CachedRoleWasHeld
<1>1. Inv => CachedRoleWasHeld
  BY DEF Inv, RedisOK
<1> QED
  BY <1>1, InvHolds, PTL

\* Redis keeps at most one invitation of a member, whatever ran into each other,
\* apart from those whose index it evicted.
THEOREM OneInvitationStored == Spec => []OneStoredPerMember
<1>1. Inv => OneStoredPerMember
  BY DEF Inv, RedisOK
<1> QED
  BY <1>1, InvHolds, PTL

\* An open membership carries the role its invitation promised, unless it was
\* overtaken.
THEOREM OfferIsKept == Spec => []PendingAsOffered
<1>1. Inv => PendingAsOffered
  BY DEF Inv, DatabaseOK
<1> QED
  BY <1>1, InvHolds, PTL

-----------------------------------------------------------------------------
(***************************************************************************)
(* Acceptance.  Of the steps that write a membership only the acceptance   *)
(* itself, and an invitation written over an accepted one, leave it        *)
(* accepted where it was not.                                              *)
(***************************************************************************)
AcceptanceOf(u) ==
  rows[u].status # "ACCEPTED" /\ rows'[u].status = "ACCEPTED" =>
    \E s \in Requests :
      /\ task[s].op = "accept" /\ task'[s] # task[s] /\ task[s].id \notin expired
      /\ offers[task[s].id] = [member |-> u, role |-> rows'[u].role]

\* Whoever a step leaves alone, or leaves with a status it had or another one than
\* accepted, is not accepted by it.
LEMMA NoAcceptance ==
  ASSUME NEW u \in Users,
         rows'[u] = rows[u] \/ rows'[u].status # "ACCEPTED" \/ rows'[u].status = rows[u].status
  PROVE  AcceptanceOf(u)
BY DEF AcceptanceOf

LEMMA AcceptPendingAccepts ==
  ASSUME Inv, NEW s \in Requests, AcceptPending(s), NEW u \in Users \ overtaken
  PROVE  AcceptanceOf(u)
<1> PICK t \in Task : t = task[s]
  BY DEF Inv, RequestsOK
<1>1. t.op = "accept" /\ t.target \in Users /\ Redeemable(t)
  BY DEF AcceptPending, At, Task
<1>2. rows \in [Users -> Membership \cup {Absent}]
  BY DEF Inv, DatabaseOK
<1>3. rows' = [rows EXCEPT ![t.target] = Accepted(rows[t.target].role)]
  BY DEF AcceptPending, Commit
<1>4. CASE u # t.target
  BY <1>2, <1>3, <1>4, NoAcceptance
<1>5. CASE u = t.target
  <2>1. /\ rows[u].status = "PENDING" /\ rows[u].invitation = t.id /\ t.id \notin expired
    BY <1>1, <1>5 DEF Redeemable
  <2>2. /\ t.id \in 1..Len(offers)
        /\ offers[t.id].member = u /\ offers[t.id].role = rows[u].role
    BY <2>1 DEF Inv, DatabaseOK, PendingIsMade, PendingAsOffered
  <2>3. PICK offer \in [member : Users, role : Roles] : offer = offers[t.id]
    BY <2>2, ElementOfSeq DEF Inv, DatabaseOK
  <2>4. rows'[u].role = rows[u].role
    BY <1>2, <1>3, <1>5 DEF Accepted
  <2>5. PICK role : role = rows[u].role
    OBVIOUS
  <2>6. offer.member = u /\ offer.role = role
    BY <2>2, <2>3, <2>5
  <2>7. offer = [member |-> u, role |-> role]
    BY ONLY <2>6, offer \in [member : Users, role : Roles]
  <2>8. task'[s] # t
    <3>1. t.place = "write" /\ t.target \in Users /\ rows[t.target].status = "PENDING"
      BY <1>1 DEF AcceptPending, At, Redeemable
    <3>2. PICK x : x = [t EXCEPT !.place = "cache", !.role = rows[t.target].role]
      OBVIOUS
    <3>3. x.place = "cache"
      BY ONLY <3>2, t \in Task DEF Task
    <3>4. task'[s] = x
      BY <3>2 DEF AcceptPending, Goto, Inv, RequestsOK
    <3> QED
      BY <3>1, <3>3, <3>4
  <2> QED
    BY <1>1, <2>1, <2>3, <2>4, <2>5, <2>7, <2>8 DEF AcceptanceOf
<1> QED
  BY <1>4, <1>5

LEMMA UpsertAcceptsNobody ==
  ASSUME Inv, NEW s \in Requests, UpsertPending(s), NEW u \in Users
  PROVE  AcceptanceOf(u)
<1> PICK t \in Task : t = task[s]
  BY DEF Inv, RequestsOK
<1>1. t.target \in Users \ Founders /\ t.role \in Invitable
  BY DEF Inv, RequestsOK, UpsertPending, At, Task, Shape
<1>2. rows \in [Users -> Membership \cup {Absent}] /\ rows[t.target].role # "OWNER"
  BY <1>1 DEF Inv, DatabaseOK, OwnersStay
<1>3. PICK id \in Ids : id = Len(offers) + 1
  BY LenProperties DEF UpsertPending, Inv, DatabaseOK, Ids
<1>4. rows' = [rows EXCEPT ![t.target] = Refreshed(t, id)]
  BY <1>3 DEF UpsertPending, Commit
<1>5. Refreshed(t, id).status \in {"PENDING", rows[t.target].status}
  BY <1>1, <1>2, RefreshedRow DEF UpsertPending
<1>6. rows'[u] = rows[u] \/ rows'[u].status # "ACCEPTED" \/ rows'[u].status = rows[u].status
  BY <1>2, <1>4, <1>5
<1> QED
  BY <1>6, NoAcceptance

LEMMA UpdateAcceptsNobody ==
  ASSUME Inv, NEW s \in Requests, UpdateRole(s) \/ HardDelete(s), NEW u \in Users
  PROVE  AcceptanceOf(u)
<1>1. rows \in [Users -> Membership \cup {Absent}]
  BY DEF Inv, DatabaseOK
<1>2. Absent.status = "NONE"
  BY DEF Absent
<1>3. rows'[u] = rows[u] \/ rows'[u].status # "ACCEPTED" \/ rows'[u].status = rows[u].status
  <2>1. CASE UpdateRole(s)
    <3>1. /\ rows[task[s].target].status = "ACCEPTED"
          /\ rows' = [rows EXCEPT ![task[s].target] = [rows[task[s].target] EXCEPT !.role = task[s].role]]
      BY <2>1 DEF UpdateRole, Commit
    <3>2. CASE u = task[s].target
      BY <3>1, <3>2
    <3>3. CASE u # task[s].target
      BY <1>1, <3>1, <3>3
    <3> QED
      BY <3>2, <3>3
  <2>2. CASE HardDelete(s)
    BY <1>1, <1>2, <2>2 DEF HardDelete, Commit
  <2> QED
    BY <2>1, <2>2
<1> QED
  BY <1>3, NoAcceptance

\* A member becomes accepted only through an invitation that is current at that
\* moment, with the role it promised.
THEOREM AcceptanceIsAsOffered == Spec => AcceptedAsOffered
<1>1. ASSUME Inv, Next, NEW u \in Users \ overtaken PROVE AcceptanceOf(u)
  <2>1. ASSUME UNCHANGED rows PROVE AcceptanceOf(u)
    BY <2>1, NoAcceptance
  <2>2. ASSUME RejectExpired PROVE AcceptanceOf(u)
    <3>1. CASE Due(rows[u])
      <4>1. PICK old \in Membership : old = rows[u]
        BY <1>1, <3>1 DEF Due, Inv, DatabaseOK, Absent
      <4>2. rows'[u] = [old EXCEPT !.status = "REJECTED", !.invitation = 0]
        <5>1. u \in Users /\ Due(old)
          BY <3>1, <4>1
        <5> QED
          BY <2>2, <4>1, <5>1 DEF RejectExpired
      <4>3. [old EXCEPT !.status = "REJECTED", !.invitation = 0].status = "REJECTED"
        BY ONLY old \in Membership DEF Membership
      <4> QED
        BY <4>2, <4>3, NoAcceptance
    <3>2. CASE ~Due(rows[u])
      <4>1. rows'[u] = rows[u]
        BY <2>2, <3>2 DEF RejectExpired
      <4> QED
        BY <4>1, NoAcceptance
    <3> QED
      BY <3>1, <3>2
  <2>3. ASSUME NEW s \in Requests, Invite(s) \/ Manage(s) \/ Accept(s) PROVE AcceptanceOf(u)
    BY <1>1, <2>1, <2>3, UpsertAcceptsNobody, UpdateAcceptsNobody, AcceptPendingAccepts
    DEF Invite, Manage, Accept, Validate, LoadInvited, FailUpsert, ReplacePendingInvitation,
        LoadTarget, RevokeInvitation, TargetGone, EvictRole, AcceptAgain, CacheRole,
        ConsumeAccepted, database
  <2>4. ASSUME NEW s \in Requests, Check(s) \/ Abandon(s) PROVE AcceptanceOf(u)
    BY <2>1, <2>4 DEF Check, CheckCachedRole, LookUpRole, FillRole, Abandon, database
  <2>5. ASSUME NEW s \in Requests, NEW c \in Users, NEW v \in Users, NEW r, NEW op, Begin(s, op, c, v, r)
        PROVE  AcceptanceOf(u)
    BY <2>1, <2>5 DEF Begin, database
  <2>6. ASSUME NEW s \in Requests, NEW id, OpenInvitation(s, id) PROVE AcceptanceOf(u)
    BY <2>1, <2>6 DEF OpenInvitation, database
  <2>7. ASSUME NEW id, Expire(id) \/ DropInvitation(id) \/ ForgetInvitation(id) PROVE AcceptanceOf(u)
    BY <2>1, <2>7 DEF Expire, DropInvitation, ForgetInvitation, database
  <2>8. ASSUME NEW v, ForgetRole(v) \/ ForgetIndex(v) PROVE AcceptanceOf(u)
    BY <2>1, <2>8 DEF ForgetRole, ForgetIndex, database
  <2> QED
    BY <1>1, <2>2, <2>3, <2>4, <2>5, <2>6, <2>7, <2>8 DEF Next, Free
<1>2. Inv /\ [Next]_vars => [\A u \in Users \ overtaken : AcceptanceOf(u)]_vars
  BY <1>1
<1>3. Inv /\ [Next]_vars =>
        [\A u \in Users \ overtaken :
           rows[u].status # "ACCEPTED" /\ rows'[u].status = "ACCEPTED" =>
             \E s \in Requests :
               /\ task[s].op = "accept" /\ task'[s] # task[s] /\ task[s].id \notin expired
               /\ offers[task[s].id] = [member |-> u, role |-> rows'[u].role]]_vars
  BY <1>2 DEF AcceptanceOf
<1> QED
  BY <1>3, InvHolds, PTL DEF Spec, AcceptedAsOffered

-----------------------------------------------------------------------------
(***************************************************************************)
(* Redis and PostgreSQL.  InvitationsAgree and CacheAgrees speak of a user *)
(* nobody is busy with, and are silent while somebody is.  The             *)
(* strengthening says what every request knows of a user that no race, no  *)
(* failure and no overwriting invitation has touched, and who will write   *)
(* what Redis lacks: a copy that differs has a request that is going to    *)
(* put it right.  A second commit while that request is on its way marks   *)
(* the user as drifted, so what the request knows stays true until then.   *)
(***************************************************************************)
Stored(u) == {id \in stored \ expired : offers[id].member = u}

Redeemables(u) == IF rows[u].status = "PENDING" THEN {rows[u].invitation} \ expired ELSE {}

Granted(u, role) == rows[u].status = "ACCEPTED" /\ rows[u].role = role

\* The membership that a removal has loaded, unless the reconciler rejected it since.
StillLoaded(row, u) ==
  \/ rows[u] = row
  \/ row.status = "PENDING" /\ row.invitation \in expired /\ rows[u].status = "REJECTED"

Storing(t, u) == t.target = u /\ t.place = "store"

Deleting(t, u) == t.target = u /\ t.op = "delete" /\ t.place = "write"

Knows(t, u) ==
  /\ t.place = "fill" /\ t.caller = u => Granted(u, t.own)
  /\ t.place = "cache" /\ t.target = u => Granted(u, t.role)
  /\ t.place = "consume" /\ t.target = u => rows[u].status = "ACCEPTED"
  /\ Storing(t, u) => Redeemables(u) = {t.id} \ expired
  /\ t.op = "delete" /\ t.target = u /\ t.row # Absent /\ t.place # "evict" => StillLoaded(t.row, u)
  /\ Deleting(t, u) => Stored(u) = {}

WritesRole(t, u) == t.target = u /\ t.place \in {"cache", "evict"}

WritesOffer(t, u) ==
  \/ Storing(t, u)
  \/ t.target = u /\ t.op = "accept" /\ t.place \in {"cache", "consume"} /\ Stored(u) \subseteq {t.id}
  \/ Deleting(t, u)

Agreed(u) ==
  /\ \A s \in Requests : Knows(task[s], u)
  /\ cache[u] = "NONE" \/ Granted(u, cache[u]) \/ \E s \in Requests : WritesRole(task[s], u)
  /\ Stored(u) = Redeemables(u) \/ \E s \in Requests : WritesOffer(task[s], u)
  /\ \A j, k \in Requests : ~(Storing(task[j], u) /\ Deleting(task[k], u))

\* Which invitations a membership, an index and a request name.
OfferedTo(id, u) == id # 0 => id \in 1..Len(offers) /\ offers[id].member = u

Traced(t) ==
  /\ t.place = "cache" => t.op \in {"update", "accept"}
  /\ t.place = "consume" => t.op = "accept"
  /\ t.place = "evict" => t.op = "delete"
  /\ t.op = "accept" => OfferedTo(t.id, t.target)
  /\ t.op = "delete" => OfferedTo(t.row.invitation, t.target)
  /\ t.op = "delete" /\ t.place \in {"revoke", "write", "evict"} => t.row # Absent
  /\ t.op = "invite" /\ t.place \in {"load", "write"} => t.seen.status # "ACCEPTED"

Traces ==
  /\ \A u \in Users : OfferedTo(rows[u].invitation, u) /\ OfferedTo(pending[u], u)
  /\ \A s \in Requests : Traced(task[s])

\* An invitation without its index is one of a member whose copies were left to
\* chance: no replacement deletes it.
UnindexedAdrift == \A id \in unindexed : offers[id].member \in drifted

Agreement == Traces /\ UnindexedAdrift /\ \A u \in Users \ (drifted \cup overtaken) : Agreed(u)

\* When nobody is behind, nobody is left to write.
LEMMA AgreementIsVisible == Inv /\ Agreement => InvitationsAgree /\ CacheAgrees
<1> SUFFICES ASSUME Inv, Agreement, NEW u \in Users \ (drifted \cup overtaken),
                    \A s \in Requests : ~Behind(task[s], u)
             PROVE  /\ Stored(u) = Redeemables(u)
                    /\ cache[u] \in {"NONE"} \cup (IF rows[u].status = "ACCEPTED" THEN {rows[u].role} ELSE {})
  BY DEF InvitationsAgree, CacheAgrees, Stored, Redeemables
<1>1. Agreed(u) /\ \A s \in Requests : Traced(task[s])
  BY DEF Agreement, Traces
<1>2. \A s \in Requests : ~WritesRole(task[s], u)
  BY <1>1 DEF WritesRole, Behind, Traced
<1>3. \A s \in Requests : ~WritesOffer(task[s], u)
  BY <1>1 DEF WritesOffer, Storing, Deleting, Behind, Traced
<1> QED
  BY <1>1, <1>2, <1>3 DEF Agreed, Granted

-----------------------------------------------------------------------------
(* What steps keep *)

\* The invitations made so far are only added to.
Extended ==
  /\ Len(offers) \in Nat /\ Len(offers') \in Nat /\ Len(offers) <= Len(offers')
  /\ \A i \in 1..Len(offers) : offers'[i] = offers[i]

LEMMA SameOffers == ASSUME Inv, UNCHANGED offers PROVE Extended
BY LenProperties DEF Inv, DatabaseOK, Extended

LEMMA OffersExtended == ASSUME Inv, [Next]_vars PROVE Extended
<1>1. ASSUME NEW s \in Requests, UpsertPending(s) PROVE Extended
  <2>1. offers \in Seq([member : Users, role : Roles]) /\ task[s].target \in Users /\ task[s].role \in Roles
    BY DEF Inv, DatabaseOK, RequestsOK, Task
  <2>2. offers' = Append(offers, [member |-> task[s].target, role |-> task[s].role])
    BY <1>1 DEF UpsertPending
  <2>3. PICK offer \in [member : Users, role : Roles] : offers' = Append(offers, offer)
    BY <2>1, <2>2
  <2> QED
    BY <2>1, <2>3, AppendProperties, LenProperties DEF Extended
<1>2. (\E s \in Requests : UpsertPending(s)) \/ UNCHANGED offers
  <2>1. ASSUME NEW s \in Requests, Check(s) \/ Invite(s) \/ Manage(s) \/ Accept(s) \/ Abandon(s)
        PROVE  UpsertPending(s) \/ UNCHANGED offers
    BY <2>1 DEF Check, Invite, Manage, Accept, CheckCachedRole, LookUpRole, FillRole, Validate, LoadInvited,
      FailUpsert, ReplacePendingInvitation, LoadTarget, UpdateRole, RevokeInvitation, HardDelete, TargetGone,
      EvictRole, AcceptPending, AcceptAgain, CacheRole, ConsumeAccepted, Abandon, database
  <2> QED
    BY <2>1 DEF Next, Begin, OpenInvitation, Expire, DropInvitation, ForgetInvitation, RejectExpired, ForgetRole,
      ForgetIndex, vars, database
<1> QED
  BY <1>1, <1>2, SameOffers

LEMMA StillOffered ==
  ASSUME Extended, NEW id, NEW u, OfferedTo(id, u)
  PROVE  OfferedTo(id, u)'
<1>1. 1..Len(offers) \subseteq 1..Len(offers')
  BY DEF Extended
<1> QED
  BY <1>1 DEF Extended, OfferedTo

LEMMA StillTraced == ASSUME Extended, NEW t, Traced(t) PROVE Traced(t)'
<1>1. t.op = "accept" => OfferedTo(t.id, t.target)'
  BY StillOffered DEF Traced
<1>2. t.op = "delete" => OfferedTo(t.row.invitation, t.target)'
  BY StillOffered DEF Traced
<1> QED
  BY <1>1, <1>2 DEF Traced

LEMMA SameStored ==
  ASSUME Inv, Extended, UNCHANGED <<stored, expired>>, NEW u
  PROVE  Stored(u)' = Stored(u)
<1>1. \A id \in stored : offers'[id] = offers[id]
  BY DEF Inv, RedisOK, Extended
<1> QED
  BY <1>1 DEF Stored

LEMMA TakenFromStored ==
  ASSUME UNCHANGED <<offers, expired>>, NEW id, stored' = stored \ {id}, NEW u
  PROVE  Stored(u)' = Stored(u) \ {id}
BY DEF Stored

LEMMA Relocated ==
  ASSUME NEW t \in Task,
         NEW place \in {"lookup", "write", "cache", "consume", "evict"}
  PROVE  \E x \in Task :
           /\ x = [t EXCEPT !.place = place] /\ x.place = place
           /\ x.op = t.op /\ x.caller = t.caller /\ x.target = t.target /\ x.id = t.id /\ x.role = t.role
           /\ x.seen = t.seen /\ x.row = t.row
<1> PICK x : x = [t EXCEPT !.place = place]
  OBVIOUS
<1>1. x \in Task /\ x.place = place
  BY DEF Task
<1>2. /\ x.op = t.op /\ x.caller = t.caller /\ x.target = t.target /\ x.id = t.id /\ x.role = t.role
      /\ x.seen = t.seen /\ x.row = t.row
  BY DEF Task
<1> QED
  BY <1>1, <1>2

\* An idle request knows nothing and writes nothing.
LEMMA IdleKnows == ASSUME NEW u PROVE Idle \in Task /\ Idle.place = "idle" /\ Idle.op = "none"
                                      /\ Traced(Idle)' /\ Knows(Idle, u)' /\ ~Storing(Idle, u) /\ ~Deleting(Idle, u)
<1>1. Idle \in Task /\ Idle.place = "idle" /\ Idle.op = "none"
  BY IdleShape DEF Idle
<1> QED
  BY <1>1 DEF Traced, Knows, Storing, Deleting

\* One request moves from its task to x.
LEMMA TracesMove ==
  ASSUME Inv, Traces, Extended, NEW s \in Requests, NEW x \in Task, Goto(s, x), Traced(x)',
         \A u \in Users : rows'[u].invitation \in {rows[u].invitation, 0} \/ OfferedTo(rows[u].invitation, u)',
         \A u \in Users : pending'[u] \in {pending[u], 0} \/ OfferedTo(pending[u], u)'
  PROVE  Traces'
<1>1. task' = [task EXCEPT ![s] = x] /\ task \in [Requests -> Task]
  BY DEF Goto, Inv, RequestsOK
<1>2. ASSUME NEW j \in Requests PROVE Traced(task[j])'
  <2>1. CASE j = s
    BY <1>1, <2>1 DEF Traced, OfferedTo
  <2>2. CASE j # s
    <3>1. PICK t \in Task : t = task[j] /\ t = task'[j]
      BY <1>1, <2>2
    <3>2. Traced(t)'
      BY <3>1, StillTraced DEF Traces
    <3> QED
      BY <3>1, <3>2 DEF Traced, OfferedTo
  <2> QED
    BY <2>1, <2>2
<1>3. ASSUME NEW u \in Users PROVE OfferedTo(rows[u].invitation, u)' /\ OfferedTo(pending[u], u)'
  <2>1. OfferedTo(rows[u].invitation, u) /\ OfferedTo(pending[u], u)
    BY DEF Traces
  <2>2. \A id : OfferedTo(id, u) => OfferedTo(id, u)'
    BY StillOffered
  <2>3. \A id \in {rows[u].invitation, pending[u], 0} : OfferedTo(id, u)'
    BY <2>1, <2>2 DEF OfferedTo
  <2> QED
    BY <2>3 DEF OfferedTo
<1> QED
  BY <1>2, <1>3 DEF Traces

LEMMA AgreedMove ==
  ASSUME Inv, NEW u \in Users, Agreed(u), NEW s \in Requests, NEW x \in Task, Goto(s, x), Knows(x, u)',
         rows'[u] = rows[u], expired' = expired,
         Stored(u)' \subseteq Stored(u) \/ \A j \in Requests \ {s} : ~Deleting(task[j], u),
         \/ cache'[u] = cache[u] /\ (WritesRole(task[s], u) => WritesRole(x, u))
         \/ cache'[u] = "NONE" \/ Granted(u, cache'[u]),
         \/ Stored(u)' = Redeemables(u)
         \/ WritesOffer(x, u)'
         \/ Stored(u)' \subseteq Stored(u) /\ \E j \in Requests \ {s} : WritesOffer(task[j], u)
         \/ Stored(u)' = Stored(u) /\ ~WritesOffer(task[s], u),
         Storing(x, u) => \A j \in Requests \ {s} : ~Deleting(task[j], u),
         Deleting(x, u) => \A j \in Requests \ {s} : ~Storing(task[j], u)
  PROVE  Agreed(u)'
<1>1. /\ task' = [task EXCEPT ![s] = x] /\ task \in [Requests -> Task] /\ task'[s] = x
      /\ \A j \in Requests \ {s} : task'[j] = task[j]
  BY DEF Goto, Inv, RequestsOK
<1>2. Redeemables(u)' = Redeemables(u) /\ \A r : Granted(u, r)' <=> Granted(u, r)
  BY DEF Redeemables, Granted
<1>3. ASSUME NEW j \in Requests PROVE Knows(task[j], u)'
  <2>1. CASE j = s
    BY <1>1, <2>1 DEF Knows, Granted, StillLoaded, Redeemables, Stored, Storing, Deleting
  <2>2. CASE j # s
    <3>1. PICK t \in Task : t = task[j] /\ t = task'[j]
      BY <1>1, <2>2
    <3>2. Knows(t, u)
      BY <3>1 DEF Agreed
    <3>3. Deleting(t, u) => Stored(u)' = {}
      BY <2>2, <3>1, <3>2 DEF Knows
    <3>4. Knows(t, u)'
      BY <1>2, <3>2, <3>3 DEF Knows, StillLoaded, Storing, Deleting
    <3> QED
      BY <3>1, <3>4 DEF Knows, Granted, StillLoaded, Redeemables, Stored, Storing, Deleting
  <2> QED
    BY <2>1, <2>2
<1>4. (cache[u] = "NONE" \/ Granted(u, cache[u]) \/ \E j \in Requests : WritesRole(task[j], u))'
  <2>1. CASE cache'[u] = "NONE"
    BY <2>1
  <2>2. CASE Granted(u, cache'[u])
    BY <1>2, <2>2 DEF Granted
  <2>3. CASE cache'[u] = cache[u] /\ (WritesRole(task[s], u) => WritesRole(x, u))
    <3>1. CASE cache[u] = "NONE" \/ Granted(u, cache[u])
      BY <2>3, <3>1 DEF Granted
    <3>2. ASSUME NEW j \in Requests, WritesRole(task[j], u) PROVE \E k \in Requests : WritesRole(task'[k], u)
      BY <1>1, <2>3, <3>2
    <3> QED
      BY <2>3, <3>1, <3>2 DEF Agreed, WritesRole
  <2> QED
    BY <2>1, <2>2, <2>3
<1>5. (Stored(u) = Redeemables(u) \/ \E j \in Requests : WritesOffer(task[j], u))'
  <2>1. CASE Stored(u)' = Redeemables(u)
    BY <1>2, <2>1
  <2>2. CASE WritesOffer(x, u)'
    BY <1>1, <2>2 DEF WritesOffer, Storing, Deleting, Stored
  <2>3. ASSUME Stored(u)' \subseteq Stored(u), NEW j \in Requests \ {s}, WritesOffer(task[j], u)
        PROVE  \E k \in Requests : WritesOffer(task[k], u)'
    <3>1. PICK t \in Task : t = task[j] /\ t = task'[j]
      BY <1>1
    <3>2. WritesOffer(t, u)'
      BY <2>3, <3>1 DEF WritesOffer, Storing, Deleting
    <3> QED
      BY <3>1, <3>2 DEF WritesOffer, Storing, Deleting, Stored
  <2>4. CASE Stored(u)' = Stored(u) /\ ~WritesOffer(task[s], u)
    <3>1. Stored(u) = Redeemables(u) \/ \E j \in Requests \ {s} : WritesOffer(task[j], u)
      BY <2>4 DEF Agreed
    <3> QED
      BY <1>2, <2>3, <2>4, <3>1
  <2> QED
    BY <2>1, <2>2, <2>3, <2>4
<1>6. (\A j, k \in Requests : ~(Storing(task[j], u) /\ Deleting(task[k], u)))'
  <2>1. ~(Storing(x, u) /\ Deleting(x, u))
    BY DEF Storing, Deleting
  <2>2. \A j, k \in Requests : ~(Storing(task'[j], u) /\ Deleting(task'[k], u))
    BY <1>1, <2>1 DEF Agreed
  <2> QED
    BY <2>2 DEF Storing, Deleting
<1> QED
  BY <1>3, <1>4, <1>5, <1>6 DEF Agreed

\* The request that commits is the only one behind: nobody else knows or writes anything.
LEMMA AgreedAlone ==
  ASSUME Inv, Traces, NEW u \in Users, NEW s \in Requests, NEW x \in Task, Goto(s, x),
         \A j \in Requests \ {s} : ~Behind(task[j], u), Knows(x, u)',
         cache'[u] = "NONE" \/ Granted(u, cache[u])' \/ WritesRole(x, u),
         Stored(u)' = Redeemables(u)' \/ WritesOffer(x, u)'
  PROVE  Agreed(u)'
<1>1. /\ task' = [task EXCEPT ![s] = x] /\ task \in [Requests -> Task] /\ task'[s] = x
      /\ \A j \in Requests \ {s} : task'[j] = task[j]
  BY DEF Goto, Inv, RequestsOK
<1>2. ASSUME NEW j \in Requests \ {s}
      PROVE  Knows(task[j], u)' /\ ~Storing(task'[j], u) /\ ~Deleting(task'[j], u)
  <2>1. PICK t \in Task : t = task[j] /\ t = task'[j]
    BY <1>1
  <2>2. ~Behind(t, u) /\ Traced(t)
    BY <2>1 DEF Traces
  <2>3. ~Storing(t, u) /\ ~Deleting(t, u) /\ Knows(t, u)'
    BY <2>2 DEF Behind, Traced, Storing, Deleting, Knows
  <2> QED
    BY <2>1, <2>3 DEF Knows, Granted, StillLoaded, Redeemables, Stored, Storing, Deleting
<1>3. Knows(task[s], u)'
  BY <1>1 DEF Knows, Granted, StillLoaded, Redeemables, Stored, Storing, Deleting
<1>4. (cache[u] = "NONE" \/ Granted(u, cache[u]) \/ \E j \in Requests : WritesRole(task[j], u))'
  BY <1>1 DEF WritesRole
<1>5. (Stored(u) = Redeemables(u) \/ \E j \in Requests : WritesOffer(task[j], u))'
  BY <1>1 DEF WritesOffer, Storing, Deleting, Stored
<1>6. ~(Storing(x, u) /\ Deleting(x, u))
  BY DEF Storing, Deleting
<1>7. \A j, k \in Requests : ~(Storing(task'[j], u) /\ Deleting(task'[k], u))
  BY <1>1, <1>2, <1>6
<1>8. (\A j, k \in Requests : ~(Storing(task[j], u) /\ Deleting(task[k], u)))'
  BY <1>7 DEF Storing, Deleting
<1> QED
  BY <1>2, <1>3, <1>4, <1>5, <1>8 DEF Agreed

LEMMA NobodyElse ==
  ASSUME Inv, Traces, NEW u \in Users, Agreed(u), NEW s \in Requests, Cross(s, u), u \notin drifted'
  PROVE  /\ \A j \in Requests \ {s} : ~Behind(task[j], u)
         /\ cache[u] = "NONE" \/ Granted(u, cache[u]) \/ WritesRole(task[s], u)
         /\ Stored(u) = Redeemables(u) \/ WritesOffer(task[s], u)
<1>1. \A j \in Requests \ {s} : ~Behind(task[j], u)
  BY DEF Cross
<1>2. \A j \in Requests \ {s} : ~WritesRole(task[j], u) /\ ~WritesOffer(task[j], u)
  BY <1>1 DEF Behind, Traces, Traced, WritesRole, WritesOffer, Storing, Deleting
<1> QED
  BY <1>1, <1>2 DEF Agreed

-----------------------------------------------------------------------------
(* One step of a request *)

AgreementKept ==
  Traces' /\ \A u \in Users \ (drifted' \cup overtaken') : Agreed(u) => Agreed(u)'

\* A request that is not about to write anything of its target to Redis.
Passive(t) == t.place \notin {"store", "cache", "consume", "evict"} /\ ~(t.op = "delete" /\ t.place = "write")

LEMMA QuietMove ==
  ASSUME Inv, Traces, NEW s \in Requests, NEW x \in Task, Goto(s, x), UNCHANGED <<database, expired, redis>>,
         Passive(task[s]), Passive(x) \/ x.place = "cache", Traced(x)', \A u \in Users : Agreed(u) => Knows(x, u)'
  PROVE  AgreementKept
<1>1. /\ UNCHANGED <<rows, offers, overtaken, held, expired, stored, pending, cache>>
      /\ Extended
  BY SameOffers DEF database, redis
<1>2. Traces'
  BY <1>1, TracesMove
<1>3. ASSUME NEW u \in Users, Agreed(u) PROVE Agreed(u)'
  <2>1. Stored(u)' = Stored(u)
    BY <1>1, SameStored
  <2>2. ~WritesRole(task[s], u) /\ ~WritesOffer(task[s], u) /\ ~Storing(x, u) /\ ~Deleting(x, u)
    BY DEF Passive, WritesRole, WritesOffer, Storing, Deleting
  <2> QED
    BY <1>1, <1>3, <2>1, <2>2, AgreedMove
<1> QED
  BY <1>2, <1>3 DEF AgreementKept

LEMMA QuietEnd ==
  ASSUME Inv, Traces, NEW s \in Requests, Finish(s), UNCHANGED <<database, expired, redis>>, Passive(task[s])
  PROVE  AgreementKept
BY IdleKnows, QuietMove DEF Finish, Passive

\* What the permission check leaves of a request: nothing, or the same request.
Follows(t, x) ==
  \/ x = Idle
  \/ /\ x.op = t.op /\ x.target = t.target /\ x.id = t.id /\ x.row = t.row
     /\ x.place \in {"lookup", "validate", "load", "write", "revoke"}
     /\ x.place = "load" => x.op # "invite"
     /\ x.place = "write" => x.op = "update"
     /\ x.place = "revoke" => x.row # Absent

LEMMA FollowerIsPassive == ASSUME NEW t, NEW x, Follows(t, x) PROVE Passive(x)
BY IdleKnows DEF Follows, Passive

LEMMA FollowerIsTraced ==
  ASSUME Extended, NEW t, NEW x, Follows(t, x), Traced(t)
  PROVE  Traced(x)'
<1>1. CASE x = Idle
  BY <1>1, IdleKnows
<1>2. CASE x # Idle
  <2>1. Traced(t)'
    BY StillTraced
  <2> QED
    BY <1>2, <2>1 DEF Follows, Traced
<1> QED
  BY <1>1, <1>2

LEMMA FollowerKnows ==
  ASSUME NEW t, NEW x, Follows(t, x), t.place \in Checking, NEW u, Knows(t, u),
         UNCHANGED expired, rows'[u] = rows[u]
  PROVE  Knows(x, u)'
<1>1. CASE x = Idle
  BY <1>1, IdleKnows
<1>2. CASE x # Idle
  <2>1. t.place # "evict"
    BY DEF Checking
  <2> QED
    BY <1>2, <2>1 DEF Follows, Knows, StillLoaded, Storing, Deleting
<1> QED
  BY <1>1, <1>2

LEMMA DecidedFollows ==
  ASSUME Inv, NEW s \in Requests, NEW own \in Roles, task[s].place \in Checking, Decide(s, own)
  PROVE  \E x \in Task : Goto(s, x) /\ Follows(task[s], x)
<1> PICK t \in Task : t = task[s]
  BY DEF Inv, RequestsOK
<1>1. Shape(t) /\ t.place \in Checking
  BY DEF Inv, RequestsOK
<1>2. \/ Goto(s, Idle)
      \/ AfterCheck(t) # "idle" /\ Goto(s, [t EXCEPT !.place = AfterCheck(t), !.own = own])
  BY DEF Decide, Finish
<1>3. CASE Goto(s, Idle)
  BY <1>3, IdleKnows DEF Follows
<1>4. CASE AfterCheck(t) # "idle" /\ Goto(s, [t EXCEPT !.place = AfterCheck(t), !.own = own])
  <2>1. t.op \in {"visit", "invite", "update", "delete"} /\ t.round \in {1, 2}
    BY <1>1 DEF Shape, Task
  <2>2. t.op # "visit"
    BY <1>4, <2>1 DEF AfterCheck
  <2>3. \/ t.op = "invite" /\ AfterCheck(t) = "validate"
        \/ t.op \in {"update", "delete"} /\ t.round = 1 /\ AfterCheck(t) = "load"
        \/ t.op = "update" /\ t.round = 2 /\ AfterCheck(t) = "write"
        \/ t.op = "delete" /\ t.round = 2 /\ AfterCheck(t) = "revoke"
    BY <2>1, <2>2 DEF AfterCheck
  <2>4. PICK place \in {"validate", "load", "write", "revoke"} : place = AfterCheck(t)
    BY <2>3
  <2>5. PICK x : x = [t EXCEPT !.place = place, !.own = own]
    OBVIOUS
  <2>6. place \in {"validate", "load", "revoke", "write"} /\ own \in Roles \cup {"NONE"}
    OBVIOUS
  <2>7. /\ x \in Task /\ x.place = place
        /\ x.op = t.op /\ x.target = t.target /\ x.id = t.id /\ x.row = t.row
    BY ONLY <2>5, <2>6, t \in Task DEF Task
  <2>8. t.round = 2 => t.row # Absent
    BY <1>1 DEF Shape, Membership, Absent, Roles
  <2>9. Follows(t, x)
    BY <2>3, <2>4, <2>7, <2>8 DEF Follows
  <2> QED
    BY <1>4, <2>4, <2>5, <2>7, <2>9
<1> QED
  BY <1>2, <1>3, <1>4

LEMMA BeginKeeps ==
  ASSUME Inv, Traces, NEW s \in Requests, NEW c \in Users, NEW u \in Users, NEW r \in Asked \cup {"GUEST"},
         NEW op \in {"visit", "invite", "update", "delete"}, Begin(s, op, c, u, r)
  PROVE  AgreementKept
<1>1. PICK x : x = [Idle EXCEPT !.op = op, !.place = "authorise", !.caller = c, !.target = u, !.role = r]
  OBVIOUS
<1>2. r \in Roles
  BY DEF Roles
<1>3. x \in Task /\ x.op = op /\ x.place = "authorise" /\ x.row = Idle.row
  BY ONLY <1>1, <1>2, IdleShape, c \in Users, u \in Users,
          op \in {"visit", "invite", "update", "delete"} DEF Task
<1>4. x.row = Absent /\ Absent.invitation = 0
  BY <1>3 DEF Idle, Absent
<1>5. Traced(x)' /\ \A v : Knows(x, v)'
  BY <1>3, <1>4 DEF Traced, OfferedTo, Knows, Storing, Deleting
<1> QED
  BY <1>1, <1>3, <1>5, QuietMove DEF Begin, Free, Passive

LEMMA OpenInvitationKeeps ==
  ASSUME Inv, Traces, NEW s \in Requests, NEW id \in stored, OpenInvitation(s, id)
  PROVE  AgreementKept
<1>1. id \in 1..Len(offers) /\ offers[id] \in [member : Users, role : Roles] /\ Len(offers) <= MaxInvitations
  BY ElementOfSeq DEF Inv, RedisOK, DatabaseOK
<1>2. PICK u \in Users : u = offers[id].member
  BY <1>1
<1>3. Len(offers) \in Nat /\ MaxInvitations \in Nat
  BY LenProperties DEF Inv, DatabaseOK
<1>4. PICK i \in Ids : i = id
  BY <1>1, <1>3 DEF Ids
<1>5. PICK x : x = [Idle EXCEPT !.op = "accept", !.place = "write", !.caller = u, !.target = u, !.id = i]
  OBVIOUS
<1>6. x \in Task /\ x.op = "accept" /\ x.place = "write" /\ x.target = u /\ x.id = i
  BY ONLY <1>5, IdleShape, u \in Users, i \in Ids DEF Task
<1>7. UNCHANGED <<database, expired, redis>> /\ UNCHANGED offers /\ task[s].place = "idle"
  BY DEF OpenInvitation, Free, database
<1>8. Traced(x)' /\ \A v : Knows(x, v)'
  BY <1>1, <1>2, <1>4, <1>6, <1>7 DEF Traced, OfferedTo, Knows, Storing, Deleting
<1>9. Goto(s, x)
  BY <1>2, <1>4, <1>5 DEF OpenInvitation
<1> QED
  BY <1>6, <1>7, <1>8, <1>9, QuietMove DEF Passive

LEMMA CheckCachedRoleKeeps == ASSUME Inv, Traces, NEW s \in Requests, CheckCachedRole(s) PROVE AgreementKept
<1> PICK t \in Task : t = task[s]
  BY DEF Inv, RequestsOK
<1>1. t.place = "authorise" /\ t.caller \in Users /\ t.place \in Checking /\ Traced(t)
  BY DEF CheckCachedRole, Task, Checking, Traces
<1>2. PICK x \in Task : Goto(s, x) /\ Follows(t, x)
  <2>1. CASE cache[t.caller] # "NONE"
    <3>1. cache[t.caller] \in Roles
      BY <1>1, <2>1 DEF Inv, RedisOK
    <3>2. Decide(s, cache[t.caller])
      BY <2>1 DEF CheckCachedRole
    <3> QED
      BY <1>1, <3>1, <3>2, DecidedFollows
  <2>2. CASE cache[t.caller] = "NONE"
    <3>1. Goto(s, [t EXCEPT !.place = "lookup"])
      BY <2>2 DEF CheckCachedRole, Proceed
    <3>2. PICK x : x = [t EXCEPT !.place = "lookup"]
      OBVIOUS
    <3>3. x \in Task /\ x.place = "lookup" /\ x.op = t.op /\ x.target = t.target /\ x.id = t.id /\ x.row = t.row
      BY ONLY <3>2, t \in Task DEF Task
    <3>4. Follows(t, x)
      BY <3>3 DEF Follows
    <3> QED
      BY <3>1, <3>2, <3>3, <3>4
  <2> QED
    BY <2>1, <2>2
<1>3. UNCHANGED <<database, expired, redis>> /\ UNCHANGED <<offers, rows>>
  BY DEF CheckCachedRole, database
<1>4. Traced(x)' /\ Passive(x) /\ Passive(t)
  BY <1>1, <1>2, <1>3, SameOffers, FollowerIsTraced, FollowerIsPassive DEF Passive
<1>5. ASSUME NEW u \in Users, Agreed(u) PROVE Knows(x, u)'
  <2>1. Knows(t, u)
    BY <1>5 DEF Agreed
  <2> QED
    BY <1>1, <1>2, <1>3, <2>1, FollowerKnows
<1> QED
  BY <1>2, <1>3, <1>4, <1>5, QuietMove

LEMMA LookUpRoleKeeps == ASSUME Inv, Traces, NEW s \in Requests, LookUpRole(s) PROVE AgreementKept
<1> PICK t \in Task : t = task[s]
  BY DEF Inv, RequestsOK
<1>1. t.place = "lookup" /\ t.caller \in Users /\ Traced(t) /\ Passive(t)
  BY DEF LookUpRole, Task, Traces, Passive
<1>2. UNCHANGED <<database, expired, redis>> /\ UNCHANGED <<offers, rows, expired>>
  BY DEF LookUpRole, database
<1>3. CASE AcceptedMembership(t.caller)
  <2>1. rows[t.caller].role \in Roles
    BY <1>1, <1>3 DEF Inv, DatabaseOK, AcceptedIsHeld, AcceptedMembership
  <2>2. PICK own \in Roles : own = rows[t.caller].role
    BY <2>1
  <2>3. PICK x : x = [t EXCEPT !.place = "fill", !.own = own]
    OBVIOUS
  <2>4. /\ x \in Task /\ x.place = "fill" /\ x.own = own /\ x.caller = t.caller /\ x.op = t.op /\ x.row = t.row
        /\ x.target = t.target /\ x.id = t.id
    BY ONLY <2>3, t \in Task, own \in Roles DEF Task
  <2>5. Goto(s, x)
    BY <1>3, <2>2, <2>3 DEF LookUpRole
  <2>6. Traced(t)'
    BY <1>1, <1>2, SameOffers, StillTraced
  <2>7. Traced(x)' /\ Passive(x)
    BY <2>4, <2>6 DEF Traced, Passive
  <2>8. ASSUME NEW u \in Users, Agreed(u) PROVE Knows(x, u)'
    <3>1. Knows(t, u)
      BY <2>8 DEF Agreed
    <3>2. Granted(t.caller, own)'
      BY <1>2, <1>3, <2>2 DEF Granted, AcceptedMembership
    <3> QED
      BY <1>1, <1>2, <2>4, <3>1, <3>2 DEF Knows, StillLoaded, Storing, Deleting, Granted
  <2> QED
    BY <1>1, <1>2, <2>4, <2>5, <2>7, <2>8, QuietMove
<1>4. CASE ~AcceptedMembership(t.caller)
  BY <1>1, <1>2, <1>4, QuietEnd DEF LookUpRole
<1> QED
  BY <1>3, <1>4

LEMMA FillRoleKeeps == ASSUME Inv, Traces, NEW s \in Requests, FillRole(s) PROVE AgreementKept
<1> PICK t \in Task : t = task[s]
  BY DEF Inv, RequestsOK
<1>1. /\ t.place = "fill" /\ t.caller \in Users /\ t.place \in Checking /\ t.own \in Roles /\ Traced(t)
  BY DEF FillRole, Inv, RequestsOK, Task, Checking, Traces
<1>2. PICK x \in Task : Goto(s, x) /\ Follows(t, x)
  BY <1>1, DecidedFollows DEF FillRole
<1>3. /\ UNCHANGED <<rows, offers, expired, stored, pending>> /\ cache' = [cache EXCEPT ![t.caller] = t.own]
      /\ cache \in [Users -> Roles \cup {"NONE"}]
  BY DEF FillRole, database, Inv, RedisOK
<1>4. Extended
  BY <1>3, SameOffers
<1>5. Traced(x)' /\ Passive(x)
  BY <1>1, <1>2, <1>4, FollowerIsTraced, FollowerIsPassive
<1>6. Traces'
  BY <1>2, <1>3, <1>4, <1>5, TracesMove
<1>7. ASSUME NEW u \in Users, Agreed(u) PROVE Agreed(u)'
  <2>1. Knows(t, u) /\ Stored(u)' = Stored(u)
    BY <1>3, <1>4, <1>7, SameStored DEF Agreed
  <2>2. Knows(x, u)'
    BY <1>1, <1>2, <1>3, <2>1, FollowerKnows
  <2>3. cache'[u] = cache[u] \/ Granted(u, cache'[u])
    BY <1>1, <1>3, <2>1 DEF Knows
  <2>4. ~WritesRole(t, u) /\ ~WritesOffer(t, u) /\ ~Storing(x, u) /\ ~Deleting(x, u)
    BY <1>1, <1>5 DEF WritesRole, WritesOffer, Storing, Deleting, Passive
  <2> QED
    BY <1>2, <1>3, <1>7, <2>1, <2>2, <2>3, <2>4, AgreedMove
<1> QED
  BY <1>6, <1>7 DEF AgreementKept

LEMMA ValidateKeeps == ASSUME Inv, Traces, NEW s \in Requests, Validate(s) PROVE AgreementKept
<1> PICK t \in Task : t = task[s]
  BY DEF Inv, RequestsOK
<1>1. t.place = "validate" /\ t.op = "invite" /\ t.target \in Users /\ Passive(t)
  BY DEF Validate, At, Task, Passive
<1>2. UNCHANGED <<database, expired, redis>>
  BY DEF Validate
<1>3. CASE NotYetMember(t.target)
  <2>1. PICK seen \in Membership \cup {Absent} : seen = rows[t.target]
    BY <1>1 DEF Inv, DatabaseOK
  <2>2. PICK x : x = [t EXCEPT !.place = "load", !.seen = seen]
    OBVIOUS
  <2>3. x \in Task /\ x.place = "load" /\ x.op = t.op /\ x.seen = seen
    BY ONLY <2>2, t \in Task, seen \in Membership \cup {Absent} DEF Task
  <2>4. Goto(s, x) /\ seen.status # "ACCEPTED"
    BY <1>3, <2>1, <2>2 DEF Validate, NotYetMember
  <2>5. Traced(x)' /\ Passive(x) /\ \A u : Knows(x, u)'
    BY <1>1, <2>3, <2>4 DEF Traced, Passive, Knows, Storing, Deleting
  <2> QED
    BY <1>1, <1>2, <2>3, <2>4, <2>5, QuietMove
<1>4. CASE ~NotYetMember(t.target)
  BY <1>1, <1>2, <1>4, QuietEnd DEF Validate
<1> QED
  BY <1>3, <1>4

LEMMA LoadInvitedKeeps == ASSUME Inv, Traces, NEW s \in Requests, LoadInvited(s) PROVE AgreementKept
<1> PICK t \in Task : t = task[s]
  BY DEF Inv, RequestsOK
<1>1. t.place = "load" /\ t.op = "invite" /\ t.target \in Users /\ Passive(t) /\ Traced(t)
  BY DEF LoadInvited, At, Task, Passive, Traces
<1>2. PICK row \in Membership \cup {Absent} : row = rows[t.target]
  BY <1>1 DEF Inv, DatabaseOK
<1>3. PICK x : x = [t EXCEPT !.place = "write", !.row = row]
  OBVIOUS
<1>4. x \in Task /\ x.place = "write" /\ x.op = t.op /\ x.seen = t.seen
  BY ONLY <1>3, t \in Task, row \in Membership \cup {Absent} DEF Task
<1>5. Traced(x)' /\ Passive(x) /\ \A u : Knows(x, u)'
  BY <1>1, <1>4 DEF Traced, Passive, Knows, Storing, Deleting
<1>6. Goto(s, x)
  BY <1>2, <1>3 DEF LoadInvited
<1> QED
  BY <1>1, <1>4, <1>5, <1>6, QuietMove DEF LoadInvited

LEMMA FailUpsertKeeps == ASSUME Inv, Traces, NEW s \in Requests, FailUpsert(s) PROVE AgreementKept
BY QuietEnd DEF FailUpsert, At, Passive

LEMMA LoadTargetKeeps == ASSUME Inv, Traces, NEW s \in Requests, LoadTarget(s) PROVE AgreementKept
<1> PICK t \in Task : t = task[s]
  BY DEF Inv, RequestsOK
<1>1. t.op \in {"update", "delete"} /\ t.place = "load" /\ t.target \in Users /\ Passive(t)
  BY DEF LoadTarget, Task, Passive
<1>2. PICK row \in Membership \cup {Absent} : row = rows[t.target]
  BY <1>1 DEF Inv, DatabaseOK
<1>3. UNCHANGED <<database, expired, redis>> /\ UNCHANGED <<rows, offers>>
  BY DEF LoadTarget, database
<1>4. CASE row # Absent /\ (t.op = "update" => row.status = "ACCEPTED")
  <2>1. PICK x : x = [t EXCEPT !.place = "authorise", !.round = 2, !.own = "NONE", !.row = row]
    OBVIOUS
  <2>2. x \in Task /\ x.place = "authorise" /\ x.op = t.op /\ x.row = row /\ x.target = t.target
    BY ONLY <2>1, t \in Task, row \in Membership \cup {Absent} DEF Task
  <2>3. Goto(s, x)
    BY <1>2, <1>4, <2>1 DEF LoadTarget
  <2>4. OfferedTo(row.invitation, t.target)'
    BY <1>1, <1>2, <1>3 DEF Traces, OfferedTo
  <2>5. Traced(x)' /\ Passive(x) /\ \A u : Knows(x, u)'
    BY <1>1, <1>2, <1>3, <2>2, <2>4 DEF Traced, Passive, Knows, StillLoaded, Storing, Deleting
  <2> QED
    BY <1>1, <1>3, <2>2, <2>3, <2>5, QuietMove
<1>5. CASE ~(row # Absent /\ (t.op = "update" => row.status = "ACCEPTED"))
  BY <1>1, <1>2, <1>3, <1>5, QuietEnd DEF LoadTarget
<1> QED
  BY <1>4, <1>5

LEMMA AcceptAgainKeeps == ASSUME Inv, Traces, NEW s \in Requests, AcceptAgain(s) PROVE AgreementKept
<1> PICK t \in Task : t = task[s]
  BY DEF Inv, RequestsOK
<1>1. t.op = "accept" /\ t.place = "write" /\ t.target \in Users /\ Passive(t) /\ Traced(t)
  BY DEF AcceptAgain, At, Task, Passive, Traces
<1>2. UNCHANGED <<database, expired, redis>> /\ UNCHANGED <<rows, offers>>
  BY DEF AcceptAgain, database
<1>3. CASE rows[t.target].status = "ACCEPTED"
  <2>1. rows[t.target].role \in Roles
    BY <1>1, <1>3 DEF Inv, DatabaseOK, AcceptedIsHeld
  <2>2. PICK role \in Roles : role = rows[t.target].role
    BY <2>1
  <2>3. PICK x : x = [t EXCEPT !.place = "cache", !.role = role]
    OBVIOUS
  <2>4. /\ x \in Task /\ x.place = "cache" /\ x.op = t.op /\ x.role = role /\ x.target = t.target
        /\ x.id = t.id
    BY ONLY <2>3, t \in Task, role \in Roles DEF Task
  <2>5. Goto(s, x)
    BY <1>3, <2>2, <2>3 DEF AcceptAgain
  <2>6. Traced(t)'
    BY <1>1, <1>2, SameOffers, StillTraced
  <2>7. Traced(x)' /\ \A u : Knows(x, u)'
    BY <1>1, <1>2, <1>3, <2>2, <2>4, <2>6 DEF Traced, Knows, Granted, Storing, Deleting
  <2> QED
    BY <1>1, <1>2, <2>4, <2>5, <2>7, QuietMove
<1>4. CASE rows[t.target].status # "ACCEPTED"
  BY <1>1, <1>2, <1>4, QuietEnd DEF AcceptAgain
<1> QED
  BY <1>3, <1>4

\* A request about somebody else leaves a user as it was.
LEMMA OthersAgree ==
  ASSUME Inv, NEW v \in Users, Agreed(v), NEW s \in Requests, NEW x \in Task, Goto(s, x),
         task[s].target # v, x = Idle \/ (x.target # v /\ x.place # "fill"),
         rows'[v] = rows[v], expired' = expired, cache'[v] = cache[v], Stored(v)' = Stored(v)
  PROVE  Agreed(v)'
<1>1. ~WritesRole(task[s], v) /\ ~WritesOffer(task[s], v)
  BY DEF WritesRole, WritesOffer, Storing, Deleting
<1>2. Knows(x, v)' /\ ~Storing(x, v) /\ ~Deleting(x, v)
  <2>1. CASE x = Idle
    BY <2>1, IdleKnows
  <2>2. CASE x.target # v /\ x.place # "fill"
    BY <2>2 DEF Knows, Storing, Deleting
  <2> QED
    BY <2>1, <2>2
<1> QED
  BY <1>1, <1>2, AgreedMove

LEMMA UpdateRoleKeeps == ASSUME Inv, Traces, NEW s \in Requests, UpdateRole(s) PROVE AgreementKept
<1> PICK t \in Task : t = task[s]
  BY DEF Inv, RequestsOK
<1>1. t.op = "update" /\ t.place = "write" /\ t.target \in Users
  BY DEF UpdateRole, At, Task
<1> PICK u \in Users : u = t.target
  BY <1>1
<1>2. PICK old \in Membership : old = rows[u] /\ old.status = "ACCEPTED"
  BY DEF UpdateRole, Inv, DatabaseOK, Absent
<1>3. PICK row : row = [old EXCEPT !.role = t.role]
  OBVIOUS
<1>4. row.status = "ACCEPTED" /\ row.role = t.role /\ row.invitation = old.invitation
  BY <1>2, <1>3 DEF Membership
<1>5. Commit(s, u, row) /\ UNCHANGED <<offers, expired, stored, pending, cache>>
  BY <1>2, <1>3 DEF UpdateRole, redis
<1>6. rows' = [rows EXCEPT ![u] = row] /\ rows \in [Users -> Membership \cup {Absent}] /\ Cross(s, u)
  BY <1>5 DEF Commit, Inv, DatabaseOK
<1>7. PICK x : x = [t EXCEPT !.place = "cache"]
  OBVIOUS
<1>8. x \in Task /\ x.place = "cache" /\ x.op = t.op /\ x.role = t.role /\ x.target = u
  BY ONLY <1>7, t \in Task, u = t.target DEF Task
<1>9. Goto(s, x)
  BY <1>7 DEF UpdateRole, Proceed
<1>10. Extended
  BY <1>5, SameOffers
<1>11. Traced(x)'
  BY <1>1, <1>8 DEF Traced
<1>12. Traces'
  BY <1>2, <1>4, <1>5, <1>6, <1>8, <1>9, <1>10, <1>11, TracesMove
<1>13. ASSUME NEW v \in Users, Agreed(v), v \notin drifted' PROVE Agreed(v)'
  <2>1. Stored(v)' = Stored(v)
    BY <1>5, <1>10, SameStored
  <2>2. CASE v = u
    <3>1. /\ \A j \in Requests \ {s} : ~Behind(task[j], u)
          /\ Stored(u) = Redeemables(u) \/ WritesOffer(task[s], u)
      BY <1>6, <1>13, <2>2, NobodyElse
    <3>2. ~WritesOffer(task[s], u)
      BY <1>1 DEF WritesOffer, Storing, Deleting
    <3>3. rows'[u] = row
      BY <1>6
    <3>4. Stored(u)' = Redeemables(u)'
      BY <1>2, <1>4, <2>1, <2>2, <3>1, <3>2, <3>3 DEF Redeemables
    <3>5. Knows(x, u)' /\ WritesRole(x, u)
      BY <1>1, <1>4, <1>8, <3>3 DEF Knows, Granted, Storing, Deleting, WritesRole
    <3> QED
      BY <1>8, <1>9, <2>2, <3>1, <3>4, <3>5, AgreedAlone
  <2>3. CASE v # u
    BY <1>5, <1>6, <1>8, <1>9, <1>13, <2>1, <2>3, OthersAgree
  <2> QED
    BY <2>2, <2>3
<1> QED
  BY <1>12, <1>13 DEF AgreementKept

LEMMA HardDeleteKeeps == ASSUME Inv, Traces, NEW s \in Requests, HardDelete(s) PROVE AgreementKept
<1> PICK t \in Task : t = task[s]
  BY DEF Inv, RequestsOK
<1>1. t.op = "delete" /\ t.place = "write" /\ t.target \in Users /\ Traced(t)
  BY DEF HardDelete, At, Task, Traces
<1> PICK u \in Users : u = t.target
  BY <1>1
<1>2. Commit(s, u, Absent) /\ UNCHANGED <<offers, expired, stored, pending, cache>>
  BY DEF HardDelete, redis
<1>3. rows' = [rows EXCEPT ![u] = Absent] /\ rows \in [Users -> Membership \cup {Absent}] /\ Cross(s, u)
  BY <1>2 DEF Commit, Inv, DatabaseOK
<1>4. PICK x : x = [t EXCEPT !.place = "evict"]
  OBVIOUS
<1>5. x \in Task /\ x.place = "evict" /\ x.op = t.op /\ x.target = u /\ x.row = t.row
  BY ONLY <1>4, t \in Task, u = t.target DEF Task
<1>6. Goto(s, x)
  BY <1>4 DEF HardDelete, Proceed
<1>7. Extended
  BY <1>2, SameOffers
<1>8. Traced(x)'
  <2>1. Traced(t)'
    BY <1>1, <1>7, StillTraced
  <2> QED
    BY <1>1, <1>5, <2>1 DEF Traced
<1>9. Traces'
  <2>1. Absent.invitation = 0 /\ \A v \in Users : rows'[v].invitation \in {rows[v].invitation, 0}
    BY <1>3 DEF Absent
  <2> QED
    BY <1>2, <1>5, <1>6, <1>7, <1>8, <2>1, TracesMove
<1>10. ASSUME NEW v \in Users, Agreed(v), v \notin drifted' PROVE Agreed(v)'
  <2>1. Stored(v)' = Stored(v)
    BY <1>2, <1>7, SameStored
  <2>2. CASE v = u
    <3>1. \A j \in Requests \ {s} : ~Behind(task[j], u)
      BY <1>3, <1>10, <2>2, NobodyElse
    <3>2. Stored(u) = {}
      BY <1>1, <1>10, <2>2 DEF Agreed, Knows, Deleting
    <3>3. Redeemables(u)' = {}
      BY <1>3 DEF Redeemables, Absent
    <3>4. Knows(x, u)' /\ WritesRole(x, u)
      BY <1>1, <1>5 DEF Knows, Storing, Deleting, WritesRole
    <3> QED
      BY <1>5, <1>6, <2>1, <2>2, <3>1, <3>2, <3>3, <3>4, AgreedAlone
  <2>3. CASE v # u
    BY <1>2, <1>3, <1>5, <1>6, <1>10, <2>1, <2>3, OthersAgree
  <2> QED
    BY <2>2, <2>3
<1> QED
  BY <1>9, <1>10 DEF AgreementKept

LEMMA AcceptPendingKeeps == ASSUME Inv, Traces, NEW s \in Requests, AcceptPending(s) PROVE AgreementKept
<1> PICK t \in Task : t = task[s]
  BY DEF Inv, RequestsOK
<1>1. t.op = "accept" /\ t.place = "write" /\ t.target \in Users /\ Traced(t)
  BY DEF AcceptPending, At, Task, Traces
<1> PICK u \in Users : u = t.target
  BY <1>1
<1>2. rows[u] \in Membership /\ rows[u].status = "PENDING" /\ rows[u].invitation = t.id /\ t.id \notin expired
  BY DEF AcceptPending, Redeemable, Inv, DatabaseOK, Absent
<1>3. PICK role \in Roles : role = rows[u].role
  BY <1>2 DEF Membership
<1>4. PICK row : row = Accepted(role)
  OBVIOUS
<1>5. row.status = "ACCEPTED" /\ row.role = role /\ row.invitation = 0
  BY <1>4 DEF Accepted
<1>6. Commit(s, u, row) /\ UNCHANGED <<offers, expired, stored, pending, cache>>
  BY <1>3, <1>4 DEF AcceptPending, redis
<1>7. rows' = [rows EXCEPT ![u] = row] /\ rows \in [Users -> Membership \cup {Absent}] /\ Cross(s, u)
  BY <1>6 DEF Commit, Inv, DatabaseOK
<1>8. PICK x : x = [t EXCEPT !.place = "cache", !.role = role]
  OBVIOUS
<1>9. x \in Task /\ x.place = "cache" /\ x.op = t.op /\ x.role = role /\ x.target = u /\ x.id = t.id
  BY ONLY <1>8, t \in Task, u = t.target, role \in Roles DEF Task
<1>10. Goto(s, x)
  BY <1>3, <1>8 DEF AcceptPending
<1>11. Extended
  BY <1>6, SameOffers
<1>12. Traced(x)'
  <2>1. Traced(t)'
    BY <1>1, <1>11, StillTraced
  <2> QED
    BY <1>1, <1>9, <2>1 DEF Traced
<1>13. Traces'
  <2>1. \A v \in Users : rows'[v].invitation \in {rows[v].invitation, 0}
    BY <1>5, <1>7
  <2> QED
    BY <1>6, <1>9, <1>10, <1>11, <1>12, <2>1, TracesMove
<1>14. ASSUME NEW v \in Users, Agreed(v), v \notin drifted' PROVE Agreed(v)'
  <2>1. Stored(v)' = Stored(v)
    BY <1>6, <1>11, SameStored
  <2>2. CASE v = u
    <3>1. /\ \A j \in Requests \ {s} : ~Behind(task[j], u)
          /\ Stored(u) = Redeemables(u) \/ WritesOffer(task[s], u)
      BY <1>7, <1>14, <2>2, NobodyElse
    <3>2. ~WritesOffer(task[s], u)
      BY <1>1 DEF WritesOffer, Storing, Deleting
    <3>3. Stored(u)' = {t.id}
      BY <1>2, <2>1, <2>2, <3>1, <3>2 DEF Redeemables
    <3>4. rows'[u] = row
      BY <1>7
    <3>5. Knows(x, u)' /\ WritesRole(x, u) /\ WritesOffer(x, u)'
      BY <1>1, <1>5, <1>9, <3>3, <3>4 DEF Knows, Granted, Storing, Deleting, WritesRole, WritesOffer
    <3> QED
      BY <1>9, <1>10, <2>2, <3>1, <3>5, AgreedAlone
  <2>3. CASE v # u
    BY <1>6, <1>7, <1>9, <1>10, <1>14, <2>1, <2>3, OthersAgree
  <2> QED
    BY <2>2, <2>3
<1> QED
  BY <1>13, <1>14 DEF AgreementKept

LEMMA UpsertPendingKeeps == ASSUME Inv, Traces, NEW s \in Requests, UpsertPending(s) PROVE AgreementKept
<1> PICK t \in Task : t = task[s]
  BY DEF Inv, RequestsOK
<1>1. /\ t.op = "invite" /\ t.place = "write" /\ t.target \in Users \ Founders /\ Traced(t)
      /\ t.role \in Invitable
  BY DEF UpsertPending, At, Task, Traces, Inv, RequestsOK, Shape
<1> PICK u \in Users : u = t.target
  BY <1>1
<1>2. /\ Len(offers) \in Nat /\ Len(offers) < MaxInvitations /\ MaxInvitations \in Nat
      /\ offers \in Seq([member : Users, role : Roles])
      /\ rows \in [Users -> Membership \cup {Absent}]
  BY LenProperties DEF UpsertPending, Inv, DatabaseOK
<1> PICK id \in Ids : id = Len(offers) + 1
  BY <1>2 DEF Ids
<1>3. PICK row : row = Refreshed(t, id)
  OBVIOUS
<1>4. rows[u].role # "OWNER" /\ rows[u] \in Membership \cup {Absent}
  BY <1>1, <1>2 DEF Inv, DatabaseOK, OwnersStay
<1>5. row.invitation = id /\ (t.row.status = "PENDING" \/ row.status = "PENDING")
      /\ (t.row.status = "PENDING" => row.status = rows[u].status)
  BY <1>3 DEF Refreshed
<1>6. Commit(s, u, row) /\ UNCHANGED <<expired, stored, pending, cache>>
  BY <1>3 DEF UpsertPending, redis
<1>7. rows' = [rows EXCEPT ![u] = row] /\ Cross(s, u)
  BY <1>6 DEF Commit
<1>8. PICK offer \in [member : Users, role : Roles] : offer = [member |-> u, role |-> t.role]
  BY <1>1 DEF Task
<1>9. /\ offers' = Append(offers, offer)
      /\ overtaken' = IF rows[u] = t.seen /\ t.row = t.seen THEN overtaken ELSE overtaken \cup {u}
  BY <1>8 DEF UpsertPending
<1>10. Len(offers') = id /\ offers'[id] = offer /\ \A i \in 1..Len(offers) : offers'[i] = offers[i]
  BY <1>2, <1>9
<1>11. Extended
  BY <1>2, <1>10 DEF Extended
<1>12. OfferedTo(id, u)'
  BY <1>2, <1>8, <1>10 DEF OfferedTo
<1>13. PICK x : x = [t EXCEPT !.place = "store", !.id = id]
  OBVIOUS
<1>14. x \in Task /\ x.place = "store" /\ x.id = id /\ x.op = t.op /\ x.target = u
  BY ONLY <1>13, t \in Task, id \in Ids, u = t.target DEF Task
<1>15. Goto(s, x)
  BY <1>13 DEF UpsertPending
<1>16. Traced(x)'
  BY <1>1, <1>14 DEF Traced
<1>17. Traces'
  <2>1. ASSUME NEW v \in Users PROVE rows'[v].invitation \in {rows[v].invitation, 0} \/ OfferedTo(rows[v].invitation, v)'
    <3>1. CASE v = u
      <4>1. rows'[v].invitation = id
        BY <1>2, <1>5, <1>7, <3>1
      <4> QED
        BY <1>12, <3>1, <4>1 DEF OfferedTo
    <3>2. CASE v # u
      BY <1>2, <1>7, <3>2
    <3> QED
      BY <3>1, <3>2
  <2> QED
    BY <1>6, <1>11, <1>14, <1>15, <1>16, <2>1, TracesMove
<1>18. ASSUME NEW v \in Users, Agreed(v), v \notin drifted', v \notin overtaken' PROVE Agreed(v)'
  <2>1. Stored(v)' = Stored(v)
    BY <1>6, <1>11, SameStored
  <2>2. CASE v = u
    <3>1. /\ \A j \in Requests \ {s} : ~Behind(task[j], u)
          /\ cache[u] = "NONE" \/ Granted(u, cache[u]) \/ WritesRole(task[s], u)
      BY <1>7, <1>18, <2>2, NobodyElse
    <3>2. rows[u] = t.seen /\ t.row = t.seen /\ t.seen.status # "ACCEPTED"
      BY <1>1, <1>9, <1>18, <2>2 DEF Traced
    <3>3. cache[u] = "NONE"
      BY <1>1, <3>1, <3>2 DEF Granted, WritesRole
    <3>4. row.status = "PENDING" /\ rows'[u] = row
      BY <1>2, <1>5, <1>7, <3>2
    <3>5. Redeemables(u)' = {id} \ expired'
      BY <1>5, <3>4 DEF Redeemables
    <3>6. Knows(x, u)' /\ WritesOffer(x, u)'
      BY <1>1, <1>14, <3>5 DEF Knows, Storing, Deleting, WritesOffer
    <3> QED
      BY <1>6, <1>14, <1>15, <2>2, <3>1, <3>3, <3>6, AgreedAlone
  <2>3. CASE v # u
    BY <1>2, <1>6, <1>7, <1>14, <1>15, <1>18, <2>1, <2>3, OthersAgree
  <2> QED
    BY <2>2, <2>3
<1> QED
  BY <1>17, <1>18 DEF AgreementKept

LEMMA ReplacePendingInvitationKeeps ==
  ASSUME Inv, Traces, UnindexedAdrift, NEW s \in Requests, ReplacePendingInvitation(s) PROVE AgreementKept
<1> PICK t \in Task : t = task[s]
  BY DEF Inv, RequestsOK
<1>1. /\ t.op = "invite" /\ t.place = "store" /\ t.target \in Users
      /\ t.id \in 1..Len(offers) /\ offers[t.id].member = t.target
  BY DEF ReplacePendingInvitation, At, Task, Inv, RequestsOK, Shape
<1> PICK u \in Users : u = t.target
  BY <1>1
<1>2. /\ stored' = (stored \ {pending[u]}) \cup {t.id} /\ pending' = [pending EXCEPT ![u] = t.id]
      /\ Goto(s, Idle) /\ UNCHANGED <<rows, offers, overtaken, expired, cache, drifted>>
  BY DEF ReplacePendingInvitation, Finish, database
<1>3. pending \in [Users -> 0..Len(offers)] /\ stored \subseteq 1..Len(offers)
  BY DEF Inv, RedisOK
<1>4. Extended /\ Idle \in Task /\ Traced(Idle)'
  BY <1>2, SameOffers, IdleKnows
<1>5. Traces'
  <2>1. ASSUME NEW v \in Users PROVE pending'[v] \in {pending[v], 0} \/ OfferedTo(pending[v], v)'
    BY <1>1, <1>2, <1>3 DEF OfferedTo
  <2> QED
    BY <1>2, <1>4, <2>1, TracesMove
<1>6. ASSUME NEW v \in Users, Agreed(v), v \notin drifted' PROVE Agreed(v)'
  <2>1. CASE v = u
    <3>1. Redeemables(u) = {t.id} \ expired /\ \A j \in Requests : ~Deleting(task[j], u)
      BY <1>1, <1>6, <2>1 DEF Agreed, Knows, Storing
    <3>2. \A i \in stored : offers[i].member = u => i = pending[u]
      BY <1>2, <1>6, <2>1 DEF Inv, RedisOK, OneStoredPerMember, UnindexedAdrift
    <3>3. Stored(u)' = {t.id} \ expired
      BY <1>1, <1>2, <3>2 DEF Stored
    <3>4. Redeemables(u)' = Redeemables(u)
      BY <1>2 DEF Redeemables
    <3>5. ~WritesRole(task[s], u)
      BY <1>1 DEF WritesRole
    <3> QED
      BY <1>2, <1>4, <1>6, <2>1, <3>1, <3>3, <3>4, <3>5, IdleKnows, AgreedMove
  <2>2. CASE v # u
    <3>1. OfferedTo(pending[u], u)
      BY DEF Traces
    <3>2. Stored(v)' = Stored(v)
      BY <1>1, <1>2, <1>3, <2>2, <3>1 DEF Stored, OfferedTo
    <3> QED
      BY <1>2, <1>4, <1>6, <2>2, <3>2, OthersAgree
  <2> QED
    BY <2>1, <2>2
<1> QED
  BY <1>5, <1>6 DEF AgreementKept

\* An invitation that is consumed was offered to the member it is consumed for.
LEMMA ConsumedFromStored ==
  ASSUME Inv, NEW u \in Users, NEW id, OfferedTo(id, u), Consume(u, id), UNCHANGED <<offers, expired>>
  PROVE  /\ \A v \in Users : pending'[v] \in {pending[v], 0}
         /\ Stored(u)' = Stored(u) \ {id}
         /\ \A v \in Users \ {u} : Stored(v)' = Stored(v)
<1>1. stored' = stored \ {id} /\ pending' = IF pending[u] = id THEN [pending EXCEPT ![u] = 0] ELSE pending
  BY DEF Consume
<1>2. pending \in [Users -> 0..Len(offers)] /\ stored \subseteq 1..Len(offers)
  BY DEF Inv, RedisOK
<1>3. \A v \in Users : Stored(v)' = Stored(v) \ {id}
  BY <1>1, TakenFromStored
<1>4. ASSUME NEW v \in Users \ {u} PROVE id \notin Stored(v)
  BY <1>2 DEF Stored, OfferedTo
<1> QED
  BY <1>1, <1>2, <1>3, <1>4

LEMMA RevokeInvitationKeeps == ASSUME Inv, Traces, NEW s \in Requests, RevokeInvitation(s) PROVE AgreementKept
<1> PICK t \in Task : t = task[s]
  BY DEF Inv, RequestsOK
<1>1. t.op = "delete" /\ t.place = "revoke" /\ t.target \in Users /\ Traced(t) /\ t.row # Absent
  BY DEF RevokeInvitation, At, Task, Traces, Traced
<1> PICK u \in Users : u = t.target
  BY <1>1
<1> PICK id : id = t.row.invitation
  OBVIOUS
<1>2. /\ UNCHANGED <<rows, offers, overtaken, expired, cache>> /\ Cross(s, u)
      /\ IF t.row.status = "PENDING" /\ id \in stored THEN Consume(u, id) ELSE UNCHANGED <<stored, pending>>
  BY DEF RevokeInvitation, database
<1>3. PICK x : x = [t EXCEPT !.place = "write"]
  OBVIOUS
<1>4. x \in Task /\ x.place = "write" /\ x.op = t.op /\ x.target = u /\ x.row = t.row
  BY ONLY <1>3, t \in Task, u = t.target DEF Task
<1>5. Goto(s, x)
  BY <1>3 DEF RevokeInvitation, Proceed
<1>6. Extended
  BY <1>2, SameOffers
<1>7. Traced(x)'
  <2>1. Traced(t)'
    BY <1>1, <1>6, StillTraced
  <2> QED
    BY <1>1, <1>4, <2>1 DEF Traced
<1>8. OfferedTo(id, u)
  BY <1>1 DEF Traced
<1>9. /\ \A v \in Users : pending'[v] \in {pending[v], 0}
      /\ Stored(u)' = IF t.row.status = "PENDING" /\ id \in stored THEN Stored(u) \ {id} ELSE Stored(u)
      /\ \A v \in Users \ {u} : Stored(v)' = Stored(v)
  <2>1. CASE t.row.status = "PENDING" /\ id \in stored
    BY <1>2, <1>8, <2>1, ConsumedFromStored
  <2>2. CASE ~(t.row.status = "PENDING" /\ id \in stored)
    BY <1>2, <1>6, <2>2, SameStored
  <2> QED
    BY <2>1, <2>2
<1>10. Traces'
  BY <1>2, <1>4, <1>5, <1>6, <1>7, <1>9, TracesMove
<1>11. ASSUME NEW v \in Users, Agreed(v), v \notin drifted' PROVE Agreed(v)'
  <2>1. CASE v = u
    <3>1. /\ \A j \in Requests \ {s} : ~Behind(task[j], u)
          /\ cache[u] = "NONE" \/ Granted(u, cache[u]) \/ WritesRole(task[s], u)
          /\ Stored(u) = Redeemables(u) \/ WritesOffer(task[s], u)
      BY <1>2, <1>11, <2>1, NobodyElse
    <3>2. ~WritesOffer(task[s], u) /\ ~WritesRole(task[s], u)
      BY <1>1 DEF WritesOffer, WritesRole, Storing, Deleting
    <3>3. StillLoaded(t.row, u)
      BY <1>1, <1>11, <2>1 DEF Agreed, Knows
    <3>4. Redeemables(u) \subseteq {id}
      BY <3>3 DEF StillLoaded, Redeemables
    <3>5. Redeemables(u) # {} => t.row.status = "PENDING"
      BY <3>3 DEF StillLoaded, Redeemables
    <3>6. Stored(u) \subseteq stored
      BY DEF Stored
    <3>7. Stored(u)' = {}
      BY <1>9, <3>1, <3>2, <3>4, <3>5, <3>6
    <3>8. Knows(x, u)' /\ WritesOffer(x, u)'
      BY <1>1, <1>2, <1>4, <3>3, <3>7 DEF Knows, StillLoaded, Storing, Deleting, WritesOffer
    <3>9. cache'[u] = "NONE" \/ Granted(u, cache[u])'
      BY <1>2, <3>1, <3>2 DEF Granted
    <3> QED
      BY <1>4, <1>5, <2>1, <3>1, <3>8, <3>9, AgreedAlone
  <2>2. CASE v # u
    BY <1>2, <1>4, <1>5, <1>9, <1>11, <2>2, OthersAgree
  <2> QED
    BY <2>1, <2>2
<1> QED
  BY <1>10, <1>11 DEF AgreementKept

LEMMA TargetGoneKeeps == ASSUME Inv, Traces, NEW s \in Requests, TargetGone(s) PROVE AgreementKept
<1> PICK t \in Task : t = task[s]
  BY DEF Inv, RequestsOK
<1>1. /\ t.place = "write" /\ t.target \in Users
      /\ t.op = "update" \/ (t.op = "delete" /\ rows[t.target] = Absent)
      /\ Finish(s) /\ UNCHANGED <<database, expired, redis>>
  BY DEF TargetGone, At, Task
<1>2. ASSUME t.op = "update" PROVE AgreementKept
  <2>1. Passive(task[s])
    BY <1>1, <1>2 DEF Passive
  <2> QED
    BY <1>1, <2>1, QuietEnd
<1>3. CASE t.op = "delete" /\ rows[t.target] = Absent
  <2> PICK u \in Users : u = t.target
    BY <1>1
  <2>1. /\ UNCHANGED <<rows, offers, expired, stored, pending, cache>> /\ Goto(s, Idle)
        /\ Extended /\ Idle \in Task /\ Traced(Idle)'
    BY <1>1, SameOffers, IdleKnows DEF database, redis, Finish
  <2>2. Traces'
    BY <2>1, TracesMove
  <2>3. ASSUME NEW v \in Users, Agreed(v) PROVE Agreed(v)'
    <3>1. Stored(v)' = Stored(v)
      BY <2>1, SameStored
    <3>2. CASE v = u
      <4>1. Stored(u) = {}
        BY <1>1, <1>3, <2>3, <3>2 DEF Agreed, Knows, Deleting
      <4>2. Redeemables(u) = {}
        BY <1>3 DEF Redeemables, Absent
      <4>3. ~WritesRole(task[s], u)
        BY <1>1 DEF WritesRole
      <4> QED
        BY <2>1, <2>3, <3>1, <3>2, <4>1, <4>2, <4>3, IdleKnows, AgreedMove
    <3>3. CASE v # u
      BY <2>1, <2>3, <3>1, <3>3, OthersAgree
    <3> QED
      BY <3>2, <3>3
  <2> QED
    BY <2>2, <2>3 DEF AgreementKept
<1> QED
  BY <1>1, <1>2, <1>3

LEMMA EvictRoleKeeps == ASSUME Inv, Traces, NEW s \in Requests, EvictRole(s) PROVE AgreementKept
<1> PICK t \in Task : t = task[s]
  BY DEF Inv, RequestsOK
<1>1. t.op = "delete" /\ t.place = "evict" /\ t.target \in Users
  BY DEF EvictRole, At, Task
<1> PICK u \in Users : u = t.target
  BY <1>1
<1>2. /\ UNCHANGED <<rows, offers, expired, stored, pending>> /\ Goto(s, Idle)
      /\ cache' = [cache EXCEPT ![u] = "NONE"] /\ cache \in [Users -> Roles \cup {"NONE"}]
      /\ Extended /\ Idle \in Task /\ Traced(Idle)'
  BY SameOffers, IdleKnows DEF EvictRole, database, Finish, Inv, RedisOK
<1>3. Traces'
  BY <1>2, TracesMove
<1>4. ASSUME NEW v \in Users, Agreed(v) PROVE Agreed(v)'
  <2>1. Stored(v)' = Stored(v)
    BY <1>2, SameStored
  <2>2. CASE v = u
    <3>1. ~WritesOffer(task[s], u) /\ cache'[u] = "NONE"
      BY <1>1, <1>2 DEF WritesOffer, Storing, Deleting
    <3> QED
      BY <1>2, <1>4, <2>1, <2>2, <3>1, IdleKnows, AgreedMove
  <2>3. CASE v # u
    BY <1>2, <1>4, <2>1, <2>3, OthersAgree
  <2> QED
    BY <2>2, <2>3
<1> QED
  BY <1>3, <1>4 DEF AgreementKept

LEMMA CacheRoleKeeps == ASSUME Inv, Traces, NEW s \in Requests, CacheRole(s) PROVE AgreementKept
<1> PICK t \in Task : t = task[s]
  BY DEF Inv, RequestsOK
<1>1. t.place = "cache" /\ t.target \in Users /\ Traced(t) /\ t.op \in {"update", "accept"}
  BY DEF CacheRole, Task, Traces, Traced
<1> PICK u \in Users : u = t.target
  BY <1>1
<1>2. /\ UNCHANGED <<rows, offers, expired, stored, pending>>
      /\ cache' = [cache EXCEPT ![u] = t.role] /\ cache \in [Users -> Roles \cup {"NONE"}]
      /\ Extended
  BY SameOffers DEF CacheRole, database, Inv, RedisOK
<1>3. PICK x \in Task :
        /\ Goto(s, x) /\ Traced(x)'
        /\ \/ t.op = "accept" /\ x.op = "accept" /\ x.place = "consume" /\ x.target = u /\ x.id = t.id
           \/ t.op = "update" /\ x = Idle
  <2>1. CASE t.op = "accept"
    <3>1. PICK x : x = [t EXCEPT !.place = "consume"]
      OBVIOUS
    <3>2. x \in Task /\ x.place = "consume" /\ x.op = t.op /\ x.target = u /\ x.id = t.id
      BY ONLY <3>1, t \in Task, u = t.target DEF Task
    <3>3. Goto(s, x)
      BY <2>1, <3>1 DEF CacheRole, Proceed
    <3>4. Traced(t)'
      BY <1>1, <1>2, StillTraced
    <3>5. Traced(x)'
      BY <2>1, <3>2, <3>4 DEF Traced
    <3> QED
      BY <2>1, <3>2, <3>3, <3>5
  <2>2. CASE t.op = "update"
    BY <2>2, IdleKnows DEF CacheRole, Finish
  <2> QED
    BY <1>1, <2>1, <2>2
<1>4. Traces'
  BY <1>2, <1>3, TracesMove
<1>5. ASSUME NEW v \in Users, Agreed(v) PROVE Agreed(v)'
  <2>1. Stored(v)' = Stored(v)
    BY <1>2, SameStored
  <2>2. CASE v = u
    <3>1. Granted(u, t.role) /\ cache'[u] = t.role
      BY <1>1, <1>2, <1>5, <2>2 DEF Agreed, Knows
    <3>2. Knows(x, u)' /\ ~Storing(x, u) /\ ~Deleting(x, u)
      BY <1>2, <1>3, <3>1, IdleKnows DEF Knows, Granted, Storing, Deleting
    <3>3. WritesOffer(x, u)' \/ ~WritesOffer(task[s], u)
      BY <1>1, <1>3, <2>1, <2>2 DEF WritesOffer, Storing, Deleting
    <3> QED
      BY <1>2, <1>3, <1>5, <2>1, <2>2, <3>1, <3>2, <3>3, AgreedMove
  <2>3. CASE v # u
    BY <1>2, <1>3, <1>5, <2>1, <2>3, OthersAgree
  <2> QED
    BY <2>2, <2>3
<1> QED
  BY <1>4, <1>5 DEF AgreementKept

LEMMA ConsumeAcceptedKeeps == ASSUME Inv, Traces, NEW s \in Requests, ConsumeAccepted(s) PROVE AgreementKept
<1> PICK t \in Task : t = task[s]
  BY DEF Inv, RequestsOK
<1>1. t.op = "accept" /\ t.place = "consume" /\ t.target \in Users /\ OfferedTo(t.id, t.target)
  BY DEF ConsumeAccepted, At, Task, Traces, Traced
<1> PICK u \in Users : u = t.target
  BY <1>1
<1>2. /\ UNCHANGED <<rows, offers, expired, cache>> /\ Goto(s, Idle) /\ Consume(u, t.id)
      /\ Extended /\ Idle \in Task /\ Traced(Idle)'
  BY SameOffers, IdleKnows DEF ConsumeAccepted, database, Finish
<1>3. /\ \A v \in Users : pending'[v] \in {pending[v], 0}
      /\ Stored(u)' = Stored(u) \ {t.id}
      /\ \A v \in Users \ {u} : Stored(v)' = Stored(v)
  BY <1>1, <1>2, ConsumedFromStored
<1>4. Traces'
  BY <1>2, <1>3, TracesMove
<1>5. ASSUME NEW v \in Users, Agreed(v) PROVE Agreed(v)'
  <2>1. CASE v = u
    <3>1. Redeemables(u) = {}
      BY <1>1, <1>5, <2>1 DEF Agreed, Knows, Redeemables
    <3>2. CASE Stored(u) = {} \/ Stored(u) \subseteq {t.id}
      <4>1. Stored(u)' = Redeemables(u)
        BY <1>3, <3>1, <3>2
      <4>2. Stored(u)' \subseteq Stored(u) /\ ~WritesRole(task[s], u)
        BY <1>1, <1>3 DEF WritesRole
      <4> QED
        BY <1>2, <1>5, <2>1, <4>1, <4>2, IdleKnows, AgreedMove
    <3>3. CASE ~(Stored(u) = {} \/ Stored(u) \subseteq {t.id})
      <4>1. PICK j \in Requests : WritesOffer(task[j], u)
        BY <1>5, <2>1, <3>1, <3>3 DEF Agreed
      <4>2. j # s
        BY <1>1, <3>3, <4>1 DEF WritesOffer, Storing, Deleting
      <4>3. Stored(u)' \subseteq Stored(u) /\ ~WritesRole(task[s], u)
        BY <1>1, <1>3 DEF WritesRole
      <4> QED
        BY <1>2, <1>5, <2>1, <4>1, <4>2, <4>3, IdleKnows, AgreedMove
    <3> QED
      BY <3>2, <3>3
  <2>2. CASE v # u
    BY <1>2, <1>3, <1>5, <2>2, OthersAgree
  <2> QED
    BY <2>1, <2>2
<1> QED
  BY <1>4, <1>5 DEF AgreementKept

\* Who gives up while behind leaves its user adrift, and any other user as it was.
LEMMA AbandonKeeps == ASSUME Inv, Traces, NEW s \in Requests, Abandon(s) PROVE AgreementKept
<1> PICK t \in Task : t = task[s]
  BY DEF Inv, RequestsOK
<1>1. t.target \in Users /\ Traced(t)
  BY DEF Task, Traces
<1> PICK u \in Users : u = t.target
  BY <1>1
<1>2. /\ UNCHANGED <<rows, offers, expired, stored, pending, cache>> /\ Goto(s, Idle)
      /\ Extended /\ Idle \in Task /\ Traced(Idle)'
      /\ drifted' = IF Behind(t, u) THEN drifted \cup {u} ELSE drifted
  BY SameOffers, IdleKnows DEF Abandon, database, redis, Finish
<1>3. Traces'
  BY <1>2, TracesMove
<1>4. ASSUME NEW v \in Users, Agreed(v), v \notin drifted' PROVE Agreed(v)'
  <2>1. Stored(v)' = Stored(v)
    BY <1>2, SameStored
  <2>2. CASE v = u
    <3>1. ~Behind(t, u)
      BY <1>2, <1>4, <2>2
    <3>2. ~WritesRole(task[s], u) /\ ~WritesOffer(task[s], u)
      BY <1>1, <3>1 DEF Behind, Traced, WritesRole, WritesOffer, Storing, Deleting
    <3> QED
      BY <1>2, <1>4, <2>1, <2>2, <3>2, IdleKnows, AgreedMove
  <2>3. CASE v # u
    BY <1>2, <1>4, <2>1, <2>3, OthersAgree
  <2> QED
    BY <2>2, <2>3
<1> QED
  BY <1>3, <1>4 DEF AgreementKept

-----------------------------------------------------------------------------
(* Time, the reconciler and Redis *)

LEMMA TracesStill ==
  ASSUME Traces, UNCHANGED <<task, offers>>,
         \A u \in Users : rows'[u].invitation \in {rows[u].invitation, 0},
         \A u \in Users : pending'[u] \in {pending[u], 0}
  PROVE  Traces'
<1>1. \A s \in Requests : Traced(task[s])'
  BY DEF Traces, Traced, OfferedTo
<1>2. ASSUME NEW u \in Users PROVE OfferedTo(rows[u].invitation, u)' /\ OfferedTo(pending[u], u)'
  BY DEF Traces, OfferedTo
<1> QED
  BY <1>1, <1>2 DEF Traces

\* No request moves: what they know of a user outlasts time and evictions.
LEMMA AgreedStill ==
  ASSUME NEW u \in Users, Agreed(u), UNCHANGED task,
         cache'[u] \in {cache[u], "NONE"}, Stored(u)' \subseteq Stored(u),
         Stored(u) = Redeemables(u) => Stored(u)' = Redeemables(u)',
         expired \subseteq expired', Redeemables(u)' = Redeemables(u) \ expired',
         rows'[u].status = "ACCEPTED" <=> rows[u].status = "ACCEPTED", rows'[u].role = rows[u].role,
         rows'[u] = rows[u] \/ (rows[u].status = "PENDING" /\ rows[u].invitation \in expired
                                  /\ rows'[u].status = "REJECTED")
  PROVE  Agreed(u)'
<1>1. \A r : Granted(u, r)' <=> Granted(u, r)
  BY DEF Granted
<1>2. ASSUME NEW s \in Requests PROVE Knows(task[s], u)' /\ (WritesOffer(task[s], u) => WritesOffer(task[s], u)')
  <2>1. PICK t : t = task[s]
    OBVIOUS
  <2>2. Knows(t, u)
    BY <2>1 DEF Agreed
  <2>3. StillLoaded(t.row, u) => StillLoaded(t.row, u)'
    BY DEF StillLoaded
  <2>4. Storing(t, u) => Redeemables(u)' = {t.id} \ expired'
    BY <2>2 DEF Knows
  <2>5. Deleting(t, u) => Stored(u)' = {}
    BY <2>2 DEF Knows
  <2>6. Knows(t, u)'
    BY <1>1, <2>2, <2>3, <2>4, <2>5 DEF Knows, Storing, Deleting
  <2>7. WritesOffer(t, u) => WritesOffer(t, u)'
    BY DEF WritesOffer, Storing, Deleting
  <2> QED
    BY <2>1, <2>6, <2>7 DEF Knows, Granted, StillLoaded, Redeemables, Stored, Storing, Deleting, WritesOffer
<1>3. (cache[u] = "NONE" \/ Granted(u, cache[u]) \/ \E s \in Requests : WritesRole(task[s], u))'
  BY <1>1 DEF Agreed, WritesRole, Granted
<1>4. (Stored(u) = Redeemables(u) \/ \E s \in Requests : WritesOffer(task[s], u))'
  BY <1>2 DEF Agreed
<1>5. (\A j, k \in Requests : ~(Storing(task[j], u) /\ Deleting(task[k], u)))'
  BY DEF Agreed, Storing, Deleting
<1> QED
  BY <1>2, <1>3, <1>4, <1>5 DEF Agreed

LEMMA NothingKeeps == ASSUME Inv, Traces, UNCHANGED vars PROVE AgreementKept
<1>1. UNCHANGED <<rows, offers, overtaken, expired, stored, pending, cache, task, drifted>>
  BY DEF vars, database, redis
<1> QED
  BY <1>1 DEF AgreementKept, Traces, Traced, OfferedTo, Agreed, Knows, Granted, StillLoaded, Redeemables, Stored,
    Storing, Deleting, WritesRole, WritesOffer

LEMMA ExpireKeeps == ASSUME Inv, Traces, NEW id \in Ids, Expire(id) PROVE AgreementKept
<1>1. /\ expired' = expired \cup {id}
      /\ UNCHANGED <<rows, offers, stored, pending, cache, task>>
  BY DEF Expire, database, redis
<1>2. Traces'
  BY <1>1, TracesStill
<1>3. ASSUME NEW u \in Users, Agreed(u) PROVE Agreed(u)'
  <2>1. Stored(u)' = Stored(u) \ {id} /\ Redeemables(u)' = Redeemables(u) \ {id}
    BY <1>1 DEF Stored, Redeemables
  <2>2. Redeemables(u) \cap expired = {}
    BY DEF Redeemables
  <2> QED
    BY <1>1, <1>3, <2>1, <2>2, AgreedStill
<1> QED
  BY <1>2, <1>3 DEF AgreementKept

LEMMA DropInvitationKeeps == ASSUME Inv, Traces, NEW id \in Ids, DropInvitation(id) PROVE AgreementKept
<1>1. /\ id \in expired /\ id \in 1..Len(offers) /\ stored' = stored \ {id}
      /\ UNCHANGED <<rows, offers, expired, cache, task>>
      /\ pending \in [Users -> 0..Len(offers)]
  BY DEF DropInvitation, database, Consume, Inv, RedisOK, RestOK
<1>2. \A u \in Users : pending'[u] \in {pending[u], 0}
  BY <1>1 DEF DropInvitation, Consume
<1>3. Traces'
  BY <1>1, <1>2, TracesStill
<1>4. ASSUME NEW u \in Users, Agreed(u) PROVE Agreed(u)'
  <2>1. Stored(u)' = Stored(u) /\ Redeemables(u)' = Redeemables(u) /\ Redeemables(u) \cap expired = {}
    BY <1>1 DEF Stored, Redeemables
  <2> QED
    BY <1>1, <1>4, <2>1, AgreedStill
<1> QED
  BY <1>3, <1>4 DEF AgreementKept

LEMMA RejectExpiredKeeps == ASSUME Inv, Traces, RejectExpired PROVE AgreementKept
<1>1. /\ UNCHANGED <<offers, expired, stored, pending, cache, task>>
      /\ rows \in [Users -> Membership \cup {Absent}]
  BY DEF RejectExpired, redis, Inv, DatabaseOK
<1>2. ASSUME NEW u \in Users
      PROVE  \/ Due(rows[u]) /\ rows'[u].status = "REJECTED" /\ rows'[u].role = rows[u].role /\ rows'[u].invitation = 0
             \/ ~Due(rows[u]) /\ rows'[u] = rows[u]
  <2>1. CASE Due(rows[u])
    <3>1. rows[u] \in Membership
      BY <1>1, <2>1 DEF Due, Absent
    <3>2. rows'[u] = [rows[u] EXCEPT !.status = "REJECTED", !.invitation = 0]
      BY <2>1 DEF RejectExpired
    <3> QED
      BY <2>1, <3>1, <3>2 DEF Membership
  <2>2. CASE ~Due(rows[u])
    BY <2>2 DEF RejectExpired
  <2> QED
    BY <2>1, <2>2
<1>3. Traces'
  BY <1>1, <1>2, TracesStill
<1>4. ASSUME NEW u \in Users, Agreed(u) PROVE Agreed(u)'
  <2>1. Stored(u)' = Stored(u)
    BY <1>1 DEF Stored
  <2>2. CASE Due(rows[u]) /\ rows'[u].status = "REJECTED" /\ rows'[u].role = rows[u].role
    <3>1. Redeemables(u) = {} /\ Redeemables(u)' = {}
      BY <2>2 DEF Redeemables, Due
    <3> QED
      BY <1>1, <1>4, <2>1, <2>2, <3>1, AgreedStill DEF Due
  <2>3. CASE rows'[u] = rows[u]
    <3>1. Redeemables(u)' = Redeemables(u) /\ Redeemables(u) \cap expired = {}
      BY <1>1, <2>3 DEF Redeemables
    <3> QED
      BY <1>1, <1>4, <2>1, <2>3, <3>1, AgreedStill
  <2> QED
    BY <1>2, <2>2, <2>3
<1> QED
  BY <1>3, <1>4 DEF AgreementKept

LEMMA ForgetRoleKeeps == ASSUME Inv, Traces, NEW w \in Users, ForgetRole(w) PROVE AgreementKept
<1>1. /\ UNCHANGED <<rows, offers, expired, stored, pending, task>>
      /\ \A u \in Users : cache'[u] \in {cache[u], "NONE"}
  BY DEF ForgetRole, database, Inv, RedisOK
<1>2. Traces'
  BY <1>1, TracesStill
<1>3. ASSUME NEW u \in Users, Agreed(u) PROVE Agreed(u)'
  <2>1. Stored(u)' = Stored(u) /\ Redeemables(u)' = Redeemables(u) /\ Redeemables(u) \cap expired = {}
    BY <1>1 DEF Stored, Redeemables
  <2>2. expired' = expired /\ rows'[u] = rows[u] /\ cache'[u] \in {cache[u], "NONE"} /\ UNCHANGED task
    BY <1>1
  <2> QED
    BY <1>3, <2>1, <2>2, AgreedStill
<1> QED
  BY <1>2, <1>3 DEF AgreementKept

\* Redis lets go of an invitation or an index of w: nothing changes for anyone else.
LEMMA ForgetInvitationKeeps == ASSUME Inv, Traces, NEW id \in Ids, ForgetInvitation(id) PROVE AgreementKept
<1>1. /\ UNCHANGED <<rows, offers, expired, pending, cache, task>> /\ stored' = stored \ {id}
      /\ drifted' = drifted \cup {offers[id].member}
  BY DEF ForgetInvitation, database
<1>2. Traces'
  BY <1>1, TracesStill
<1>3. ASSUME NEW u \in Users, Agreed(u), u \notin drifted' PROVE Agreed(u)'
  <2>1. Stored(u)' = Stored(u) /\ Redeemables(u)' = Redeemables(u) /\ Redeemables(u) \cap expired = {}
    BY <1>1, <1>3 DEF Stored, Redeemables
  <2> QED
    BY <1>1, <1>3, <2>1, AgreedStill
<1> QED
  BY <1>2, <1>3 DEF AgreementKept

LEMMA ForgetIndexKeeps == ASSUME Inv, Traces, NEW w \in Users, ForgetIndex(w) PROVE AgreementKept
<1>1. /\ UNCHANGED <<rows, offers, expired, stored, cache, task>>
      /\ \A u \in Users : pending'[u] \in {pending[u], 0}
  BY DEF ForgetIndex, Inv, RedisOK
<1>2. Traces'
  BY <1>1, TracesStill
<1>3. ASSUME NEW u \in Users, Agreed(u) PROVE Agreed(u)'
  <2>1. Stored(u)' = Stored(u) /\ Redeemables(u)' = Redeemables(u) /\ Redeemables(u) \cap expired = {}
    BY <1>1 DEF Stored, Redeemables
  <2> QED
    BY <1>1, <1>3, <2>1, AgreedStill
<1> QED
  BY <1>2, <1>3 DEF AgreementKept

-----------------------------------------------------------------------------
(* The agreement is kept *)

LEMMA AgreementInit == Init => Agreement
<1> SUFFICES ASSUME Init PROVE Agreement
  OBVIOUS
<1>1. /\ \A u \in Users : rows[u] = IF u \in Founders THEN Accepted("OWNER") ELSE Absent
      /\ \A u \in Users : cache[u] = IF u \in Founders THEN "OWNER" ELSE "NONE"
      /\ \A u \in Users : pending[u] = 0
      /\ \A s \in Requests : task[s] = Idle
      /\ stored = {} /\ unindexed = {}
  BY DEF Init
<1>2. Idle.place = "idle" /\ Idle.op = "none"
  BY IdleShape DEF Idle
<1>3. Traces
  BY <1>1, <1>2 DEF Traces, Traced, OfferedTo, Accepted, Absent
<1>4. ASSUME NEW u \in Users PROVE Agreed(u)
  <2>1. Stored(u) = {} /\ Redeemables(u) = {}
    BY <1>1 DEF Stored, Redeemables, Accepted, Absent
  <2>2. cache[u] = "NONE" \/ Granted(u, cache[u])
    BY <1>1 DEF Granted, Accepted
  <2>3. \A s \in Requests : Knows(task[s], u) /\ ~Storing(task[s], u)
    BY <1>1, <1>2 DEF Knows, Storing, Deleting
  <2> QED
    BY <2>1, <2>2, <2>3 DEF Agreed
<1> QED
  BY <1>1, <1>3, <1>4 DEF Agreement, UnindexedAdrift

\* A user whose copies were left to chance stays one.
LEMMA AdriftForGood == ASSUME Inv, [Next]_vars PROVE drifted \subseteq drifted' /\ overtaken \subseteq overtaken'
<1>1. ASSUME NEW s \in Requests, Check(s) \/ Invite(s) \/ Manage(s) \/ Accept(s) \/ Abandon(s)
      PROVE  drifted \subseteq drifted' /\ overtaken \subseteq overtaken'
  <2>1. CASE Check(s)
    BY <2>1 DEF Check, CheckCachedRole, LookUpRole, FillRole, database
  <2>2. CASE Invite(s)
    BY <2>2 DEF Invite, Validate, LoadInvited, UpsertPending, FailUpsert, ReplacePendingInvitation, Commit, Cross, database
  <2>3. CASE Manage(s)
    BY <2>3 DEF Manage, LoadTarget, UpdateRole, RevokeInvitation, HardDelete, TargetGone, EvictRole, Commit, Cross, database
  <2>4. CASE Accept(s)
    BY <2>4 DEF Accept, AcceptPending, AcceptAgain, CacheRole, ConsumeAccepted, Commit, Cross, database
  <2>5. CASE Abandon(s)
    BY <2>5 DEF Abandon, database
  <2> QED
    BY <1>1, <2>1, <2>2, <2>3, <2>4, <2>5
<1>2. ASSUME NEW s \in Requests, NEW c \in Users, NEW u \in Users, NEW r \in Asked \cup {"GUEST"},
             NEW op \in {"visit", "invite", "update", "delete"}, Begin(s, op, c, u, r)
      PROVE  drifted \subseteq drifted' /\ overtaken \subseteq overtaken'
  BY <1>2 DEF Begin, database
<1>3. ASSUME NEW s \in Requests, NEW id \in stored, OpenInvitation(s, id)
      PROVE  drifted \subseteq drifted' /\ overtaken \subseteq overtaken'
  BY <1>3 DEF OpenInvitation, database
<1>4. ASSUME NEW id \in Ids, Expire(id) \/ DropInvitation(id) \/ ForgetInvitation(id)
      PROVE  drifted \subseteq drifted' /\ overtaken \subseteq overtaken'
  BY <1>4 DEF Expire, DropInvitation, ForgetInvitation, database
<1>5. CASE RejectExpired
  BY <1>5 DEF RejectExpired
<1>6. ASSUME NEW u \in Users, ForgetRole(u) \/ ForgetIndex(u)
      PROVE  drifted \subseteq drifted' /\ overtaken \subseteq overtaken'
  BY <1>6 DEF ForgetRole, ForgetIndex, database
<1>7. CASE UNCHANGED vars
  BY <1>7 DEF vars, database
<1> QED
  BY <1>1, <1>2, <1>3, <1>4, <1>5, <1>6, <1>7 DEF Next, Free

\* Only the eviction of an index leaves an invitation without one, and its member
\* adrift.
LEMMA UnindexedStep ==
  ASSUME Inv, Traces, UnindexedAdrift, [Next]_vars PROVE UnindexedAdrift'
<1>1. Extended /\ drifted \subseteq drifted' /\ unindexed \subseteq 1..Len(offers)
  BY OffersExtended, AdriftForGood DEF Inv, DatabaseOK
<1>2. CASE unindexed' = unindexed
  BY <1>1, <1>2 DEF UnindexedAdrift, Extended
<1>3. ASSUME NEW u \in Users, ForgetIndex(u) PROVE UnindexedAdrift'
  <2>1. /\ unindexed' = unindexed \cup {pending[u]} /\ offers' = offers
        /\ pending[u] # 0 /\ drifted' = drifted \cup {u}
    BY <1>3 DEF ForgetIndex
  <2>2. offers[pending[u]].member = u
    BY <2>1 DEF Traces, OfferedTo
  <2> QED
    BY <2>1, <2>2 DEF UnindexedAdrift
<1>4. unindexed' = unindexed \/ \E u \in Users : ForgetIndex(u)
  <2>1. ASSUME NEW s \in Requests, Check(s) \/ Invite(s) \/ Manage(s) \/ Accept(s) \/ Abandon(s)
        PROVE  unindexed' = unindexed
    BY <2>1 DEF Check, Invite, Manage, Accept, CheckCachedRole, LookUpRole, FillRole, Validate, LoadInvited,
      UpsertPending, FailUpsert, ReplacePendingInvitation, LoadTarget, UpdateRole, RevokeInvitation, HardDelete,
      TargetGone, EvictRole, AcceptPending, AcceptAgain, CacheRole, ConsumeAccepted, Abandon, database
  <2> QED
    BY <2>1 DEF Next, Begin, OpenInvitation, Expire, DropInvitation, ForgetInvitation, RejectExpired, ForgetRole,
      vars, database
<1> QED
  BY <1>2, <1>3, <1>4

LEMMA AgreementStep == Inv /\ Agreement /\ [Next]_vars => Agreement'
<1> SUFFICES ASSUME Inv, Agreement, [Next]_vars PROVE Agreement'
  OBVIOUS
<1>1. Traces /\ UnindexedAdrift /\ \A u \in Users \ (drifted \cup overtaken) : Agreed(u)
  BY DEF Agreement
<1>2. ASSUME NEW s \in Requests, Check(s) \/ Invite(s) \/ Manage(s) \/ Accept(s) \/ Abandon(s)
      PROVE  AgreementKept
  <2>1. CASE Check(s)
    BY <1>1, <2>1, CheckCachedRoleKeeps, LookUpRoleKeeps, FillRoleKeeps DEF Check
  <2>2. CASE Invite(s)
    BY <1>1, <2>2, ValidateKeeps, LoadInvitedKeeps, UpsertPendingKeeps, FailUpsertKeeps,
       ReplacePendingInvitationKeeps DEF Invite
  <2>3. CASE Manage(s)
    BY <1>1, <2>3, LoadTargetKeeps, UpdateRoleKeeps, RevokeInvitationKeeps, HardDeleteKeeps, TargetGoneKeeps,
       EvictRoleKeeps DEF Manage
  <2>4. CASE Accept(s)
    BY <1>1, <2>4, AcceptPendingKeeps, AcceptAgainKeeps, CacheRoleKeeps, ConsumeAcceptedKeeps DEF Accept
  <2>5. CASE Abandon(s)
    BY <1>1, <2>5, AbandonKeeps
  <2> QED
    BY <1>2, <2>1, <2>2, <2>3, <2>4, <2>5
<1>3. ASSUME NEW s \in Requests, NEW c \in Users, NEW u \in Users, NEW r \in Asked \cup {"GUEST"},
             NEW op \in {"visit", "invite", "update", "delete"}, Begin(s, op, c, u, r)
      PROVE  AgreementKept
  BY <1>1, <1>3, BeginKeeps
<1>4. ASSUME NEW s \in Requests, NEW id \in stored, OpenInvitation(s, id) PROVE AgreementKept
  BY <1>1, <1>4, OpenInvitationKeeps
<1>5. ASSUME NEW id \in Ids, Expire(id) \/ DropInvitation(id) \/ ForgetInvitation(id) PROVE AgreementKept
  BY <1>1, <1>5, ExpireKeeps, DropInvitationKeeps, ForgetInvitationKeeps
<1>6. ASSUME RejectExpired PROVE AgreementKept
  BY <1>1, <1>6, RejectExpiredKeeps
<1>7. ASSUME NEW u \in Users, ForgetRole(u) \/ ForgetIndex(u) PROVE AgreementKept
  BY <1>1, <1>7, ForgetRoleKeeps, ForgetIndexKeeps
<1>8. ASSUME UNCHANGED vars PROVE AgreementKept
  BY <1>1, <1>8, NothingKeeps
<1>9. AgreementKept
  BY <1>2, <1>3, <1>4, <1>5, <1>6, <1>7, <1>8 DEF Next, Free
<1>10. drifted \subseteq drifted' /\ overtaken \subseteq overtaken'
  BY AdriftForGood
<1>11. UnindexedAdrift'
  BY <1>1, UnindexedStep
<1> QED
  BY <1>1, <1>9, <1>10, <1>11 DEF Agreement, AgreementKept

\* Every reachable state is in agreement: who is behind is who will put it right.
THEOREM AgreementHolds == Spec => []Agreement
<1>1. Init => Agreement
  BY AgreementInit
<1>2. Inv /\ Agreement /\ [Next]_vars => Agreement'
  BY AgreementStep
<1> QED
  BY <1>1, <1>2, InvHolds, PTL DEF Spec

\* The invitation that Redis lets a member redeem is the one its membership waits
\* for in PostgreSQL (invite_group_members, delete_group_member and
\* validate_group_invitation), unless a race, a failure or an eviction got in between.
THEOREM InvitationsAreInAgreement == Spec => []InvitationsAgree
<1>1. Inv /\ Agreement => InvitationsAgree
  BY AgreementIsVisible
<1> QED
  BY <1>1, InvHolds, AgreementHolds, PTL

\* The role the permission check trusts is the member's own, or about to become it
\* (set_group_member_redis and its deletion), unless a race or a failure got in
\* between.
THEOREM CacheIsInAgreement == Spec => []CacheAgrees
<1>1. Inv /\ Agreement => CacheAgrees
  BY AgreementIsVisible
<1> QED
  BY <1>1, InvHolds, AgreementHolds, PTL
=============================================================================
