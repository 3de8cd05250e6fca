--------------------------- MODULE GroupMembership ---------------------------
(***************************************************************************)
(* The members of one group: invitation, acceptance, expiry, change of     *)
(* role and removal (app/services/group.py), and the permission check that *)
(* guards these requests (app/core/rbac).                                  *)
(*                                                                         *)
(* A membership is a row of PostgreSQL.  Two copies live in Redis: the     *)
(* invitation that can still be redeemed, with an index of the last one of *)
(* each member, and the role the permission check reads first.  No request *)
(* locks a membership it has read, and none writes PostgreSQL and Redis in *)
(* one step, so requests interleave between every two statements.          *)
(***************************************************************************)
EXTENDS Naturals, Sequences, FiniteSets

CONSTANTS
  Users,           \* the accounts
  Founders,        \* those who were in the group when it was created
  Requests,        \* requests that can be in progress at once
  Asked,           \* the roles that requests ask for in this instance
  Disturbances,    \* what may go wrong in this instance
  MaxInvitations,  \* bound: the invitations
  MaxRequests,     \* bound: the requests
  MaxFaults        \* bound: how often something goes wrong

ROLE_HIERACHY == <<"GUEST", "MEMBER", "MODERATOR", "ADMIN", "OWNER">>

Roles == {"GUEST", "MEMBER", "MODERATOR", "ADMIN", "OWNER"}

ASSUME MembershipAssumption ==
  /\ Founders \subseteq Users /\ Founders # {}
  /\ Asked \subseteq Roles
  /\ {MaxInvitations, MaxRequests, MaxFaults} \subseteq Nat

Rank(role) == CHOOSE i \in 1..5 : ROLE_HIERACHY[i] = role

\* _validate_member_roles.
Invitable == {"MEMBER", "MODERATOR", "GUEST"}

Ids == 1..MaxInvitations

\* A row of group_members; "NONE" stands for its absence, 0 for no invitation.
Absent == [role |-> "NONE", status |-> "NONE", invitation |-> 0]

Membership ==
  [role : Roles, status : {"PENDING", "ACCEPTED", "REJECTED"}, invitation : Ids \cup {0}]

Accepted(role) == [role |-> role, status |-> "ACCEPTED", invitation |-> 0]

VARIABLES
  rows,       \* PostgreSQL: the membership of each user
  offers,     \* what each invitation promised to whom; its index is its identifier
  expired,    \* the invitations whose invitation_expires_at has passed
  stored,     \* Redis group-invitation:{id}
  pending,    \* Redis group-invitation:pending:{group}:{member}
  cache,      \* Redis {member}:{group}: the role the permission check trusts
  task,       \* what each request is doing
  started,    \* how many requests have been made
  held,       \* the roles each user has held as an accepted member
  overtaken,  \* users an invitation wrote about after someone else had
  unindexed,  \* invitations whose index Redis evicted
  drifted,    \* users whose Redis copies a race, a failure or an eviction left to chance
  faults      \* how often something has gone wrong

redis == <<stored, pending, cache>>
database == <<rows, offers, held, overtaken, unindexed>>
vars == <<database, expired, redis, task, started, drifted, faults>>

\* A request remembers its caller's role once it knows it, the membership it
\* loaded, and the one it saw when it validated its target.
Task ==
  [op : {"none", "visit", "invite", "update", "delete", "accept"},
   place : {"idle", "authorise", "lookup", "fill", "validate", "load", "revoke", "write",
            "store", "cache", "consume", "evict"},
   round : {1, 2}, caller : Users, target : Users, role : Roles, id : Ids \cup {0},
   own : Roles \cup {"NONE"}, seen : Membership \cup {Absent}, row : Membership \cup {Absent}]

Idle ==
  [op |-> "none", place |-> "idle", round |-> 1,
   caller |-> CHOOSE u \in Users : TRUE, target |-> CHOOSE u \in Users : TRUE,
   role |-> "GUEST", id |-> 0, own |-> "NONE", seen |-> Absent, row |-> Absent]

\* create_group has committed: everyone it was given is an owner, and so cached.
Init ==
  /\ rows = [u \in Users |-> IF u \in Founders THEN Accepted("OWNER") ELSE Absent]
  /\ cache = [u \in Users |-> IF u \in Founders THEN "OWNER" ELSE "NONE"]
  /\ offers = <<>>
  /\ expired = {}
  /\ stored = {}
  /\ pending = [u \in Users |-> 0]
  /\ task = [s \in Requests |-> Idle]
  /\ started = 0
  /\ held = [u \in Users |-> IF u \in Founders THEN {"OWNER"} ELSE {}]
  /\ overtaken = {}
  /\ unindexed = {}
  /\ drifted = {}
  /\ faults = 0

At(s, op, place) == task[s].op = op /\ task[s].place = place

Goto(s, t) == task' = [task EXCEPT ![s] = t]

Proceed(s, place) == Goto(s, [task[s] EXCEPT !.place = place])

Finish(s) == Goto(s, Idle)

\* A request about u has still to bring Redis in line with what it read or wrote.
Behind(t, u) ==
  \/ t.place = "fill" /\ t.caller = u
  \/ t.place \in {"store", "cache", "consume"} /\ t.target = u
  \/ t.op = "delete" /\ t.row # Absent /\ t.target = u

\* s does something about u while another request is behind: what that one writes
\* to Redis may be older than what s does.
Cross(s, u) ==
  drifted' = IF \E x \in Requests \ {s} : Behind(task[x], u) THEN drifted \cup {u} ELSE drifted

\* The membership of u becomes row.
Commit(s, u, row) ==
  /\ rows' = [rows EXCEPT ![u] = row]
  /\ held' = IF row.status = "ACCEPTED" THEN [held EXCEPT ![u] = @ \cup {row.role}] ELSE held
  /\ Cross(s, u)

-----------------------------------------------------------------------------
(* The permission check: require_permission and get_group_member *)

\* Bound: the requests there are, and how many of them begin.
Free == {s \in Requests : task[s].place = "idle" /\ started < MaxRequests}

\* A request that needs a permission.  (One to update or delete the caller's own
\* membership is refused, and does no more than a visit.)
Begin(s, op, c, u, r) ==
  /\ s \in Free
  /\ op = "visit" => u = c /\ r = "GUEST"
  /\ op = "invite" => r \in Invitable /\ Len(offers) < MaxInvitations
  /\ op \in {"update", "delete"} => u # c
  /\ op = "delete" => r = "GUEST"
  /\ started' = started + 1
  /\ Goto(s, [Idle EXCEPT !.op = op, !.place = "authorise", !.caller = c, !.target = u, !.role = r])
  /\ UNCHANGED <<database, expired, redis, drifted, faults>>

\* Variant: only the new role is compared with the caller's.
EntitledToAnyone(t, own) ==
  \/ t.op = "visit"
  \/ t.round = 1 /\ Rank(own) >= Rank("ADMIN")
  \/ t.round = 2 /\ Rank(t.role) < Rank(own)

\* The decorator asks for an administrator; _get_manageable_group_member asks
\* again, for a target below the caller and a new role below the caller.
Entitled(t, own) ==
  \/ t.op = "visit"
  \/ t.round = 1 /\ Rank(own) >= Rank("ADMIN")
  \/ /\ t.round = 2
     /\ Rank(t.row.role) < Rank(own)
     /\ t.op = "update" => Rank(t.role) < Rank(own)

AfterCheck(t) ==
  CASE t.op = "visit"                    -> "idle"
    [] t.op = "invite"                   -> "validate"
    [] t.op \in {"update", "delete"} /\ t.round = 1 -> "load"
    [] t.op = "update" /\ t.round = 2    -> "write"
    [] t.op = "delete" /\ t.round = 2    -> "revoke"

\* The check's outcome for a caller known to have the role own.
Decide(s, own) ==
  LET t == task[s]
      next == AfterCheck(t)
  IN  IF next # "idle" /\ Entitled(t, own) THEN Goto(s, [t EXCEPT !.place = next, !.own = own])
      ELSE Finish(s)

CheckCachedRole(s) ==
  LET c == task[s].caller
  IN  /\ task[s].place = "authorise"
      /\ IF cache[c] # "NONE" THEN Decide(s, cache[c]) ELSE Proceed(s, "lookup")
      /\ UNCHANGED <<database, expired, redis, started, drifted, faults>>

\* Variant: nobody looks whether there is a membership.
AnyCaller(u) == TRUE

\* Variant: any membership counts, whatever its invitation_status.
AnyMembership(u) == rows[u] # Absent

AcceptedMembership(u) == rows[u].status = "ACCEPTED"

\* get_group_member_by_id with accepted_only; who is no member is refused.
LookUpRole(s) ==
  LET c == task[s].caller
  IN  /\ task[s].place = "lookup"
      /\ IF AcceptedMembership(c)
         THEN Goto(s, [task[s] EXCEPT !.place = "fill", !.own = rows[c].role])
         ELSE Finish(s)
      /\ UNCHANGED <<database, expired, redis, started, drifted, faults>>

FillRole(s) ==
  LET t == task[s]
  IN  /\ t.place = "fill"
      /\ cache' = [cache EXCEPT ![t.caller] = t.own]
      /\ Decide(s, t.own)
      /\ UNCHANGED <<database, expired, stored, pending, started, drifted, faults>>

-----------------------------------------------------------------------------
(* invite_group_members *)

\* _validate_users_not_already_group_members.
NotYetMember(u) == rows[u].status # "ACCEPTED"

Validate(s) ==
  LET t == task[s]
  IN  /\ At(s, "invite", "validate")
      /\ IF NotYetMember(t.target)
         THEN Goto(s, [t EXCEPT !.place = "load", !.seen = rows[t.target]])
         ELSE Finish(s)
      /\ UNCHANGED <<database, expired, redis, started, drifted, faults>>

\* list_group_members_by_ids.
LoadInvited(s) ==
  /\ At(s, "invite", "load")
  /\ Goto(s, [task[s] EXCEPT !.place = "write", !.row = rows[task[s].target]])
  /\ UNCHANGED <<database, expired, redis, started, drifted, faults>>

\* The mapped row is flushed: only what differs from the loaded row is written.
Refreshed(t, id) ==
  LET old == rows[t.target]
  IN  [role |-> IF t.row.role = t.role THEN old.role ELSE t.role,
       status |-> IF t.row.status = "PENDING" THEN old.status ELSE "PENDING", invitation |-> id]

\* upsert_pending_invitations and the commit.  Inserting a row that exists by now,
\* or updating one that is gone, fails.
UpsertPending(s) ==
  LET t == task[s]
      u == t.target
      id == Len(offers) + 1
  IN  /\ At(s, "invite", "write")
      /\ Len(offers) < MaxInvitations
      /\ (t.row = Absent) = (rows[u] = Absent)
      /\ Commit(s, u, Refreshed(t, id))
      /\ offers' = Append(offers, [member |-> u, role |-> t.role])
      /\ overtaken' = IF rows[u] = t.seen /\ t.row = t.seen THEN overtaken ELSE overtaken \cup {u}
      /\ Goto(s, [t EXCEPT !.place = "store", !.id = id])
      /\ UNCHANGED <<unindexed, expired, redis, started, faults>>

FailUpsert(s) ==
  LET t == task[s]
  IN  /\ At(s, "invite", "write")
      /\ (t.row = Absent) # (rows[t.target] = Absent)
      /\ Finish(s)
      /\ UNCHANGED <<database, expired, redis, started, drifted, faults>>

\* The script of replace_pending_invitation; the email is queued after it.
ReplacePendingInvitation(s) ==
  LET t == task[s]
  IN  /\ At(s, "invite", "store")
      /\ stored' = (stored \ {pending[t.target]}) \cup {t.id}
      /\ pending' = [pending EXCEPT ![t.target] = t.id]
      /\ Finish(s)
      /\ UNCHANGED <<database, expired, cache, started, drifted, faults>>

-----------------------------------------------------------------------------
(* update_group_member and delete_group_member *)

\* The target of an update is an accepted member, that of a removal any row.
LoadTarget(s) ==
  LET t == task[s]
      row == rows[t.target]
  IN  /\ t.op \in {"update", "delete"} /\ t.place = "load"
      /\ IF row # Absent /\ (t.op = "update" => row.status = "ACCEPTED")
         THEN Goto(s, [t EXCEPT !.place = "authorise", !.round = 2, !.own = "NONE", !.row = row])
         ELSE Finish(s)
      /\ UNCHANGED <<database, expired, redis, started, drifted, faults>>

\* UPDATE ... WHERE invitation_status = ACCEPTED, and the commit.
UpdateRole(s) ==
  LET t == task[s]
      u == t.target
  IN  /\ At(s, "update", "write")
      /\ rows[u].status = "ACCEPTED"
      /\ Commit(s, u, [rows[u] EXCEPT !.role = t.role])
      /\ Proceed(s, "cache")
      /\ UNCHANGED <<offers, overtaken, unindexed, expired, redis, started, faults>>

\* Variant: the index goes even when it names a newer invitation.
ConsumeWithIndex(u, id) ==
  /\ pending' = [pending EXCEPT ![u] = 0]
  /\ stored' = stored \ {id}

\* The script of consume.
Consume(u, id) ==
  /\ pending' = IF pending[u] = id THEN [pending EXCEPT ![u] = 0] ELSE pending
  /\ stored' = stored \ {id}

\* Variant: the invitation outlives the membership.
RevokeNothing(s) ==
  /\ At(s, "delete", "revoke")
  /\ UNCHANGED <<stored, pending>>
  /\ Cross(s, task[s].target)
  /\ Proceed(s, "write")
  /\ UNCHANGED <<database, expired, cache, started, faults>>

\* The invitation of a pending target is read from Redis and consumed.
RevokeInvitation(s) ==
  LET t == task[s]
      id == t.row.invitation
  IN  /\ At(s, "delete", "revoke")
      /\ IF t.row.status = "PENDING" /\ id \in stored THEN Consume(t.target, id)
         ELSE UNCHANGED <<stored, pending>>
      /\ Cross(s, t.target)
      /\ Proceed(s, "write")
      /\ UNCHANGED <<database, expired, cache, started, faults>>

HardDelete(s) ==
  LET u == task[s].target
  IN  /\ At(s, "delete", "write")
      /\ rows[u] # Absent
      /\ Commit(s, u, Absent)
      /\ Proceed(s, "evict")
      /\ UNCHANGED <<offers, overtaken, unindexed, expired, redis, started, faults>>

\* There is nothing left to update or to delete.
TargetGone(s) ==
  LET t == task[s]
      row == rows[t.target]
  IN  /\ \/ At(s, "update", "write") /\ row.status # "ACCEPTED"
         \/ At(s, "delete", "write") /\ row = Absent
      /\ Finish(s)
      /\ UNCHANGED <<database, expired, redis, started, drifted, faults>>

EvictRole(s) ==
  /\ At(s, "delete", "evict")
  /\ cache' = [cache EXCEPT ![task[s].target] = "NONE"]
  /\ Finish(s)
  /\ UNCHANGED <<database, expired, stored, pending, started, drifted, faults>>

-----------------------------------------------------------------------------
(* validate_group_invitation *)

\* The member opens an invitation that Redis still has.
OpenInvitation(s, id) ==
  LET u == offers[id].member
  IN  /\ s \in Free
      /\ id \in stored
      /\ started' = started + 1
      /\ Goto(s, [Idle EXCEPT !.op = "accept", !.place = "write", !.caller = u, !.target = u, !.id = id])
      /\ UNCHANGED <<database, expired, redis, drifted, faults>>

\* Variant: whatever the membership is pending on, this invitation accepts it.
AnyPending(t) == rows[t.target].status = "PENDING"

\* The WHERE clause of accept_pending_invitation.
Redeemable(t) ==
  /\ rows[t.target].status = "PENDING"
  /\ rows[t.target].invitation = t.id
  /\ t.id \notin expired

AcceptPending(s) ==
  LET t == task[s]
      u == t.target
  IN  /\ At(s, "accept", "write")
      /\ Redeemable(t)
      /\ Commit(s, u, Accepted(rows[u].role))
      /\ Goto(s, [t EXCEPT !.place = "cache", !.role = rows[u].role])
      /\ UNCHANGED <<offers, overtaken, unindexed, expired, redis, started, faults>>

\* Otherwise a member who is accepted already is welcome, anyone else refused.
AcceptAgain(s) ==
  LET t == task[s]
      row == rows[t.target]
  IN  /\ At(s, "accept", "write")
      /\ ~Redeemable(t)
      /\ IF row.status = "ACCEPTED" THEN Goto(s, [t EXCEPT !.place = "cache", !.role = row.role])
         ELSE Finish(s)
      /\ UNCHANGED <<database, expired, redis, started, drifted, faults>>

\* Variant: the cache keeps the role it has.
CacheRoleOnce(s) ==
  LET t == task[s]
  IN  /\ t.place = "cache"
      /\ cache' = IF cache[t.target] = "NONE" THEN [cache EXCEPT ![t.target] = t.role] ELSE cache
      /\ IF t.op = "accept" THEN Proceed(s, "consume") ELSE Finish(s)
      /\ UNCHANGED <<database, expired, stored, pending, started, drifted, faults>>

\* set_group_member_redis after an update or an acceptance.
CacheRole(s) ==
  LET t == task[s]
  IN  /\ t.place = "cache"
      /\ cache' = [cache EXCEPT ![t.target] = t.role]
      /\ IF t.op = "accept" THEN Proceed(s, "consume") ELSE Finish(s)
      /\ UNCHANGED <<database, expired, stored, pending, started, drifted, faults>>

ConsumeAccepted(s) ==
  /\ At(s, "accept", "consume")
  /\ Consume(task[s].target, task[s].id)
  /\ Finish(s)
  /\ UNCHANGED <<database, expired, cache, started, drifted, faults>>

-----------------------------------------------------------------------------
(* Time, the reconciler and failures *)

Expire(id) ==
  /\ id \in 1..Len(offers) \ expired
  /\ expired' = expired \cup {id}
  /\ UNCHANGED <<database, redis, task, started, drifted, faults>>

\* Redis counts from the moment it stores the invitation, so it is later.
DropInvitation(id) ==
  /\ id \in expired
  /\ id \in stored \/ pending[offers[id].member] = id
  /\ Consume(offers[id].member, id)
  /\ UNCHANGED <<database, expired, cache, task, started, drifted, faults>>

Due(row) == row.status = "PENDING" /\ row.invitation \in expired

\* One pass of run_invitation_expiry_reconciler that finds something to reject.
RejectExpired ==
  /\ \E u \in Users : Due(rows[u])
  /\ rows' = [u \in Users |->
       IF Due(rows[u]) THEN [rows[u] EXCEPT !.status = "REJECTED", !.invitation = 0] ELSE rows[u]]
  /\ UNCHANGED <<offers, held, overtaken, unindexed, expired, redis, task, started, drifted, faults>>

Fault(kind) == kind \in Disturbances /\ faults < MaxFaults /\ faults' = faults + 1

\* A request ends early: Redis refuses it or the process stops.
Abandon(s) ==
  LET t == task[s]
  IN  /\ t.place # "idle"
      /\ Fault("abandon")
      /\ Finish(s)
      /\ drifted' = IF Behind(t, t.target) THEN drifted \cup {t.target} ELSE drifted
      /\ UNCHANGED <<database, expired, redis, started>>

\* maxmemory-policy allkeys-lru: Redis lets go of a cached role, an invitation or
\* an index.
ForgetRole(u) ==
  /\ cache[u] # "NONE"
  /\ Fault("eviction")
  /\ cache' = [cache EXCEPT ![u] = "NONE"]
  /\ UNCHANGED <<database, expired, stored, pending, task, started, drifted>>

ForgetInvitation(id) ==
  /\ id \in stored
  /\ Fault("eviction")
  /\ stored' = stored \ {id}
  /\ drifted' = drifted \cup {offers[id].member}
  /\ UNCHANGED <<database, expired, pending, cache, task, started>>

ForgetIndex(u) ==
  /\ pending[u] # 0
  /\ Fault("eviction")
  /\ pending' = [pending EXCEPT ![u] = 0]
  /\ unindexed' = unindexed \cup {pending[u]}
  /\ drifted' = drifted \cup {u}
  /\ UNCHANGED <<rows, offers, held, overtaken, expired, stored, cache, task, started>>

Check(s) == CheckCachedRole(s) \/ LookUpRole(s) \/ FillRole(s)

Invite(s) ==
  \/ Validate(s) \/ LoadInvited(s) \/ UpsertPending(s) \/ FailUpsert(s)
  \/ ReplacePendingInvitation(s)

Manage(s) ==
  \/ LoadTarget(s) \/ UpdateRole(s) \/ RevokeInvitation(s) \/ HardDelete(s)
  \/ TargetGone(s) \/ EvictRole(s)

Accept(s) == AcceptPending(s) \/ AcceptAgain(s) \/ CacheRole(s) \/ ConsumeAccepted(s)

Next ==
  \/ \E s \in Free, c, u \in Users, r \in Asked \cup {"GUEST"},
        op \in {"visit", "invite", "update", "delete"} : Begin(s, op, c, u, r)
  \/ \E s \in Requests : \E id \in stored : OpenInvitation(s, id)
  \/ \E s \in Requests : Check(s) \/ Invite(s) \/ Manage(s) \/ Accept(s) \/ Abandon(s)
  \/ \E id \in Ids : Expire(id) \/ DropInvitation(id) \/ ForgetInvitation(id)
  \/ RejectExpired
  \/ \E u \in Users : ForgetRole(u) \/ ForgetIndex(u)

Spec == Init /\ [][Next]_vars

-----------------------------------------------------------------------------
(* Properties *)

\* Type correctness: every variable holds a value of its type.
TypeOK ==
  /\ rows \in [Users -> Membership \cup {Absent}]
  /\ offers \in Seq([member : Users, role : Roles])
  /\ Len(offers) <= MaxInvitations
  /\ expired \subseteq 1..Len(offers)
  /\ stored \subseteq 1..Len(offers)
  /\ pending \in [Users -> 0..Len(offers)]
  /\ cache \in [Users -> Roles \cup {"NONE"}]
  /\ task \in [Requests -> Task]
  /\ \A s \in Requests : task[s].place = "fill" => task[s].own # "NONE"
  /\ started \in 0..MaxRequests
  /\ held \in [Users -> SUBSET Roles]
  /\ overtaken \subseteq Users
  /\ unindexed \subseteq 1..Len(offers)
  /\ drifted \subseteq Users
  /\ faults \in 0..MaxFaults

\* Whatever roles the permission check gets from a cache that is behind, the
\* founders stay accepted owners and nobody else ever owns the group.
OwnersStay ==
  /\ \A u \in Founders : rows[u] = Accepted("OWNER")
  /\ \A u \in Users \ Founders : rows[u].role # "OWNER"

\* The permission check never learns a role its user did not hold as an accepted
\* member: neither an open invitation nor a rejected one grants anything.
CachedRoleWasHeld == \A u \in Users : cache[u] # "NONE" => cache[u] \in held[u]

\* Redis keeps at most one invitation of a member, the one its index names, also
\* after acceptances, removals and replacements that ran into each other; apart
\* from an invitation whose index Redis evicted, which no replacement deletes.
OneStoredPerMember == \A id \in stored \ unindexed : pending[offers[id].member] = id

\* An open membership carries the role its invitation promised, unless an
\* invitation was written over a membership that changed under it.
PendingAsOffered ==
  \A u \in Users \ overtaken : rows[u].status = "PENDING" =>
    /\ offers[rows[u].invitation].member = u
    /\ offers[rows[u].invitation].role = rows[u].role

\* Unless a race, a failure or an eviction got in between, an invitation can be
\* redeemed in Redis exactly as long as its membership waits for it in PostgreSQL.
InvitationsAgree ==
  \A u \in Users \ (drifted \cup overtaken) :
    (\A s \in Requests : ~Behind(task[s], u)) =>
      {id \in stored \ expired : offers[id].member = u} =
        (IF rows[u].status = "PENDING" THEN {rows[u].invitation} \ expired ELSE {})

\* A cached role that is not the member's role is about to be corrected, or was
\* left behind by a race or a failure: a role in the cache has no expiry of its own,
\* so one left behind stays until the next change or eviction.
CacheAgrees ==
  \A u \in Users \ (drifted \cup overtaken) :
    (\A s \in Requests : ~Behind(task[s], u)) =>
      cache[u] \in {"NONE"} \cup (IF rows[u].status = "ACCEPTED" THEN {rows[u].role} ELSE {})

\* A member becomes accepted by a request that redeems an unexpired invitation of
\* theirs, and with the role which that invitation promised, however long ago the
\* request opened it.
AcceptedAsOffered ==
  [][\A u \in Users \ overtaken :
       rows[u].status # "ACCEPTED" /\ rows'[u].status = "ACCEPTED" =>
         \E s \in Requests :
           /\ task[s].op = "accept" /\ task'[s] # task[s] /\ task[s].id \notin expired
           /\ offers[task[s].id] = [member |-> u, role |-> rows'[u].role]]_vars

\* The docstring of invite_group_members: accepted memberships cannot be invited
\* again.
AcceptedAreNotInvited ==
  [][\A u \in Users : rows[u].status = "ACCEPTED" => rows'[u].status # "PENDING"]_vars
=============================================================================
