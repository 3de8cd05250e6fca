--------------------------- MODULE AccountSession ----------------------------
(***************************************************************************)
(* One account and the browser signed in to it: registration, the emailed  *)
(* one-time code, sign-in by password or Google, token pairs, their        *)
(* renewal, the rotation of the access token when the active group is      *)
(* switched, and logout (app/services/auth.py, app/repository/user.py).    *)
(*                                                                         *)
(* The account is a row of PostgreSQL, the code, the valid tokens and the  *)
(* cached profile are keys of Redis, and the cookies are the browser's.    *)
(* Requests of several tabs interleave at every database statement and     *)
(* Redis call, may fail between any two of them, and their answers reach   *)
(* the browser in any order.  The clock counts TTLs; apart from them Redis *)
(* may evict any key when its memory is full.                              *)
(***************************************************************************)
EXTENDS Naturals, Sequences

CONSTANTS
  Requests,    \* the requests that can be under way at once
  Groups,      \* the groups the account is a member of
  None,        \* no group, no cookie
  AccessTTL,   \* ACCESS_TOKEN_EXPIRE_SECONDS, which the cached profile shares
  RefreshTTL,  \* REFRESH_TOKEN_EXPIRE_SECONDS
  MaxGrants,   \* bound: token pairs issued
  MaxTurns,    \* bound: token pairs issued and switches of the group begun
  MaxFaults,   \* bound: requests that fail and keys that Redis evicts
  MaxTime      \* bound: how long the clock runs

ASSUME AccountAssumption ==
  /\ None \notin Groups
  /\ AccessTTL \in Nat \ {0} /\ RefreshTTL \in Nat /\ AccessTTL <= RefreshTTL
  /\ MaxGrants \in Nat /\ MaxTurns \in Nat /\ MaxFaults \in Nat /\ MaxTime \in Nat

Statuses == {"ABSENT", "INACTIVE", "PENDING", "ACTIVE"}
Grants == 1..MaxGrants
Times == 0..MaxTime
Deadlines == 0..(MaxTime + RefreshTTL)

\* A signed token is its claims: rotating back to a group makes the same token.
Tokens == [type : {"access", "refresh"}, grant : Grants, group : Groups \cup {None},
           exp : Deadlines]
Cookies == [access : Tokens \cup {None}, refresh : Tokens \cup {None}]
NoCookies == [access |-> None, refresh |-> None]

VARIABLES
  account,   \* the row: its status, active group, and whether it has a password
  code,      \* Redis: the one-time code: none, saved, or sent to its owner too
  store,     \* Redis: each cached token and when its key expires
  profile,   \* Redis: the cached active group and its expiry, or an expired entry
  cookies,   \* the browser's
  task,      \* what each request is doing
  issued,    \* when each token pair was issued
  now,
  faults,    \* how many requests have failed and keys were evicted
  switches,  \* how many switches of the group have begun
  dropped    \* history: the refresh tokens a logout deleted or Redis evicted

redis == <<code, store, profile>>
vars == <<account, redis, cookies, task, issued, now, faults, switches, dropped>>

Steps == {"idle", "insert", "save_code", "publish", "check", "verify", "consume",
          "provision", "activate", "issue", "store", "profile", "load", "cache",
          "switch", "rotate", "replace", "drop_access", "drop_refresh",
          "answer", "forget"}

\* A request knows the cookies it came with or will set, the tokens still to
\* be stored, the group it read or was given, and a remaining lifetime.
Task == [at : Steps, cookies : Cookies, unsaved : SUBSET Tokens,
         group : Groups \cup {None}, ttl : 0..AccessTTL]

Idle == [at |-> "idle", cookies |-> NoCookies, unsaved |-> {}, group |-> None, ttl |-> 0]

NoProfile == [group |-> None, until |-> 0]

Init ==
  /\ account = [status |-> "ABSENT", group |-> None, password |-> FALSE]
  /\ code = "none"
  /\ store = <<>>
  /\ profile = NoProfile
  /\ cookies = NoCookies
  /\ task = [r \in Requests |-> Idle]
  /\ issued = <<>>
  /\ now = 0
  /\ faults = 0
  /\ switches = 0
  /\ dropped = {}

Cached(t) == t \in DOMAIN store

Goto(r, t) == task' = [task EXCEPT ![r] = t]

Begin(r, step) == task[r] = Idle /\ Goto(r, [Idle EXCEPT !.at = step])

At(r, step) == task[r].at = step

Move(r, step) == Goto(r, [task[r] EXCEPT !.at = step])

Done(r) == Goto(r, Idle)

\* A lost connection, a failed Redis or RabbitMQ call, a dead process.
Fail(r) ==
  /\ task[r] # Idle
  /\ faults < MaxFaults
  /\ faults' = faults + 1
  /\ Done(r)
  /\ UNCHANGED <<account, redis, cookies, issued, now, switches, dropped>>

-----------------------------------------------------------------------------
(* Registration and the one-time code *)

\* _validate_new_user: any account with the address is in the way.
InTheWay(status) == status # "ABSENT"

Register(r) ==
  /\ ~InTheWay(account.status)
  /\ Begin(r, "insert")
  /\ UNCHANGED <<account, redis, cookies, issued, now, faults, switches, dropped>>

\* Variant: INSERT ... ON CONFLICT DO UPDATE.
UniqueByUpsert(r) == TRUE

\* A second INSERT of the address fails on the unique index.
Unique(r) == account.status = "ABSENT"

Insert(r) ==
  /\ At(r, "insert")
  /\ IF Unique(r)
     THEN /\ account' = [account EXCEPT !.status = "INACTIVE", !.password = TRUE]
          /\ Move(r, "save_code")
     ELSE Done(r) /\ UNCHANGED account
  /\ UNCHANGED <<redis, cookies, issued, now, faults, switches, dropped>>

SaveCode(r) ==
  /\ At(r, "save_code")
  /\ code' = "saved"
  /\ Move(r, "publish")
  /\ UNCHANGED <<account, store, profile, cookies, issued, now, faults, switches, dropped>>

\* The owner may be sent a code that has expired by then.
PublishCode(r) ==
  /\ At(r, "publish")
  /\ code' = IF code = "saved" THEN "sent" ELSE code
  /\ Done(r)
  /\ UNCHANGED <<account, store, profile, cookies, issued, now, faults, switches, dropped>>

ExpireCode ==
  /\ code # "none"
  /\ code' = "none"
  /\ UNCHANGED <<account, store, profile, cookies, task, issued, now, faults, switches, dropped>>

\* validate_otp compares the code first and looks at the account afterwards.
EnterCode(r) ==
  /\ code = "sent"
  /\ Begin(r, "check")
  /\ UNCHANGED <<account, redis, cookies, issued, now, faults, switches, dropped>>

CheckInactive(r) ==
  /\ At(r, "check")
  /\ IF account.status = "INACTIVE" THEN Move(r, "verify") ELSE Done(r)
  /\ UNCHANGED <<account, redis, cookies, issued, now, faults, switches, dropped>>

\* The UPDATE names the row and not the status that was read.
Verify(r) ==
  /\ At(r, "verify")
  /\ account' = [account EXCEPT !.status = "PENDING"]
  /\ Move(r, "consume")
  /\ UNCHANGED <<redis, cookies, issued, now, faults, switches, dropped>>

ConsumeCode(r) ==
  /\ At(r, "consume")
  /\ code' = "none"
  /\ Done(r)
  /\ UNCHANGED <<account, store, profile, cookies, issued, now, faults, switches, dropped>>

-----------------------------------------------------------------------------
(* Signing in *)

\* Bound: how much the requests do in all.
TurnsLeft == Len(issued) + switches < MaxTurns

\* Bound: no request for tokens begins when there are none left to issue.
GrantsLeft == Len(issued) < MaxGrants /\ TurnsLeft

\* Read the account; an unfinished one is activated before tokens are made.
SignIn(r, unfinished) ==
  /\ GrantsLeft
  /\ task[r] = Idle
  /\ Goto(r, [Idle EXCEPT !.at = IF account.status \in unfinished THEN "activate" ELSE "issue",
                          !.group = account.group])
  /\ UNCHANGED <<account, redis, cookies, issued, now, faults, switches, dropped>>

Login(r) ==
  /\ account.password
  /\ account.status \in {"PENDING", "ACTIVE"}
  /\ SignIn(r, {"PENDING"})

GoogleCallback(r) ==
  /\ account.status # "ABSENT"
  /\ SignIn(r, {"INACTIVE", "PENDING"})

GoogleNewcomer(r) ==
  /\ account.status = "ABSENT"
  /\ Begin(r, "provision")
  /\ UNCHANGED <<account, redis, cookies, issued, now, faults, switches, dropped>>

Provision(r) ==
  /\ At(r, "provision")
  /\ IF Unique(r)
     THEN account' = [account EXCEPT !.status = "ACTIVE"] /\ Move(r, "issue")
     ELSE Done(r) /\ UNCHANGED account
  /\ UNCHANGED <<redis, cookies, issued, now, faults, switches, dropped>>

Activate(r) ==
  /\ At(r, "activate")
  /\ account' = [account EXCEPT !.status = "ACTIVE"]
  /\ Move(r, "issue")
  /\ UNCHANGED <<redis, cookies, issued, now, faults, switches, dropped>>

AccessToken(grant, group, at) ==
  [type |-> "access", grant |-> grant, group |-> group, exp |-> at + AccessTTL]

RefreshToken(grant, at) ==
  [type |-> "refresh", grant |-> grant, group |-> None, exp |-> at + RefreshTTL]

\* Bound: no tokens are issued while the sign-up is under way or a code is
\* still valid.  The two touch no common state, so their order changes nothing.
SignedUp ==
  /\ code = "none"
  /\ \A r \in Requests :
       task[r].at \notin {"insert", "save_code", "publish", "check", "verify", "consume"}

\* _generate_tokens signs both tokens and stores their hashes concurrently.
Issue(r) ==
  LET grant == Len(issued) + 1
      pair == [access  |-> AccessToken(grant, task[r].group, now),
               refresh |-> RefreshToken(grant, now)]
  IN /\ At(r, "issue")
     /\ GrantsLeft /\ SignedUp
     /\ issued' = Append(issued, now)
     /\ Goto(r, [Idle EXCEPT !.at = "store", !.cookies = pair,
                             !.unsaved = {pair.access, pair.refresh}])
     /\ UNCHANGED <<account, redis, cookies, now, faults, switches, dropped>>

Lifetime(t) == IF t.type = "access" THEN AccessTTL ELSE RefreshTTL

Put(t, ttl) == [k \in DOMAIN store \cup {t} |-> IF k = t THEN now + ttl ELSE store[k]]

Only(keys) == [k \in keys |-> store[k]]

\* Variant: the two calls are gathered with return_exceptions, so a failed one
\* goes unnoticed.
StoreTokenOrNot(r) ==
  /\ At(r, "store")
  /\ \E t \in task[r].unsaved :
       /\ store' \in {store, Put(t, Lifetime(t))}
       /\ Goto(r, [task[r] EXCEPT
            !.unsaved = @ \ {t},
            !.at = IF task[r].unsaved = {t} THEN "answer" ELSE "store"])
  /\ UNCHANGED <<account, code, profile, cookies, issued, now, faults, switches, dropped>>

StoreToken(r) ==
  /\ At(r, "store")
  /\ \E t \in task[r].unsaved :
       /\ store' = Put(t, Lifetime(t))
       /\ Goto(r, [task[r] EXCEPT
            !.unsaved = @ \ {t},
            !.at = IF task[r].unsaved = {t} THEN "answer" ELSE "store"])
  /\ UNCHANGED <<account, code, profile, cookies, issued, now, faults, switches, dropped>>

\* The answer sets the cookies it names and leaves the other alone.
Answer(r) ==
  /\ At(r, "answer")
  /\ cookies' = [c \in {"access", "refresh"} |->
                   IF task[r].cookies[c] = None THEN cookies[c] ELSE task[r].cookies[c]]
  /\ Done(r)
  /\ UNCHANGED <<account, redis, issued, now, faults, switches, dropped>>

-----------------------------------------------------------------------------
(* Renewing the token pair *)

\* The presented token is checked and stays valid.
Refresh(r) ==
  /\ cookies.refresh # None
  /\ Cached(cookies.refresh)
  /\ now < cookies.refresh.exp
  /\ GrantsLeft /\ task[r] = Idle
  /\ Goto(r, [Idle EXCEPT !.at = "profile", !.cookies.refresh = cookies.refresh])
  /\ UNCHANGED <<account, redis, cookies, issued, now, faults, switches, dropped>>

\* With the profile at hand, the token's own expiry is looked at once more.
Renew(r, group) ==
  IF now <= task[r].cookies.refresh.exp
  THEN Goto(r, [Idle EXCEPT !.at = "issue", !.group = group])
  ELSE Done(r)

CachedProfile(r) ==
  /\ At(r, "profile")
  /\ IF now < profile.until
     THEN Renew(r, profile.group)
     ELSE Move(r, "load")
  /\ UNCHANGED <<account, redis, cookies, issued, now, faults, switches, dropped>>

LoadProfile(r) ==
  /\ At(r, "load")
  /\ Goto(r, [task[r] EXCEPT !.at = "cache", !.group = account.group])
  /\ UNCHANGED <<account, redis, cookies, issued, now, faults, switches, dropped>>

CacheProfile(r) ==
  /\ At(r, "cache")
  /\ profile' = [group |-> task[r].group, until |-> now + AccessTTL]
  /\ Renew(r, task[r].group)
  /\ UNCHANGED <<account, code, store, cookies, issued, now, faults, switches, dropped>>

-----------------------------------------------------------------------------
(* Switching the active group *)

\* The middleware admits a cached access token that has not expired.
Admitted(t) == t # None /\ Cached(t) /\ now < t.exp

Switch(r) ==
  /\ Admitted(cookies.access)
  /\ TurnsLeft
  /\ switches' = switches + 1
  /\ task[r] = Idle
  /\ \E g \in Groups :
       Goto(r, [Idle EXCEPT !.at = "switch", !.group = g, !.cookies.access = cookies.access])
  /\ UNCHANGED <<account, redis, cookies, issued, now, faults, dropped>>

SaveGroup(r) ==
  /\ At(r, "switch")
  /\ account' = [account EXCEPT !.group = task[r].group]
  /\ Move(r, "rotate")
  /\ UNCHANGED <<redis, cookies, issued, now, faults, switches, dropped>>

\* Variant: the new token lives as long as a fresh one.
RotatedAnew(t, group) == [t EXCEPT !.group = group, !.exp = now + AccessTTL]

\* The new token keeps the claims of the old one, its expiry included.
Rotated(t, group) == [t EXCEPT !.group = group]

\* Variant: the remaining lifetime is not checked.
RotateUnchecked(r) ==
  /\ At(r, "rotate")
  /\ Goto(r, [task[r] EXCEPT !.at = "replace", !.ttl = task[r].cookies.access.exp - now])
  /\ UNCHANGED <<account, redis, cookies, issued, now, faults, switches, dropped>>

Rotate(r) ==
  LET old == task[r].cookies.access
  IN /\ At(r, "rotate")
     /\ IF now < old.exp
        THEN Goto(r, [task[r] EXCEPT !.at = "replace", !.ttl = old.exp - now])
        ELSE Done(r)
     /\ UNCHANGED <<account, redis, cookies, issued, now, faults, switches, dropped>>

\* Variant: the old key is not looked for.
ReplacedBlindly(old, new, ttl) ==
  [k \in (DOMAIN store \cup {new}) \ ({old} \ {new}) |-> Put(new, ttl)[k]]

\* REPLACE_HASHED_TOKEN_SCRIPT: one atomic step of Redis.
Replaced(old, new, ttl) ==
  IF Cached(old)
  THEN IF old = new
       THEN Put(old, ttl)
       ELSE [k \in (DOMAIN store \cup {new}) \ {old} |-> Put(new, ttl)[k]]
  ELSE store

Replace(r) ==
  LET old == task[r].cookies.access
      new == Rotated(old, task[r].group)
  IN /\ At(r, "replace")
     /\ store' = Replaced(old, new, task[r].ttl)
     /\ IF Cached(old)
        THEN Goto(r, [Idle EXCEPT !.at = "answer", !.cookies.access = new])
        ELSE Done(r)
     /\ UNCHANGED <<account, code, profile, cookies, issued, now, faults, switches, dropped>>

-----------------------------------------------------------------------------
(* Logout: two deletions, then an answer that clears the cookies *)

Logout(r) ==
  /\ cookies.access # None /\ cookies.refresh # None
  /\ task[r] = Idle
  /\ Goto(r, [Idle EXCEPT !.at = "drop_access", !.cookies = cookies])
  /\ UNCHANGED <<account, redis, cookies, issued, now, faults, switches, dropped>>

Drop(r, token, step) ==
  /\ store' = Only(DOMAIN store \ {task[r].cookies[token]})
  /\ Goto(r, [task[r] EXCEPT !.at = step, !.cookies[token] = None])
  /\ UNCHANGED <<account, code, profile, cookies, issued, now, faults, switches>>

DropAccess(r) == At(r, "drop_access") /\ Drop(r, "access", "drop_refresh") /\ UNCHANGED dropped

DropRefresh(r) ==
  /\ At(r, "drop_refresh")
  /\ Drop(r, "refresh", "forget")
  /\ dropped' = dropped \cup {task[r].cookies.refresh}

Forget(r) ==
  /\ At(r, "forget")
  /\ cookies' = NoCookies
  /\ Done(r)
  /\ UNCHANGED <<account, redis, issued, now, faults, switches, dropped>>

-----------------------------------------------------------------------------
\* Redis drops the keys whose TTL is over.  Bound: the clock starts with the
\* first tokens; before them nothing depends on the time.
Tick ==
  /\ issued # <<>> /\ now < MaxTime
  /\ now' = now + 1
  /\ store' = Only({t \in DOMAIN store : now' < store[t]})
  /\ profile' = IF now' < profile.until THEN profile ELSE NoProfile
  /\ UNCHANGED <<account, code, cookies, task, issued, faults, switches, dropped>>

\* maxmemory-policy allkeys-lru: Redis may drop any key, whatever its TTL.  The
\* code's own key is lost in ExpireCode.
EvictToken ==
  /\ faults < MaxFaults
  /\ faults' = faults + 1
  /\ \E t \in DOMAIN store :
       /\ store' = Only(DOMAIN store \ {t})
       /\ dropped' = IF t.type = "refresh" THEN dropped \cup {t} ELSE dropped
  /\ UNCHANGED <<account, code, profile, cookies, task, issued, now, switches>>

EvictProfile ==
  /\ profile # NoProfile
  /\ faults < MaxFaults
  /\ faults' = faults + 1
  /\ profile' = NoProfile
  /\ UNCHANGED <<account, code, store, cookies, task, issued, now, switches, dropped>>

Next ==
  \/ Tick
  \/ ExpireCode
  \/ EvictToken \/ EvictProfile
  \/ \E r \in Requests :
       \/ Register(r) \/ Insert(r) \/ SaveCode(r) \/ PublishCode(r)
       \/ EnterCode(r) \/ CheckInactive(r) \/ Verify(r) \/ ConsumeCode(r)
       \/ Login(r) \/ GoogleCallback(r) \/ GoogleNewcomer(r) \/ Provision(r) \/ Activate(r)
       \/ Issue(r) \/ StoreToken(r) \/ Answer(r)
       \/ Refresh(r) \/ CachedProfile(r) \/ LoadProfile(r) \/ CacheProfile(r)
       \/ Switch(r) \/ SaveGroup(r) \/ Rotate(r) \/ Replace(r)
       \/ Logout(r) \/ DropAccess(r) \/ DropRefresh(r) \/ Forget(r)
       \/ Fail(r)

Spec == Init /\ [][Next]_vars

-----------------------------------------------------------------------------
\* Everything has its type; Redis refuses a TTL that is not positive.
TypeOK ==
  /\ account \in [status : Statuses, group : Groups \cup {None}, password : BOOLEAN]
  /\ code \in {"none", "saved", "sent"}
  /\ DOMAIN store \subseteq Tokens
  /\ \A t \in DOMAIN store : store[t] \in Deadlines /\ now < store[t]
  /\ profile \in [group : Groups \cup {None}, until : Deadlines]
  /\ cookies \in Cookies
  /\ \A r \in Requests : task[r] \in Task
  /\ issued \in Seq(Times) /\ Len(issued) <= MaxGrants
  /\ now \in Times /\ faults \in 0..MaxFaults /\ switches \in 0..MaxTurns
  /\ dropped \subseteq Tokens

LiveAccess(grant) == {t \in DOMAIN store : t.type = "access" /\ t.grant = grant}

\* Whatever switches of the active group race, a sign-in never has two valid
\* access tokens.
OneAccessTokenPerGrant ==
  \A g \in DOMAIN issued : \A s, t \in LiveAccess(g) : s = t

\* However often an access token is rotated, nobody is admitted with it later
\* than its sign-in allowed ("changing groups cannot extend an authenticated
\* session").
NothingOutlivesItsGrant ==
  \A g \in DOMAIN issued : \A t \in LiveAccess(g) :
    Admitted(t) => now < issued[g] + AccessTTL

\* The browser can renew its session until the refresh token in its cookie
\* expires, a logout deletes it or Redis evicts it, even when tabs renew it
\* concurrently or an answer is lost: no cookie is set before its token is
\* stored, and no other request ends the token or lets its key expire early.
SessionSurvives ==
  cookies.refresh # None =>
    \/ Cached(cookies.refresh)
    \/ now >= cookies.refresh.exp
    \/ cookies.refresh \in dropped

Spent(g) ==
  /\ LiveAccess(g) = {}
  /\ \A r \in Requests : \A t \in task[r].unsaved : t.grant # g

\* Once the access token of a sign-in was deleted by a logout or evicted, or
\* has expired, no rotation that was under way brings one back.
SpentGrantsStaySpent ==
  [][\A g \in DOMAIN issued : Spent(g) => Spent(g)']_vars

\* An account whose address was confirmed never needs confirming again,
\* whatever registrations race with the confirmation.
ConfirmedStaysConfirmed ==
  [][account.status \in {"PENDING", "ACTIVE"} => account'.status \in {"PENDING", "ACTIVE"}]_vars

\* "A repeat request for an inactive account regenerates and requeues the
\* verification email": an inactive account that has no code left can register
\* again.
InactiveMayRegisterAgain ==
  (account.status = "INACTIVE" /\ code = "none" /\ \A r \in Requests : task[r] = Idle)
    => ~InTheWay(account.status)
=============================================================================
