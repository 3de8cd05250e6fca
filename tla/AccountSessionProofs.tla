------------------------ MODULE AccountSessionProofs -------------------------
(***************************************************************************)
(* Proofs about AccountSession, for any number of requests, groups, token  *)
(* pairs and faults, and any lifetimes the assumption admits.              *)
(***************************************************************************)
EXTENDS AccountSession, TLAPS

USE AccountAssumption

-----------------------------------------------------------------------------
(***************************************************************************)
(* A token in Redis, in a cookie or in a request is genuine: it was signed *)
(* for a grant that was issued, and its expiry is the one of that grant,   *)
(* however often it was rotated.                                           *)
(***************************************************************************)
Genuine(t) ==
  /\ t \in Tokens
  /\ t.grant \in DOMAIN issued
  /\ t.exp = issued[t.grant] + Lifetime(t)

IsAccess(t) == Genuine(t) /\ t.type = "access"
IsRefresh(t) == Genuine(t) /\ t.type = "refresh"

\* What SessionSurvives demands of the browser's refresh token.
Renewable(t) == Cached(t) \/ now >= t.exp \/ t \in dropped

GenuineCookies(c) ==
  /\ c \in Cookies
  /\ c.access # None => IsAccess(c.access)
  /\ c.refresh # None => IsRefresh(c.refresh)

(***************************************************************************)
(* What a request in progress has established: it holds the access token   *)
(* it rotates, with a lifetime left, or the refresh token it renews or     *)
(* deletes; and the refresh token that it will set as a cookie is stored   *)
(* by then.                                                                *)
(***************************************************************************)
Good(t) ==
  /\ t \in Task
  /\ GenuineCookies(t.cookies)
  /\ \A k \in t.unsaved : Genuine(k)
  /\ t.unsaved # {} => t.at = "store"
  /\ t.at \in {"switch", "rotate", "replace", "drop_access"} => t.cookies.access # None
  /\ t.at = "replace" => t.ttl # 0
  /\ t.at \in {"profile", "load", "cache", "drop_access", "drop_refresh"} => t.cookies.refresh # None
  /\ t.at \in {"store", "answer"} /\ t.cookies.refresh # None =>
       t.cookies.refresh \in t.unsaved \/ Renewable(t.cookies.refresh)

ClockOK ==
  /\ issued \in Seq(Times) /\ Len(issued) <= MaxGrants
  /\ now \in Times
  /\ \A g \in DOMAIN issued : issued[g] <= now

\* A refresh token is cached no shorter than its signature is valid.
StoreOK ==
  \A t \in DOMAIN store :
    /\ Genuine(t)
    /\ store[t] \in Deadlines /\ now < store[t]
    /\ t.type = "refresh" => t.exp <= store[t]

BrowserOK ==
  /\ GenuineCookies(cookies)
  /\ cookies.refresh # None => Renewable(cookies.refresh)

RequestsOK ==
  /\ task \in [Requests -> Task]
  /\ \A r \in Requests : Good(task[r])

\* The access token of a grant is waiting to be stored or stored, once.
Twins(s, t) == s.type = "access" /\ t.type = "access" /\ s.grant = t.grant

Single ==
  /\ OneAccessTokenPerGrant
  /\ \A r \in Requests : \A t \in task[r].unsaved :
       /\ \A s \in DOMAIN store : ~Twins(s, t)
       /\ \A q \in Requests : \A s \in task[q].unsaved : Twins(s, t) => s = t /\ q = r

RestOK ==
  /\ account \in [status : Statuses, group : Groups \cup {None}, password : BOOLEAN]
  /\ code \in {"none", "saved", "sent"}
  /\ profile \in [group : Groups \cup {None}, until : Deadlines]
  /\ faults \in 0..MaxFaults /\ switches \in 0..MaxTurns
  /\ dropped \subseteq Tokens

(***************************************************************************)
(* The inductive invariant.                                                *)
(***************************************************************************)
Inv == ClockOK /\ StoreOK /\ BrowserOK /\ RequestsOK /\ Single /\ RestOK

\* The invariant contains the type invariant.
LEMMA InvImpliesTypeOK == Inv => TypeOK
BY DEF Inv, ClockOK, StoreOK, BrowserOK, RequestsOK, RestOK, Genuine, GenuineCookies, Good, TypeOK

\* The initial states satisfy the invariant.
LEMMA InitInv == Init => Inv
<1> SUFFICES ASSUME Init PROVE Inv
  OBVIOUS
<1>1. DOMAIN store = {} /\ DOMAIN issued = {}
  BY DEF Init
<1>2. Good(Idle)
  BY DEF Good, Idle, Task, Steps, GenuineCookies, NoCookies, Cookies
<1>3. ClockOK
  BY DEF Init, ClockOK, Times
<1>4. BrowserOK
  BY DEF Init, BrowserOK, GenuineCookies, NoCookies, Cookies
<1>5. RequestsOK
  BY <1>2 DEF Init, RequestsOK, Good
<1>6. RestOK
  BY DEF Init, RestOK, Statuses, NoProfile, Deadlines
<1>7. Single
  BY <1>1 DEF Init, Single, OneAccessTokenPerGrant, Idle
<1> QED
  BY <1>1, <1>3, <1>4, <1>5, <1>6, <1>7 DEF Inv, StoreOK

-----------------------------------------------------------------------------
(* Steps of a request that leave Redis' tokens and the browser alone *)

\* Between such steps a request is as good as it was.
Untouched == UNCHANGED <<store, cookies, issued, now, dropped>>

\* A good request stays good while tokens, cookies and grants stay.
LEMMA GoodStays ==
  ASSUME Untouched, NEW t, Good(t)
  PROVE  Good(t)'
BY DEF Untouched, Good, GenuineCookies, IsAccess, IsRefresh, Genuine, Renewable, Cached

\* A step of one request that changes no token, cookie or grant.
LEMMA QuietStep ==
  ASSUME Inv, RestOK', Untouched, NEW r \in Requests, NEW t, Goto(r, t),
         Good(t), t.unsaved = {}
  PROVE  Inv'
<1>1. task \in [Requests -> Task] /\ t \in Task /\ task' = [task EXCEPT ![r] = t]
  BY DEF Inv, RequestsOK, Good, Goto
<1>2. task' \in [Requests -> Task] /\ task'[r] = t /\ \A q \in Requests : q # r => task'[q] = task[q]
  BY <1>1
<1>3. RequestsOK'
  <2>1. ASSUME NEW q \in Requests PROVE Good(task[q])'
    <3>1. PICK x : x = task'[q] /\ Good(x)
      BY <1>2 DEF Inv, RequestsOK
    <3>2. Good(x)'
      BY <3>1, GoodStays
    <3> QED
      BY <3>1, <3>2 DEF Good
  <2> QED
    BY <1>2, <2>1 DEF RequestsOK
<1>4. Single'
  <2>1. OneAccessTokenPerGrant'
    BY DEF Inv, Single, OneAccessTokenPerGrant, LiveAccess, Untouched
  <2>2. \A q \in Requests : task'[q].unsaved \subseteq task[q].unsaved
    BY <1>2
  <2> QED
    BY <2>1, <2>2 DEF Inv, Single, Untouched, Twins
<1>5. ClockOK' /\ StoreOK' /\ BrowserOK'
  BY DEF Inv, ClockOK, StoreOK, BrowserOK, Untouched, GenuineCookies, IsAccess, IsRefresh,
         Genuine, Renewable, Cached
<1> QED
  BY <1>3, <1>4, <1>5 DEF Inv

\* A request that ends, or begins without any token.
Tokenless == {"idle", "insert", "save_code", "publish", "check", "verify", "consume",
              "provision", "activate", "issue", "forget"}

\* Such a request is as good as any.
LEMMA FreshTask ==
  ASSUME NEW s \in Tokenless, NEW g \in Groups \cup {None}
  PROVE  /\ Good([Idle EXCEPT !.at = s, !.group = g])
         /\ [Idle EXCEPT !.at = s, !.group = g].unsaved = {}
<1>1. Idle \in Task /\ GenuineCookies(Idle.cookies) /\ Idle.unsaved = {} /\ s \in Steps
  BY DEF Tokenless, Idle, Task, Steps, GenuineCookies, NoCookies, Cookies
<1>2. PICK t : t = [Idle EXCEPT !.at = s, !.group = g]
  OBVIOUS
<1>3. t \in Task /\ t.at = s /\ t.cookies = Idle.cookies /\ t.unsaved = {}
  BY <1>1, <1>2 DEF Task
<1> QED
  BY <1>1, <1>2, <1>3 DEF Good, Tokenless

\* An idle request is as good as any.
LEMMA FreshIdle ==
  /\ Good(Idle) /\ Idle.unsaved = {}
  /\ \A s \in Tokenless : Good([Idle EXCEPT !.at = s]) /\ [Idle EXCEPT !.at = s].unsaved = {}
BY DEF Tokenless, Good, Idle, Task, Steps, GenuineCookies, NoCookies, Cookies

\* A request under way that takes its next step with what it had.
LEMMA NextStep ==
  ASSUME NEW t, Good(t), t.at \notin {"store", "answer"},
         NEW s \in Steps \ {"store", "answer", "replace", "drop_access"},
         s \in {"switch", "rotate"} => t.at \in {"switch", "rotate"},
         s \in {"profile", "load", "cache", "drop_refresh"} =>
           t.at \in {"profile", "load", "cache", "drop_access", "drop_refresh"}
  PROVE  Good([t EXCEPT !.at = s]) /\ [t EXCEPT !.at = s].unsaved = {}
BY DEF Good, Task

\* What a step to the next place leaves of a request.
LEMMA MoveFacts ==
  ASSUME Inv, NEW r \in Requests
  PROVE  Good(task[r]) /\ task[r] \in Task
BY DEF Inv, RequestsOK, Good

\* The request ends, begins, or goes on without a token at hand.
Ends(r) == Done(r)
Begins(r) == \E s \in Tokenless, g \in Groups \cup {None} : Goto(r, [Idle EXCEPT !.at = s, !.group = g])
Starts(r) == \E s \in Tokenless : Goto(r, [Idle EXCEPT !.at = s])
GoesOn(r) == task[r].at \notin {"store", "answer"} /\ \E s \in Tokenless : Move(r, s)

\* A step that ends or begins a request without tokens.
LEMMA TokenlessStep ==
  ASSUME Inv, RestOK', Untouched, NEW r \in Requests,
         Ends(r) \/ Begins(r) \/ Starts(r) \/ GoesOn(r)
  PROVE  Inv'
<1>1. CASE Ends(r)
  BY <1>1, FreshIdle, QuietStep DEF Ends, Done
<1>2. CASE Begins(r)
  BY <1>2, FreshTask, QuietStep DEF Begins
<1>3. CASE Starts(r)
  BY <1>3, FreshIdle, QuietStep DEF Starts
<1>4. CASE GoesOn(r)
  <2>1. PICK s \in Tokenless : Move(r, s)
    BY <1>4 DEF GoesOn
  <2>2. s \in Steps \ {"store", "answer", "switch", "rotate", "replace", "profile", "load",
                       "cache", "drop_access", "drop_refresh"}
    BY DEF Tokenless, Steps
  <2>3. Good([task[r] EXCEPT !.at = s]) /\ [task[r] EXCEPT !.at = s].unsaved = {}
    BY <1>4, <2>2, MoveFacts, NextStep DEF GoesOn
  <2> QED
    BY <2>1, <2>3, QuietStep DEF Move
<1> QED
  BY <1>1, <1>2, <1>3, <1>4

\* A request may end at any place.
LEMMA FailStep ==
  ASSUME Inv, NEW r \in Requests, Fail(r)
  PROVE  Inv'
<1>1. RestOK'
  BY DEF Inv, RestOK, Fail, redis
<1> QED
  BY <1>1, TokenlessStep DEF Fail, redis, Untouched, Ends

\* Registration and the one-time code concern no token.
LEMMA SignUpStep ==
  ASSUME Inv, NEW r \in Requests,
         \/ Register(r) \/ Insert(r) \/ SaveCode(r) \/ PublishCode(r)
         \/ EnterCode(r) \/ CheckInactive(r) \/ Verify(r) \/ ConsumeCode(r)
  PROVE  Inv'
<1>1. RestOK'
  BY DEF Inv, RestOK, redis, Statuses, Register, Insert, SaveCode, PublishCode, EnterCode,
         CheckInactive, Verify, ConsumeCode
<1>2. Untouched
  BY DEF Untouched, redis, Register, Insert, SaveCode, PublishCode, EnterCode, CheckInactive,
         Verify, ConsumeCode
<1>3. Ends(r) \/ Starts(r) \/ GoesOn(r)
  BY DEF Ends, Starts, GoesOn, Tokenless, At, Begin, Register, Insert, SaveCode, PublishCode,
         EnterCode, CheckInactive, Verify, ConsumeCode
<1> QED
  BY <1>1, <1>2, <1>3, TokenlessStep

\* Sign-in up to the issue of a pair concerns no token.
LEMMA SignInStep ==
  ASSUME Inv, NEW r \in Requests,
         Login(r) \/ GoogleCallback(r) \/ GoogleNewcomer(r) \/ Provision(r) \/ Activate(r)
  PROVE  Inv'
<1>1. RestOK'
  BY DEF Inv, RestOK, redis, Statuses, Login, SignIn, GoogleCallback, GoogleNewcomer, Provision,
         Activate
<1>2. Untouched
  BY DEF Untouched, redis, Login, SignIn, GoogleCallback, GoogleNewcomer, Provision, Activate
<1>3. SignIn(r, {"PENDING"}) \/ SignIn(r, {"INACTIVE", "PENDING"}) => Begins(r)
  BY DEF SignIn, Begins, Tokenless, Inv, RestOK
<1>4. Ends(r) \/ Begins(r) \/ Starts(r) \/ GoesOn(r)
  BY <1>3 DEF Ends, Starts, GoesOn, Tokenless, At, Begin, Login, GoogleCallback, GoogleNewcomer,
         Provision, Activate
<1> QED
  BY <1>1, <1>2, <1>4, TokenlessStep

-----------------------------------------------------------------------------
(* Renewal and rotation up to the step that changes the store *)

\* A renewal answers with the refresh token that it found stored.
LEMMA RenewStep ==
  ASSUME Inv, NEW r \in Requests,
         Refresh(r) \/ CachedProfile(r) \/ LoadProfile(r) \/ CacheProfile(r)
  PROVE  Inv'
<1>1. Good(task[r]) /\ task[r] \in Task
  BY MoveFacts
<1>2. Untouched
  BY DEF Untouched, redis, Refresh, CachedProfile, LoadProfile, CacheProfile
<1>3. CASE Refresh(r)
  <2>1. PICK t : t = [Idle EXCEPT !.at = "profile", !.cookies.refresh = cookies.refresh]
    OBVIOUS
  <2>2. t = [at |-> "profile", cookies |-> [access |-> None, refresh |-> cookies.refresh],
             unsaved |-> {}, group |-> None, ttl |-> 0]
    BY <2>1 DEF Idle, NoCookies
  <2>3. cookies \in Cookies /\ IsRefresh(cookies.refresh)
    BY <1>3 DEF Inv, BrowserOK, GenuineCookies, Refresh
  <2>4. Good(t)
    <3>1. t.cookies \in Cookies /\ GenuineCookies(t.cookies)
      BY <2>2, <2>3 DEF GenuineCookies, Cookies
    <3>2. t \in Task
      BY <2>2, <3>1 DEF Task, Steps
    <3>3. cookies.refresh # None
      BY <1>3 DEF Refresh
    <3> QED
      BY <2>2, <3>1, <3>2, <3>3 DEF Good
  <2>5. RestOK'
    BY <1>3 DEF Inv, RestOK, Refresh, redis
  <2>6. Goto(r, t)
    BY <1>3, <2>1 DEF Refresh
  <2>7. t.unsaved = {}
    BY <2>2
  <2> QED
    BY <1>2, <2>4, <2>5, <2>6, <2>7, QuietStep
<1>4. CASE CachedProfile(r)
  <2>1. RestOK'
    BY <1>4 DEF Inv, RestOK, CachedProfile, redis
  <2>2. ASSUME Renew(r, profile.group) PROVE Ends(r) \/ Begins(r)
    BY <2>2 DEF Renew, Ends, Begins, Tokenless, Inv, RestOK
  <2>3. CASE Move(r, "load")
    <3>1. Good([task[r] EXCEPT !.at = "load"]) /\ [task[r] EXCEPT !.at = "load"].unsaved = {}
      BY <1>1, <1>4, NextStep DEF CachedProfile, At, Steps
    <3> QED
      BY <1>2, <2>1, <2>3, <3>1, QuietStep DEF Move
  <2> QED
    BY <1>2, <1>4, <2>1, <2>2, <2>3, TokenlessStep DEF CachedProfile
<1>5. CASE LoadProfile(r)
  <2>1. PICK t : t = [task[r] EXCEPT !.at = "cache", !.group = account.group]
    OBVIOUS
  <2>2. /\ t \in Task /\ t.at = "cache" /\ t.cookies = task[r].cookies
        /\ t.unsaved = task[r].unsaved
    BY <1>1, <2>1 DEF Task, Steps, Inv, RestOK
  <2>3. Good(t) /\ t.unsaved = {}
    BY <1>1, <1>5, <2>2 DEF Good, LoadProfile, At
  <2>4. RestOK'
    BY <1>5 DEF Inv, RestOK, LoadProfile, redis
  <2> QED
    BY <1>2, <1>5, <2>1, <2>3, <2>4, QuietStep DEF LoadProfile
<1>6. CASE CacheProfile(r)
  <2>1. now + AccessTTL \in Deadlines
    BY DEF Inv, ClockOK, Times, Deadlines
  <2>2. task[r].group \in Groups \cup {None}
    BY <1>1 DEF Task
  <2>3. RestOK'
    BY <1>6, <2>1, <2>2 DEF Inv, RestOK, CacheProfile
  <2>4. Ends(r) \/ Begins(r)
    BY <1>6, <2>2 DEF CacheProfile, Renew, Ends, Begins, Tokenless
  <2> QED
    BY <1>2, <2>3, <2>4, TokenlessStep
<1> QED
  BY <1>3, <1>4, <1>5, <1>6

\* A switch of the group goes on with the token it was sent and its lifetime.
LEMMA SwitchStep ==
  ASSUME Inv, NEW r \in Requests, Switch(r) \/ SaveGroup(r) \/ Rotate(r)
  PROVE  Inv'
<1>1. Good(task[r]) /\ task[r] \in Task
  BY MoveFacts
<1>2. Untouched
  BY DEF Untouched, redis, Switch, SaveGroup, Rotate
<1>3. CASE Switch(r)
  <2>1. PICK g \in Groups :
          Goto(r, [Idle EXCEPT !.at = "switch", !.group = g, !.cookies.access = cookies.access])
    BY <1>3 DEF Switch
  <2>2. PICK t : t = [Idle EXCEPT !.at = "switch", !.group = g, !.cookies.access = cookies.access]
    OBVIOUS
  <2>3. t = [at |-> "switch", cookies |-> [access |-> cookies.access, refresh |-> None],
             unsaved |-> {}, group |-> g, ttl |-> 0]
    BY <2>2 DEF Idle, NoCookies
  <2>4. cookies \in Cookies /\ IsAccess(cookies.access) /\ cookies.access # None
    BY <1>3 DEF Inv, BrowserOK, GenuineCookies, Switch, Admitted
  <2>5. t.cookies \in Cookies /\ GenuineCookies(t.cookies)
    BY <2>3, <2>4 DEF GenuineCookies, Cookies
  <2>6. t \in Task
    BY <2>3, <2>5 DEF Task, Steps
  <2>7. Good(t) /\ t.unsaved = {}
    BY <2>3, <2>4, <2>5, <2>6 DEF Good
  <2>8. RestOK'
    <3>1. TurnsLeft /\ switches' = switches + 1
      BY <1>3 DEF Switch
    <3>2. Len(issued) \in Nat /\ switches \in 0..MaxTurns
      BY DEF Inv, ClockOK, RestOK
    <3>3. switches' \in 0..MaxTurns
      BY <3>1, <3>2 DEF TurnsLeft
    <3> QED
      BY <1>3, <3>3 DEF Inv, RestOK, Switch, redis
  <2>9. Goto(r, t)
    BY <2>1, <2>2
  <2> QED
    BY <1>2, <2>7, <2>8, <2>9, QuietStep
<1>4. CASE SaveGroup(r)
  <2>1. task[r].group \in Groups \cup {None}
    BY <1>1 DEF Task
  <2>2. RestOK'
    BY <1>4, <2>1 DEF Inv, RestOK, SaveGroup, redis
  <2>3. Good([task[r] EXCEPT !.at = "rotate"]) /\ [task[r] EXCEPT !.at = "rotate"].unsaved = {}
    BY <1>1, <1>4, NextStep DEF SaveGroup, At, Steps
  <2> QED
    BY <1>2, <1>4, <2>2, <2>3, QuietStep DEF SaveGroup, Move
<1>5. CASE Rotate(r)
  <2>1. RestOK'
    BY <1>5 DEF Inv, RestOK, Rotate, redis
  <2>2. task[r].cookies.access # None /\ IsAccess(task[r].cookies.access)
    BY <1>1, <1>5 DEF Good, GenuineCookies, Rotate, At
  <2>3. CASE now < task[r].cookies.access.exp
    <3>1. task[r].cookies.access.exp - now \in 1..AccessTTL
      <4>1. PICK g : g = task[r].cookies.access.grant /\ g \in DOMAIN issued
        BY <2>2 DEF IsAccess, Genuine
      <4>2. issued[g] \in Nat /\ issued[g] <= now /\ now \in Nat
        BY <4>1 DEF Inv, ClockOK, Times
      <4>3. task[r].cookies.access.exp = issued[g] + AccessTTL
        BY <2>2, <4>1 DEF IsAccess, Genuine, Lifetime
      <4> QED
        BY <2>3, <4>2, <4>3
    <3>2. PICK t : t = [task[r] EXCEPT !.at = "replace", !.ttl = task[r].cookies.access.exp - now]
      OBVIOUS
    <3>3. /\ t \in Task /\ t.at = "replace" /\ t.ttl \in 1..AccessTTL
          /\ t.cookies = task[r].cookies /\ t.unsaved = task[r].unsaved
      <4>1. PICK x \in Task : x = task[r]
        BY <1>1
      <4>2. PICK n \in 1..AccessTTL : n = task[r].cookies.access.exp - now
        BY <3>1
      <4>3. t = [x EXCEPT !.at = "replace", !.ttl = n]
        BY <3>2, <4>1, <4>2
      <4>4. n \in 0..AccessTTL /\ "replace" \in Steps
        BY <4>2 DEF Steps
      <4>5. t \in Task
        BY <4>1, <4>3, <4>4 DEF Task
      <4>6. /\ t.at = "replace" /\ t.ttl = n
            /\ t.cookies = x.cookies /\ t.unsaved = x.unsaved
        BY <4>1, <4>3 DEF Task
      <4> QED
        BY <4>1, <4>2, <4>5, <4>6
    <3>4. Good(t) /\ t.unsaved = {}
      BY <1>1, <1>5, <2>2, <3>3 DEF Good, Rotate, At
    <3>5. Goto(r, t)
      BY <1>5, <2>3, <3>2 DEF Rotate
    <3> QED
      BY <1>2, <2>1, <3>4, <3>5, QuietStep
  <2>4. CASE ~(now < task[r].cookies.access.exp)
    BY <1>2, <1>5, <2>1, <2>4, TokenlessStep DEF Rotate, Ends
  <2> QED
    BY <2>3, <2>4
<1> QED
  BY <1>3, <1>4, <1>5

\* A logout goes on with the tokens it was sent.
LEMMA LogoutStep ==
  ASSUME Inv, NEW r \in Requests, Logout(r)
  PROVE  Inv'
<1>1. PICK t : t = [Idle EXCEPT !.at = "drop_access", !.cookies = cookies]
  OBVIOUS
<1>2. t = [at |-> "drop_access", cookies |-> cookies, unsaved |-> {}, group |-> None, ttl |-> 0]
  BY <1>1 DEF Idle
<1>3. cookies \in Cookies /\ GenuineCookies(cookies) /\ cookies.refresh # None /\ cookies.access # None
  BY DEF Inv, BrowserOK, GenuineCookies, Logout
<1>4. t \in Task
  BY <1>2, <1>3 DEF Task, Steps
<1>5. Good(t) /\ t.unsaved = {}
  BY <1>2, <1>3, <1>4 DEF Good
<1>6. RestOK' /\ Untouched
  BY DEF Inv, RestOK, Logout, redis, Untouched
<1>7. Goto(r, t)
  BY <1>1 DEF Logout
<1> QED
  BY <1>5, <1>6, <1>7, QuietStep

\* The keys of Redis that are no tokens may go at any time.
LEMMA OtherKeyStep ==
  ASSUME Inv, ExpireCode \/ EvictProfile
  PROVE  Inv'
<1>1. Untouched /\ UNCHANGED task /\ RestOK'
  BY DEF ExpireCode, EvictProfile, NoProfile, Untouched, Inv, RestOK, Deadlines
<1> QED
  BY <1>1 DEF Inv, RequestsOK, ClockOK, StoreOK, BrowserOK, Single, OneAccessTokenPerGrant,
              LiveAccess, Twins, Untouched, Good, GenuineCookies, IsAccess, IsRefresh, Genuine,
              Renewable, Cached

-----------------------------------------------------------------------------
(* Steps that change the tokens, the cookies or the clock *)

\* Tokens stay genuine, and what could be renewed still can, is over or was
\* dropped by a logout or by Redis.
Preserved ==
  /\ \A k \in Tokens : Genuine(k) => Genuine(k)'
  /\ \A k \in Tokens : k.type = "refresh" /\ Genuine(k) /\ Renewable(k) => Renewable(k)'

\* Cookies stay genuine while grants are only added.
LEMMA CookiesKept ==
  ASSUME Preserved, NEW c, GenuineCookies(c)
  PROVE  GenuineCookies(c)' /\ (c.refresh # None /\ Renewable(c.refresh) => Renewable(c.refresh)')
<1>1. c.refresh # None => Genuine(c.refresh) /\ c.refresh \in Tokens /\ c.refresh.type = "refresh"
  BY DEF GenuineCookies, IsRefresh, Genuine
<1>2. c.access # None => Genuine(c.access) /\ c.access \in Tokens /\ c.access.type = "access"
  BY DEF GenuineCookies, IsAccess, Genuine
<1>3. c.refresh # None => Genuine(c.refresh)'
  BY <1>1 DEF Preserved
<1>4. c.access # None => Genuine(c.access)'
  BY <1>2 DEF Preserved
<1>5. GenuineCookies(c)'
  BY <1>1, <1>2, <1>3, <1>4 DEF GenuineCookies, IsAccess, IsRefresh
<1>6. c.refresh # None /\ Renewable(c.refresh) => Renewable(c.refresh)'
  BY <1>1 DEF Preserved
<1> QED
  BY <1>5, <1>6

\* A request stays good while tokens stay stored, or are dropped.
LEMMA GoodKept ==
  ASSUME Preserved, NEW t, Good(t)
  PROVE  Good(t)'
<1>1. GenuineCookies(t.cookies)' /\
      (t.cookies.refresh # None /\ Renewable(t.cookies.refresh) => Renewable(t.cookies.refresh)')
  <2>1. PICK c : c = t.cookies
    OBVIOUS
  <2> QED
    BY <2>1, CookiesKept DEF Good
<1>2. \A k \in t.unsaved : Genuine(k)'
  <2>1. t.unsaved \subseteq Tokens
    BY DEF Good, Task
  <2> QED
    BY <2>1 DEF Good, Preserved
<1> QED
  BY <1>1, <1>2 DEF Good

\* One request moves on while the tokens change.
LEMMA TokenStep ==
  ASSUME Inv, Preserved, NEW r \in Requests, NEW t, Goto(r, t), Good(t)'
  PROVE  RequestsOK'
<1>1. task \in [Requests -> Task] /\ t \in Task /\ task' = [task EXCEPT ![r] = t]
  BY DEF Inv, RequestsOK, Good, Goto
<1>2. task' \in [Requests -> Task] /\ task'[r] = t /\ \A q \in Requests : q # r => task'[q] = task[q]
  BY <1>1
<1>3. ASSUME NEW q \in Requests, q # r PROVE Good(task[q])'
  <2>1. PICK x : x = task'[q] /\ Good(x)
    BY <1>2, <1>3 DEF Inv, RequestsOK
  <2>2. Good(x)'
    BY <2>1, GoodKept
  <2> QED
    BY <2>1, <2>2 DEF Good
<1>4. Good(task[r])'
  BY <1>2 DEF Good
<1> QED
  BY <1>2, <1>3, <1>4 DEF RequestsOK

\* The browser's cookies stay good while tokens stay stored, or are dropped.
LEMMA BrowserKept ==
  ASSUME Inv, Preserved, UNCHANGED cookies
  PROVE  BrowserOK'
<1>1. PICK c : c = cookies
  OBVIOUS
<1>2. GenuineCookies(c) /\ (c.refresh # None => Renewable(c.refresh))
  BY <1>1 DEF Inv, BrowserOK
<1>3. GenuineCookies(c)' /\ (c.refresh # None => Renewable(c.refresh)')
  BY <1>2, CookiesKept
<1>4. GenuineCookies(cookies)' /\ (cookies'.refresh # None => Renewable(c.refresh)')
  BY <1>1, <1>3 DEF GenuineCookies
<1> QED
  BY <1>1, <1>4 DEF BrowserOK, Renewable, Cached

\* The access tokens are still single when those of one request are the only
\* ones that change place.
LEMMA SingleKept ==
  ASSUME Inv, NEW r \in Requests, NEW t, Goto(r, t), t.unsaved \subseteq task[r].unsaved,
         DOMAIN store' \subseteq DOMAIN store
  PROVE  Single'
<1>1. task' = [task EXCEPT ![r] = t] /\ task \in [Requests -> Task]
  BY DEF Goto, Inv, RequestsOK
<1>2. \A q \in Requests : task'[q].unsaved \subseteq task[q].unsaved
  BY <1>1
<1>3. OneAccessTokenPerGrant'
  BY DEF Inv, Single, OneAccessTokenPerGrant, LiveAccess, StoreOK, Genuine
<1> QED
  BY <1>2, <1>3 DEF Inv, Single, Twins

\* An answer sets the cookies of its request.
LEMMA AnswerStep ==
  ASSUME Inv, NEW r \in Requests, Answer(r)
  PROVE  Inv'
<1>1. Good(task[r]) /\ task[r] \in Task /\ GenuineCookies(task[r].cookies)
  BY MoveFacts DEF Good
<1>2. UNCHANGED <<store, issued, now, dropped>> /\ RestOK' /\ Goto(r, Idle) /\ task[r].at = "answer"
  BY DEF Answer, redis, Inv, RestOK, Done, At
<1>3. Preserved
  BY <1>2 DEF Preserved, Genuine, Renewable, Cached
<1>4. /\ cookies' = [access  |-> IF task[r].cookies.access = None THEN cookies.access
                                 ELSE task[r].cookies.access,
                     refresh |-> IF task[r].cookies.refresh = None THEN cookies.refresh
                                 ELSE task[r].cookies.refresh]
  BY DEF Answer
<1>5. BrowserOK'
  <2>1. cookies \in Cookies /\ task[r].cookies \in Cookies
    BY <1>1 DEF Inv, BrowserOK, GenuineCookies
  <2>2. cookies' \in Cookies
    BY <1>4, <2>1 DEF Cookies
  <2>3. task[r].cookies.refresh # None => Renewable(task[r].cookies.refresh)
    BY <1>1, <1>2 DEF Good
  <2>4. PICK c : c = cookies'
    OBVIOUS
  <2>5. GenuineCookies(c) /\ (c.refresh # None => Renewable(c.refresh))
    BY <1>1, <1>4, <2>2, <2>3, <2>4 DEF GenuineCookies, Inv, BrowserOK
  <2>6. GenuineCookies(c)' /\ (c.refresh # None => Renewable(c.refresh)')
    BY <1>3, <2>5, CookiesKept
  <2>7. c.refresh # None => Renewable(c.refresh)'
    BY <2>6
  <2> QED
    BY <2>4, <2>6, <2>7 DEF BrowserOK, GenuineCookies, IsAccess, IsRefresh, Genuine, Renewable,
                            Cached
<1>6. RequestsOK'
  <2>1. Good(Idle)'
    BY <1>3, FreshIdle, GoodKept
  <2> QED
    BY <1>2, <1>3, <2>1, TokenStep
<1>7. Single'
  BY <1>2, FreshIdle, SingleKept
<1>8. ClockOK' /\ StoreOK'
  BY <1>2 DEF Inv, ClockOK, StoreOK, Genuine
<1> QED
  BY <1>2, <1>5, <1>6, <1>7, <1>8 DEF Inv

\* A logout clears the cookies.
LEMMA ForgetStep ==
  ASSUME Inv, NEW r \in Requests, Forget(r)
  PROVE  Inv'
<1>1. UNCHANGED <<store, issued, now, dropped>> /\ RestOK' /\ Goto(r, Idle) /\ cookies' = NoCookies
  BY DEF Forget, redis, Inv, RestOK, Done
<1>2. Preserved
  BY <1>1 DEF Preserved, Genuine, Renewable, Cached
<1>3. BrowserOK'
  BY <1>1 DEF BrowserOK, GenuineCookies, NoCookies, Cookies
<1>4. RequestsOK'
  <2>1. Good(Idle)'
    BY <1>2, FreshIdle, GoodKept
  <2> QED
    BY <1>1, <1>2, <2>1, TokenStep
<1>5. Single'
  BY <1>1, FreshIdle, SingleKept
<1>6. ClockOK' /\ StoreOK'
  BY <1>1 DEF Inv, ClockOK, StoreOK, Genuine
<1> QED
  BY <1>1, <1>3, <1>4, <1>5, <1>6 DEF Inv

\* A key that time takes away held a token whose own expiry has passed.
LEMMA TickStep ==
  ASSUME Inv, Tick
  PROVE  Inv'
<1>1. /\ UNCHANGED <<account, code, cookies, task, issued, faults, switches, dropped>>
      /\ now \in Times /\ now' = now + 1 /\ now' \in Times /\ now \in Nat
      /\ profile' \in {profile, NoProfile}
  BY DEF Tick, Inv, ClockOK, Times
<1>2. \A t : t \in DOMAIN store' <=> t \in DOMAIN store /\ now' < store[t]
  BY DEF Tick, Only
<1>3. \A t \in DOMAIN store' : store'[t] = store[t]
  BY DEF Tick, Only
<1>4. \A t \in DOMAIN store : t \in Tokens /\ store[t] \in Nat /\ t.exp \in Nat
  BY DEF Inv, StoreOK, Genuine, Deadlines, Tokens
<1>5. Preserved
  <2>1. \A k \in Tokens : Genuine(k) => Genuine(k)'
    BY <1>1 DEF Genuine
  <2>2. ASSUME NEW k \in Tokens, k.type = "refresh", Renewable(k) PROVE Renewable(k)'
    <3>1. k.exp \in Nat
      BY DEF Tokens, Deadlines
    <3>2. CASE Cached(k)
      <4>1. k.exp <= store[k] /\ store[k] \in Nat
        BY <1>4, <2>2, <3>2 DEF Inv, StoreOK, Cached
      <4> QED
        BY <1>1, <1>2, <3>1, <3>2, <4>1 DEF Renewable, Cached
    <3>3. CASE ~Cached(k)
      BY <1>1, <2>2, <3>1, <3>3 DEF Renewable
    <3> QED
      BY <3>2, <3>3
  <2> QED
    BY <2>1, <2>2 DEF Preserved
<1>6. RequestsOK'
  <2>1. ASSUME NEW q \in Requests PROVE Good(task[q])'
    <3>1. PICK x : x = task[q] /\ Good(x)
      BY DEF Inv, RequestsOK
    <3>2. Good(x)'
      BY <1>5, <3>1, GoodKept
    <3> QED
      BY <1>1, <3>1, <3>2 DEF Good
  <2> QED
    BY <1>1, <2>1 DEF RequestsOK, Inv
<1>7. Single'
  <2>1. DOMAIN store' \subseteq DOMAIN store
    BY <1>2
  <2>2. OneAccessTokenPerGrant'
    BY <1>1, <2>1 DEF Inv, Single, OneAccessTokenPerGrant, LiveAccess
  <2> QED
    BY <1>1, <2>1, <2>2 DEF Inv, Single, Twins
<1>8. StoreOK'
  BY <1>1, <1>2, <1>3, <1>4 DEF Inv, StoreOK, Genuine
<1>9. BrowserOK'
  BY <1>1, <1>5, BrowserKept
<1>10. ClockOK' /\ RestOK'
  BY <1>1 DEF Inv, ClockOK, RestOK, NoProfile, Times, Deadlines
<1> QED
  BY <1>6, <1>7, <1>8, <1>9, <1>10 DEF Inv

\* A token that Redis evicts is dropped if it is a refresh token.
LEMMA EvictTokenStep ==
  ASSUME Inv, EvictToken
  PROVE  Inv'
<1>1. PICK e \in DOMAIN store :
        /\ store' = Only(DOMAIN store \ {e})
        /\ dropped' = IF e.type = "refresh" THEN dropped \cup {e} ELSE dropped
  BY DEF EvictToken
<1>2. UNCHANGED <<account, code, profile, cookies, task, issued, now, switches>>
  BY DEF EvictToken
<1>3. faults' \in 0..MaxFaults
  BY DEF EvictToken, Inv, RestOK
<1>4. DOMAIN store' = DOMAIN store \ {e} /\ \A t \in DOMAIN store' : store'[t] = store[t]
  BY <1>1 DEF Only
<1>5. e \in Tokens /\ dropped \subseteq Tokens
  BY DEF Inv, StoreOK, Genuine, RestOK
<1>6. dropped' \subseteq Tokens /\ dropped \subseteq dropped'
  BY <1>1, <1>5
<1>7. Preserved
  <2>1. \A k \in Tokens : Genuine(k) => Genuine(k)'
    BY <1>2 DEF Genuine
  <2>2. ASSUME NEW k \in Tokens, k.type = "refresh", Renewable(k) PROVE Renewable(k)'
    <3>1. CASE k = e
      BY <1>1, <2>2, <3>1 DEF Renewable
    <3>2. CASE k # e
      BY <1>2, <1>4, <1>6, <2>2, <3>2 DEF Renewable, Cached
    <3> QED
      BY <3>1, <3>2
  <2> QED
    BY <2>1, <2>2 DEF Preserved
<1>8. RequestsOK'
  <2>1. ASSUME NEW q \in Requests PROVE Good(task[q])'
    <3>1. PICK x : x = task[q] /\ Good(x)
      BY DEF Inv, RequestsOK
    <3>2. Good(x)'
      BY <1>7, <3>1, GoodKept
    <3> QED
      BY <1>2, <3>1, <3>2 DEF Good
  <2> QED
    BY <1>2, <2>1 DEF RequestsOK, Inv
<1>9. Single'
  <2>1. DOMAIN store' \subseteq DOMAIN store
    BY <1>4
  <2>2. OneAccessTokenPerGrant'
    BY <1>2, <2>1 DEF Inv, Single, OneAccessTokenPerGrant, LiveAccess
  <2> QED
    BY <1>2, <2>1, <2>2 DEF Inv, Single, Twins
<1>10. StoreOK'
  BY <1>2, <1>4 DEF Inv, StoreOK, Genuine
<1>11. BrowserOK'
  BY <1>2, <1>7, BrowserKept
<1>12. ClockOK' /\ RestOK'
  BY <1>2, <1>3, <1>6 DEF Inv, ClockOK, RestOK
<1> QED
  BY <1>8, <1>9, <1>10, <1>11, <1>12 DEF Inv

\* The deletion of a token: an access token, or a refresh token a logout drops.
LEMMA DropStep ==
  ASSUME Inv, NEW r \in Requests, DropAccess(r) \/ DropRefresh(r)
  PROVE  Inv'
<1>1. Good(task[r]) /\ task[r] \in Task /\ GenuineCookies(task[r].cookies)
  BY MoveFacts DEF Good
<1>2. PICK token \in {"access", "refresh"}, step \in {"drop_refresh", "forget"} :
        /\ At(r, IF token = "access" THEN "drop_access" ELSE "drop_refresh")
        /\ Drop(r, token, step)
        /\ step = IF token = "access" THEN "drop_refresh" ELSE "forget"
        /\ dropped' = IF token = "access" THEN dropped ELSE dropped \cup {task[r].cookies.refresh}
  BY DEF DropAccess, DropRefresh
<1>3. /\ UNCHANGED <<account, code, profile, cookies, issued, now, faults, switches>>
      /\ store' = Only(DOMAIN store \ {task[r].cookies[token]})
  BY <1>2 DEF Drop
<1>4. IsRefresh(task[r].cookies.refresh) /\ task[r].cookies.refresh # None
  BY <1>1, <1>2 DEF Good, At, GenuineCookies
<1>5. token = "access" => IsAccess(task[r].cookies.access)
  BY <1>1, <1>2 DEF Good, At, GenuineCookies
<1>6. dropped' \subseteq Tokens /\ dropped \subseteq dropped'
  BY <1>2, <1>4 DEF Inv, RestOK, IsRefresh, Genuine
<1>7. /\ DOMAIN store' = DOMAIN store \ {task[r].cookies[token]}
      /\ \A t \in DOMAIN store' : store'[t] = store[t]
  BY <1>3 DEF Only
<1>8. Preserved
  <2>1. \A k \in Tokens : Genuine(k) => Genuine(k)'
    BY <1>3 DEF Genuine
  <2>2. ASSUME NEW k \in Tokens, k.type = "refresh", Renewable(k) PROVE Renewable(k)'
    <3>1. CASE token = "access"
      <4>1. k # task[r].cookies.access
        BY <1>5, <2>2, <3>1 DEF IsAccess
      <4> QED
        BY <1>3, <1>6, <1>7, <2>2, <3>1, <4>1 DEF Renewable, Cached
    <3>2. CASE token = "refresh"
      BY <1>2, <1>3, <1>7, <2>2, <3>2 DEF Renewable, Cached
    <3> QED
      BY <3>1, <3>2
  <2> QED
    BY <2>1, <2>2 DEF Preserved
<1>9. RequestsOK'
  <2>1. PICK t : t = [task[r] EXCEPT !.at = step, !.cookies[token] = None]
    OBVIOUS
  <2>2. PICK x \in Task : x = task[r] /\ Good(x)
    BY <1>1
  <2>3. x.cookies \in Cookies /\ GenuineCookies(x.cookies) /\ x.unsaved = {}
    BY <1>2, <2>2 DEF Task, Good, At
  <2>4. t = [x EXCEPT !.at = step, !.cookies = [x.cookies EXCEPT ![token] = None]]
    BY <2>1, <2>2
  <2>5. PICK c : c = [x.cookies EXCEPT ![token] = None]
    OBVIOUS
  <2>6. c \in Cookies /\ GenuineCookies(c) /\ (token = "access" => c.refresh = x.cookies.refresh)
    BY <2>3, <2>5 DEF Cookies, GenuineCookies
  <2>7. step \in Steps
    BY DEF Steps
  <2>8. t = [x EXCEPT !.at = step, !.cookies = c]
    BY <2>4, <2>5
  <2>9. t \in Task
    BY <2>2, <2>6, <2>7, <2>8 DEF Task
  <2>10. t.at = step /\ t.cookies = c /\ t.unsaved = {}
    BY <2>2, <2>3, <2>8 DEF Task
  <2>11. Good(t)
    BY <1>2, <1>4, <2>2, <2>6, <2>9, <2>10 DEF Good
  <2>12. Good(t)' /\ Goto(r, t)
    BY <1>2, <1>8, <2>1, <2>11, GoodKept DEF Drop
  <2> QED
    BY <1>8, <2>12, TokenStep
<1>10. Single'
  <2>1. PICK t : t = [task[r] EXCEPT !.at = step, !.cookies[token] = None]
    OBVIOUS
  <2>2. t.unsaved = task[r].unsaved
    BY <1>1, <2>1 DEF Task
  <2>3. Goto(r, t)
    BY <1>2, <2>1 DEF Drop
  <2> QED
    BY <1>7, <2>2, <2>3, SingleKept
<1>11. StoreOK' /\ ClockOK'
  BY <1>3, <1>7 DEF Inv, StoreOK, ClockOK, Genuine
<1>12. BrowserOK'
  BY <1>3, <1>8, BrowserKept
<1>13. RestOK'
  BY <1>3, <1>6 DEF Inv, RestOK
<1> QED
  BY <1>9, <1>10, <1>11, <1>12, <1>13 DEF Inv

\* A token of a pair is stored, and is unsaved no more.
LEMMA StoreStep ==
  ASSUME Inv, NEW r \in Requests, StoreToken(r)
  PROVE  Inv'
<1>1. PICK x \in Task : x = task[r] /\ Good(x)
  BY MoveFacts
<1>2. PICK k \in x.unsaved :
        /\ store' = Put(k, Lifetime(k))
        /\ Goto(r, [x EXCEPT !.unsaved = @ \ {k}, !.at = IF x.unsaved = {k} THEN "answer" ELSE "store"])
  BY <1>1 DEF StoreToken
<1>3. UNCHANGED <<account, code, profile, cookies, issued, now, faults, switches, dropped>> /\ x.at = "store"
  BY <1>1 DEF StoreToken, At
<1>4. k \in Tokens /\ Genuine(k)
  BY <1>1, <1>2 DEF Good, Genuine
<1>5. /\ DOMAIN store' = DOMAIN store \cup {k}
      /\ store'[k] = now + Lifetime(k)
      /\ \A s \in DOMAIN store : s # k => store'[s] = store[s]
  BY <1>2 DEF Put
<1>6. Preserved
  BY <1>3, <1>5 DEF Preserved, Genuine, Renewable, Cached
<1>7. PICK t : t = [x EXCEPT !.unsaved = @ \ {k}, !.at = IF x.unsaved = {k} THEN "answer" ELSE "store"]
  OBVIOUS
<1>8. /\ t \in Task /\ t.at = IF x.unsaved = {k} THEN "answer" ELSE "store"
      /\ t.unsaved = x.unsaved \ {k} /\ t.cookies = x.cookies
  <2>1. PICK s \in Steps : s = IF x.unsaved = {k} THEN "answer" ELSE "store"
    BY DEF Steps
  <2>2. PICK u \in SUBSET Tokens : u = x.unsaved \ {k}
    BY DEF Task
  <2>3. t = [x EXCEPT !.unsaved = u, !.at = s]
    BY <1>7, <2>1, <2>2
  <2>4. t \in Task
    BY <2>3 DEF Task
  <2>5. t.at = s /\ t.unsaved = u /\ t.cookies = x.cookies
    BY <2>3 DEF Task
  <2> QED
    BY <2>1, <2>2, <2>4, <2>5
<1>9. RequestsOK'
  <2>1. GenuineCookies(x.cookies)
    BY <1>1 DEF Good
  <2>2. GenuineCookies(x.cookies)' /\
        (x.cookies.refresh # None /\ Renewable(x.cookies.refresh) => Renewable(x.cookies.refresh)')
    <3>1. PICK c : c = x.cookies
      OBVIOUS
    <3> QED
      BY <1>6, <2>1, <3>1, CookiesKept
  <2>3. x.cookies.refresh = k => Renewable(x.cookies.refresh)'
    BY <1>5 DEF Renewable, Cached
  <2>4. \A s \in t.unsaved : Genuine(s)'
    BY <1>1, <1>3, <1>8 DEF Good, Genuine
  <2>5. x.cookies.refresh # None => x.cookies.refresh \in x.unsaved \/ Renewable(x.cookies.refresh)
    BY <1>1, <1>3 DEF Good
  <2>6. Good(t)'
    BY <1>8, <2>2, <2>3, <2>4, <2>5 DEF Good
  <2>7. Goto(r, t)
    BY <1>2, <1>7
  <2> QED
    BY <1>6, <2>6, <2>7, TokenStep
<1>10. StoreOK'
  <2>1. now \in Nat /\ now <= MaxTime /\ issued[k.grant] \in Nat /\ issued[k.grant] <= now
    BY <1>4 DEF Inv, ClockOK, Times, Genuine
  <2>2. Lifetime(k) \in 1..RefreshTTL
    BY DEF Lifetime
  <2>3. k.exp <= now + Lifetime(k)
    BY <1>4, <2>1, <2>2 DEF Genuine
  <2>4. store'[k] \in Deadlines /\ now < store'[k]
    BY <1>5, <2>1, <2>2 DEF Deadlines
  <2>5. Genuine(k)'
    BY <1>4, <1>6 DEF Preserved
  <2>6. \A s \in DOMAIN store : Genuine(s)'
    BY <1>6 DEF Preserved, Inv, StoreOK, Genuine
  <2> QED
    BY <1>3, <1>5, <2>3, <2>4, <2>5, <2>6 DEF StoreOK, Inv
<1>11. Single'
  <2>1. task' = [task EXCEPT ![r] = t] /\ task \in [Requests -> Task]
    BY <1>2, <1>7 DEF Goto, Inv, RequestsOK
  <2>2. task'[r].unsaved = x.unsaved \ {k} /\ \A q \in Requests : q # r => task'[q] = task[q]
    BY <1>8, <2>1
  <2>3. \A s \in DOMAIN store : ~Twins(s, k)
    BY <1>1 DEF Inv, Single
  <2>4. OneAccessTokenPerGrant'
    BY <1>3, <1>5, <2>3 DEF Inv, Single, OneAccessTokenPerGrant, LiveAccess, Twins
  <2>5. ASSUME NEW q \in Requests, NEW s \in task'[q].unsaved PROVE s \in task[q].unsaved /\ ~Twins(k, s)
    <3>1. s \in task[q].unsaved /\ (s # k \/ q # r)
      BY <1>1, <2>2, <2>5
    <3>2. Twins(k, s) => Twins(s, k)
      BY DEF Twins
    <3> QED
      BY <1>1, <3>1, <3>2 DEF Inv, Single
  <2> QED
    BY <1>5, <2>4, <2>5 DEF Inv, Single, Twins
<1>12. BrowserOK'
  BY <1>3, <1>6, BrowserKept
<1>13. ClockOK' /\ RestOK'
  BY <1>3 DEF Inv, ClockOK, RestOK
<1> QED
  BY <1>9, <1>10, <1>11, <1>12, <1>13 DEF Inv

\* A rotation replaces the one cached access token of the grant by another one
\* of the same grant and expiry.
LEMMA ReplaceStep ==
  ASSUME Inv, NEW r \in Requests, Replace(r)
  PROVE  Inv'
<1>1. PICK x \in Task : x = task[r] /\ Good(x)
  BY MoveFacts
<1>2. PICK old \in Tokens : old = x.cookies.access /\ IsAccess(old)
  BY <1>1 DEF Replace, At, Good, GenuineCookies, IsAccess, Genuine
<1>3. /\ UNCHANGED <<account, code, profile, cookies, issued, now, faults, switches, dropped>>
      /\ store' = Replaced(old, Rotated(old, x.group), x.ttl)
      /\ x.at = "replace"
  BY <1>1, <1>2 DEF Replace, At
<1>4. RestOK'
  BY <1>3 DEF Inv, RestOK
<1>5. CASE ~Cached(old)
  <2>1. Untouched /\ Ends(r)
    BY <1>1, <1>2, <1>3, <1>5 DEF Untouched, Replaced, Ends, Replace
  <2> QED
    BY <1>4, <2>1, TokenlessStep
<1>6. CASE Cached(old)
  <2>1. PICK new : new = Rotated(old, x.group)
    OBVIOUS
  <2>2. /\ new \in Tokens /\ new.type = "access" /\ new.grant = old.grant /\ new.exp = old.exp
        /\ Genuine(new)
    <3>1. x.group \in Groups \cup {None}
      BY DEF Task
    <3>2. new \in Tokens /\ new.type = "access" /\ new.grant = old.grant /\ new.exp = old.exp
      BY <1>2, <2>1, <3>1 DEF Rotated, Tokens, IsAccess
    <3> QED
      BY <1>2, <3>2 DEF IsAccess, Genuine, Lifetime
  <2>3. /\ DOMAIN store' = (DOMAIN store \ {old}) \cup {new}
        /\ store'[new] = now + x.ttl
        /\ \A s \in DOMAIN store \ {old, new} : store'[s] = store[s]
    BY <1>3, <1>6, <2>1 DEF Replaced, Put, Cached
  <2>4. Preserved
    <3>1. \A k \in Tokens : Genuine(k) => Genuine(k)'
      BY <1>3 DEF Genuine
    <3>2. ASSUME NEW k \in Tokens, k.type = "refresh", Renewable(k) PROVE Renewable(k)'
      BY <1>2, <1>3, <2>3, <3>2 DEF Renewable, Cached, IsAccess
    <3> QED
      BY <3>1, <3>2 DEF Preserved
  <2>5. PICK t : t = [Idle EXCEPT !.at = "answer", !.cookies.access = new]
    OBVIOUS
  <2>6. t = [at |-> "answer", cookies |-> [access |-> new, refresh |-> None],
             unsaved |-> {}, group |-> None, ttl |-> 0]
    BY <2>5 DEF Idle, NoCookies
  <2>7. Goto(r, t)
    BY <1>1, <1>2, <1>6, <2>1, <2>5 DEF Replace
  <2>8. RequestsOK'
    <3>1. t.cookies \in Cookies /\ GenuineCookies(t.cookies)
      BY <2>2, <2>6 DEF GenuineCookies, Cookies, IsAccess
    <3>2. t \in Task
      BY <2>6, <3>1 DEF Task, Steps
    <3>3. Good(t)
      BY <2>6, <3>1, <3>2 DEF Good
    <3> QED
      BY <2>4, <2>7, <3>3, GoodKept, TokenStep
  <2>9. StoreOK'
    <3>1. x.ttl \in 1..AccessTTL
      BY <1>1, <1>3 DEF Good, Task
    <3>2. now \in Nat /\ now <= MaxTime
      BY DEF Inv, ClockOK, Times
    <3>3. store'[new] \in Deadlines /\ now < store'[new]
      BY <2>3, <3>1, <3>2 DEF Deadlines
    <3>4. \A s \in DOMAIN store' : Genuine(s)'
      BY <2>2, <2>3, <2>4 DEF Preserved, Inv, StoreOK, Genuine
    <3> QED
      BY <1>3, <2>2, <2>3, <3>3, <3>4 DEF StoreOK, Inv
  <2>10. Single'
    <3>1. task' = [task EXCEPT ![r] = t] /\ task \in [Requests -> Task]
      BY <2>7 DEF Goto, Inv, RequestsOK
    <3>2. \A q \in Requests : task'[q].unsaved \subseteq task[q].unsaved
      BY <2>6, <3>1
    <3>3. \A s \in DOMAIN store : Twins(s, old) => s = old
      BY <1>2, <1>6 DEF Inv, Single, OneAccessTokenPerGrant, LiveAccess, Twins, Cached, IsAccess,
                        Genuine
    <3>4. \A s : Twins(s, new) <=> Twins(s, old)
      BY <1>2, <2>2 DEF Twins, IsAccess
    <3>5. \A s \in DOMAIN store' : Twins(s, new) => s = new
      BY <2>3, <3>3, <3>4
    <3>6. OneAccessTokenPerGrant'
      BY <1>3, <2>2, <2>3, <3>5 DEF Inv, Single, OneAccessTokenPerGrant, LiveAccess, Twins
    <3>7. ASSUME NEW q \in Requests, NEW s \in task'[q].unsaved PROVE ~Twins(new, s)
      <4>1. ~Twins(old, s)
        BY <1>6, <3>2, <3>7 DEF Inv, Single, Cached
      <4> QED
        BY <1>2, <2>2, <4>1 DEF Twins, IsAccess
    <3> QED
      BY <2>3, <3>2, <3>6, <3>7 DEF Inv, Single, Twins
  <2>11. BrowserOK'
    BY <1>3, <2>4, BrowserKept
  <2>12. ClockOK'
    BY <1>3 DEF Inv, ClockOK
  <2> QED
    BY <1>4, <2>8, <2>9, <2>10, <2>11, <2>12 DEF Inv
<1> QED
  BY <1>5, <1>6

\* A pair is made for a new grant, so no token of it is stored yet.
LEMMA IssueStep ==
  ASSUME Inv, NEW r \in Requests, Issue(r)
  PROVE  Inv'
<1>1. PICK x \in Task : x = task[r] /\ Good(x)
  BY MoveFacts
<1>2. PICK grant : grant = Len(issued) + 1
  OBVIOUS
<1>3. PICK access : access = AccessToken(grant, x.group, now)
  OBVIOUS
<1>4. PICK refresh : refresh = RefreshToken(grant, now)
  OBVIOUS
<1>5. /\ UNCHANGED <<account, redis, cookies, now, faults, switches, dropped>>
      /\ issued' = Append(issued, now)
      /\ Len(issued) < MaxGrants
      /\ Goto(r, [Idle EXCEPT !.at = "store", !.cookies = [access |-> access, refresh |-> refresh],
                              !.unsaved = {access, refresh}])
  BY <1>1, <1>2, <1>3, <1>4 DEF Issue, GrantsLeft
<1>6. /\ grant \in Grants /\ grant \notin DOMAIN issued /\ now \in Times
      /\ issued \in Seq(Times) /\ issued' \in Seq(Times)
      /\ DOMAIN issued = 1..Len(issued) /\ Len(issued') = Len(issued) + 1
      /\ issued'[grant] = now /\ DOMAIN issued' = DOMAIN issued \cup {grant}
      /\ \A g \in DOMAIN issued : issued'[g] = issued[g]
  BY <1>2, <1>5 DEF Inv, ClockOK, Grants
<1>7. /\ access \in Tokens /\ access.type = "access" /\ access.grant = grant
      /\ access.exp = now + AccessTTL
  <2>1. x.group \in Groups \cup {None}
    BY DEF Task
  <2>2. now + AccessTTL \in Deadlines
    BY <1>6 DEF Times, Deadlines
  <2> QED
    BY <1>3, <1>6, <2>1, <2>2 DEF AccessToken, Tokens
<1>8. /\ refresh \in Tokens /\ refresh.type = "refresh" /\ refresh.grant = grant
      /\ refresh.exp = now + RefreshTTL
  <2>1. now + RefreshTTL \in Deadlines
    BY <1>6 DEF Times, Deadlines
  <2> QED
    BY <1>4, <1>6, <2>1 DEF RefreshToken, Tokens
<1>9. Preserved
  BY <1>5, <1>6 DEF Preserved, Genuine, Renewable, Cached, redis
<1>10. IsAccess(access)' /\ IsRefresh(refresh)'
  BY <1>6, <1>7, <1>8 DEF IsAccess, IsRefresh, Genuine, Lifetime
<1>11. PICK t : t = [Idle EXCEPT !.at = "store", !.cookies = [access |-> access, refresh |-> refresh],
                                 !.unsaved = {access, refresh}]
  OBVIOUS
<1>12. t = [at |-> "store", cookies |-> [access |-> access, refresh |-> refresh],
            unsaved |-> {access, refresh}, group |-> None, ttl |-> 0]
  BY <1>11 DEF Idle
<1>13. Goto(r, t)
  BY <1>5, <1>11
<1>14. RequestsOK'
  <2>1. t.cookies \in Cookies /\ GenuineCookies(t.cookies)'
    BY <1>7, <1>8, <1>10, <1>12 DEF GenuineCookies, Cookies
  <2>2. t \in Task
    BY <1>7, <1>8, <1>12, <2>1 DEF Task, Steps
  <2>3. Good(t)'
    BY <1>10, <1>12, <2>1, <2>2 DEF Good, IsAccess, IsRefresh
  <2> QED
    BY <1>9, <1>13, <2>3, TokenStep
<1>15. Single'
  <2>1. task' = [task EXCEPT ![r] = t] /\ task \in [Requests -> Task]
    BY <1>13 DEF Goto, Inv, RequestsOK
  <2>2. task'[r].unsaved = {access, refresh} /\ \A q \in Requests : q # r => task'[q] = task[q]
    BY <1>12, <2>1
  <2>3. store' = store /\ \A s \in DOMAIN store : s.grant # grant
    BY <1>5, <1>6 DEF redis, Inv, StoreOK, Genuine
  <2>4. \A q \in Requests : \A s \in task[q].unsaved : s.grant # grant
    BY <1>6 DEF Inv, RequestsOK, Good, Genuine
  <2>5. OneAccessTokenPerGrant'
    BY <2>3 DEF Inv, Single, OneAccessTokenPerGrant, LiveAccess, StoreOK, Genuine
  <2>6. ASSUME NEW q \in Requests, NEW s \in task'[q].unsaved,
               NEW p \in Requests, NEW u \in task'[p].unsaved, Twins(s, u)
        PROVE  s = u /\ p = q
    <3>1. s.type = "access" /\ u.type = "access" /\ s.grant = u.grant
      BY <2>6 DEF Twins
    <3>2. CASE q = r /\ p = r
      BY <1>8, <2>2, <2>6, <3>1, <3>2
    <3>3. CASE q = r /\ p # r
      BY <1>7, <1>8, <2>2, <2>4, <2>6, <3>1, <3>3
    <3>4. CASE q # r /\ p = r
      BY <1>7, <1>8, <2>2, <2>4, <2>6, <3>1, <3>4
    <3>5. CASE q # r /\ p # r
      BY <2>2, <2>6, <3>5 DEF Inv, Single
    <3> QED
      BY <3>2, <3>3, <3>4, <3>5
  <2>7. ASSUME NEW q \in Requests, NEW u \in task'[q].unsaved, NEW s \in DOMAIN store
        PROVE  ~Twins(s, u)
    <3>1. CASE q = r
      BY <1>7, <1>8, <2>2, <2>3, <2>7, <3>1 DEF Twins
    <3>2. CASE q # r
      BY <2>2, <2>7, <3>2 DEF Inv, Single
    <3> QED
      BY <3>1, <3>2
  <2> QED
    BY <2>3, <2>5, <2>6, <2>7 DEF Single, Twins
<1>16. StoreOK'
  BY <1>5, <1>9 DEF redis, Inv, StoreOK, Preserved, Genuine
<1>17. BrowserOK'
  BY <1>5, <1>9, BrowserKept
<1>18. ClockOK'
  <2>1. \A g \in DOMAIN issued' : issued'[g] <= now'
    BY <1>5, <1>6 DEF Inv, ClockOK, Times
  <2> QED
    BY <1>5, <1>6, <2>1 DEF ClockOK, Inv
<1>19. RestOK'
  BY <1>5 DEF Inv, RestOK, redis
<1> QED
  BY <1>14, <1>15, <1>16, <1>17, <1>18, <1>19 DEF Inv

-----------------------------------------------------------------------------
(* The theorems *)

\* Every step keeps the invariant.
LEMMA StepInv == Inv /\ [Next]_vars => Inv'
<1> SUFFICES ASSUME Inv, [Next]_vars PROVE Inv'
  OBVIOUS
<1>1. CASE Tick \/ EvictToken
  BY <1>1, TickStep, EvictTokenStep
<1>2. CASE ExpireCode \/ EvictProfile
  BY <1>2, OtherKeyStep
<1>3. ASSUME NEW r \in Requests,
             \/ Register(r) \/ Insert(r) \/ SaveCode(r) \/ PublishCode(r)
             \/ EnterCode(r) \/ CheckInactive(r) \/ Verify(r) \/ ConsumeCode(r)
      PROVE  Inv'
  BY <1>3, SignUpStep
<1>4. ASSUME NEW r \in Requests,
             Login(r) \/ GoogleCallback(r) \/ GoogleNewcomer(r) \/ Provision(r) \/ Activate(r)
      PROVE  Inv'
  BY <1>4, SignInStep
<1>5. ASSUME NEW r \in Requests, Issue(r) \/ StoreToken(r) \/ Answer(r)
      PROVE  Inv'
  BY <1>5, IssueStep, StoreStep, AnswerStep
<1>6. ASSUME NEW r \in Requests,
             Refresh(r) \/ CachedProfile(r) \/ LoadProfile(r) \/ CacheProfile(r)
      PROVE  Inv'
  BY <1>6, RenewStep
<1>7. ASSUME NEW r \in Requests, Switch(r) \/ SaveGroup(r) \/ Rotate(r) \/ Replace(r)
      PROVE  Inv'
  BY <1>7, SwitchStep, ReplaceStep
<1>8. ASSUME NEW r \in Requests, Logout(r) \/ DropAccess(r) \/ DropRefresh(r) \/ Forget(r) \/ Fail(r)
      PROVE  Inv'
  BY <1>8, LogoutStep, DropStep, ForgetStep, FailStep
<1>9. CASE UNCHANGED vars
  BY <1>9 DEF vars, redis, Inv, ClockOK, StoreOK, BrowserOK, RequestsOK, Single, RestOK,
              OneAccessTokenPerGrant, LiveAccess, Twins, Good, GenuineCookies, IsAccess,
              IsRefresh, Genuine, Renewable, Cached
<1> QED
  BY <1>1, <1>2, <1>3, <1>4, <1>5, <1>6, <1>7, <1>8, <1>9 DEF Next

\* The invariant holds throughout.
THEOREM InvHolds == Spec => []Inv
BY InitInv, StepInv, PTL DEF Spec

\* Every reachable state is well typed.
THEOREM TypeCorrect == Spec => []TypeOK
BY InvHolds, InvImpliesTypeOK, PTL

\* However many tabs sign in, renew and switch groups at once, a grant has one
\* cached access token at most.
THEOREM OneAccessToken == Spec => []OneAccessTokenPerGrant
<1>1. Inv => OneAccessTokenPerGrant
  BY DEF Inv, Single
<1> QED
  BY <1>1, InvHolds, PTL

\* No rotation takes access beyond the time its grant was given.
THEOREM GrantsBoundAccess == Spec => []NothingOutlivesItsGrant
<1>1. Inv => NothingOutlivesItsGrant
  <2> SUFFICES ASSUME Inv, NEW g \in DOMAIN issued, NEW t \in LiveAccess(g), Admitted(t)
               PROVE  now < issued[g] + AccessTTL
    BY DEF NothingOutlivesItsGrant
  <2>1. t.exp = issued[g] + AccessTTL
    BY DEF LiveAccess, Inv, StoreOK, Genuine, Lifetime
  <2> QED
    BY <2>1 DEF Admitted
<1> QED
  BY <1>1, InvHolds, PTL

\* The browser's refresh token is valid until it expires, a logout deletes it
\* or Redis evicts it: no other step of any request ends it.
THEOREM SessionsSurvive == Spec => []SessionSurvives
<1>1. Inv => SessionSurvives
  BY DEF Inv, BrowserOK, Renewable, SessionSurvives
<1> QED
  BY <1>1, InvHolds, PTL

\* A confirmed account never becomes inactive again.
THEOREM ConfirmationLasts == Spec => ConfirmedStaysConfirmed
<1>1. Inv /\ [Next]_vars =>
        (account.status \in {"PENDING", "ACTIVE"} => account'.status \in {"PENDING", "ACTIVE"})
  <2> SUFFICES ASSUME Inv, Next, account' # account, account.status \in {"PENDING", "ACTIVE"}
               PROVE  account'.status \in {"PENDING", "ACTIVE"}
    BY DEF vars
  <2>1. account \in [status : Statuses, group : Groups \cup {None}, password : BOOLEAN]
    BY DEF Inv, RestOK
  <2>2. PICK r \in Requests :
          Insert(r) \/ Verify(r) \/ Provision(r) \/ Activate(r) \/ SaveGroup(r)
    BY DEF Next, Tick, ExpireCode, EvictToken, EvictProfile, Register, SaveCode, PublishCode, EnterCode, CheckInactive,
           ConsumeCode, Login, SignIn, GoogleCallback, GoogleNewcomer, Issue, StoreToken, Answer,
           Refresh, CachedProfile, LoadProfile, CacheProfile, Switch, Rotate, Replace, Logout,
           DropAccess, DropRefresh, Drop, Forget, Fail
  <2>3. CASE Insert(r) \/ Provision(r)
    BY <2>3 DEF Insert, Provision, Unique
  <2>4. CASE Verify(r) \/ Activate(r) \/ SaveGroup(r)
    BY <2>1, <2>4 DEF Verify, Activate, SaveGroup
  <2> QED
    BY <2>2, <2>3, <2>4
<1> QED
  BY <1>1, InvHolds, PTL DEF Spec, ConfirmedStaysConfirmed

\* Only the storing of a token, a rotation and the issue of a pair add tokens.
Steady(r) ==
  /\ DOMAIN store' \subseteq DOMAIN store
  /\ \E t : Goto(r, t) /\ t.unsaved \in {{}, task[r].unsaved}

\* A request that moves on with nothing new to store is steady.
LEMMA SteadyGoto ==
  ASSUME NEW r \in Requests, task[r] \in Task, DOMAIN store' \subseteq DOMAIN store,
         \/ Done(r)
         \/ \E s \in Steps : Begin(r, s) \/ Move(r, s)
         \/ \E s \in Steps : \E g : Goto(r, [Idle EXCEPT !.at = s, !.group = g])
  PROVE  Steady(r)
<1>1. Idle.unsaved = {}
  BY DEF Idle
<1>2. \A s \in Steps : \A g : [Idle EXCEPT !.at = s].unsaved = {} /\ [Idle EXCEPT !.at = s, !.group = g].unsaved = {}
  BY DEF Idle
<1>3. \A s \in Steps : [task[r] EXCEPT !.at = s].unsaved = task[r].unsaved
  BY DEF Task
<1> QED
  BY <1>1, <1>2, <1>3 DEF Steady, Done, Begin, Move

\* Every action of a request but three is steady.
LEMMA OthersAreSteady ==
  ASSUME Inv, Next, NEW r \in Requests,
         \/ Fail(r)
         \/ Register(r) \/ Insert(r) \/ SaveCode(r) \/ PublishCode(r)
         \/ EnterCode(r) \/ CheckInactive(r) \/ Verify(r) \/ ConsumeCode(r)
         \/ Login(r) \/ GoogleCallback(r) \/ GoogleNewcomer(r) \/ Provision(r) \/ Activate(r)
         \/ Answer(r) \/ Refresh(r) \/ CachedProfile(r) \/ LoadProfile(r) \/ CacheProfile(r)
         \/ Switch(r) \/ SaveGroup(r) \/ Rotate(r)
         \/ Logout(r) \/ DropAccess(r) \/ DropRefresh(r) \/ Forget(r)
  PROVE  Steady(r)
<1>1. task[r] \in Task
  BY MoveFacts
<1>2. CASE Fail(r) \/ Answer(r) \/ Forget(r)
  BY <1>1, <1>2, SteadyGoto DEF Fail, Answer, Forget, redis
<1>3. CASE \/ Register(r) \/ Insert(r) \/ SaveCode(r) \/ PublishCode(r)
           \/ EnterCode(r) \/ CheckInactive(r) \/ Verify(r) \/ ConsumeCode(r)
  BY <1>1, <1>3, SteadyGoto DEF Steps, redis, Register, Insert, SaveCode, PublishCode, EnterCode,
     CheckInactive, Verify, ConsumeCode
<1>4. CASE Login(r) \/ GoogleCallback(r) \/ GoogleNewcomer(r) \/ Provision(r) \/ Activate(r)
  <2>1. SignIn(r, {"PENDING"}) \/ SignIn(r, {"INACTIVE", "PENDING"}) => Steady(r)
    BY <1>1, SteadyGoto DEF SignIn, Steps, redis
  <2> QED
    BY <1>1, <1>4, <2>1, SteadyGoto DEF Steps, redis, Login, GoogleCallback, GoogleNewcomer,
       Provision, Activate
<1>5. CASE CachedProfile(r) \/ CacheProfile(r) \/ SaveGroup(r)
  <2>1. \A g : Renew(r, g) /\ DOMAIN store' \subseteq DOMAIN store => Steady(r)
    BY <1>1, SteadyGoto DEF Renew, Steps
  <2> QED
    BY <1>1, <1>5, <2>1, SteadyGoto DEF CachedProfile, CacheProfile, SaveGroup, Steps, redis
<1>6. CASE Refresh(r) \/ Switch(r) \/ Logout(r)
  <2>1. DOMAIN store' = DOMAIN store
    BY <1>6 DEF Refresh, Switch, Logout, redis
  <2>2. /\ [Idle EXCEPT !.at = "profile", !.cookies.refresh = cookies.refresh].unsaved = {}
        /\ \A g : [Idle EXCEPT !.at = "switch", !.group = g, !.cookies.access = cookies.access].unsaved = {}
        /\ [Idle EXCEPT !.at = "drop_access", !.cookies = cookies].unsaved = {}
    BY DEF Idle
  <2> QED
    BY <1>6, <2>1, <2>2 DEF Steady, Refresh, Switch, Logout
<1>7. CASE LoadProfile(r) \/ Rotate(r)
  <2>1. DOMAIN store' = DOMAIN store
    BY <1>7 DEF LoadProfile, Rotate, redis
  <2>2. \A n : /\ [task[r] EXCEPT !.at = "replace", !.ttl = n].unsaved = task[r].unsaved
               /\ [task[r] EXCEPT !.at = "cache", !.group = n].unsaved = task[r].unsaved
    BY <1>1 DEF Task
  <2> QED
    BY <1>1, <1>7, <2>1, <2>2, SteadyGoto DEF Steady, LoadProfile, Rotate
<1>8. CASE DropAccess(r) \/ DropRefresh(r)
  <2>1. PICK token \in {"access", "refresh"}, step \in {"drop_refresh", "forget"} : Drop(r, token, step)
    BY <1>8 DEF DropAccess, DropRefresh
  <2>2. [task[r] EXCEPT !.at = step, !.cookies[token] = None].unsaved = task[r].unsaved
    BY <1>1 DEF Task
  <2>3. DOMAIN store' \subseteq DOMAIN store
    BY <2>1 DEF Drop, Only
  <2> QED
    BY <2>1, <2>2, <2>3 DEF Steady, Drop
<1> QED
  BY <1>2, <1>3, <1>4, <1>5, <1>6, <1>7, <1>8

\* No step revives a grant whose access token is gone for good.
LEMMA SpentStep ==
  ASSUME Inv, Next, NEW g \in DOMAIN issued, Spent(g)
  PROVE  Spent(g)'
<1>1. CASE Tick \/ ExpireCode \/ EvictToken \/ EvictProfile
  <2>1. DOMAIN store' \subseteq DOMAIN store /\ task' = task
    BY <1>1 DEF Tick, ExpireCode, EvictToken, EvictProfile, Only
  <2> QED
    BY <2>1 DEF Spent, LiveAccess
<1>2. ASSUME NEW r \in Requests, Steady(r) PROVE Spent(g)'
  <2>1. PICK t : Goto(r, t) /\ t.unsaved \in {{}, task[r].unsaved}
    BY <1>2 DEF Steady
  <2>2. task' = [task EXCEPT ![r] = t] /\ task \in [Requests -> Task]
    BY <2>1 DEF Goto, Inv, RequestsOK
  <2>3. \A q \in Requests : task'[q].unsaved \subseteq task[q].unsaved
    BY <2>1, <2>2
  <2> QED
    BY <1>2, <2>3 DEF Steady, Spent, LiveAccess
<1>3. ASSUME NEW r \in Requests, StoreToken(r) PROVE Spent(g)'
  <2>1. PICK k \in task[r].unsaved :
          /\ store' = Put(k, Lifetime(k))
          /\ Goto(r, [task[r] EXCEPT !.unsaved = @ \ {k},
                                     !.at = IF task[r].unsaved = {k} THEN "answer" ELSE "store"])
    BY <1>3 DEF StoreToken
  <2>2. k.grant # g
    BY <2>1 DEF Spent
  <2>3. DOMAIN store' = DOMAIN store \cup {k}
    BY <2>1 DEF Put
  <2>4. task[r] \in Task /\ task \in [Requests -> Task]
    BY MoveFacts DEF Inv, RequestsOK
  <2>5. [task[r] EXCEPT !.unsaved = @ \ {k},
                        !.at = IF task[r].unsaved = {k} THEN "answer" ELSE "store"].unsaved
          = task[r].unsaved \ {k}
    BY <2>4 DEF Task
  <2>6. \A q \in Requests : task'[q].unsaved \subseteq task[q].unsaved
    BY <2>1, <2>4, <2>5 DEF Goto
  <2> QED
    BY <2>2, <2>3, <2>6 DEF Spent, LiveAccess
<1>4. ASSUME NEW r \in Requests, Replace(r) PROVE Spent(g)'
  <2>1. PICK old : old = task[r].cookies.access
    OBVIOUS
  <2>2. PICK new : new = Rotated(old, task[r].group)
    OBVIOUS
  <2>3. old \in Tokens /\ old.type = "access"
    BY <1>4, <2>1, MoveFacts DEF Replace, At, Good, GenuineCookies, IsAccess, Genuine
  <2>4. new.grant = old.grant
    BY <2>2, <2>3 DEF Rotated, Tokens
  <2>5. Cached(old) => old.grant # g
    BY <2>3 DEF Spent, LiveAccess, Cached
  <2>6. \A k \in DOMAIN store' : k \in DOMAIN store \/ (k = new /\ Cached(old))
    BY <1>4, <2>1, <2>2 DEF Replace, Replaced, Put, Cached
  <2>7. \A k \in DOMAIN store' : k.type = "access" => k.grant # g
    BY <2>4, <2>5, <2>6 DEF Spent, LiveAccess
  <2>8. Idle.unsaved = {} /\ [Idle EXCEPT !.at = "answer", !.cookies.access = new].unsaved = {}
    BY DEF Idle
  <2>9. PICK t : Goto(r, t) /\ t.unsaved = {}
    BY <1>4, <2>1, <2>2, <2>8 DEF Replace, Done
  <2>10. \A q \in Requests : task'[q].unsaved \subseteq task[q].unsaved
    BY <2>9 DEF Goto, Inv, RequestsOK
  <2> QED
    BY <2>7, <2>10 DEF Spent, LiveAccess
<1>5. ASSUME NEW r \in Requests, Issue(r) PROVE Spent(g)'
  <2>1. PICK grant : grant = Len(issued) + 1
    OBVIOUS
  <2>2. PICK access : access = AccessToken(grant, task[r].group, now)
    OBVIOUS
  <2>3. PICK refresh : refresh = RefreshToken(grant, now)
    OBVIOUS
  <2>4. access.grant = grant /\ refresh.grant = grant
    BY <2>2, <2>3 DEF AccessToken, RefreshToken
  <2>5. grant # g
    BY <2>1 DEF Inv, ClockOK
  <2>6. PICK t : t = [Idle EXCEPT !.at = "store", !.cookies = [access |-> access, refresh |-> refresh],
                                  !.unsaved = {access, refresh}]
    OBVIOUS
  <2>7. t.unsaved = {access, refresh}
    BY <2>6 DEF Idle
  <2>8. Goto(r, t) /\ store' = store
    BY <1>5, <2>1, <2>2, <2>3, <2>6 DEF Issue, redis
  <2>9. \A q \in Requests : task'[q].unsaved \subseteq task[q].unsaved \cup {access, refresh}
    BY <2>7, <2>8 DEF Goto, Inv, RequestsOK
  <2> QED
    BY <2>4, <2>5, <2>8, <2>9 DEF Spent, LiveAccess
<1> QED
  BY <1>1, <1>2, <1>3, <1>4, <1>5, OthersAreSteady DEF Next

\* A grant without an access token, cached or about to be, never gets one again.
THEOREM SpentForGood == Spec => SpentGrantsStaySpent
<1>1. Inv /\ [Next]_vars => \A g \in DOMAIN issued : Spent(g) => Spent(g)'
  <2> SUFFICES ASSUME Inv, [Next]_vars, NEW g \in DOMAIN issued, Spent(g) PROVE Spent(g)'
    OBVIOUS
  <2>1. CASE UNCHANGED vars
    BY <2>1 DEF vars, redis, Spent, LiveAccess
  <2> QED
    BY <2>1, SpentStep
<1> QED
  BY <1>1, InvHolds, PTL DEF Spec, SpentGrantsStaySpent

=============================================================================
