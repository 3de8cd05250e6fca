-------------------------- MODULE MapLayoutLockProofs --------------------------
(***************************************************************************)
(* The transactions of MapLayout never wait for each other in a circle,    *)
(* for any number of requests, maps, stations and robots.                  *)
(***************************************************************************)
EXTENDS MapLayoutProofs, WellFoundedInduction

USE LayoutAssumption

-----------------------------------------------------------------------------
(* Numbers *)

\* A set of natural numbers has a least one.
LEMMA Least ==
  ASSUME NEW T \in SUBSET Nat, T # {}
  PROVE  \E x \in T : \A y \in T : x <= y
<1>0. PICK R : R = OpToRel(<, Nat)
  OBVIOUS
<1>1. IsWellFoundedOn(R, Nat)
  BY <1>0, NatLessThanWellFounded, Zenon
<1>2. \A x, y \in Nat : <<x, y>> \in R <=> x < y
  BY <1>0 DEF OpToRel
<1>3. PICK x \in T : \A y \in T : ~ (<<y, x>> \in R)
  BY <1>1, WFMin
<1>4. ASSUME NEW y \in T PROVE x <= y
  <2>1. x \in Nat /\ y \in Nat /\ ~(<<y, x>> \in R)
    BY <1>3
  <2>2. ~(y < x)
    BY <1>2, <2>1
  <2> QED
    BY <2>1, <2>2
<1> QED
  BY <1>4

\* T has a bound.
Bounded(T) == \E n \in Nat : \A x \in T : x <= n

\* Finitely many natural numbers have a bound: the smallest set without one would have
\* one when a number is taken from it.
LEMMA FiniteBounded ==
  ASSUME NEW S \in SUBSET Nat, IsFiniteSet(S)
  PROVE  Bounded(S)
<1> SUFFICES ASSUME ~Bounded(S) PROVE FALSE
  OBVIOUS
<1> DEFINE C == {Cardinality(T) : T \in {T \in SUBSET S : ~Bounded(T)}}
<1>1. \A T \in SUBSET S : IsFiniteSet(T) /\ Cardinality(T) \in Nat
  BY FS_Subset, FS_CardinalityType
<1>2. PICK c \in C : \A d \in C : c <= d
  <2>1. C \in SUBSET Nat
    BY <1>1
  <2>2. Cardinality(S) \in C
    OBVIOUS
  <2> HIDE DEF C
  <2> QED
    BY <2>1, <2>2, Least
<1>3. PICK T \in SUBSET S : ~Bounded(T) /\ c = Cardinality(T)
  BY <1>2
<1>4. PICK x \in T : x \in Nat
  <2>1. T # {}
    BY <1>3 DEF Bounded
  <2> QED
    BY <2>1
<1>5. Cardinality(T \ {x}) = Cardinality(T) - 1
  BY <1>1, FS_RemoveElement
<1>6. Bounded(T \ {x})
  <2>1. SUFFICES ASSUME ~Bounded(T \ {x}) PROVE FALSE
    OBVIOUS
  <2>2. Cardinality(T \ {x}) \in C
    BY <2>1
  <2> HIDE DEF C
  <2> QED
    BY <1>1, <1>2, <1>3, <1>5, <2>2
<1>7. PICK n \in Nat : \A y \in T \ {x} : y <= n
  BY <1>6 DEF Bounded
<1>8. \A y \in T : y <= n + x
  BY <1>4, <1>7
<1>9. n + x \in Nat
  BY <1>4
<1> QED
  BY <1>3, <1>8, <1>9 DEF Bounded

\* Finitely many natural numbers have a greatest one.
LEMMA Greatest ==
  ASSUME NEW S \in SUBSET Nat, IsFiniteSet(S), S # {}
  PROVE  \E x \in S : \A y \in S : y <= x
<1>1. PICK n \in Nat : \A x \in S : x <= n
  BY FiniteBounded DEF Bounded
<1> DEFINE T == {n - x : x \in S}
<1>2. T \in SUBSET Nat /\ T # {}
  <2>1. ASSUME NEW x \in S PROVE n - x \in Nat
    <3>1. x \in Nat /\ x <= n
      BY <1>1
    <3> QED
      BY <3>1
  <2> QED
    BY <2>1
<1>3. PICK z \in T : \A y \in T : z <= y
  <2> HIDE DEF T
  <2> QED
    BY <1>2, Least
<1>4. PICK x \in S : z = n - x
  BY <1>3
<1>5. ASSUME NEW y \in S PROVE y <= x
  <2>1. n - y \in T
    OBVIOUS
  <2>2. n - x <= n - y
    BY <1>3, <1>4, <2>1
  <2> QED
    BY <2>2
<1> QED
  BY <1>5

\* The next of some robots is the first of them.
LEMMA NextIsFirst ==
  ASSUME NEW t, t.todo \in SUBSET Robots, t.todo # {}
  PROVE  NextRobot(t) \in t.todo /\ \A q \in t.todo : NextRobot(t) <= q
<1>1. \E r \in t.todo : \A q \in t.todo : r <= q
  <2>1. PICK R : R = t.todo
    OBVIOUS
  <2>2. R \in SUBSET Nat /\ R # {}
    BY <2>1
  <2> QED
    BY <2>1, <2>2, Least
<1> QED
  BY <1>1 DEF NextRobot

-----------------------------------------------------------------------------
(* The order of locks *)

\* The request has robots to lock.
Choosing(t) == t.place = "robots" \/ (t.op = "assign" /\ t.place \in {"map", "station"})

(***************************************************************************)
(* What request t, with the locks H, has locked at its place: nothing      *)
(* before its map; no robot before the step that locks robots; of the      *)
(* robots, those before the next one; and a station only as an assignment, *)
(* if it has no robot.                                                     *)
(***************************************************************************)
Orderly(t, H) ==
  /\ t.place \in {"idle", "map"} => H = {}
  /\ Choosing(t) => t.todo # {}
  /\ t.place \in {"zones", "read", "station"} => \A r \in Robots : <<"robot", r>> \notin H
  /\ t.place = "robots" => \A r \in Robots, q \in t.todo : <<"robot", r>> \in H => r < q
  /\ \A i : <<"station", i>> \in H =>
       /\ t.op = "assign" /\ t.place \notin {"map", "station"} /\ i = t.station
       /\ i \in DOMAIN stations => stations[i].robot = NoRobot

\* Assignments to one station hold one map.
SameStation(t, x) == t.op = "assign" /\ x.op = "assign" /\ t.station = x.station => t.map = x.map

OrderOK ==
  /\ \A s \in Requests : Orderly(task[s], holds[s])
  /\ \A s, q \in Requests : SameStation(task[s], task[q])

\* A locked station gets no robot.
LockedStay(q) ==
  \A i : <<"station", i>> \in holds[q] /\ i \in DOMAIN stations' =>
    (i \in DOMAIN stations /\ stations'[i].robot = stations[i].robot) \/ stations'[i].robot = NoRobot

\* One request takes a step.
LEMMA OrderMoves ==
  ASSUME Inv, OrderOK, NEW s \in Requests, NEW t, Goto(s, t), NEW H,
         holds' = [holds EXCEPT ![s] = H], Orderly(t, H)',
         \A q \in Requests \ {s} : SameStation(t, task[q]) /\ LockedStay(q)
  PROVE  OrderOK'
<1>1. /\ task'[s] = t /\ holds'[s] = H
      /\ \A q \in Requests \ {s} : task'[q] = task[q] /\ holds'[q] = holds[q]
  BY DEF Goto, Inv, RequestsOK, LocksOK
<1>2. ASSUME NEW q \in Requests PROVE Orderly(task[q], holds[q])'
  <2>1. CASE q = s
    <3>1. Orderly(t, H)' = Orderly(task[q], holds[q])'
      BY <1>1, <2>1 DEF Orderly, Choosing
    <3> QED
      BY <3>1
  <2>2. CASE q # s
    <3>1. PICK x, K : x = task[q] /\ K = holds[q] /\ x = task'[q] /\ K = holds'[q]
      BY <1>1, <2>2
    <3>2. Orderly(x, K) /\ LockedStay(q)
      BY <2>2, <3>1 DEF OrderOK
    <3>3. Orderly(x, K)'
      BY <3>1, <3>2 DEF Orderly, Choosing, LockedStay
    <3>4. Orderly(x, K)' = Orderly(task[q], holds[q])'
      BY <3>1 DEF Orderly, Choosing
    <3> QED
      BY <3>3, <3>4
  <2> QED
    BY <2>1, <2>2
<1>3. ASSUME NEW p \in Requests, NEW q \in Requests PROVE SameStation(task'[p], task'[q])
  BY <1>1 DEF OrderOK, SameStation
<1> QED
  BY <1>2, <1>3 DEF OrderOK, SameStation

\* One request takes a step with what it was asked, and writes no row.
LEMMA OrderAdvance ==
  ASSUME Inv, OrderOK, NEW s \in Requests, NEW t, Goto(s, t), stations' = stations,
         t.op = task[s].op, t.station = task[s].station, t.map = task[s].map,
         NEW H, holds' = [holds EXCEPT ![s] = H], Orderly(t, H)
  PROVE  OrderOK'
<1>1. Orderly(t, H)'
  BY DEF Orderly, Choosing
<1>2. \A q \in Requests \ {s} : SameStation(t, task[q]) /\ LockedStay(q)
  BY DEF OrderOK, SameStation, LockedStay
<1> QED
  BY <1>1, <1>2, OrderMoves

\* A transaction that ends holds nothing.
LEMMA OrderEnds ==
  ASSUME Inv, OrderOK, NEW s \in Requests, Finish(s), \A q \in Requests \ {s} : LockedStay(q)
  PROVE  OrderOK'
<1>1. Idle.place = "idle" /\ Idle.op = "none"
  BY IdleShape
<1>2. Orderly(Idle, {})'
  BY <1>1 DEF Orderly, Choosing
<1>3. \A q \in Requests \ {s} : SameStation(Idle, task[q])
  BY <1>1 DEF SameStation
<1> QED
  BY <1>2, <1>3, OrderMoves DEF Finish

\* A request begins.
LEMMA OrderBegins ==
  ASSUME Inv, OrderOK, NEW s \in Requests, NEW t \in Task, NewRequest(s, t)
  PROVE  OrderOK'
<1>1. /\ UNCHANGED stations /\ holds' = holds /\ task[s] = Idle /\ Goto(s, t)
  BY DEF NewRequest, Begin, rows
<1>2. holds' = [holds EXCEPT ![s] = {}]
  <2>1. holds[s] = {}
    BY <1>1 DEF Inv, TypeOK
  <2> QED
    BY <1>1, <2>1 DEF Inv, LocksOK
<1>3. Orderly(t, {})'
  BY DEF Orderly, Choosing, NewRequest
<1>4. ASSUME NEW q \in Requests \ {s} PROVE SameStation(t, task[q]) /\ LockedStay(q)
  BY <1>1, RequestFacts DEF SameStation, LockedStay, NewRequest, TargetOK
<1> QED
  BY <1>1, <1>2, <1>3, <1>4, OrderMoves

\* A request that takes its next step before it commits.
LEMMA OrderLocks ==
  ASSUME Inv, OrderOK, NEW s \in Requests,
         LockMap(s) \/ SaveZones(s) \/ ReadStations(s) \/ LockRobot(s) \/ LockStation(s)
  PROVE  OrderOK'
<1>1. PICK t \in Task : t = task[s]
  BY RequestFacts
<1>2. Shaped(t) /\ Orderly(t, holds[s]) /\ holds \in [Requests -> {holds[q] : q \in Requests}]
  BY <1>1, RequestFacts DEF OrderOK, Inv, LocksOK
<1>3. CASE LockMap(s)
  <2>1. PICK x : /\ Goto(s, x) /\ x.op = t.op /\ x.map = t.map /\ x.station = t.station /\ x.todo = t.todo
                 /\ x.place \in IF t.op = "assign" THEN {"station"} ELSE {"zones", "read", "commit"}
    <3>1. CASE t.op = "assign"
      <4>1. Goto(s, [t EXCEPT !.place = "station"])
        BY <1>1, <1>3, <3>1 DEF LockMap
      <4> QED
        BY <3>1, <4>1 DEF Task
    <3>2. CASE t.op # "assign"
      <4>1. PICK x : Asks(t, x) /\ Goto(s, x)
        BY <1>1, <1>3, <3>2, MapIsAsked
      <4>2. First(x.sections) \in {"zones", "read", "commit"}
        BY DEF First
      <4>3. /\ x.op = t.op /\ x.map = t.map /\ x.station = t.station /\ x.todo = t.todo
            /\ x.place = First(x.sections)
        BY <4>1 DEF Asks, Task
      <4> QED
        BY <3>2, <4>1, <4>2, <4>3
    <3> QED
      BY <3>1, <3>2
  <2>2. PICK H : H = holds[s] \cup Wants(t)
    OBVIOUS
  <2>3. /\ holds' = [holds EXCEPT ![s] = H] /\ stations' = stations /\ t.place = "map"
        /\ Wants(t) = {<<"map", t.map>>} /\ holds[s] = {}
    BY <1>1, <1>2, <1>3, <2>2 DEF LockMap, Wants, Orderly
  <2>4. Orderly(x, H)
    BY <1>2, <2>1, <2>2, <2>3 DEF Orderly, Choosing
  <2> QED
    BY <1>1, <2>1, <2>3, <2>4, OrderAdvance
<1>4. CASE SaveZones(s)
  <2>1. PICK x : x = [t EXCEPT !.place = First(t.sections \ {"zones"})]
    OBVIOUS
  <2>2. /\ Goto(s, x) /\ stations' = stations /\ holds' = holds /\ t.place = "zones"
    BY <1>1, <1>4, <2>1 DEF SaveZones, rows
  <2>3. /\ x.op = t.op /\ x.map = t.map /\ x.station = t.station /\ x.todo = t.todo
        /\ x.place \in {"read", "commit"}
    BY <2>1 DEF Task, First
  <2>4. Orderly(x, holds[s])
    BY <1>2, <2>2, <2>3 DEF Orderly, Choosing, Shaped
  <2>5. holds' = [holds EXCEPT ![s] = holds[s]]
    BY <1>2, <2>2
  <2> QED
    BY <1>1, <2>2, <2>3, <2>4, <2>5, OrderAdvance
<1>5. CASE ReadStations(s)
  <2>1. PICK c, R : /\ R = {t.stations[i].robot : i \in DOMAIN t.stations} \ {NoRobot}
                    /\ c = [i \in On(stations, t.map) |-> stations[i].robot]
    OBVIOUS
  <2>2. PICK x : x = [t EXCEPT !.place = IF R = {} THEN "commit" ELSE "robots",
                               !.current = c, !.asked = R, !.todo = R]
    OBVIOUS
  <2>3. /\ Goto(s, x) /\ stations' = stations /\ holds' = holds /\ t.place = "read"
    BY <1>1, <1>5, <2>1, <2>2 DEF ReadStations, rows
  <2>4. /\ x.op = t.op /\ x.map = t.map /\ x.station = t.station /\ x.todo = R
        /\ x.place = IF R = {} THEN "commit" ELSE "robots"
    BY <2>2 DEF Task
  <2>5. Orderly(x, holds[s])
    BY <1>2, <2>3, <2>4 DEF Orderly, Choosing, Shaped
  <2>6. holds' = [holds EXCEPT ![s] = holds[s]]
    BY <1>2, <2>3
  <2> QED
    BY <1>1, <2>3, <2>4, <2>5, <2>6, OrderAdvance
<1>6. CASE LockStation(s)
  <2>1. PICK x : x = [t EXCEPT !.place = "robots"]
    OBVIOUS
  <2>2. PICK H : H = holds[s] \cup {<<"station", t.station>>}
    OBVIOUS
  <2>3. /\ Goto(s, x) /\ stations' = stations /\ t.place = "station" /\ StationFree(t)
        /\ holds' = [holds EXCEPT ![s] = H]
    BY <1>1, <1>6, <2>1, <2>2 DEF LockStation, rows, Wants
  <2>4. /\ x.op = t.op /\ x.map = t.map /\ x.station = t.station /\ x.todo = t.todo /\ x.place = "robots"
    BY <2>1 DEF Task
  <2>5. Orderly(x, H)
    <3>1. t.op = "assign"
      BY <1>2, <2>3 DEF Shaped
    <3>2. \A i : <<"station", i>> \notin holds[s]
      BY <1>2, <2>3 DEF Orderly
    <3>3. \A r \in Robots : <<"robot", r>> \notin H
      BY <1>2, <2>2, <2>3 DEF Orderly
    <3>4. \A i : <<"station", i>> \in H => i = t.station
      BY <2>2, <3>2
    <3> QED
      BY <1>2, <2>3, <2>4, <3>1, <3>3, <3>4 DEF Orderly, Choosing, StationFree
  <2> QED
    BY <1>1, <2>3, <2>4, <2>5, OrderAdvance
<1>7. CASE LockRobot(s)
  <2>1. PICK n : n = NextRobot(t)
    OBVIOUS
  <2>2. PICK x : x = [t EXCEPT !.todo = t.todo \ {n}, !.place = IF t.todo = {n} THEN Locked(t) ELSE "robots"]
    OBVIOUS
  <2>3. PICK H : H = IF robots[n] = Gone THEN holds[s] ELSE holds[s] \cup {<<"robot", n>>}
    OBVIOUS
  <2>4. /\ Goto(s, x) /\ stations' = stations /\ t.place = "robots"
        /\ holds' = [holds EXCEPT ![s] = H]
    BY <1>1, <1>7, <2>1, <2>2, <2>3 DEF LockRobot, rows, Wants
  <2>5. t.todo \in SUBSET Robots /\ t.todo # {}
    BY <1>2, <2>4 DEF Orderly, Choosing, Task
  <2>6. n \in t.todo /\ \A q \in t.todo : n <= q
    BY <2>1, <2>5, NextIsFirst
  <2>7. Locked(t) \in {"commit", "assign", "claim", "remove"}
    <3>1. t.op \in {"save", "assign", "create", "delete"}
      BY <1>2, <2>4 DEF Shaped, Task
    <3> QED
      BY <3>1 DEF Locked
  <2>8. /\ x.op = t.op /\ x.map = t.map /\ x.station = t.station /\ x.todo = t.todo \ {n}
        /\ x.place = IF t.todo = {n} THEN Locked(t) ELSE "robots"
    BY <2>2 DEF Task
  <2>9. Orderly(x, H)
    <3>1. x.place \in {"robots", "commit", "assign", "claim", "remove"}
      BY <2>7, <2>8
    <3>2. ASSUME NEW r \in Robots, NEW q \in x.todo, <<"robot", r>> \in H PROVE r < q
      <4>1. q \in t.todo /\ q # n /\ q \in Nat /\ n \in Nat /\ r \in Nat
        BY <2>5, <2>6, <2>8
      <4>2. r = n \/ <<"robot", r>> \in holds[s]
        BY <2>3, <3>2
      <4>3. <<"robot", r>> \in holds[s] => r < q
        BY <1>2, <2>4, <4>1 DEF Orderly
      <4> QED
        BY <2>6, <4>1, <4>2, <4>3
    <3>3. \A i : <<"station", i>> \in H => <<"station", i>> \in holds[s]
      BY <2>3
    <3>4. Choosing(x) => x.todo # {}
      <4>1. x.todo = {} => t.todo = {n}
        BY <2>6, <2>8
      <4>2. t.todo = {n} => x.place # "robots"
        BY <2>7, <2>8
      <4> QED
        BY <3>1, <4>1, <4>2 DEF Choosing
    <3> QED
      BY <1>2, <2>8, <3>1, <3>2, <3>3, <3>4 DEF Orderly
  <2> QED
    BY <1>1, <2>4, <2>8, <2>9, OrderAdvance
<1> QED
  BY <1>3, <1>4, <1>5, <1>6, <1>7

\* A transaction that ends gives no robot to a station that another one has locked.
LEMMA OrderCommits ==
  ASSUME Inv, OrderOK, NEW s \in Requests,
         CommitSave(s) \/ AssignRobot(s) \/ CreateMap(s) \/ DeleteBot(s) \/ Refuse(s)
  PROVE  OrderOK'
<1>1. Finish(s)
  BY DEF CommitSave, AssignRobot, CreateMap, DeleteBot, Refuse
<1>2. SUFFICES ASSUME NEW q \in Requests \ {s}, NEW i, <<"station", i>> \in holds[q], i \in DOMAIN stations'
               PROVE  \/ i \in DOMAIN stations /\ stations'[i].robot = stations[i].robot
                      \/ stations'[i].robot = NoRobot
  BY <1>1, OrderEnds DEF LockedStay
<1>3. PICK t \in Task : t = task[s]
  BY RequestFacts
<1>4. PICK x \in Task : x = task[q]
  BY RequestFacts
<1>5. x.op = "assign" /\ x.place # "map" /\ i = x.station
  BY <1>2, <1>4 DEF OrderOK, Orderly
<1>6. <<"map", x.map>> \in holds[q]
  BY <1>4, <1>5 DEF Inv, LocksOK, Assigning
<1>7. i \in DOMAIN stations => stations[i].map = x.map
  BY <1>4, <1>5, RequestFacts DEF TargetOK
<1>8. CASE CommitSave(s)
  <2>1. t.place = "commit"
    BY <1>3, <1>8 DEF CommitSave
  <2>2. PICK match : Saved(t, match)
    BY <1>3, <1>8 DEF CommitSave, Saved
  <2>3. RowsFound(t) /\ stations' = StationsAfter(t, match)
    BY <2>2 DEF Saved, Savable
  <2>4. x.map # t.map
    <3>1. <<"map", t.map>> \in holds[s]
      BY <1>3, <2>1, CommitFacts DEF SaveOK
    <3> QED
      BY <1>6, <3>1 DEF Inv, LocksOK
  <2>5. i \notin DOMAIN t.stations
    <3>1. i \notin NewIds(t)
      BY <1>3, <1>4, <1>5 DEF Inv, IdsOK
    <3>2. i \notin On(stations, t.map)
      BY <1>7, <2>4 DEF On
    <3> QED
      BY <1>3, <2>1, <2>3, <3>1, <3>2, WrittenIds
  <2>6. CASE i \in DOMAIN stations /\ stations'[i].robot \in {stations[i].robot, NoRobot}
    BY <2>6
  <2> QED
    BY <1>2, <1>3, <2>1, <2>3, <2>5, <2>6, SavedStations
<1>9. CASE AssignRobot(s)
  <2>1. PICK r : stations' = [stations EXCEPT ![t.station].robot = r]
    BY <1>3, <1>9 DEF AssignRobot
  <2>2. t.op = "assign" /\ t.place = "assign"
    BY <1>3, <1>9, RequestFacts DEF AssignRobot, Shaped
  <2>3. <<"map", t.map>> \in holds[s]
    BY <1>3, <2>2 DEF Inv, LocksOK, Assigning
  <2>4. x.map # t.map
    BY <1>6, <2>3 DEF Inv, LocksOK
  <2>5. i # t.station
    BY <1>3, <1>4, <1>5, <2>2, <2>4 DEF OrderOK, SameStation
  <2> QED
    BY <1>2, <2>1, <2>5
<1>10. CASE CreateMap(s) \/ Refuse(s)
  BY <1>2, <1>10 DEF CreateMap, Refuse, rows
<1>11. CASE DeleteBot(s)
  BY <1>2, <1>11 DEF DeleteBot
<1> QED
  BY <1>8, <1>9, <1>10, <1>11

\* Locks are in order at the start.
LEMMA OrderInit == Init => OrderOK
<1> SUFFICES ASSUME Init PROVE OrderOK
  OBVIOUS
<1>1. \A s \in Requests : task[s] = Idle /\ holds[s] = {}
  BY DEF Init
<1> QED
  BY <1>1, IdleShape DEF OrderOK, Orderly, Choosing, SameStation

\* Every step keeps them in order.
LEMMA OrderStep == Inv /\ OrderOK /\ [Next]_vars => OrderOK'
<1> SUFFICES ASSUME Inv, OrderOK, [Next]_vars PROVE OrderOK'
  OBVIOUS
<1>1. CASE Next
  <2>1. PICK s \in Requests :
    \/ \E m \in Maps : BeginSave(s, m)
    \/ \E i \in Ids, r \in Robots : BeginAssign(s, i, r)
    \/ \E m \in Maps, R \in SUBSET Robots : BeginCreate(s, m, R)
    \/ \E r \in Robots : BeginDelete(s, r)
    \/ LockMap(s)
    \/ SaveZones(s)
    \/ ReadStations(s)
    \/ LockRobot(s)
    \/ CommitSave(s)
    \/ LockStation(s)
    \/ AssignRobot(s)
    \/ CreateMap(s)
    \/ DeleteBot(s)
    \/ Refuse(s)
    BY <1>1, Zenon DEF Next
  <2> QED
    BY <2>1, BeginFacts, OrderBegins, OrderLocks, OrderCommits
<1>2. CASE UNCHANGED vars
  <2>1. task' = task /\ holds' = holds /\ stations' = stations
    BY <1>2 DEF vars, rows
  <2> QED
    BY <2>1 DEF OrderOK, Orderly, Choosing, SameStation
<1> QED
  BY <1>1, <1>2

-----------------------------------------------------------------------------
(* No circle *)

\* A deletion waits for no station: the stations of its robots have one, and a locked one has none.
LEMMA RemoveNeverWaits ==
  ASSUME Inv, OrderOK, NEW s \in Requests, task[s].place = "remove", NEW q \in Requests
  PROVE  Wants(task[s]) \cap holds[q] = {}
<1>1. PICK t \in Task : t = task[s] /\ t.place = "remove"
  BY RequestFacts
<1>2. SUFFICES ASSUME NEW w \in Wants(t), w \in holds[q] PROVE FALSE
  BY <1>1
<1>3. PICK r \in t.asked : \E j \in Taken(r) : w = <<"station", j>>
  <2>1. Wants(t) = {<<"station", i>> : i \in UNION {Taken(r) : r \in t.asked}}
    BY <1>1 DEF Wants
  <2> QED
    BY <1>2, <2>1
<1>4. PICK i \in DOMAIN stations : stations[i].robot = r /\ w = <<"station", i>>
  BY <1>3 DEF Taken
<1>5. stations[i].robot = NoRobot
  BY <1>2, <1>3, <1>4 DEF OrderOK, Orderly
<1>6. r \in Robots /\ 0 \notin Robots
  BY DEF Task
<1> QED
  BY <1>4, <1>5, <1>6 DEF NoRobot

\* An assignment that holds its map waits for no station.
LEMMA StationNeverWaits ==
  ASSUME Inv, OrderOK, NEW s \in Requests, task[s].place = "station", NEW q \in Requests \ {s}
  PROVE  Wants(task[s]) \cap holds[q] = {}
<1>1. PICK t \in Task : t = task[s] /\ t.place = "station"
  BY RequestFacts
<1>2. SUFFICES ASSUME <<"station", t.station>> \in holds[q] PROVE FALSE
  BY <1>1 DEF Wants
<1>3. PICK x \in Task : x = task[q]
  BY RequestFacts
<1>4. x.op = "assign" /\ x.place # "map" /\ x.station = t.station
  BY <1>2, <1>3 DEF OrderOK, Orderly
<1>5. t.op = "assign"
  BY <1>1, RequestFacts DEF Shaped
<1>6. t.map = x.map
  BY <1>1, <1>3, <1>4, <1>5 DEF OrderOK, SameStation
<1>7. <<"map", t.map>> \in holds[s] /\ <<"map", x.map>> \in holds[q]
  BY <1>1, <1>3, <1>4, <1>5 DEF Inv, LocksOK, Assigning
<1> QED
  BY <1>6, <1>7 DEF Inv, LocksOK

\* A request that is not about to lock anything waits for nothing.
LEMMA OthersNeverWait ==
  ASSUME NEW t, t.place \notin {"map", "station", "robots", "remove"}
  PROVE  Wants(t) = {}
BY DEF Wants

\* Of any requests, one waits for none of the others: one that locks no map and no robot;
\* or else the one whose next robot is the greatest; or else all wait for maps, holding nothing.
LEMMA OneGoesOn ==
  ASSUME Inv, OrderOK, NEW X \in SUBSET Requests, X # {}
  PROVE  \E s \in X : \A other \in X \ {s} : Wants(task[s]) \cap holds[other] = {}
<1>1. CASE \E s \in X : task[s].place \notin {"map", "robots"}
  <2>1. PICK s \in X : task[s].place \notin {"map", "robots"}
    BY <1>1
  <2> QED
    BY <2>1, RemoveNeverWaits, StationNeverWaits, OthersNeverWait
<1>2. CASE /\ \A s \in X : task[s].place \in {"map", "robots"}
           /\ \E s \in X : task[s].place = "robots"
  <2> DEFINE N == {NextRobot(task[s]) : s \in {s \in X : task[s].place = "robots"}}
  <2>1. ASSUME NEW s \in X, task[s].place = "robots"
        PROVE  /\ NextRobot(task[s]) \in Robots /\ NextRobot(task[s]) \in task[s].todo
               /\ Wants(task[s]) = {<<"robot", NextRobot(task[s])>>}
    <3>1. task[s].todo \in SUBSET Robots
      BY RequestFacts DEF Task
    <3>2. task[s].todo # {}
      BY <2>1 DEF OrderOK, Orderly, Choosing
    <3> QED
      BY <2>1, <3>1, <3>2, NextIsFirst DEF Wants
  <2>2. N \subseteq Robots /\ N # {}
    BY <1>2, <2>1
  <2>3. N \in SUBSET Nat /\ IsFiniteSet(N)
    BY <2>2, FS_Subset
  <2>4. PICK n \in N : \A k \in N : k <= n
    <3> HIDE DEF N
    <3> QED
      BY <2>2, <2>3, Greatest
  <2>5. PICK s \in X : task[s].place = "robots" /\ n = NextRobot(task[s])
    OBVIOUS
  <2>6. ASSUME NEW q \in X \ {s} PROVE <<"robot", n>> \notin holds[q]
    <3>1. CASE task[q].place = "map"
      BY <3>1 DEF OrderOK, Orderly
    <3>2. CASE task[q].place = "robots"
      <4> DEFINE k == NextRobot(task[q])
      <4>1. k \in Robots /\ k \in task[q].todo /\ k \in N
        <5>1. q \in X
          OBVIOUS
        <5>2. k \in Robots /\ k \in task[q].todo
          BY <2>1, <3>2, <5>1
        <5>3. k \in N
          BY <3>2, <5>1
        <5> QED
          BY <5>2, <5>3
      <4> HIDE DEF k, N
      <4>2. k <= n /\ k \in Nat /\ n \in Nat /\ n \in Robots
        BY <2>2, <2>4, <4>1
      <4>3. <<"robot", n>> \in holds[q] => n < k
        BY <3>2, <4>1, <4>2 DEF OrderOK, Orderly, k
      <4> QED
        BY <4>2, <4>3
    <3> QED
      BY <1>2, <3>1, <3>2
  <2>7. Wants(task[s]) = {<<"robot", n>>}
    BY <2>1, <2>5
  <2>8. \A other \in X \ {s} : Wants(task[s]) \cap holds[other] = {}
    <3> HIDE DEF N
    <3> QED
      BY <2>6, <2>7
  <2> QED
    BY <2>8
<1>3. CASE \A s \in X : task[s].place = "map"
  <2>1. \A q \in X : holds[q] = {}
    BY <1>3 DEF OrderOK, Orderly
  <2> QED
    BY <2>1
<1> QED
  BY <1>1, <1>2, <1>3

\* However many requests run at once, and whatever maps, stations and robots they
\* share, no transactions wait for each other's row locks in a circle.
THEOREM LocksAreOrdered == Spec => []NoLockCycle
<1>1. Inv /\ OrderOK => NoLockCycle
  BY OneGoesOn DEF NoLockCycle
<1>2. Spec => []OrderOK
  BY OrderInit, OrderStep, InvHolds, PTL DEF Spec
<1> QED
  BY <1>1, <1>2, InvHolds, PTL

=============================================================================
