--------------------------- MODULE MapLayoutProofs ---------------------------
(***************************************************************************)
(* Proofs about MapLayout, for any maps, robots, shapes, requests and      *)
(* numbers of rows.                                                        *)
(***************************************************************************)
EXTENDS MapLayout, FiniteSetTheorems, TLAPS

USE LayoutAssumption

-----------------------------------------------------------------------------
(* The inductive invariant *)

Places ==
  {"idle", "map", "zones", "read", "robots", "commit", "station", "assign", "claim", "remove"}

NoMap == CHOOSE m \in Maps : TRUE

\* What the robots of some stations may be read as.
Readings == UNION {[I -> Robots \cup {NoRobot}] : I \in SUBSET Ids}

Task ==
  [op : {"none", "save", "assign", "create", "delete"}, place : Places, map : Maps \cup {NoMap},
   sections : SUBSET Sections, checked : BOOLEAN, boundary : Boundaries \cup {NoBoundary},
   zones : ZoneRequests \cup {<<>>}, stations : StationRequests \cup {<<>>}, floor : Nat,
   current : Readings \cup {<<>>},
   station : Nat, asked : SUBSET Robots, todo : SUBSET Robots]

\* The identifiers of the zones and stations that t creates.
NewIds(t) == (DOMAIN t.zones \cup DOMAIN t.stations) \ 1..t.floor

\* A save that holds its map.
Saving(t) == t.op = "save" /\ t.place # "map"

(***************************************************************************)
(* What a request has established at its place: a save holds its map, its  *)
(* new identifiers are its own, and what it has read under the lock is     *)
(* still true; an assignment's station, while it exists, is on its map.    *)
(***************************************************************************)
Shaped(t) ==
  /\ t.place = "idle" <=> t.op = "none"
  /\ t.place \in {"zones", "read", "commit"} => t.op = "save"
  /\ t.place \in {"station", "assign"} => t.op = "assign"
  /\ t.place = "claim" => t.op = "create"
  /\ t.place = "remove" => t.op = "delete"
  /\ t.place # "idle" /\ t.op # "delete" => t.map \in Maps
  /\ ~Saving(t) => t.zones = <<>> /\ t.stations = <<>>

SaveOK(s, t) ==
  Saving(t) =>
    /\ <<"map", t.map>> \in holds[s]
    /\ t.floor <= lastRow /\ NewIds(t) \subseteq 1..lastRow
    /\ \A i \in DOMAIN t.zones \ 1..t.floor : t.zones[i] # ToDelete
    /\ IF t.checked THEN "boundary" \in t.sections
       ELSE "boundary" \in t.sections => t.sections = {"boundary"}
    /\ "boundary" \in t.sections => t.boundary \in Boundaries
    /\ "stations" \notin t.sections => t.stations = <<>>
    /\ "zones" \in t.sections /\ t.place # "zones" => ZonesAccepted(t)
    /\ "stations" \in t.sections /\ t.place \in {"robots", "commit"} =>
         \A i \in On(stations, t.map) : i \in DOMAIN t.current /\ t.current[i] = stations[i].robot

TargetOK(t) ==
  /\ t.op = "save" => t.map \in made
  /\ t.op = "assign" =>
       /\ t.station \in 1..lastRow
       /\ t.station \in DOMAIN stations => stations[t.station].map = t.map

RequestsOK ==
  /\ task \in [Requests -> Task]
  /\ \A s \in Requests : Shaped(task[s]) /\ SaveOK(s, task[s]) /\ TargetOK(task[s])

\* Identifiers are given out once.
Rows == DOMAIN zones \cup DOMAIN stations

IdsOK ==
  /\ \A s \in Requests : NewIds(task[s]) \cap Rows = {}
  /\ \A s, q \in Requests : s # q => NewIds(task[s]) \cap NewIds(task[q]) = {}
  /\ \A s, q \in Requests : task[s].op = "assign" => task[s].station \notin NewIds(task[q])

\* An assignment that holds its map.
Assigning(t) == t.op = "assign" /\ t.place # "map"

\* A row is locked by one transaction at a time.
LocksOK ==
  /\ DOMAIN holds = Requests /\ holds = [s \in Requests |-> holds[s]]
  /\ \A s, q \in Requests : s # q => holds[s] \cap holds[q] = {}
  /\ \A s \in Requests : Assigning(task[s]) => <<"map", task[s].map>> \in holds[s]

Inv ==
  /\ TypeOK /\ RequestsOK /\ IdsOK /\ LocksOK
  /\ LayoutIsConsistent /\ StationedOnItsMap

-----------------------------------------------------------------------------
(* Facts about the state *)

\* A request without zones or stations creates none.
LEMMA NoItems ==
  ASSUME NEW t, t.zones = <<>>, t.stations = <<>>
  PROVE  NewIds(t) = {}
<1>1. DOMAIN <<>> = {}
  OBVIOUS
<1> QED
  BY <1>1 DEF NewIds

\* A request that is over is well shaped.
LEMMA IdleShape ==
  /\ Idle \in Task /\ Shaped(Idle) /\ NewIds(Idle) = {}
  /\ Idle.place = "idle" /\ Idle.op = "none"
<1>1. Idle.zones = <<>> /\ Idle.stations = <<>> /\ Idle.place = "idle" /\ Idle.op = "none"
  BY DEF Idle
<1>2. Idle \in Task
  <2>1. Idle = [op |-> "none", place |-> "idle", map |-> NoMap, sections |-> {}, checked |-> FALSE,
                boundary |-> NoBoundary, zones |-> <<>>, stations |-> <<>>, floor |-> 0,
                current |-> <<>>, station |-> 0, asked |-> {}, todo |-> {}]
    BY DEF Idle, NoMap
  <2>2. [op |-> "none", place |-> "idle", map |-> NoMap, sections |-> {}, checked |-> FALSE,
         boundary |-> NoBoundary, zones |-> <<>>, stations |-> <<>>, floor |-> 0,
         current |-> <<>>, station |-> 0, asked |-> {}, todo |-> {}] \in Task
    BY DEF Task, Places
  <2> QED
    BY <2>1, <2>2
<1>3. Shaped(Idle)
  BY <1>1 DEF Shaped, Saving
<1> QED
  BY <1>1, <1>2, <1>3, NoItems

\* Identifiers are those of rows, and a save that has its map creates new ones.
LEMMA IdFacts ==
  ASSUME Inv
  PROVE  /\ lastRow \in Nat /\ lastRow <= MaxRows
         /\ Rows \subseteq 1..lastRow /\ Rows \subseteq Ids
BY DEF Inv, TypeOK, Rows, Ids

\* What the invariant says of one request.
LEMMA RequestFacts ==
  ASSUME Inv, NEW s \in Requests
  PROVE  /\ task[s] \in Task /\ Shaped(task[s]) /\ SaveOK(s, task[s]) /\ TargetOK(task[s])
         /\ ~Saving(task[s]) => NewIds(task[s]) = {}
         /\ NewIds(task[s]) \subseteq 1..lastRow
<1>1. task[s] \in Task /\ Shaped(task[s]) /\ SaveOK(s, task[s]) /\ TargetOK(task[s])
  BY DEF Inv, RequestsOK
<1>2. ~Saving(task[s]) => NewIds(task[s]) = {}
  BY <1>1, NoItems DEF Shaped
<1> QED
  BY <1>1, <1>2 DEF SaveOK

\* Two saves hold different maps.
LEMMA OneSavePerMap ==
  ASSUME Inv, NEW s \in Requests, NEW q \in Requests, s # q,
         Saving(task[s]), Saving(task[q])
  PROVE  task[s].map # task[q].map
<1>1. <<"map", task[s].map>> \in holds[s] /\ <<"map", task[q].map>> \in holds[q]
  BY RequestFacts DEF SaveOK
<1>2. holds[s] \cap holds[q] = {}
  BY DEF Inv, LocksOK
<1> QED
  BY <1>1, <1>2

\* The layout of one map is all that the check of new zones depends on.
LEMMA ZonesStillAccepted ==
  ASSUME NEW t, ZonesAccepted(t), boundary'[t.map] = boundary[t.map],
         On(zones, t.map)' = On(zones, t.map),
         \A i \in On(zones, t.map) : zones'[i] = zones[i]
  PROVE  ZonesAccepted(t)'
<1>1. /\ Kept(t)' = Kept(t) /\ Edited(t, t.zones)' = Edited(t, t.zones)
      /\ Boundary(t)' = Boundary(t)
  BY DEF Kept, Edited, Boundary
<1>2. \A i \in Kept(t) : Covers(Boundary(t), t.zones[i])'
  BY <1>1 DEF ZonesAccepted, Covers
<1>3. \A i \in Kept(t), j \in On(zones, t.map) \ DOMAIN t.zones : ~Overlap(t.zones[i], zones[j].shape)'
  BY DEF ZonesAccepted, Overlap
<1>4. \A i, j \in Kept(t) : i # j => ~Overlap(t.zones[i], t.zones[j])'
  BY DEF ZonesAccepted, Overlap
<1>5. (Kept(t) \cap Edited(t, t.zones) \subseteq On(zones, t.map))'
  BY DEF ZonesAccepted, Kept, Edited
<1> QED
  BY <1>2, <1>3, <1>4, <1>5, Zenon DEF ZonesAccepted

-----------------------------------------------------------------------------
(* Steps that write no row *)

\* No zone, station, robot or map changes.
LayoutStays ==
  /\ UNCHANGED <<made, boundary, zones, stations, robots, redrawn>>
  /\ lastRow' \in 0..MaxRows /\ lastRow <= lastRow' /\ started' \in 0..MaxRequests

\* Request s has the locks H then, and they are its own.
Locks(s, H) ==
  /\ holds' = [holds EXCEPT ![s] = H]
  /\ \A q \in Requests \ {s} : H \cap holds[q] = {}

\* The identifiers of t are its own.
Apart(s, t) ==
  /\ NewIds(t) \cap Rows = {}
  /\ \A q \in Requests \ {s} :
       /\ NewIds(t) \cap NewIds(task[q]) = {}
       /\ task[q].op = "assign" => task[q].station \notin NewIds(t)
       /\ t.op = "assign" => t.station \notin NewIds(task[q])

\* One request moves on.
LEMMA Moves ==
  ASSUME Inv, LayoutStays, NEW s \in Requests, NEW t \in Task, Goto(s, t),
         Shaped(t), SaveOK(s, t)', TargetOK(t)', Apart(s, t),
         NEW H, Locks(s, H), t.place = "idle" => H = {}, Assigning(t) => <<"map", t.map>> \in H
  PROVE  Inv'
<1> USE DEF LayoutStays, Locks, Apart
<1>1. /\ task' \in [Requests -> Task] /\ task'[s] = t
      /\ \A q \in Requests \ {s} : task'[q] = task[q]
  BY DEF Inv, RequestsOK, Goto
<1>2. /\ holds'[s] = H /\ DOMAIN holds' = Requests /\ holds' = [q \in Requests |-> holds'[q]]
      /\ \A q \in Requests \ {s} : holds'[q] = holds[q]
  BY DEF Inv, LocksOK
<1>3. ASSUME NEW q \in Requests PROVE (Shaped(task[q]) /\ SaveOK(q, task[q]) /\ TargetOK(task[q]))'
  <2>1. CASE q = s
    <3>1. Shaped(t)' /\ SaveOK(s, t)' /\ TargetOK(t)'
      BY DEF Shaped, Saving
    <3> QED
      BY <1>1, <2>1, <3>1
  <2>2. CASE q # s
    <3>1. PICK x \in Task : x = task[q] /\ x = task'[q]
      BY <1>1, <2>2, RequestFacts
    <3>2. Shaped(x) /\ SaveOK(q, x) /\ TargetOK(x)
      BY <3>1, RequestFacts
    <3>a. x.floor \in Nat
      BY DEF Task
    <3>3. Shaped(x)' /\ TargetOK(x)'
      BY <3>2, IdFacts DEF Shaped, Saving, TargetOK
    <3>4. ZonesAccepted(x) => ZonesAccepted(x)'
      BY ZonesStillAccepted DEF On
    <3>5. SaveOK(q, x)'
      <4>1. NewIds(x)' = NewIds(x) /\ holds'[q] = holds[q] /\ Saving(x)' = Saving(x)
        BY <1>2, <2>2 DEF NewIds, Saving
      <4> QED
        BY <3>2, <3>a, <3>4, <4>1, IdFacts DEF SaveOK, On
    <3> QED
      BY <3>1, <3>3, <3>5
  <2> QED
    BY <2>1, <2>2
<1>4. RequestsOK'
  BY <1>1, <1>3 DEF RequestsOK
<1>5. IdsOK'
  <2>1. \A q \in Requests : NewIds(task'[q]) = NewIds(IF q = s THEN t ELSE task[q])
    BY <1>1
  <2>2. \A q \in Requests : NewIds(task[q])' = NewIds(task'[q])
    BY DEF NewIds
  <2>3. Rows' = Rows
    BY DEF Rows
  <2>4. t.op = "assign" => NewIds(t) = {}
    BY NoItems DEF Shaped, Saving
  <2> QED
    BY <1>1, <2>1, <2>2, <2>3, <2>4 DEF Inv, IdsOK
<1>6. LocksOK'
  <2>1. ASSUME NEW q \in Requests, Assigning(task'[q]) PROVE <<"map", task'[q].map>> \in holds'[q]
    BY <1>1, <1>2, <2>1 DEF Inv, LocksOK
  <2> QED
    BY <1>2, <2>1 DEF Inv, LocksOK, Assigning
<1>7. TypeOK'
  <2>1. \A q \in Requests : task'[q] = Idle => holds'[q] = {}
    BY <1>1, <1>2, IdleShape DEF Inv, TypeOK
  <2>2. DOMAIN zones \cup DOMAIN stations \subseteq 1..lastRow'
    BY IdFacts DEF Rows
  <2> QED
    BY <2>1, <2>2 DEF Inv, TypeOK
<1>8. LayoutIsConsistent' /\ StationedOnItsMap'
  BY DEF Inv, LayoutIsConsistent, ZonesAreDisjoint, LayoutFits, StationedOnItsMap, On
<1> QED
  BY <1>4, <1>5, <1>6, <1>7, <1>8 DEF Inv

\* What a request has, and what it is granted, nobody else holds.
LEMMA GrantedFacts ==
  ASSUME Inv, NEW s \in Requests, NEW q \in Requests \ {s}
  PROVE  /\ holds[s] \cap holds[q] = {}
         /\ Granted(s) => (holds[s] \cup Wants(task[s])) \cap holds[q] = {}
<1>1. holds[s] \cap holds[q] = {}
  BY DEF Inv, LocksOK
<1> QED
  BY <1>1 DEF Granted, Free

\* Request s keeps its locks, or is granted those it wants.
Gains(s, H) ==
  /\ holds' = [holds EXCEPT ![s] = H]
  /\ \/ H = holds[s]
     \/ Granted(s) /\ H = holds[s] \cup Wants(task[s])

\* A request that takes its next step with what it was asked.
LEMMA Advance ==
  ASSUME Inv, UNCHANGED <<rows, started>>, NEW s \in Requests, NEW t \in Task, Goto(s, t),
         Shaped(t), SaveOK(s, t)', t.op = task[s].op, t.place # "idle", t.map = task[s].map,
         t.station = task[s].station, t.zones = task[s].zones, t.stations = task[s].stations,
         t.floor = task[s].floor,
         NEW H, Gains(s, H), task[s].place = "map" => <<"map", t.map>> \in H
  PROVE  Inv'
<1>1. NewIds(t) = NewIds(task[s])
  BY DEF NewIds
<1>2. TargetOK(t)'
  BY RequestFacts DEF TargetOK, rows
<1>3. LayoutStays
  BY IdFacts DEF LayoutStays, rows, Inv, TypeOK
<1>4. Locks(s, H)
  BY GrantedFacts DEF Locks, Gains
<1>5. Apart(s, t)
  BY <1>1 DEF Apart, Inv, IdsOK
<1>6. Assigning(t) => <<"map", t.map>> \in H
  <2>1. Assigning(task[s]) => <<"map", task[s].map>> \in holds[s]
    BY DEF Inv, LocksOK
  <2>2. holds[s] \subseteq H
    BY DEF Gains
  <2> QED
    BY <2>1, <2>2 DEF Assigning
<1> QED
  BY <1>2, <1>3, <1>4, <1>5, <1>6, Moves

\* A request that begins as t.
NewRequest(s, t) ==
  /\ Begin(s, t) /\ t.zones = <<>> /\ t.stations = <<>>
  /\ t.op \in {"save", "assign", "create", "delete"} /\ t.place \in {"map", "robots"}
  /\ t.op # "delete" => t.map \in Maps
  /\ t.op = "save" => t.place = "map" /\ t.map \in made
  /\ t.place = "robots" \/ t.op = "assign" => t.todo # {}
  /\ t.op = "assign" => t.place = "map" /\ t.station \in DOMAIN stations /\ t.map = stations[t.station].map

\* A request begins with what it was asked.
LEMMA BeginFacts ==
  ASSUME Inv, NEW s \in Requests,
         \/ \E m \in Maps : BeginSave(s, m)
         \/ \E i \in Ids, r \in Robots : BeginAssign(s, i, r)
         \/ \E m \in Maps, R \in SUBSET Robots : BeginCreate(s, m, R)
         \/ \E r \in Robots : BeginDelete(s, r)
  PROVE  \E t \in Task : NewRequest(s, t)
<1>1. Idle \in Task /\ Idle.zones = <<>> /\ Idle.stations = <<>>
  BY IdleShape DEF Idle
<1>2. QED
  <2>1. ASSUME NEW m \in Maps, BeginSave(s, m)
        PROVE  \E t \in Task : NewRequest(s, t)
    <3> DEFINE t == [Idle EXCEPT !.op = "save", !.place = "map", !.map = m]
    <3>1. /\ t \in Task /\ t.zones = <<>> /\ t.stations = <<>>
          /\ t.op = "save" /\ t.place = "map" /\ t.map = m
      BY <1>1, <2>1 DEF Task, Places
    <3>2. Begin(s, t) /\ m \in made
      BY <2>1, Zenon DEF BeginSave
    <3> HIDE DEF t
    <3> QED
      BY <3>1, <3>2 DEF NewRequest
  <2>2. ASSUME NEW i \in Ids, NEW r \in Robots, BeginAssign(s, i, r)
        PROVE  \E t \in Task : NewRequest(s, t)
    <3> DEFINE t == [Idle EXCEPT !.op = "assign", !.place = "map", !.map = stations[i].map,
                                  !.station = i, !.asked = {r}, !.todo = {r}]
    <3>0. i \in DOMAIN stations /\ stations[i].map \in Maps /\ i \in Nat
      <4>0. i \in DOMAIN stations
        BY <2>2, Zenon DEF BeginAssign
      <4>1. i \in DOMAIN stations /\ i \in Nat
        BY <4>0 DEF Ids
      <4>2. stations[i].map \in made /\ made \subseteq Maps
        BY <4>1 DEF Inv, TypeOK
      <4> QED
        BY <4>1, <4>2
    <3>1. /\ t \in Task /\ t.zones = <<>> /\ t.stations = <<>>
          /\ t.op = "assign" /\ t.place = "map" /\ t.map = stations[i].map /\ t.station = i
          /\ t.todo = {r}
      <4>1. PICK m \in Maps : m = stations[i].map
        BY <3>0
      <4>2. t = [Idle EXCEPT !.op = "assign", !.place = "map", !.map = m, !.station = i, !.asked = {r}, !.todo = {r}]
        BY <4>1
      <4> HIDE DEF t
      <4> QED
        BY <1>1, <3>0, <4>1, <4>2 DEF Task, Places
    <3>2. Begin(s, t)
      BY <2>2 DEF BeginAssign
    <3> HIDE DEF t
    <3> QED
      BY <3>1, <3>2, <3>0 DEF NewRequest
  <2>3. ASSUME NEW m \in Maps, NEW R \in SUBSET Robots, BeginCreate(s, m, R)
        PROVE  \E t \in Task : NewRequest(s, t)
    <3> DEFINE t == [Idle EXCEPT !.op = "create", !.place = "robots", !.map = m, !.asked = R, !.todo = R]
    <3>1. /\ t \in Task /\ t.zones = <<>> /\ t.stations = <<>>
          /\ t.op = "create" /\ t.place = "robots" /\ t.map = m /\ t.todo = R
      BY <1>1, <2>3 DEF Task, Places
    <3>2. Begin(s, t) /\ R # {}
      BY <2>3 DEF BeginCreate
    <3> HIDE DEF t
    <3> QED
      BY <3>1, <3>2 DEF NewRequest
  <2>4. ASSUME NEW r \in Robots, BeginDelete(s, r)
        PROVE  \E t \in Task : NewRequest(s, t)
    <3> DEFINE t == [Idle EXCEPT !.op = "delete", !.place = "robots", !.asked = {r}, !.todo = {r}]
    <3>1. /\ t \in Task /\ t.zones = <<>> /\ t.stations = <<>>
          /\ t.op = "delete" /\ t.place = "robots" /\ t.todo = {r}
      BY <1>1, <2>4 DEF Task, Places
    <3>2. Begin(s, t)
      BY <2>4 DEF BeginDelete
    <3> HIDE DEF t
    <3> QED
      BY <3>1, <3>2 DEF NewRequest
  <2> QED
    BY <2>1, <2>2, <2>3, <2>4
\* A request begins.
LEMMA BeginStep ==
  ASSUME Inv, NEW s \in Requests, NEW t \in Task, NewRequest(s, t)
  PROVE  Inv'
<1>2. NewRequest(s, t)
  OBVIOUS
<1>3. /\ UNCHANGED <<made, boundary, zones, stations, robots, redrawn>> /\ holds' = holds
      /\ lastRow' = lastRow /\ started' = started + 1 /\ started < MaxRequests
      /\ task[s] = Idle /\ Goto(s, t)
  BY <1>2 DEF NewRequest, Begin, rows
<1>4. LayoutStays
  BY <1>3 DEF LayoutStays, Inv, TypeOK
<1>5. Shaped(t) /\ SaveOK(s, t)' /\ NewIds(t) = {}
  BY <1>2, NoItems DEF NewRequest, Shaped, SaveOK, Saving
<1>6. TargetOK(t)'
  BY <1>2, <1>3, IdFacts DEF NewRequest, TargetOK, Rows
<1>7. Locks(s, {})
  <2>1. holds[s] = {}
    BY <1>3 DEF Inv, TypeOK
  <2>2. holds' = [holds EXCEPT ![s] = {}]
    BY <1>3, <2>1 DEF Inv, LocksOK
  <2> QED
    BY <2>2 DEF Locks
<1>8. Apart(s, t)
  BY <1>2, <1>5 DEF NewRequest, Apart, Inv, IdsOK, Rows
<1>9. ~Assigning(t)
  BY <1>2 DEF NewRequest, Begin, BeginAssign, Assigning
<1> QED
  BY <1>2, <1>3, <1>4, <1>5, <1>6, <1>7, <1>8, <1>9, Moves

\* A request is refused.
LEMMA RefuseStep ==
  ASSUME Inv, NEW s \in Requests, Refuse(s)
  PROVE  Inv'
<1>1. Goto(s, Idle) /\ Locks(s, {})
  BY DEF Refuse, Finish, Locks
<1>3. LayoutStays
  BY IdFacts DEF Refuse, LayoutStays, rows, Inv, TypeOK
<1>4. Apart(s, Idle)
  BY IdleShape DEF Apart
<1>2. SaveOK(s, Idle)' /\ TargetOK(Idle)'
  BY IdleShape DEF SaveOK, TargetOK, Saving
<1> QED
  BY <1>1, <1>2, <1>3, <1>4, IdleShape, Moves DEF Assigning

-----------------------------------------------------------------------------
(* Steps of one request before it commits *)

\* x asks of the zones what t asks.
SameZones(x, t) ==
  /\ x.map = t.map /\ x.sections = t.sections /\ x.checked = t.checked /\ x.boundary = t.boundary
  /\ x.zones = t.zones /\ x.stations = t.stations /\ x.floor = t.floor

\* What a save asks does not change with its place.
LEMMA StillSaving ==
  ASSUME NEW s \in Requests, NEW t, NEW x, SameZones(x, t), SaveOK(s, t), UNCHANGED rows,
         t.op = "save", t.place # "map", x.op = "save",
         holds[s] \subseteq holds'[s],
         "zones" \in x.sections /\ x.place # "zones" => ZonesAccepted(t),
         "stations" \in x.sections /\ x.place \in {"robots", "commit"} =>
            \A i \in On(stations, x.map) : i \in DOMAIN x.current /\ x.current[i] = stations[i].robot
  PROVE  SaveOK(s, x)'
<1> USE DEF SameZones, rows
<1>1. NewIds(x) = NewIds(t) /\ NewIds(x)' = NewIds(x)
  BY DEF NewIds
<1>2. On(stations, x.map)' = On(stations, x.map)
  BY DEF On
<1>3. ZonesAccepted(t) => ZonesAccepted(x)'
  <2>1. ZonesAccepted(t) => ZonesAccepted(x)
    BY DEF ZonesAccepted, Kept, Edited, Boundary
  <2> QED
    BY <2>1, ZonesStillAccepted DEF On
<1> QED
  BY <1>1, <1>2, <1>3 DEF SaveOK, Saving

\* save_environment_zones checks the zones.
LEMMA SaveZonesStep ==
  ASSUME Inv, NEW s \in Requests, SaveZones(s)
  PROVE  Inv'
<1>1. PICK t \in Task : t = task[s]
  BY RequestFacts
<1>2. Shaped(t) /\ SaveOK(s, t) /\ t.place = "zones" /\ ZonesAccepted(t)
  BY <1>1, RequestFacts DEF SaveZones
<1>3. PICK p : p = First(t.sections \ {"zones"})
  OBVIOUS
<1>4. p \in {"read", "commit"} /\ (p = "commit" => "stations" \notin t.sections)
  BY <1>3 DEF First
<1>5. PICK x : x = [t EXCEPT !.place = p]
  OBVIOUS
<1>6. x \in Task /\ SameZones(x, t) /\ x.place = p /\ x.op = t.op /\ x.station = t.station
  BY <1>4, <1>5 DEF Task, Places, SameZones
<1>7. Goto(s, x) /\ UNCHANGED <<rows, started>> /\ holds' = holds
  BY <1>1, <1>3, <1>5 DEF SaveZones
<1>8. Gains(s, holds[s])
  BY <1>7 DEF Inv, LocksOK, Gains
<1>9. t.op = "save"
  BY <1>2 DEF Shaped
<1>10. Shaped(x)
  BY <1>2, <1>4, <1>6, <1>9 DEF Shaped, Saving, SameZones
<1>11. SaveOK(s, x)'
  BY <1>2, <1>4, <1>6, <1>7, <1>9, StillSaving DEF SameZones
<1>17. /\ x.op = task[s].op /\ x.place # "idle" /\ x.map = task[s].map /\ x.station = task[s].station
       /\ x.zones = task[s].zones /\ x.stations = task[s].stations /\ x.floor = task[s].floor
  BY <1>1, <1>4, <1>6, <1>7, <1>8, <1>10, <1>11 DEF SameZones
<1> QED
  BY <1>1, <1>2, <1>4, <1>6, <1>7, <1>8, <1>10, <1>11, <1>17, Advance

\* save_docking_stations reads the stations of its map.
LEMMA ReadStationsStep ==
  ASSUME Inv, NEW s \in Requests, ReadStations(s)
  PROVE  Inv'
<1>1. PICK t \in Task : t = task[s]
  BY RequestFacts
<1>2. Shaped(t) /\ SaveOK(s, t) /\ t.place = "read" /\ t.op = "save"
  BY <1>1, RequestFacts DEF ReadStations, Shaped
<1>3. PICK c : c = [i \in On(stations, t.map) |-> stations[i].robot]
  OBVIOUS
<1>4. c \in Readings
  <2>1. On(stations, t.map) \subseteq Ids
    BY IdFacts DEF On, Rows
  <2>2. \A i \in On(stations, t.map) : stations[i].robot \in Robots \cup {NoRobot}
    BY DEF On, Inv, TypeOK
  <2> QED
    BY <1>3, <2>1, <2>2 DEF Readings
<1>5. PICK R : R = {t.stations[i].robot : i \in DOMAIN t.stations} \ {NoRobot}
  OBVIOUS
<1>6. R \subseteq Robots
  <2>1. t.stations \in StationRequests \cup {<<>>}
    BY DEF Task
  <2>2. \A i \in DOMAIN t.stations : t.stations[i].robot \in Robots \cup {NoRobot}
    BY <2>1 DEF StationRequests, Requested
  <2> QED
    BY <1>5, <2>2
<1>7. PICK p : p = IF R = {} THEN "commit" ELSE "robots"
  OBVIOUS
<1>8. PICK x : x = [t EXCEPT !.place = p, !.current = c, !.asked = R, !.todo = R]
  OBVIOUS
<1>9. /\ x \in Task /\ SameZones(x, t) /\ x.place = p /\ x.op = t.op /\ x.station = t.station
      /\ x.current = c
  <2>1. p \in Places /\ c \in Readings \cup {<<>>}
    BY <1>4, <1>7 DEF Places
  <2>2. x \in Task
    BY <1>6, <1>8, <2>1 DEF Task
  <2>3. x.place = p /\ x.current = c /\ x.op = t.op /\ x.station = t.station
    BY <1>8 DEF Task
  <2>4. SameZones(x, t)
    BY <1>8 DEF Task, SameZones
  <2> QED
    BY <2>2, <2>3, <2>4
<1>10. Goto(s, x) /\ UNCHANGED <<rows, started>> /\ holds' = holds
  BY <1>1, <1>3, <1>5, <1>7, <1>8 DEF ReadStations
<1>11. Gains(s, holds[s])
  BY <1>10 DEF Inv, LocksOK, Gains
<1>12. p \in {"robots", "commit"}
  BY <1>7
<1>13. Shaped(x)
  BY <1>2, <1>9, <1>12 DEF Shaped, Saving, SameZones
<1>14. "zones" \in t.sections => ZonesAccepted(t)
  BY <1>2 DEF SaveOK, Saving
<1>15. \A i \in On(stations, x.map) : i \in DOMAIN x.current /\ x.current[i] = stations[i].robot
  BY <1>3, <1>9 DEF SameZones
<1>16. SaveOK(s, x)'
  BY <1>2, <1>9, <1>10, <1>14, <1>15, StillSaving DEF SameZones
<1>17. /\ x.op = task[s].op /\ x.place # "idle" /\ x.map = task[s].map /\ x.station = task[s].station
       /\ x.zones = task[s].zones /\ x.stations = task[s].stations /\ x.floor = task[s].floor
  BY <1>1, <1>9, <1>10, <1>11, <1>12, <1>13, <1>16 DEF SameZones
<1> QED
  BY <1>1, <1>2, <1>9, <1>10, <1>11, <1>12, <1>13, <1>16, <1>17, Advance

\* A request locks the next of its robots.
LEMMA LockRobotStep ==
  ASSUME Inv, NEW s \in Requests, LockRobot(s)
  PROVE  Inv'
<1>1. PICK t \in Task : t = task[s]
  BY RequestFacts
<1>2. Shaped(t) /\ SaveOK(s, t) /\ t.place = "robots" /\ Granted(s)
  BY <1>1, RequestFacts DEF LockRobot
<1>3. t.op \in {"save", "assign", "create", "delete"}
  BY <1>2 DEF Shaped, Task
<1>4. PICK p : p = IF t.todo = {NextRobot(t)} THEN Locked(t) ELSE "robots"
  OBVIOUS
<1>5. /\ p \in {"robots", Locked(t)}
      /\ Locked(t) = IF t.op = "save" THEN "commit" ELSE IF t.op = "assign" THEN "assign"
                     ELSE IF t.op = "create" THEN "claim" ELSE "remove"
  BY <1>3, <1>4 DEF Locked
<1>6. PICK R : R = t.todo \ {NextRobot(t)}
  OBVIOUS
<1>7. PICK x : x = [t EXCEPT !.todo = R, !.place = p]
  OBVIOUS
<1>8. /\ x \in Task /\ SameZones(x, t) /\ x.place = p /\ x.op = t.op /\ x.station = t.station
      /\ x.current = t.current
  <2>1. p \in Places /\ R \in SUBSET Robots
    BY <1>5, <1>6 DEF Places, Task
  <2>2. x \in Task
    BY <1>7, <2>1 DEF Task
  <2>3. x.place = p /\ x.current = t.current /\ x.op = t.op /\ x.station = t.station
    BY <1>7 DEF Task
  <2>4. SameZones(x, t)
    BY <1>7 DEF Task, SameZones
  <2> QED
    BY <2>2, <2>3, <2>4
<1>9. PICK H : H = IF robots[NextRobot(t)] = Gone THEN holds[s] ELSE holds[s] \cup Wants(t)
  OBVIOUS
<1>10. Goto(s, x) /\ UNCHANGED <<rows, started>> /\ holds' = [holds EXCEPT ![s] = H]
  BY <1>1, <1>4, <1>6, <1>7, <1>9 DEF LockRobot, Inv, LocksOK
<1>11. holds'[s] = H /\ Gains(s, H)
  BY <1>1, <1>2, <1>9, <1>10 DEF Inv, LocksOK, Gains
<1>12. Shaped(x)
  BY <1>2, <1>3, <1>5, <1>8 DEF Shaped, Saving, SameZones
<1>13. SaveOK(s, x)'
  <2>1. CASE t.op = "save"
    <3>1. "zones" \in t.sections => ZonesAccepted(t)
      BY <1>2, <2>1 DEF SaveOK, Saving
    <3>2. "stations" \in x.sections =>
            \A i \in On(stations, x.map) : i \in DOMAIN x.current /\ x.current[i] = stations[i].robot
      BY <1>2, <1>8, <2>1 DEF SaveOK, Saving, SameZones
    <3> QED
      BY <1>2, <1>8, <1>9, <1>10, <1>11, <2>1, <3>1, <3>2, StillSaving DEF SameZones
  <2>2. CASE t.op # "save"
    BY <1>8, <2>2 DEF SaveOK, Saving
  <2> QED
    BY <2>1, <2>2
<1>17. /\ x.op = task[s].op /\ x.place # "idle" /\ x.map = task[s].map /\ x.station = task[s].station
       /\ x.zones = task[s].zones /\ x.stations = task[s].stations /\ x.floor = task[s].floor
  BY <1>1, <1>2, <1>5, <1>8, <1>9, <1>10, <1>12, <1>13 DEF SameZones
<1> QED
  BY <1>1, <1>2, <1>8, <1>10, <1>11, <1>12, <1>13, <1>17, Advance

\* assign_robot_to_station locks the station.
LEMMA LockStationStep ==
  ASSUME Inv, NEW s \in Requests, LockStation(s)
  PROVE  Inv'
<1>1. PICK t \in Task : t = task[s]
  BY RequestFacts
<1>2. Shaped(t) /\ t.place = "station" /\ t.op = "assign" /\ Granted(s)
  BY <1>1, RequestFacts DEF LockStation, Shaped
<1>3. PICK x : x = [t EXCEPT !.place = "robots"]
  OBVIOUS
<1>4. x \in Task /\ SameZones(x, t) /\ x.place = "robots" /\ x.op = "assign" /\ x.station = t.station
  BY <1>2, <1>3 DEF Task, Places, SameZones
<1>5. /\ Goto(s, x) /\ UNCHANGED <<rows, started>>
      /\ Gains(s, holds[s] \cup Wants(t))
  BY <1>1, <1>2, <1>3 DEF LockStation, Inv, LocksOK, Gains
<1>6. Shaped(x) /\ SaveOK(s, x)'
  BY <1>2, <1>4 DEF Shaped, Saving, SameZones, SaveOK
<1>7. /\ x.op = task[s].op /\ x.place # "idle" /\ x.map = task[s].map /\ x.station = task[s].station
      /\ x.zones = task[s].zones /\ x.stations = task[s].stations /\ x.floor = task[s].floor
  BY <1>1, <1>2, <1>4 DEF SameZones
<1> QED
  BY <1>1, <1>2, <1>4, <1>5, <1>6, <1>7, Advance

-----------------------------------------------------------------------------
(* A request locks its map *)

\* What a save asks for when it has locked its map.
Asks(t, x) ==
  /\ x.sections \in (SUBSET Sections) \ {{}} /\ x.checked \in BOOLEAN
  /\ IF x.checked THEN "boundary" \in x.sections
     ELSE "boundary" \in x.sections => x.sections = {"boundary"}
  /\ x.boundary \in IF "boundary" \in x.sections THEN Boundaries ELSE {NoBoundary}
  /\ x.zones \in IF "zones" \in x.sections THEN ZoneRequests ELSE {<<>>}
  /\ x.stations \in IF "stations" \in x.sections THEN StationRequests ELSE {<<>>}
  /\ Fresh(x.zones, x.stations)
  /\ lastRow' = lastRow + Cardinality((DOMAIN x.zones \cup DOMAIN x.stations) \ 1..lastRow)
  /\ x = [t EXCEPT !.place = First(x.sections), !.sections = x.sections, !.checked = x.checked,
                   !.boundary = x.boundary, !.zones = x.zones, !.stations = x.stations,
                   !.floor = lastRow]

\* A request asks for identifiers.
LEMMA RequestedIds ==
  ASSUME NEW x
  PROVE  /\ x.zones \in ZoneRequests \cup {<<>>} => DOMAIN x.zones \subseteq Ids
         /\ x.stations \in StationRequests \cup {<<>>} => DOMAIN x.stations \subseteq Ids
<1>1. DOMAIN <<>> = {}
  OBVIOUS
<1>2. \A V, f : f \in Requested(V) => DOMAIN f \subseteq Ids
  BY DEF Requested
<1> QED
  BY <1>1, <1>2 DEF ZoneRequests, StationRequests

\* The identifiers that a save creates are those between lastRow and its new value.
LEMMA FreshIds ==
  ASSUME NEW x, lastRow \in Nat, lastRow <= MaxRows, Fresh(x.zones, x.stations),
         DOMAIN x.zones \subseteq Ids, DOMAIN x.stations \subseteq Ids, x.floor = lastRow,
         NEW n, n = lastRow + Cardinality(NewIds(x))
  PROVE  /\ n \in Nat /\ lastRow <= n /\ n <= MaxRows
         /\ NewIds(x) = lastRow + 1 .. n
<1> DEFINE Z == DOMAIN x.zones \ 1..lastRow
           D == DOMAIN x.stations \ 1..lastRow
           z == Cardinality(Z)
           d == Cardinality(D)
<1>1. NewIds(x) = Z \cup D
  BY DEF NewIds
<1>2. MaxRows \in Nat
  OBVIOUS
<1>3. IsFiniteSet(Ids)
  BY <1>2, FS_Interval DEF Ids
<1>4. IsFiniteSet(Z) /\ IsFiniteSet(D)
  BY <1>3, FS_Subset, Z \subseteq Ids, D \subseteq Ids
<1>5. z \in Nat /\ d \in Nat
  BY <1>4, FS_CardinalityType
<1>6. Z = lastRow + 1 .. lastRow + z /\ D = lastRow + z + 1 .. lastRow + z + d
  BY DEF Fresh
<1>7. Z \cup D \subseteq Ids
  OBVIOUS
<1> HIDE DEF Z, D, z, d
<1>8. Z \cup D = lastRow + 1 .. lastRow + z + d
  BY <1>5, <1>6
<1>10. n = lastRow + z + d
  <2>1. PICK k \in Nat : k = z + d
    BY <1>5
  <2>2. Z \cup D = lastRow + 1 .. lastRow + k
    BY <1>5, <1>8, <2>1
  <2>3. Cardinality(lastRow + 1 .. lastRow + k) = k
    BY <2>1, FS_Interval
  <2>4. Cardinality(NewIds(x)) = k
    BY <1>1, <2>2, <2>3
  <2> QED
    BY <1>5, <2>1, <2>4
<1>11. n <= MaxRows
  <2>1. CASE n = lastRow
    BY <2>1
  <2>2. CASE n # lastRow
    <3>1. n \in Z \cup D
      BY <1>5, <1>8, <1>10, <2>2
    <3> QED
      BY <1>2, <1>7, <3>1 DEF Ids
  <2> QED
    BY <2>1, <2>2
<1>12. NewIds(x) = lastRow + 1 .. n
  BY <1>1, <1>8, <1>10
<1> QED
  BY <1>5, <1>10, <1>11, <1>12

\* A save locks its map, and what it asks for is new.
LEMMA SaveLocksMap ==
  ASSUME Inv, NEW s \in Requests, task[s].place = "map", task[s].op = "save", Granted(s),
         holds' = [holds EXCEPT ![s] = holds[s] \cup Wants(task[s])],
         UNCHANGED <<made, boundary, zones, stations, robots, redrawn, started>>,
         NEW x, Asks(task[s], x), Goto(s, x)
  PROVE  Inv'
<1>1. PICK t \in Task : t = task[s]
  BY RequestFacts
<1>2. Shaped(t) /\ TargetOK(t) /\ t.place = "map" /\ t.op = "save"
  BY <1>1, RequestFacts
<1>3. First(x.sections) \in {"zones", "read", "commit"}
  BY DEF First
<1>4. /\ x.place = First(x.sections) /\ x.op = "save" /\ x.map = t.map /\ x.station = t.station
      /\ x.floor = lastRow
  BY <1>1, <1>2 DEF Asks, Task
<1>5. x \in Task
  <2>1. lastRow \in Nat /\ First(x.sections) \in Places
    BY <1>3, IdFacts DEF Places
  <2>2. x.zones \in ZoneRequests \cup {<<>>} /\ x.stations \in StationRequests \cup {<<>>}
    BY DEF Asks
  <2>3. x.sections \in SUBSET Sections /\ x.checked \in BOOLEAN /\ x.boundary \in Boundaries \cup {NoBoundary}
    BY DEF Asks
  <2>4. x = [t EXCEPT !.place = First(x.sections), !.sections = x.sections, !.checked = x.checked,
                   !.boundary = x.boundary, !.zones = x.zones, !.stations = x.stations,
                   !.floor = lastRow]
    BY <1>1 DEF Asks
  <2>5. PICK a, b, c, d, e, f : a = First(x.sections) /\ b = x.sections /\ c = x.checked
           /\ d = x.boundary /\ e = x.zones /\ f = x.stations
    OBVIOUS
  <2>6. x = [t EXCEPT !.place = a, !.sections = b, !.checked = c,
                   !.boundary = d, !.zones = e, !.stations = f,
                   !.floor = lastRow]
    BY <2>4, <2>5
  <2>7. /\ a \in Places /\ b \in SUBSET Sections /\ c \in BOOLEAN /\ d \in Boundaries \cup {NoBoundary}
        /\ e \in ZoneRequests \cup {<<>>} /\ f \in StationRequests \cup {<<>>}
    BY <2>1, <2>2, <2>3, <2>5
  <2>8. x = [op |-> t.op, place |-> a, map |-> t.map, sections |-> b, checked |-> c, boundary |-> d,
             zones |-> e, stations |-> f, floor |-> lastRow, current |-> t.current,
             station |-> t.station, asked |-> t.asked, todo |-> t.todo]
    BY <2>6 DEF Task
  <2>9. /\ t.op \in {"none", "save", "assign", "create", "delete"} /\ t.map \in Maps \cup {NoMap}
        /\ t.current \in Readings \cup {<<>>} /\ t.station \in Nat
        /\ t.asked \in SUBSET Robots /\ t.todo \in SUBSET Robots
    BY DEF Task
  <2> QED
    BY <2>1, <2>7, <2>8, <2>9 DEF Task
<1>6. /\ lastRow' \in Nat /\ lastRow <= lastRow' /\ lastRow' <= MaxRows
      /\ NewIds(x) = lastRow + 1 .. lastRow'
  <2>1. DOMAIN x.zones \subseteq Ids /\ DOMAIN x.stations \subseteq Ids
    BY <1>5, RequestedIds DEF Task
  <2>2. lastRow' = lastRow + Cardinality(NewIds(x)) /\ Fresh(x.zones, x.stations)
    BY <1>4 DEF Asks, NewIds
  <2> QED
    BY <1>4, <2>1, <2>2, IdFacts, FreshIds
<1>7. Shaped(x)
  BY <1>2, <1>3, <1>4 DEF Shaped, Saving
<1>8. LayoutStays
  BY <1>6 DEF LayoutStays, Inv, TypeOK
<1>9. Locks(s, holds[s] \cup Wants(t))
  BY <1>1, GrantedFacts DEF Locks
<1>10. SaveOK(s, x)'
  <2>1. <<"map", x.map>> \in holds'[s]
    BY <1>1, <1>2, <1>4 DEF Wants, Inv, LocksOK
  <2>2. NewIds(x)' = NewIds(x) /\ x.floor <= lastRow'
    BY <1>4, <1>6 DEF NewIds
  <2>3. \A i \in DOMAIN x.zones \ 1..x.floor : x.zones[i] # ToDelete
    BY <1>4 DEF Asks, Fresh
  <2>4. "zones" \in x.sections => x.place = "zones"
    BY <1>4 DEF First
  <2>5. "stations" \in x.sections => x.place \in {"zones", "read"}
    BY <1>4 DEF First
  <2>6. NewIds(x) \subseteq 1..lastRow'
    BY <1>6, IdFacts
  <2> QED
    BY <2>1, <2>2, <2>3, <2>4, <2>5, <2>6 DEF SaveOK, Asks
<1>11. TargetOK(x)'
  BY <1>2, <1>4 DEF TargetOK
<1>12. Apart(s, x)
  <2>1. \A q \in Requests : NewIds(task[q]) \subseteq 1..lastRow
    BY RequestFacts
  <2>2. \A q \in Requests : task[q].op = "assign" => task[q].station \in 1..lastRow
    BY RequestFacts DEF TargetOK
  <2> QED
    BY <1>4, <1>6, <2>1, <2>2, IdFacts DEF Apart
<1>13. x.place # "idle"
  BY <1>3, <1>4
<1> QED
  BY <1>1, <1>4, <1>5, <1>7, <1>8, <1>9, <1>10, <1>11, <1>12, <1>13, Moves DEF Assigning

\* A save that locks its map asks for something.
LEMMA MapIsAsked ==
  ASSUME Inv, NEW s \in Requests, LockMap(s), task[s].op # "assign"
  PROVE  \E x : Asks(task[s], x) /\ Goto(s, x)
<1>0. PICK t \in Task : t = task[s]
  BY RequestFacts
<1>1. PICK sections \in (SUBSET Sections) \ {{}}, checked \in BOOLEAN :
         /\ IF checked THEN "boundary" \in sections
            ELSE "boundary" \in sections => sections = {"boundary"}
         /\ \E b \in IF "boundary" \in sections THEN Boundaries ELSE {NoBoundary},
               zs \in IF "zones" \in sections THEN ZoneRequests ELSE {<<>>},
               ds \in IF "stations" \in sections THEN StationRequests ELSE {<<>>} :
              /\ Fresh(zs, ds)
              /\ Cardinality(DOMAIN zs) + Cardinality(DOMAIN ds) + Cardinality({b} \cap Boundaries) <= MaxItems
              /\ lastRow' = lastRow + Cardinality((DOMAIN zs \cup DOMAIN ds) \ 1..lastRow)
              /\ Goto(s, [task[s] EXCEPT !.place = First(sections), !.sections = sections,
                                   !.checked = checked, !.boundary = b, !.zones = zs,
                                   !.stations = ds, !.floor = lastRow])
  BY Zenon DEF LockMap
<1>2. PICK b \in IF "boundary" \in sections THEN Boundaries ELSE {NoBoundary},
               zs \in IF "zones" \in sections THEN ZoneRequests ELSE {<<>>},
               ds \in IF "stations" \in sections THEN StationRequests ELSE {<<>>} :
              /\ Fresh(zs, ds)
              /\ Cardinality(DOMAIN zs) + Cardinality(DOMAIN ds) + Cardinality({b} \cap Boundaries) <= MaxItems
              /\ lastRow' = lastRow + Cardinality((DOMAIN zs \cup DOMAIN ds) \ 1..lastRow)
              /\ Goto(s, [task[s] EXCEPT !.place = First(sections), !.sections = sections,
                                   !.checked = checked, !.boundary = b, !.zones = zs,
                                   !.stations = ds, !.floor = lastRow])
  BY <1>1
<1>3. PICK x : x = [t EXCEPT !.place = First(sections), !.sections = sections,
                             !.checked = checked, !.boundary = b, !.zones = zs,
                             !.stations = ds, !.floor = lastRow]
  OBVIOUS
<1>4. /\ x.sections = sections /\ x.checked = checked /\ x.boundary = b /\ x.zones = zs
      /\ x.stations = ds
  BY <1>3 DEF Task
<1>5. Asks(t, x)
  BY <1>1, <1>2, <1>3, <1>4 DEF Asks
<1>6. Goto(s, x)
  BY <1>0, <1>2, <1>3
<1> QED
  BY <1>0, <1>5, <1>6

\* get_by_id_and_group_for_update.
LEMMA LockMapStep ==
  ASSUME Inv, NEW s \in Requests, LockMap(s)
  PROVE  Inv'
<1>1. PICK t \in Task : t = task[s]
  BY RequestFacts
<1>2. /\ t.place = "map" /\ Granted(s)
      /\ holds' = [holds EXCEPT ![s] = holds[s] \cup Wants(t)]
      /\ UNCHANGED <<made, boundary, zones, stations, robots, redrawn, started>>
  BY <1>1 DEF LockMap, Inv, LocksOK
<1>3. CASE t.op = "assign"
  <2>1. PICK x : x = [t EXCEPT !.place = "station"]
    OBVIOUS
  <2>2. x \in Task /\ SameZones(x, t) /\ x.place = "station" /\ x.op = "assign" /\ x.station = t.station
    BY <1>3, <2>1 DEF Task, Places, SameZones
  <2>3. Goto(s, x) /\ UNCHANGED <<rows, started>> /\ Gains(s, holds[s] \cup Wants(t))
    BY <1>1, <1>2, <1>3, <2>1 DEF LockMap, Gains, rows
  <2>4. Shaped(t)
    BY <1>1, RequestFacts
  <2>5. Shaped(x) /\ SaveOK(s, x)'
    BY <1>2, <1>3, <2>2, <2>4 DEF Shaped, Saving, SameZones, SaveOK
  <2>6. /\ x.op = task[s].op /\ x.place # "idle" /\ x.map = task[s].map /\ x.station = task[s].station
        /\ x.zones = task[s].zones /\ x.stations = task[s].stations /\ x.floor = task[s].floor
    BY <1>1, <1>3, <2>2 DEF SameZones
  <2>7. <<"map", x.map>> \in holds[s] \cup Wants(t)
    BY <1>2, <2>2 DEF Wants, SameZones
  <2> QED
    BY <2>2, <2>3, <2>5, <2>6, <2>7, Advance
<1>4. CASE t.op # "assign"
  <2>1. t.op = "save"
    BY <1>1, <1>4 DEF LockMap
  <2>2. PICK x : Asks(t, x) /\ Goto(s, x)
    BY <1>1, <1>4, MapIsAsked
  <2> QED
    BY <1>1, <1>2, <2>1, <2>2, SaveLocksMap
<1> QED
  BY <1>3, <1>4

-----------------------------------------------------------------------------
(* The end of a transaction *)

\* What a save relies on under the lock of map m.
MapKept(m) ==
  /\ boundary'[m] = boundary[m]
  /\ On(zones, m)' = On(zones, m) /\ \A i \in On(zones, m) : zones'[i] = zones[i]
  /\ \A i \in On(stations, m)' : i \in On(stations, m) /\ stations'[i].robot = stations[i].robot

\* The rows that s leaves are of their types, and none has the identifier of another request.
RowsOK(s) ==
  /\ made \subseteq made' /\ made' \subseteq Maps
  /\ boundary' \in [Maps -> Boundaries \cup {NoBoundary}]
  /\ \A i \in DOMAIN zones' : zones'[i] \in [map : made', shape : ZoneShapes]
  /\ \A i \in DOMAIN stations' :
       stations'[i] \in [map : made', robot : Robots \cup {NoRobot}, shape : Shape]
  /\ robots' \in [Robots -> made' \cup {Nowhere, Gone}]
  /\ redrawn' \subseteq Maps
  /\ DOMAIN zones' \subseteq DOMAIN zones \cup NewIds(task[s])
  /\ \A i \in DOMAIN stations' :
       \/ i \in NewIds(task[s])
       \/ i \in DOMAIN stations /\ stations'[i].map = stations[i].map

\* The maps that other requests are saving.
SavedByOthers(s) == {task[q].map : q \in {q \in Requests \ {s} : Saving(task[q])}}

\* One transaction commits, and leaves what the others rely on.
LEMMA EndStep ==
  ASSUME Inv, NEW s \in Requests, Finish(s), UNCHANGED <<lastRow, started>>, RowsOK(s),
         \A m \in SavedByOthers(s) : MapKept(m),
         LayoutIsConsistent', StationedOnItsMap'
  PROVE  Inv'
<1>1. /\ task' \in [Requests -> Task] /\ task'[s] = Idle
      /\ \A q \in Requests \ {s} : task'[q] = task[q]
  BY IdleShape DEF Inv, RequestsOK, Finish, Goto
<1>2. /\ holds'[s] = {} /\ DOMAIN holds' = Requests /\ holds' = [q \in Requests |-> holds'[q]]
      /\ \A q \in Requests \ {s} : holds'[q] = holds[q]
  BY DEF Inv, LocksOK, Finish
<1>3. ASSUME NEW q \in Requests PROVE (Shaped(task[q]) /\ SaveOK(q, task[q]) /\ TargetOK(task[q]))'
  <2>1. CASE q = s
    <3>1. Shaped(Idle)' /\ SaveOK(s, Idle)' /\ TargetOK(Idle)'
      BY IdleShape DEF Shaped, Saving, SaveOK, TargetOK
    <3> QED
      BY <1>1, <2>1, <3>1
  <2>2. CASE q # s
    <3>1. PICK x \in Task : x = task[q] /\ x = task'[q]
      BY <1>1, <2>2, RequestFacts
    <3>2. Shaped(x) /\ SaveOK(q, x) /\ TargetOK(x)
      BY <3>1, RequestFacts
    <3>0. Saving(x) => MapKept(x.map)
      BY <2>2, <3>1 DEF SavedByOthers
    <3>3. x.op = "assign" => x.station \notin NewIds(task[s])
      BY <3>1 DEF Inv, IdsOK
    <3>4. Shaped(x)' /\ TargetOK(x)'
      BY <3>2, <3>3 DEF Shaped, Saving, TargetOK, RowsOK
    <3>5. SaveOK(q, x)'
      <4>1. NewIds(x)' = NewIds(x) /\ holds'[q] = holds[q] /\ Saving(x)' = Saving(x)
        BY <1>2, <2>2 DEF NewIds, Saving
      <4>2. Saving(x) /\ ZonesAccepted(x) => ZonesAccepted(x)'
        BY <3>0, ZonesStillAccepted DEF MapKept
      <4>3. ASSUME Saving(x), "stations" \in x.sections, x.place \in {"robots", "commit"},
                   NEW i \in On(stations, x.map)'
            PROVE  i \in DOMAIN x.current /\ x.current[i] = stations'[i].robot
        BY <3>0, <3>2, <4>3 DEF MapKept, SaveOK
      <4> QED
        BY <3>2, <4>1, <4>2, <4>3 DEF SaveOK
    <3> QED
      BY <3>1, <3>4, <3>5
  <2> QED
    BY <2>1, <2>2
<1>4. RequestsOK'
  BY <1>1, <1>3 DEF RequestsOK
<1>5. IdsOK'
  <2>1. \A q \in Requests : NewIds(task'[q]) = NewIds(IF q = s THEN Idle ELSE task[q])
    BY <1>1
  <2>2. \A q \in Requests : NewIds(task[q])' = NewIds(task'[q])
    BY DEF NewIds
  <2>3. Rows' \subseteq Rows \cup NewIds(task[s])
    BY DEF Rows, RowsOK
  <2> QED
    BY <1>1, <2>1, <2>2, <2>3, IdleShape DEF Inv, IdsOK
<1>6. LocksOK'
  <2>1. ASSUME NEW q \in Requests, Assigning(task'[q]) PROVE <<"map", task'[q].map>> \in holds'[q]
    BY <1>1, <1>2, <2>1, IdleShape DEF Inv, LocksOK, Assigning
  <2> QED
    BY <1>2, <2>1 DEF Inv, LocksOK, Assigning
<1>7. TypeOK'
  <2>1. \A q \in Requests : task'[q] = Idle => holds'[q] = {}
    BY <1>1, <1>2 DEF Inv, TypeOK
  <2>2. DOMAIN zones' \cup DOMAIN stations' \subseteq 1..lastRow
    BY IdFacts, RequestFacts DEF Rows, RowsOK
  <2> QED
    BY <2>1, <2>2 DEF Inv, TypeOK, RowsOK
<1> QED
  BY <1>4, <1>5, <1>6, <1>7 DEF Inv

\* create_map
LEMMA CreateMapStep ==
  ASSUME Inv, NEW s \in Requests, CreateMap(s)
  PROVE  Inv'
<1>1. PICK t \in Task : t = task[s]
  BY RequestFacts
<1>2. /\ t.place = "claim" /\ t.map \in Maps /\ Claimable(t.asked) /\ Finish(s)
      /\ made' = made \cup {t.map}
      /\ robots' = [r \in Robots |-> IF r \in t.asked THEN t.map ELSE robots[r]]
      /\ UNCHANGED <<boundary, zones, stations, lastRow, redrawn, started>>
  BY <1>1, RequestFacts DEF CreateMap, Shaped
<1>3. RowsOK(s)
  BY <1>2 DEF RowsOK, Inv, TypeOK
<1>4. \A m : MapKept(m)
  BY <1>2 DEF MapKept, On
<1>5. LayoutIsConsistent'
  <2>1. ZonesAreDisjoint'
    BY <1>2 DEF ZonesAreDisjoint, Inv, LayoutIsConsistent
  <2>2. ASSUME NEW m \in made' \ redrawn', m \notin made
        PROVE  On(zones, m) = {} /\ On(stations, m) = {}
    BY <2>2 DEF Inv, TypeOK, On
  <2>3. LayoutFits'
    BY <1>2, <2>2 DEF LayoutFits, Inv, LayoutIsConsistent, On
  <2> QED
    BY <2>1, <2>3 DEF LayoutIsConsistent
<1>6. StationedOnItsMap'
  <2>1. ASSUME NEW i \in DOMAIN stations, stations[i].robot # NoRobot
        PROVE  robots'[stations[i].robot] = stations[i].map
    <3>1. /\ stations[i].robot \in Robots /\ stations[i].map \in Maps
          /\ robots[stations[i].robot] = stations[i].map
      BY <2>1 DEF Inv, TypeOK, StationedOnItsMap
    <3>2. stations[i].robot \notin t.asked
      BY <1>2, <3>1 DEF Claimable
    <3> QED
      BY <1>2, <3>1, <3>2
  <2> QED
    BY <1>2, <2>1 DEF StationedOnItsMap
<1> QED
  BY <1>2, <1>3, <1>4, <1>5, <1>6, EndStep

\* hard_delete_bot, with the stations of the robot.
LEMMA DeleteBotStep ==
  ASSUME Inv, NEW s \in Requests, DeleteBot(s)
  PROVE  Inv'
<1>1. PICK t \in Task : t = task[s]
  BY RequestFacts
<1>2. /\ Finish(s)
      /\ robots' = [r \in Robots |-> IF r \in t.asked THEN Gone ELSE robots[r]]
      /\ stations' = [i \in {i \in DOMAIN stations : stations[i].robot \notin t.asked} |-> stations[i]]
      /\ UNCHANGED <<made, boundary, zones, lastRow, redrawn, started>>
  BY <1>1 DEF DeleteBot
<1>3. \A i \in DOMAIN stations' :
        i \in DOMAIN stations /\ stations'[i] = stations[i] /\ stations[i].robot \notin t.asked
  BY <1>2
<1>4. RowsOK(s)
  BY <1>2, <1>3 DEF RowsOK, Inv, TypeOK
<1>5. \A m : MapKept(m)
  BY <1>2, <1>3 DEF MapKept, On
<1>6. LayoutIsConsistent'
  BY <1>2, <1>3 DEF LayoutIsConsistent, ZonesAreDisjoint, LayoutFits, Inv, On
<1>7. StationedOnItsMap'
  BY <1>2, <1>3 DEF StationedOnItsMap, Inv, TypeOK
<1> QED
  BY <1>2, <1>4, <1>5, <1>6, <1>7, EndStep

\* assign_robot_to_station
LEMMA AssignRobotStep ==
  ASSUME Inv, NEW s \in Requests, AssignRobot(s)
  PROVE  Inv'
<1>1. PICK t \in Task : t = task[s]
  BY RequestFacts
<1>2. t.op = "assign" /\ t.place = "assign" /\ TargetOK(t)
  BY <1>1, RequestFacts DEF AssignRobot, Shaped
<1>3. PICK r \in t.asked : Assignable(t, r) /\ stations' = [stations EXCEPT ![t.station].robot = r]
  BY <1>1 DEF AssignRobot
<1>4. Finish(s) /\ UNCHANGED <<made, boundary, zones, robots, lastRow, redrawn, started>>
  BY DEF AssignRobot
<1>5. r \in Robots /\ robots[r] = t.map
  BY <1>3 DEF Assignable, Task
<1>6. /\ DOMAIN stations' = DOMAIN stations
      /\ \A i \in DOMAIN stations : i # t.station => stations'[i] = stations[i]
      /\ t.station \in DOMAIN stations =>
           /\ stations'[t.station].map = t.map /\ stations'[t.station].robot = r
           /\ stations[t.station].map = t.map
           /\ stations'[t.station].shape = stations[t.station].shape
           /\ stations'[t.station] \in [map : made, robot : Robots \cup {NoRobot}, shape : Shape]
  <2>1. \A i \in DOMAIN stations : i # t.station => stations'[i] = stations[i]
    BY <1>3
  <2>2. DOMAIN stations' = DOMAIN stations
    BY <1>3
  <2>3. ASSUME t.station \in DOMAIN stations
        PROVE  /\ stations'[t.station].map = stations[t.station].map
               /\ stations'[t.station].shape = stations[t.station].shape
               /\ stations'[t.station].robot = r
               /\ stations'[t.station] \in [map : made, robot : Robots \cup {NoRobot}, shape : Shape]
    <3>1. stations[t.station] \in [map : made, robot : Robots \cup {NoRobot}, shape : Shape]
      BY <2>3 DEF Inv, TypeOK
    <3>2. stations'[t.station] = [stations[t.station] EXCEPT !.robot = r]
      BY <1>3, <2>3
    <3> QED
      BY <1>5, <3>1, <3>2
  <2> QED
    BY <1>2, <2>1, <2>2, <2>3 DEF TargetOK
<1>7. RowsOK(s)
  BY <1>4, <1>5, <1>6 DEF RowsOK, Inv, TypeOK
<1>8. ASSUME NEW m \in SavedByOthers(s) PROVE MapKept(m)
  <2>1. PICK q \in Requests \ {s} : Saving(task[q]) /\ m = task[q].map
    BY <1>8 DEF SavedByOthers
  <2>2. <<"map", t.map>> \in holds[s]
    BY <1>1, <1>2 DEF Inv, LocksOK, Assigning
  <2>3. <<"map", m>> \in holds[q]
    BY <2>1, RequestFacts DEF SaveOK
  <2>4. m # t.map
    BY <2>2, <2>3 DEF Inv, LocksOK
  <2> QED
    BY <1>4, <1>6, <2>4 DEF MapKept, On
<1>9. LayoutIsConsistent'
  <2>1. \A m : On(stations, m)' = On(stations, m)
    BY <1>6 DEF On
  <2>2. \A i \in DOMAIN stations : stations'[i].shape = stations[i].shape
    BY <1>6
  <2> QED
    BY <1>4, <2>1, <2>2 DEF LayoutIsConsistent, ZonesAreDisjoint, LayoutFits, Inv, On
<1>10. StationedOnItsMap'
  BY <1>4, <1>5, <1>6 DEF StationedOnItsMap, Inv
<1> QED
  BY <1>4, <1>7, <1>8, <1>9, <1>10, EndStep

-----------------------------------------------------------------------------
(* A save commits *)

\* What a save relies on when it writes.
LEMMA CommitFacts ==
  ASSUME Inv, NEW s \in Requests, NEW t, t = task[s], t.place = "commit"
  PROVE  /\ t \in Task /\ SaveOK(s, t) /\ Saving(t) /\ t.map \in Maps /\ t.map \in made
         /\ NewIds(t) \cap Rows = {}
         /\ \A i \in DOMAIN t.zones \cup DOMAIN t.stations : i \in NewIds(t) \/ i \in 1..t.floor
         /\ "zones" \in t.sections => ZonesAccepted(t)
         /\ "stations" \notin t.sections => t.stations = <<>>
<1>1. t \in Task /\ Shaped(t) /\ SaveOK(s, t) /\ TargetOK(t) /\ Saving(t)
  BY RequestFacts DEF Shaped, Saving
<1>2. NewIds(t) \cap Rows = {}
  BY DEF Inv, IdsOK
<1> QED
  BY <1>1, <1>2 DEF Saving, Shaped, SaveOK, TargetOK, NewIds

\* The zones that a save writes are on its map or new.
LEMMA KeptIds ==
  ASSUME Inv, NEW s \in Requests, NEW t, t = task[s], t.place = "commit",
         "zones" \in t.sections, NEW i \in Kept(t)
  PROVE  /\ i \in On(zones, t.map) \/ (i \in NewIds(t) /\ i \notin DOMAIN zones)
         /\ i \in DOMAIN t.zones /\ t.zones[i] \in ZoneShapes
<1>1. i \in DOMAIN t.zones /\ t.zones[i] # ToDelete
  BY DEF Kept
<1>2. t.zones[i] \in ZoneShapes
  <2>1. t.zones \in ZoneRequests \cup {<<>>}
    BY CommitFacts DEF Task
  <2>2. DOMAIN <<>> = {}
    OBVIOUS
  <2>3. \A V, f : f \in Requested(V) => \A k \in DOMAIN f : f[k] \in V
    BY DEF Requested
  <2> QED
    BY <1>1, <2>1, <2>2, <2>3 DEF ZoneRequests
<1>3. CASE i \in NewIds(t)
  BY <1>1, <1>2, <1>3, CommitFacts DEF Rows
<1>4. CASE i \in 1..t.floor
  <2>1. t.floor \in Nat /\ ZonesAccepted(t)
    BY CommitFacts DEF Task
  <2>2. i \in Edited(t, t.zones)
    BY <1>1, <1>4, <2>1 DEF Edited
  <2> QED
    BY <1>1, <1>2, <2>1, <2>2 DEF ZonesAccepted
<1> QED
  BY <1>1, <1>3, <1>4, CommitFacts

\* A zone after a save is one that it wrote, or one that was there before and is
\* not among its identifiers if it is on its map.
LEMMA SavedZones ==
  ASSUME Inv, NEW s \in Requests, NEW t, t = task[s], t.place = "commit", zones' = ZonesAfter(t)
  PROVE  /\ \A i \in DOMAIN zones' :
              \/ /\ "zones" \in t.sections /\ i \in Kept(t)
                 /\ zones'[i] = [map |-> t.map, shape |-> t.zones[i]]
              \/ /\ i \in DOMAIN zones /\ zones'[i] = zones[i]
                 /\ "zones" \in t.sections /\ zones[i].map = t.map /\ Kept(t) # {} => i \notin DOMAIN t.zones
         /\ \A m \in Maps \ {t.map} :
              On(zones, m)' = On(zones, m) /\ \A i \in On(zones, m) : zones'[i] = zones[i]
<1>1. CASE "zones" \notin t.sections
  BY <1>1 DEF ZonesAfter, On
<1>2. CASE "zones" \in t.sections
  <2> DEFINE removed == IF t.zones = <<>> THEN On(zones, t.map) ELSE On(zones, t.map) \cap (DOMAIN t.zones \ Kept(t))
  <2>1. removed \subseteq On(zones, t.map)
    OBVIOUS
  <2>2. zones' = [i \in (DOMAIN zones \ removed) \cup Kept(t) |->
          IF i \in Kept(t) THEN [map |-> t.map, shape |-> t.zones[i]] ELSE zones[i]]
    BY <1>2 DEF ZonesAfter
  <2>3. ASSUME NEW i \in On(zones, t.map), i \notin removed, i \notin Kept(t), Kept(t) # {}
        PROVE  i \notin DOMAIN t.zones
    <3>1. t.zones # <<>>
      <4>1. DOMAIN <<>> = {}
        OBVIOUS
      <4> QED
        BY <2>3, <4>1 DEF Kept
    <3> QED
      BY <2>3, <3>1
  <2> HIDE DEF removed
  <2>4. \A i \in Kept(t) : i \in On(zones, t.map) \/ i \notin DOMAIN zones
    BY <1>2, KeptIds
  <2>5. \A i \in DOMAIN zones' :
              \/ /\ i \in Kept(t)
                 /\ zones'[i] = [map |-> t.map, shape |-> t.zones[i]]
              \/ /\ i \in DOMAIN zones /\ zones'[i] = zones[i]
                 /\ zones[i].map = t.map /\ Kept(t) # {} => i \notin DOMAIN t.zones
    <3> SUFFICES ASSUME NEW i \in DOMAIN zones', i \notin Kept(t)
                 PROVE  /\ i \in DOMAIN zones /\ zones'[i] = zones[i]
                        /\ zones[i].map = t.map /\ Kept(t) # {} => i \notin DOMAIN t.zones
      BY <2>2
    <3>1. i \in DOMAIN zones /\ i \notin removed /\ zones'[i] = zones[i]
      BY <2>2
    <3> QED
      BY <2>3, <3>1 DEF On
  <2>6. ASSUME NEW m \in Maps \ {t.map}
        PROVE  On(zones, m)' = On(zones, m) /\ \A i \in On(zones, m) : zones'[i] = zones[i]
    <3>1. ASSUME NEW i \in On(zones, m) PROVE i \in DOMAIN zones' /\ zones'[i] = zones[i]
      <4>1. i \notin On(zones, t.map) /\ i \in DOMAIN zones
        BY DEF On
      <4>2. i \notin Kept(t) /\ i \notin removed
        BY <2>1, <2>4, <4>1
      <4> QED
        BY <2>2, <4>1, <4>2
    <3>2. ASSUME NEW i \in DOMAIN zones', zones'[i].map = m PROVE i \in On(zones, m)
      <4>1. i \notin Kept(t)
        BY <2>2, <3>2
      <4> QED
        BY <2>5, <3>2, <4>1 DEF On
    <3> QED
      BY <3>1, <3>2 DEF On
  <2> QED
    BY <1>2, <2>5, <2>6
<1> QED
  BY <1>1, <1>2

\* The stations that a save writes are on its map or new.
LEMMA WrittenIds ==
  ASSUME Inv, NEW s \in Requests, NEW t, t = task[s], t.place = "commit", RowsFound(t)
  PROVE  /\ Edited(t, t.stations) \subseteq On(stations, t.map)
         /\ \A i \in DOMAIN t.stations :
              /\ i \in On(stations, t.map) \/ (i \in NewIds(t) /\ i \notin DOMAIN stations)
              /\ t.stations[i] \in [robot : Robots \cup {NoRobot}, shape : StationShapes]
<1>1. \A i \in DOMAIN t.stations :
        t.stations[i] \in [robot : Robots \cup {NoRobot}, shape : StationShapes]
  <2>1. t.stations \in StationRequests \cup {<<>>}
    BY CommitFacts DEF Task
  <2>2. DOMAIN <<>> = {}
    OBVIOUS
  <2> QED
    BY <2>1, <2>2 DEF StationRequests, Requested
<1>2. Edited(t, t.stations) \subseteq On(stations, t.map)
  BY DEF RowsFound, EditsExist
<1>3. ASSUME NEW i \in DOMAIN t.stations
      PROVE  i \in On(stations, t.map) \/ (i \in NewIds(t) /\ i \notin DOMAIN stations)
  <2>1. CASE i \in NewIds(t)
    BY <2>1, CommitFacts DEF Rows
  <2>2. CASE i \in 1..t.floor
    <3>1. t.floor \in Nat
      BY CommitFacts DEF Task
    <3>2. i \in Edited(t, t.stations)
      BY <2>2, <3>1 DEF Edited
    <3> QED
      BY <1>2, <3>2
  <2> QED
    BY <2>1, <2>2, CommitFacts
<1> QED
  BY <1>1, <1>2, <1>3

\* Released changes no station of another map.
LEMMA ReleasedFacts ==
  ASSUME Inv, NEW s \in Requests, NEW t, t = task[s], t.place = "commit", RowsFound(t),
         NEW i \in DOMAIN Released(t)
  PROVE  /\ i \in DOMAIN stations /\ i \notin DOMAIN t.current \ DOMAIN t.stations
         /\ Released(t)[i] \in [map : made, robot : Robots \cup {NoRobot}, shape : Shape]
         /\ Released(t)[i].map = stations[i].map /\ Released(t)[i].shape = stations[i].shape
         /\ Released(t)[i].robot \in {stations[i].robot, NoRobot}
         /\ stations[i].map # t.map => Released(t)[i] = stations[i]
<1>1. i \in DOMAIN stations /\ i \notin DOMAIN t.current \ DOMAIN t.stations
  BY DEF Released
<1>2. stations[i] \in [map : made, robot : Robots \cup {NoRobot}, shape : Shape]
  BY <1>1 DEF Inv, TypeOK
<1>3. Released(t)[i] = IF i \in Changed(t) THEN [stations[i] EXCEPT !.robot = NoRobot] ELSE stations[i]
  BY DEF Released
<1>4. stations[i].map # t.map => i \notin Changed(t)
  BY WrittenIds DEF Changed, On
<1> QED
  BY <1>1, <1>2, <1>3, <1>4

\* A station after a save is one that it wrote, or one that was there before; it may
\* have lost its robot, if it is on the map of the save.
LEMMA SavedStations ==
  ASSUME Inv, NEW s \in Requests, NEW t, t = task[s], t.place = "commit", RowsFound(t),
         NEW match, stations' = StationsAfter(t, match)
  PROVE  /\ \A i \in DOMAIN stations' :
              \/ /\ i \in DOMAIN t.stations
                 /\ stations'[i] = [map |-> t.map, robot |-> t.stations[i].robot,
                                    shape |-> Snapped(t.stations[i].shape, match[i])]
              \/ /\ i \in DOMAIN stations
                 /\ stations'[i] \in [map : made, robot : Robots \cup {NoRobot}, shape : Shape]
                 /\ stations'[i].map = stations[i].map /\ stations'[i].shape = stations[i].shape
                 /\ stations'[i].robot \in {stations[i].robot, NoRobot}
                 /\ "stations" \in t.sections => i \notin DOMAIN t.current
         /\ "stations" \in t.sections => DOMAIN t.stations \subseteq On(stations, t.map)'
         /\ \A m \in Maps \ {t.map} : \A i \in On(stations, m)' :
              i \in On(stations, m) /\ stations'[i] = stations[i]
<1>1. CASE "stations" \notin t.sections
  BY <1>1 DEF StationsAfter, On, Inv, TypeOK
<1>2. CASE "stations" \in t.sections
  <2>1. DOMAIN t.stations \ (Edited(t, t.stations) \ DOMAIN stations) = DOMAIN t.stations
    BY WrittenIds DEF On
  <2>2. stations' = [i \in DOMAIN Released(t) \cup DOMAIN t.stations |->
          IF i \in DOMAIN t.stations
          THEN [map |-> t.map, robot |-> t.stations[i].robot,
                shape |-> Snapped(t.stations[i].shape, match[i])]
          ELSE Released(t)[i]]
    BY <1>2, <2>1 DEF StationsAfter
  <2>3. ASSUME NEW i \in DOMAIN t.stations
        PROVE  /\ i \in DOMAIN stations' /\ stations'[i].map = t.map
               /\ stations'[i] = [map |-> t.map, robot |-> t.stations[i].robot,
                                  shape |-> Snapped(t.stations[i].shape, match[i])]
    BY <2>2
  <2>4. \A i \in DOMAIN stations' : i \notin DOMAIN t.stations =>
          i \in DOMAIN Released(t) /\ stations'[i] = Released(t)[i]
    BY <2>2
  <2>5. ASSUME NEW i \in DOMAIN stations', i \notin DOMAIN t.stations
        PROVE  /\ i \in DOMAIN stations
               /\ stations'[i] \in [map : made, robot : Robots \cup {NoRobot}, shape : Shape]
               /\ stations'[i].map = stations[i].map /\ stations'[i].shape = stations[i].shape
               /\ stations'[i].robot \in {stations[i].robot, NoRobot}
               /\ i \notin DOMAIN t.current
               /\ stations[i].map # t.map => stations'[i] = stations[i]
    BY <2>4, <2>5, ReleasedFacts
  <2>6. DOMAIN t.stations \subseteq On(stations, t.map)'
    <3>1. \A i \in DOMAIN t.stations : i \in DOMAIN stations' /\ stations'[i].map = t.map
      BY <2>3
    <3> QED
      BY <3>1 DEF On
  <2>7. ASSUME NEW m \in Maps \ {t.map}, NEW i \in On(stations, m)'
        PROVE  i \in On(stations, m) /\ stations'[i] = stations[i]
    <3>1. i \in DOMAIN stations' /\ stations'[i].map = m
      BY DEF On
    <3>2. i \notin DOMAIN t.stations
      <4>1. m # t.map
        OBVIOUS
      <4> QED
        BY <2>3, <3>1, <4>1
    <3> QED
      BY <2>5, <3>1, <3>2 DEF On
  <2> QED
    BY <1>2, <2>3, <2>5, <2>6, <2>7
<1> QED
  BY <1>1, <1>2

\* A station that is placed is no more than 0.5 map units outside the boundary.
LEMMA PlacedFits ==
  ASSUME NEW x \in Shape, NEW b \in Boundaries \cup {NoBoundary}, NEW p \in Matches(x, b)
  PROVE  /\ Snapped(x, p) \in Shape
         /\ ProtrusionAllowed(Snapped(x, p), b, p[2]) =>
              b.lo - 1 <= Snapped(x, p).lo /\ Snapped(x, p).hi <= b.hi + 1
<1>1. x \in [lo : Int, hi : Int] /\ x.lo < x.hi
  BY DEF Shape
<1>2. b \in [lo : Int, hi : Int]
  BY DEF Shape, NoBoundary
<1>3. p \in Ends(x) \X Ends(b)
  BY DEF Matches
<1>4. PICK u \in Ends(x), v \in Ends(b) : p = <<u, v>>
  BY <1>3
<1>5. u \in Int /\ v \in Int /\ p[1] = u /\ p[2] = v
  BY <1>1, <1>2, <1>4 DEF Ends
<1>6. Snapped(x, p) = [lo |-> x.lo + v - u, hi |-> x.hi + v - u]
  BY <1>5 DEF Snapped
<1>7. PICK y : y = Snapped(x, p)
  OBVIOUS
<1>8. y \in [lo : Int, hi : Int] /\ y.lo < y.hi
  BY <1>1, <1>5, <1>6, <1>7
<1>9. y \in Shape
  BY <1>8 DEF Shape
<1>10. ProtrusionAllowed(y, b, v) => b.lo - 1 <= y.lo /\ y.hi <= b.hi + 1
  BY <1>2, <1>5, <1>8 DEF ProtrusionAllowed
<1> QED
  BY <1>5, <1>7, <1>9, <1>10

\* What a save commits.
Saved(t, match) ==
  /\ match \in Matchings(t) /\ Savable(t, match)
  /\ stations' = StationsAfter(t, match) /\ zones' = ZonesAfter(t)
  /\ boundary' = [boundary EXCEPT ![t.map] = Boundary(t)]
  /\ redrawn' = IF "boundary" \notin t.sections THEN redrawn
                ELSE IF t.checked THEN redrawn \ {t.map} ELSE redrawn \cup {t.map}

\* The boundary that a save sees is one.
LEMMA BoundaryFacts ==
  ASSUME Inv, NEW s \in Requests, NEW t, t = task[s], t.place = "commit"
  PROVE  Boundary(t) \in Boundaries \cup {NoBoundary}
BY CommitFacts DEF Boundary, SaveOK, Inv, TypeOK

\* The stations that a save writes are placed, and their robots stand on its map.
LEMMA WrittenStations ==
  ASSUME Inv, NEW s \in Requests, NEW t, t = task[s], t.place = "commit",
         NEW match, Savable(t, match), NEW i \in DOMAIN t.stations,
         NEW y, y = Snapped(t.stations[i].shape, match[i])
  PROVE  /\ y \in Shape /\ Boundary(t).lo - 1 <= y.lo /\ y.hi <= Boundary(t).hi + 1
         /\ t.stations[i].robot \in Robots \cup {NoRobot}
         /\ t.stations[i].robot # NoRobot => robots[t.stations[i].robot] = t.map
<1>1. t.stations[i] \in [robot : Robots \cup {NoRobot}, shape : StationShapes]
  BY WrittenIds DEF Savable
<1>2. /\ match[i] \in Matches(t.stations[i].shape, Boundary(t))
      /\ ProtrusionAllowed(y, Boundary(t), match[i][2])
  BY DEF Savable, Placed
<1>3. t.stations[i].shape \in Shape
  BY <1>1
<1>4. t.stations[i].robot # NoRobot => robots[t.stations[i].robot] = t.map
  BY DEF Savable, RobotsAccepted, RobotAccepted
<1> QED
  BY <1>1, <1>2, <1>3, <1>4, BoundaryFacts, PlacedFits

\* The layout of the map fits when a save has committed.
LEMMA SavedLayoutFits ==
  ASSUME Inv, NEW s \in Requests, NEW t, t = task[s], t.place = "commit",
         NEW match, Saved(t, match), made' = made
  PROVE  LayoutFits'
<1> USE DEF Saved
<1>0. RowsFound(t) /\ Savable(t, match)
  BY DEF Savable
<1>1. SUFFICES ASSUME NEW m \in made \ redrawn'
               PROVE  /\ \A i \in On(zones, m)' : Covers(boundary'[m], zones'[i].shape)
                      /\ \A i \in On(stations, m)' :
                           /\ boundary'[m].lo - 1 <= stations'[i].shape.lo
                           /\ stations'[i].shape.hi <= boundary'[m].hi + 1
  BY DEF LayoutFits, Covers
<1>2. m \in Maps /\ t.map \in Maps /\ boundary \in [Maps -> Boundaries \cup {NoBoundary}]
  BY CommitFacts DEF Inv, TypeOK
<1>3. m \in redrawn => m = t.map /\ "boundary" \in t.sections
  BY <1>1
<1>4. m \notin redrawn =>
        /\ \A i \in On(zones, m) : Covers(boundary[m], zones[i].shape)
        /\ \A i \in On(stations, m) :
             boundary[m].lo - 1 <= stations[i].shape.lo /\ stations[i].shape.hi <= boundary[m].hi + 1
  BY <1>1 DEF Inv, LayoutIsConsistent, LayoutFits
<1>5. CASE m # t.map
  <2>1. boundary'[m] = boundary[m]
    BY <1>2, <1>5
  <2>2. On(zones, m)' = On(zones, m) /\ \A i \in On(zones, m) : zones'[i] = zones[i]
    BY <1>2, <1>5, SavedZones
  <2>3. \A i \in On(stations, m)' : i \in On(stations, m) /\ stations'[i] = stations[i]
    BY <1>0, <1>2, <1>5, SavedStations
  <2> QED
    BY <1>3, <1>4, <1>5, <2>1, <2>2, <2>3
<1>6. CASE m = t.map
  <2>1. boundary'[m] = Boundary(t)
    BY <1>2, <1>6
  <2>2. CASE t.checked
    <3>1. /\ \A i \in On(zones', m) : Covers(Boundary(t), zones'[i].shape)
          /\ \A i \in On(stations', m) : Covers(Boundary(t), stations'[i].shape)
      BY <1>0, <1>6, <2>2 DEF Savable, AllInside
    <3>2. On(zones, m)' = On(zones', m) /\ On(stations, m)' = On(stations', m)
      BY DEF On
    <3>3. \A i \in On(stations', m) : stations'[i].shape \in Shape
      <4>1. ASSUME NEW i \in DOMAIN stations' PROVE stations'[i].shape \in Shape
        <5>1. CASE i \in DOMAIN stations /\ stations'[i] \in [map : made, robot : Robots \cup {NoRobot}, shape : Shape]
          BY <5>1
        <5>2. CASE i \in DOMAIN t.stations
                   /\ stations'[i] = [map |-> t.map, robot |-> t.stations[i].robot,
                                      shape |-> Snapped(t.stations[i].shape, match[i])]
          BY <1>0, <5>2, WrittenStations
        <5> QED
          BY <1>0, <5>1, <5>2, SavedStations
      <4> QED
        BY <4>1 DEF On
    <3>4. Boundary(t).lo \in Int /\ Boundary(t).hi \in Int
      BY BoundaryFacts DEF Shape, NoBoundary
    <3>5. \A x \in Shape : x.lo \in Int /\ x.hi \in Int
      BY DEF Shape
    <3> QED
      BY <2>1, <3>1, <3>2, <3>3, <3>4, <3>5 DEF Covers
  <2>3. CASE ~t.checked
    <3>1. "boundary" \notin t.sections /\ m \notin redrawn
      BY <1>1, <1>6, <2>3
    <3>2. Boundary(t) = boundary[m]
      BY <1>6, <3>1 DEF Boundary
    <3>3. ASSUME NEW i \in On(zones, m)' PROVE Covers(Boundary(t), zones'[i].shape)
      <4>1. i \in DOMAIN zones' /\ zones'[i].map = m
        BY DEF On
      <4>2. CASE "zones" \in t.sections /\ i \in Kept(t) /\ zones'[i] = [map |-> t.map, shape |-> t.zones[i]]
        BY <4>2, CommitFacts DEF ZonesAccepted
      <4>3. CASE i \in DOMAIN zones /\ zones'[i] = zones[i]
        BY <1>4, <3>1, <3>2, <4>1, <4>3 DEF On
      <4> QED
        BY <4>1, <4>2, <4>3, SavedZones
    <3>4. ASSUME NEW i \in On(stations, m)'
          PROVE  /\ Boundary(t).lo - 1 <= stations'[i].shape.lo
                 /\ stations'[i].shape.hi <= Boundary(t).hi + 1
      <4>1. i \in DOMAIN stations' /\ stations'[i].map = m
        BY DEF On
      <4>2. CASE i \in DOMAIN t.stations
                 /\ stations'[i] = [map |-> t.map, robot |-> t.stations[i].robot,
                                    shape |-> Snapped(t.stations[i].shape, match[i])]
        BY <1>0, <4>2, WrittenStations
      <4>3. CASE i \in DOMAIN stations /\ stations'[i].map = stations[i].map /\ stations'[i].shape = stations[i].shape
        BY <1>4, <3>1, <3>2, <4>1, <4>3 DEF On
      <4> QED
        BY <1>0, <4>1, <4>2, <4>3, SavedStations
    <3> QED
      BY <2>1, <3>3, <3>4
  <2> QED
    BY <2>2, <2>3
<1> QED
  BY <1>5, <1>6

\* No zones of a map overlap when a save has committed.
LEMMA SavedZonesDisjoint ==
  ASSUME Inv, NEW s \in Requests, NEW t, t = task[s], t.place = "commit",
         zones' = ZonesAfter(t)
  PROVE  ZonesAreDisjoint'
<1>1. SUFFICES ASSUME NEW i \in DOMAIN zones', NEW j \in DOMAIN zones', i # j,
                      zones'[i].map = zones'[j].map
               PROVE  ~Overlap(zones'[i].shape, zones'[j].shape)
  BY DEF ZonesAreDisjoint, Overlap
<1> DEFINE New(k) == "zones" \in t.sections /\ k \in Kept(t) /\ zones'[k] = [map |-> t.map, shape |-> t.zones[k]]
           Old(k) == /\ k \in DOMAIN zones /\ zones'[k] = zones[k]
                     /\ "zones" \in t.sections /\ zones[k].map = t.map /\ Kept(t) # {} => k \notin DOMAIN t.zones
<1>2. \A k \in DOMAIN zones' : New(k) \/ Old(k)
  BY SavedZones
<1>8. "zones" \in t.sections =>
        /\ \A a, b \in Kept(t) : a # b => ~Overlap(t.zones[a], t.zones[b])
        /\ \A a \in Kept(t), b \in On(zones, t.map) \ DOMAIN t.zones : ~Overlap(t.zones[a], zones[b].shape)
  BY CommitFacts DEF ZonesAccepted
<1>3. CASE New(i) /\ New(j)
  <2>1. zones'[i].shape = t.zones[i] /\ zones'[j].shape = t.zones[j]
    BY <1>3
  <2> QED
    BY <1>1, <1>3, <1>8, <2>1
<1>4. ASSUME NEW a \in DOMAIN zones', NEW b \in DOMAIN zones', New(a), Old(b),
             zones'[a].map = zones'[b].map
      PROVE  ~Overlap(zones'[a].shape, zones'[b].shape)
  <2>1. zones'[a].map = t.map /\ zones'[a].shape = t.zones[a]
    BY <1>4
  <2>2. b \in On(zones, t.map) \ DOMAIN t.zones /\ zones'[b].shape = zones[b].shape
    BY <1>4, <2>1 DEF On
  <2> QED
    BY <1>4, <1>8, <2>1, <2>2
<1>5. CASE New(i) /\ Old(j)
  BY <1>1, <1>4, <1>5
<1>6. CASE Old(i) /\ New(j)
  BY <1>1, <1>4, <1>6 DEF Overlap
<1>7. CASE Old(i) /\ Old(j)
  BY <1>1, <1>7 DEF Inv, LayoutIsConsistent, ZonesAreDisjoint
<1> QED
  BY <1>2, <1>3, <1>5, <1>6, <1>7

\* A save commits.
LEMMA CommitSaveStep ==
  ASSUME Inv, NEW s \in Requests, CommitSave(s)
  PROVE  Inv'
<1>1. PICK t \in Task : t = task[s] /\ t.place = "commit"
  BY RequestFacts DEF CommitSave
<1>2. PICK match : Saved(t, match)
  BY <1>1 DEF CommitSave, Saved
<1>3. Finish(s) /\ UNCHANGED <<made, robots, lastRow, started>>
  BY DEF CommitSave
<1>4. RowsFound(t) /\ Savable(t, match)
  BY <1>2 DEF Saved, Savable
<1>5. LayoutIsConsistent'
  BY <1>1, <1>2, <1>3, SavedLayoutFits, SavedZonesDisjoint DEF LayoutIsConsistent, Saved
<1>6. ASSUME NEW i \in DOMAIN stations'
      PROVE  /\ stations'[i] \in [map : made, robot : Robots \cup {NoRobot}, shape : Shape]
             /\ i \in NewIds(t) \/ (i \in DOMAIN stations /\ stations'[i].map = stations[i].map)
             /\ stations'[i].robot # NoRobot => robots[stations'[i].robot] = stations'[i].map
  <2>1. CASE i \in DOMAIN t.stations
             /\ stations'[i] = [map |-> t.map, robot |-> t.stations[i].robot,
                                shape |-> Snapped(t.stations[i].shape, match[i])]
    <3>1. t.map \in made
      BY <1>1, CommitFacts
    <3>2. i \in On(stations, t.map) \/ i \in NewIds(t)
      BY <1>1, <1>4, <2>1, WrittenIds
    <3> QED
      BY <1>1, <1>4, <2>1, <3>1, <3>2, WrittenStations DEF On
  <2>2. CASE /\ i \in DOMAIN stations
             /\ stations'[i] \in [map : made, robot : Robots \cup {NoRobot}, shape : Shape]
             /\ stations'[i].map = stations[i].map
             /\ stations'[i].robot \in {stations[i].robot, NoRobot}
    BY <2>2 DEF Inv, StationedOnItsMap
  <2> QED
    BY <1>1, <1>2, <1>4, <2>1, <2>2, SavedStations DEF Saved
<1>7. StationedOnItsMap'
  BY <1>3, <1>6 DEF StationedOnItsMap
<1>8. ASSUME NEW i \in DOMAIN zones'
      PROVE  zones'[i] \in [map : made, shape : ZoneShapes] /\ i \in DOMAIN zones \cup NewIds(t)
  <2>1. CASE "zones" \in t.sections /\ i \in Kept(t) /\ zones'[i] = [map |-> t.map, shape |-> t.zones[i]]
    BY <1>1, <2>1, CommitFacts, KeptIds DEF On
  <2>2. CASE i \in DOMAIN zones /\ zones'[i] = zones[i]
    BY <2>2 DEF Inv, TypeOK
  <2> QED
    BY <1>1, <1>2, <2>1, <2>2, SavedZones DEF Saved
<1>9. boundary' \in [Maps -> Boundaries \cup {NoBoundary}] /\ redrawn' \subseteq Maps
  BY <1>1, <1>2, CommitFacts, BoundaryFacts DEF Saved, Inv, TypeOK
<1>10. RowsOK(s)
  BY <1>1, <1>3, <1>6, <1>8, <1>9 DEF RowsOK, Inv, TypeOK
<1>11. ASSUME NEW m \in SavedByOthers(s) PROVE MapKept(m)
  <2>1. PICK q \in Requests \ {s} : Saving(task[q]) /\ m = task[q].map
    BY <1>11 DEF SavedByOthers
  <2>2. m # t.map /\ m \in Maps
    BY <1>1, <2>1, CommitFacts, OneSavePerMap, RequestFacts DEF Shaped, Saving
  <2>3. boundary'[m] = boundary[m]
    BY <1>2, <2>2 DEF Saved, Inv, TypeOK
  <2>4. On(zones, m)' = On(zones, m) /\ \A i \in On(zones, m) : zones'[i] = zones[i]
    BY <1>1, <1>2, <2>2, SavedZones DEF Saved
  <2>5. \A i \in On(stations, m)' : i \in On(stations, m) /\ stations'[i] = stations[i]
    BY <1>1, <1>2, <1>4, <2>2, SavedStations DEF Saved
  <2> QED
    BY <2>3, <2>4, <2>5 DEF MapKept
<1> QED
  BY <1>3, <1>5, <1>7, <1>10, <1>11, EndStep

-----------------------------------------------------------------------------
(* The invariant holds, and what follows from it *)

\* The invariant holds at the start.
LEMMA InitInv == Init => Inv
<1> SUFFICES ASSUME Init PROVE Inv
  OBVIOUS
<1> USE DEF Init
<1>1. Docked \subseteq Shape
  <2>1. ASSUME NEW y \in Docked PROVE y \in Shape
    <3>1. PICK x \in StationShapes, b \in Boundaries :
            \E p \in Matches(x, b) : y = Snapped(x, p)
      BY DEF Docked
    <3>2. x \in Shape /\ b \in Boundaries \cup {NoBoundary}
      OBVIOUS
    <3> QED
      BY <3>1, <3>2, PlacedFits
  <2> QED
    BY <2>1
<1>2. PICK n \in 0..lastRow :
        /\ zones \in [1..n -> [map : Built, shape : ZoneShapes]]
        /\ stations \in [n + 1 .. lastRow -> [map : Built, robot : Stationed \cup {NoRobot}, shape : Docked]]
  OBVIOUS
<1>3. \A s \in Requests : task[s] = Idle /\ holds[s] = {}
  OBVIOUS
<1>4. TypeOK
  <2>1. DOMAIN zones \cup DOMAIN stations \subseteq 1..lastRow
    BY <1>2
  <2>2. \A i \in DOMAIN zones : zones[i] \in [map : made, shape : ZoneShapes]
    BY <1>2
  <2>3. \A i \in DOMAIN stations : stations[i] \in [map : made, robot : Robots \cup {NoRobot}, shape : Shape]
    BY <1>1, <1>2
  <2>4. robots \in [Robots -> made \cup {Nowhere, Gone}]
    OBVIOUS
  <2> QED
    BY <1>3, <2>1, <2>2, <2>3, <2>4 DEF TypeOK
<1>5. RequestsOK
  <2>1. ASSUME NEW s \in Requests PROVE Shaped(task[s]) /\ SaveOK(s, task[s]) /\ TargetOK(task[s])
    BY <1>3, IdleShape DEF SaveOK, Saving, TargetOK
  <2> QED
    BY <2>1, IdleShape DEF RequestsOK
<1>6. IdsOK
  BY <1>3, IdleShape DEF IdsOK
<1>7. LocksOK
  BY <1>3, IdleShape DEF LocksOK, Assigning
<1> QED
  BY <1>4, <1>5, <1>6, <1>7 DEF Inv

\* Every step keeps the invariant.
LEMMA StepInv == Inv /\ [Next]_vars => Inv'
<1> SUFFICES ASSUME Inv, [Next]_vars PROVE Inv'
  OBVIOUS
<1>1. CASE Next
  <2>1. PICK s \in Requests :
    \/ \E m \in Maps : BeginSave(s, m)
    \/ \E i \in Ids, r \in Robots : BeginAssign(s, i, r)
    \/ \E m \in Maps, R \in SUBSET Robots : BeginCreate(s, m, R)
    \/ \E r \in Robots : BeginDelete(s, r)
    \/ LockMap(s)
    \/ SaveZones(s)
    \/ ReadStations(s)
    \/ LockRobot(s)
    \/ CommitSave(s)
    \/ LockStation(s)
    \/ AssignRobot(s)
    \/ CreateMap(s)
    \/ DeleteBot(s)
    \/ Refuse(s)
    BY <1>1, Zenon DEF Next
  <2> QED
    BY <2>1, BeginFacts, BeginStep, LockMapStep, SaveZonesStep, ReadStationsStep, LockRobotStep, CommitSaveStep,
       LockStationStep, AssignRobotStep, CreateMapStep, DeleteBotStep, RefuseStep
<1>2. CASE UNCHANGED vars
  <2>1. UNCHANGED <<made, boundary, zones, stations, robots, lastRow, redrawn, task, holds, started>>
    BY <1>2 DEF vars, rows
  <2>2. TypeOK'
    BY <2>1 DEF Inv, TypeOK
  <2>3. RequestsOK'
    <3>1. ASSUME NEW s \in Requests PROVE (Shaped(task[s]) /\ SaveOK(s, task[s]) /\ TargetOK(task[s]))'
      <4>1. PICK x \in Task : x = task[s] /\ x = task'[s]
        BY <2>1, RequestFacts
      <4>2. Shaped(x) /\ SaveOK(s, x) /\ TargetOK(x)
        BY <4>1, RequestFacts
      <4>3. ZonesAccepted(x) => ZonesAccepted(x)'
        BY <2>1, ZonesStillAccepted DEF On
      <4>4. Shaped(x)' /\ SaveOK(s, x)' /\ TargetOK(x)'
        BY <2>1, <4>2, <4>3 DEF Shaped, Saving, SaveOK, TargetOK, NewIds, On
      <4> QED
        BY <4>1, <4>4
    <3> QED
      BY <2>1, <3>1 DEF Inv, RequestsOK
  <2>4. IdsOK' /\ LocksOK'
    BY <2>1 DEF Inv, IdsOK, LocksOK, NewIds, Rows, Assigning
  <2>5. LayoutIsConsistent' /\ StationedOnItsMap'
    BY <2>1 DEF Inv, LayoutIsConsistent, ZonesAreDisjoint, LayoutFits, StationedOnItsMap, On
  <2> QED
    BY <2>2, <2>3, <2>4, <2>5 DEF Inv
<1> QED
  BY <1>1, <1>2

\* The inductive invariant.
THEOREM InvHolds == Spec => []Inv
BY InitInv, StepInv, PTL DEF Spec

\* Every table keeps its types, for any maps, robots, shapes and requests.
THEOREM TypeCorrect == Spec => []TypeOK
<1>1. Inv => TypeOK
  BY DEF Inv
<1> QED
  BY <1>1, InvHolds, PTL

\* However saves, assignments, new maps and deletions interleave, zones of a map never
\* overlap, and layouts stay inside their boundaries.
THEOREM LayoutStaysConsistent == Spec => []LayoutIsConsistent
<1>1. Inv => LayoutIsConsistent
  BY DEF Inv
<1> QED
  BY <1>1, InvHolds, PTL

\* A robot that has a station exists and stands on the map of the station.
THEOREM StationsFollowRobots == Spec => []StationedOnItsMap
<1>1. Inv => StationedOnItsMap
  BY DEF Inv
<1> QED
  BY <1>1, InvHolds, PTL

\* Once the robots of a save are accepted, releasing the stations that change is enough
\* for the unique constraint.
LEMMA NoConflict ==
  ASSUME Inv, NEW s \in Requests, task[s].place = "commit", RobotsAccepted(task[s])
  PROVE  ~Conflict(task[s])
<1>1. PICK t \in Task : t = task[s] /\ t.place = "commit" /\ RobotsAccepted(t)
  BY RequestFacts
<1>2. SUFFICES ASSUME Conflict(t) PROVE FALSE
  BY <1>1
<1>3. PICK i \in DOMAIN t.stations, j \in DOMAIN Released(t) :
        /\ i # j /\ t.stations[i].robot # NoRobot
        /\ t.stations[i].robot = Released(t)[j].robot
        /\ i \in Edited(t, t.stations) \/ j \notin DOMAIN t.stations
  BY <1>2 DEF Conflict
<1>4. /\ j \in DOMAIN stations /\ j \notin DOMAIN t.current \ DOMAIN t.stations
      /\ Released(t)[j] = IF j \in Changed(t) THEN [stations[j] EXCEPT !.robot = NoRobot] ELSE stations[j]
  BY DEF Released
<1>5. stations[j] \in [map : made, robot : Robots \cup {NoRobot}, shape : Shape]
  BY <1>4 DEF Inv, TypeOK
<1>6. j \notin Changed(t) /\ stations[j].robot = t.stations[i].robot
  BY <1>3, <1>4, <1>5
<1>7. t.stations \in StationRequests
  <2>1. DOMAIN <<>> = {}
    OBVIOUS
  <2> QED
    BY <1>3, <2>1 DEF Task
<1>8. t.stations[i].robot \in Robots
  BY <1>3, <1>7 DEF StationRequests, Requested
<1>9. stations[j].map = t.map
  BY <1>1, <1>3, <1>4, <1>6, <1>8 DEF RobotsAccepted, RobotAccepted, Taken
<1>10. "stations" \in t.sections
  <2>1. DOMAIN <<>> = {}
    OBVIOUS
  <2> QED
    BY <1>1, <1>3, <2>1, CommitFacts
<1>11. j \in DOMAIN t.current /\ t.current[j] = stations[j].robot
  BY <1>1, <1>4, <1>9, <1>10, CommitFacts DEF SaveOK, On
<1>12. j \in DOMAIN t.stations
  BY <1>4, <1>11
<1>13. j \in Edited(t, t.stations)
  <2>1. j \in 1..t.floor /\ t.floor \in Nat
    BY <1>1, <1>4, <1>12, CommitFacts DEF Rows, Task
  <2> QED
    BY <1>12, <2>1 DEF Edited
<1>14. t.stations[j].robot = t.stations[i].robot
  BY <1>6, <1>11, <1>13 DEF Changed
<1> QED
  BY <1>3, <1>7, <1>12, <1>14 DEF StationRequests

\* What save_docking_stations has validated never meets the unique constraint.
THEOREM ValidatedSavesSucceed == Spec => []ValidatedSavesAreWritable
<1>1. Inv => ValidatedSavesAreWritable
  BY NoConflict DEF ValidatedSavesAreWritable
<1> QED
  BY <1>1, InvHolds, PTL

\* A save of stations leaves its map with the stations that it was given.
LEMMA CommitKeepsSubmission ==
  ASSUME Inv, NEW s \in Requests, CommitSave(s), "stations" \in task[s].sections,
         NEW t, t = task[s]
  PROVE  On(stations', t.map) = DOMAIN t.stations
<1>1. t.place = "commit"
  BY DEF CommitSave
<1>2. PICK match : Saved(t, match)
  BY DEF CommitSave, Saved
<1>3. RowsFound(t) /\ stations' = StationsAfter(t, match)
  BY <1>2 DEF Saved, Savable
<1>4. DOMAIN t.stations \subseteq On(stations, t.map)'
  BY <1>1, <1>3, SavedStations
<1>5. On(stations, t.map)' = On(stations', t.map)
  BY DEF On
<1>6. ASSUME NEW i \in DOMAIN stations', stations'[i].map = t.map PROVE i \in DOMAIN t.stations
  <2>1. CASE i \in DOMAIN stations /\ stations'[i].map = stations[i].map
             /\ ("stations" \in t.sections => i \notin DOMAIN t.current)
    <3>1. \A k \in On(stations, t.map) : k \in DOMAIN t.current
      BY <1>1, CommitFacts DEF SaveOK
    <3> QED
      BY <1>6, <2>1, <3>1 DEF On
  <2>2. CASE i \in DOMAIN t.stations
             /\ stations'[i] = [map |-> t.map, robot |-> t.stations[i].robot,
                                shape |-> Snapped(t.stations[i].shape, match[i])]
    BY <2>2
  <2> QED
    BY <1>1, <1>3, <2>1, <2>2, SavedStations
<1> QED
  BY <1>4, <1>5, <1>6 DEF On

\* Only the save itself ends a save.
LEMMA EndsItself ==
  ASSUME Inv, [Next]_vars, NEW s \in Requests, task[s].place = "commit", task'[s] = Idle
  PROVE  CommitSave(s) \/ Refuse(s)
<1>1. task[s] # Idle
  BY IdleShape
<1>2. CASE UNCHANGED vars
  BY <1>1, <1>2 DEF vars
<1>3. CASE Next
  <2>1. PICK q \in Requests :
    \/ \E m \in Maps : BeginSave(q, m)
    \/ \E i \in Ids, r \in Robots : BeginAssign(q, i, r)
    \/ \E m \in Maps, R \in SUBSET Robots : BeginCreate(q, m, R)
    \/ \E r \in Robots : BeginDelete(q, r)
    \/ LockMap(q)
    \/ SaveZones(q)
    \/ ReadStations(q)
    \/ LockRobot(q)
    \/ CommitSave(q)
    \/ LockStation(q)
    \/ AssignRobot(q)
    \/ CreateMap(q)
    \/ DeleteBot(q)
    \/ Refuse(q)
    BY <1>3, Zenon DEF Next
  <2>2. \E t : Goto(q, t)
    <3>1. CASE LockMap(q)
      BY <3>1 DEF LockMap
    <3> QED
      BY <2>1, <3>1 DEF BeginSave, BeginAssign, BeginCreate, BeginDelete, Begin, SaveZones, ReadStations,
         LockRobot, CommitSave, LockStation, AssignRobot, CreateMap, DeleteBot, Refuse, Finish
  <2>3. q = s
    BY <1>1, <2>2 DEF Goto, Inv, RequestsOK
  <2> QED
    BY <1>1, <2>1, <2>3 DEF BeginSave, BeginAssign, BeginCreate, BeginDelete, Begin, LockMap, SaveZones,
       ReadStations, LockRobot, LockStation, AssignRobot, CreateMap, DeleteBot
<1> QED
  BY <1>2, <1>3

\* A save of stations leaves the map with the stations it was given, and no other,
\* though a deleted robot may take one of them along meanwhile.
THEOREM SubmittedIsSaved == Spec => SavedAsSubmitted
<1> DEFINE A == \A s \in Requests :
       "stations" \in task[s].sections /\ task[s].place = "commit" /\ stations' # stations /\ task'[s] = Idle
         => On(stations', task[s].map) = DOMAIN task[s].stations
<1>1. Inv /\ [Next]_vars => A
  <2> SUFFICES ASSUME Inv, [Next]_vars, NEW s \in Requests, "stations" \in task[s].sections,
                      task[s].place = "commit", stations' # stations, task'[s] = Idle
               PROVE  On(stations', task[s].map) = DOMAIN task[s].stations
    OBVIOUS
  <2>1. ~Refuse(s)
    BY DEF Refuse, rows
  <2> QED
    BY <2>1, EndsItself, CommitKeepsSubmission
<1>2. Inv /\ [Next]_vars => [A]_vars
  BY <1>1
<1> QED
  BY <1>2, InvHolds, PTL DEF Spec, SavedAsSubmitted

=============================================================================
