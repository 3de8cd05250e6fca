------------------------------ MODULE MapLayout ------------------------------
(***************************************************************************)
(* The layout of maps: boundaries, environment zones and docking stations  *)
(* (app/services/map.py, environment_zones.py, docking_station.py), and    *)
(* the robots that stand on the maps (create_map, delete_bot).             *)
(*                                                                         *)
(* Each request is one transaction.  It locks the row of its map, then     *)
(* whatever else it locks, and reads what others have committed; its own   *)
(* writes show when it commits.  delete_bot alone changes stations without *)
(* the lock of their map: the foreign key deletes the robot's station.     *)
(*                                                                         *)
(* Geometry is seen along one axis: a polygon is an interval, an edge of   *)
(* the workspace one of its ends, and the unit is 0.5 map units, which is  *)
(* EDGE_ALIGNMENT_TOLERANCE.                                               *)
(***************************************************************************)
EXTENDS Integers, FiniteSets

CONSTANTS
  Maps,
  Built,          \* the maps that exist at the start
  Robots,         \* robots; their numbers are the order of their identifiers
  Stationed,      \* those that may have a station at the start
  Nowhere,        \* stands for the map of a robot that has none
  Gone,           \* stands for the map of a robot that was deleted
  Requests,       \* requests that can be in progress at once
  Boundaries,     \* the boundaries that requests ask for in this instance
  ZoneShapes,     \* the zones they ask for
  StationShapes,  \* the stations they ask for
  MaxItems,       \* bound: the zones and stations of one request, and its boundary
  MaxRows,        \* bound: the zones and stations ever created
  MaxRequests     \* bound: the requests

Shape == {x \in [lo : Int, hi : Int] : x.lo < x.hi}

ASSUME LayoutAssumption ==
  /\ Built \subseteq Maps
  /\ Robots \subseteq Nat \ {0} /\ IsFiniteSet(Robots) /\ Stationed \subseteq Robots
  /\ Nowhere \notin Maps /\ Gone \notin Maps /\ Nowhere # Gone
  /\ Boundaries \cup ZoneShapes \cup StationShapes \subseteq Shape
  /\ {MaxItems, MaxRows, MaxRequests} \subseteq Nat

\* A map without a boundary covers nothing.
NoBoundary == [lo |-> 0, hi |-> 0]

\* A station that no robot is assigned to.
NoRobot == 0

\* What a request asks of a zone it wants deleted.
ToDelete == [lo |-> 0, hi |-> 0]

VARIABLES
  made,      \* the maps that exist
  boundary,  \* the boundary of each map
  zones,     \* environment_zones: the map and the shape of each identifier
  stations,  \* docking_station: the map, the robot and the shape of each identifier
  robots,    \* the map of each robot
  lastRow,   \* the last identifier given to a zone or a station
  redrawn,   \* the maps whose boundary was last saved on its own
  task,      \* the transaction of each request
  holds,     \* the row locks each of them has
  started    \* how many requests have been made

rows == <<made, boundary, zones, stations, robots, lastRow, redrawn>>
vars == <<rows, task, holds, started>>

Ids == 1..MaxRows

Sections == {"boundary", "zones", "stations"}

\* What a save asks of each identifier; the ones above `floor` are new.
Idle ==
  [op |-> "none", place |-> "idle", map |-> CHOOSE m \in Maps : TRUE,
   sections |-> {}, checked |-> FALSE, boundary |-> NoBoundary, zones |-> <<>>, stations |-> <<>>,
   floor |-> 0, current |-> <<>>, station |-> 0, asked |-> {}, todo |-> {}]

-----------------------------------------------------------------------------
(* Geometry *)

Covers(b, x) == b.lo <= x.lo /\ x.hi <= b.hi

\* The interiors intersect; polygons that touch do not overlap.
Overlap(x, y) == x.lo < y.hi /\ y.lo < x.hi

Ends(x) == {x.lo, x.hi}

Distance(i, j) == IF i < j THEN j - i ELSE i - j

\* The closest of the pairs of an edge of the station and an edge of the workspace
\* that are at most 0.5 map units apart.  Which of several is taken depends on
\* where the rings of the polygons start.
Matches(x, b) ==
  LET near == {p \in Ends(x) \X Ends(b) : b # NoBoundary /\ Distance(p[1], p[2]) <= 1}
  IN  {p \in near : \A q \in near : Distance(p[1], p[2]) <= Distance(q[1], q[2])}

\* The station is translated until the matched edges touch.
Snapped(x, p) == [lo |-> x.lo + p[2] - p[1], hi |-> x.hi + p[2] - p[1]]

\* All of x that is outside b lies within 0.5 map units of one edge of b.
ProtrusionAllowed(x, b, edge) ==
  /\ x.lo < b.lo => edge = b.lo /\ edge - 1 <= x.lo
  /\ x.hi > b.hi => edge = b.hi /\ x.hi <= edge + 1

\* Where the stations that requests ask for come to stand.
Docked ==
  UNION {{Snapped(x, p) : p \in {p \in Matches(x, b) : ProtrusionAllowed(Snapped(x, p), b, p[2])}} :
           x \in StationShapes, b \in Boundaries}

-----------------------------------------------------------------------------
(* Transactions and row locks *)

Free(s, resource) == \A other \in Requests \ {s} : resource \notin holds[other]

\* Variant: a new map locks its robots in the order in which the request lists them.
NextRobotAsListed(t) ==
  CHOOSE r \in t.todo : \A q \in t.todo : IF t.op = "create" THEN r >= q ELSE r <= q

\* SELECT ... ORDER BY id FOR UPDATE locks one row after another.
NextRobot(t) == CHOOSE r \in t.todo : \A q \in t.todo : r <= q

Taken(r) == {i \in DOMAIN stations : stations[i].robot = r}

\* The rows the next statement of t has to lock.  (Saving stations also locks the
\* ones it writes; other transactions lock those only while they hold the map.)
Wants(t) ==
  CASE t.place = "map" -> {<<"map", t.map>>}
    [] t.place = "station" -> {<<"station", t.station>>}
    [] t.place = "robots" -> {<<"robot", NextRobot(t)>>}
    [] t.place = "remove" -> {<<"station", i>> : i \in UNION {Taken(r) : r \in t.asked}}
    [] OTHER -> {}

Granted(s) == \A resource \in Wants(task[s]) : Free(s, resource)

Goto(s, t) == task' = [task EXCEPT ![s] = t]

\* Variant: the locks stay with the session that goes back to the pool.
FinishHolding(s) ==
  /\ Goto(s, Idle)
  /\ UNCHANGED holds

\* The transaction commits or rolls back, and its locks are released.
Finish(s) ==
  /\ Goto(s, Idle)
  /\ holds' = [holds EXCEPT ![s] = {}]

Begin(s, t) ==
  /\ task[s] = Idle
  /\ started < MaxRequests
  /\ started' = started + 1
  /\ Goto(s, t)
  /\ UNCHANGED <<rows, holds>>

\* save_boundary, save_environment_zones, save_docking_stations or save_layout
BeginSave(s, m) ==
  /\ m \in made
  /\ Begin(s, [Idle EXCEPT !.op = "save", !.place = "map", !.map = m])

\* assign_robot_to_station
BeginAssign(s, i, r) ==
  /\ i \in DOMAIN stations
  /\ Begin(s, [Idle EXCEPT !.op = "assign", !.place = "map", !.map = stations[i].map,
                           !.station = i, !.asked = {r}, !.todo = {r}])

\* create_map; its identifier is new.
BeginCreate(s, m, R) ==
  /\ m \notin made /\ R # {}
  /\ \A x \in Requests : task[x].op = "create" => task[x].map # m
  /\ Begin(s, [Idle EXCEPT !.op = "create", !.place = "robots", !.map = m, !.asked = R, !.todo = R])

\* delete_bot
BeginDelete(s, r) ==
  /\ robots[r] # Gone
  /\ Begin(s, [Idle EXCEPT !.op = "delete", !.place = "robots", !.asked = {r}, !.todo = {r}])

-----------------------------------------------------------------------------
(* Saving sections of a layout *)

\* The first of some sections that reads anything.
First(sections) ==
  IF "zones" \in sections THEN "zones"
  ELSE IF "stations" \in sections THEN "read"
  ELSE "commit"

\* Values for some of the identifiers.
Requested(values) ==
  UNION {[I -> values] : I \in {I \in SUBSET Ids : Cardinality(I) <= MaxItems}}

ZoneRequests == Requested(ZoneShapes \cup {ToDelete})

\* The schemas refuse a request that names a robot twice.
StationRequests ==
  {items \in Requested([robot : Robots \cup {NoRobot}, shape : StationShapes]) :
     \A i, j \in DOMAIN items : items[i].robot = items[j].robot => i = j \/ items[i].robot = NoRobot}

\* The identifiers that zs and ds create come after those in use.
Fresh(zs, ds) ==
  LET Z == DOMAIN zs \ 1..lastRow  D == DOMAIN ds \ 1..lastRow IN
  /\ Z = lastRow + 1 .. lastRow + Cardinality(Z)
  /\ D = lastRow + Cardinality(Z) + 1 .. lastRow + Cardinality(Z) + Cardinality(D)
  /\ \A i \in Z : zs[i] # ToDelete

\* get_by_id_and_group_for_update.  What the request asks for is chosen here, where it
\* begins to matter.  The other saves are cases of save_layout, but for save_boundary:
\* it does not check the rest of the layout against its boundary.
LockMap(s) ==
  LET t == task[s] IN
  /\ t.place = "map"
  /\ Granted(s)
  /\ holds' = [holds EXCEPT ![s] = @ \cup Wants(t)]
  /\ UNCHANGED <<made, boundary, zones, stations, robots, redrawn, started>>
  /\ \/ /\ t.op = "assign"
        /\ Goto(s, [t EXCEPT !.place = "station"])
        /\ UNCHANGED lastRow
     \/ /\ t.op = "save"
        /\ \E sections \in (SUBSET Sections) \ {{}}, checked \in BOOLEAN :
             /\ IF checked THEN "boundary" \in sections
                ELSE "boundary" \in sections => sections = {"boundary"}
             /\ \E b \in IF "boundary" \in sections THEN Boundaries ELSE {NoBoundary},
                   zs \in IF "zones" \in sections THEN ZoneRequests ELSE {<<>>},
                   ds \in IF "stations" \in sections THEN StationRequests ELSE {<<>>} :
                  /\ Fresh(zs, ds)
                  /\ Cardinality(DOMAIN zs) + Cardinality(DOMAIN ds) + Cardinality({b} \cap Boundaries) <= MaxItems
                  /\ lastRow' = lastRow + Cardinality((DOMAIN zs \cup DOMAIN ds) \ 1..lastRow)
                  /\ Goto(s, [t EXCEPT !.place = First(sections), !.sections = sections,
                                       !.checked = checked, !.boundary = b, !.zones = zs,
                                       !.stations = ds, !.floor = lastRow])

\* The boundary that this transaction sees.
Boundary(t) == IF "boundary" \in t.sections THEN t.boundary ELSE boundary[t.map]

On(table, m) == {i \in DOMAIN table : table[i].map = m}

Edited(t, items) == {i \in DOMAIN items : i <= t.floor}

\* The zones that t writes.
Kept(t) == {i \in DOMAIN t.zones : t.zones[i] # ToDelete}

\* Variant: only the zones of the request are compared with each other.
ZonesAcceptedInBatch(t) ==
  /\ Kept(t) \cap Edited(t, t.zones) \subseteq On(zones, t.map)
  /\ \A i \in Kept(t) : Covers(Boundary(t), t.zones[i])
  /\ \A i, j \in Kept(t) : i # j => ~Overlap(t.zones[i], t.zones[j])

\* The edits exist, the boundary covers what is written, and nothing overlaps it
\* but zones that the request writes or deletes as well.
ZonesAccepted(t) ==
  /\ Kept(t) \cap Edited(t, t.zones) \subseteq On(zones, t.map)
  /\ \A i \in Kept(t) : Covers(Boundary(t), t.zones[i])
  /\ \A i, j \in Kept(t) : i # j => ~Overlap(t.zones[i], t.zones[j])
  /\ \A i \in Kept(t), j \in On(zones, t.map) \ DOMAIN t.zones :
       ~Overlap(t.zones[i], zones[j].shape)

SaveZones(s) ==
  /\ task[s].place = "zones"
  /\ ZonesAccepted(task[s])
  /\ Goto(s, [task[s] EXCEPT !.place = First(task[s].sections \ {"zones"})])
  /\ UNCHANGED <<rows, holds, started>>

\* list_for_map, _partition_actions and _validate_edit_ids.
EditsExist(t) == Edited(t, t.stations) \subseteq On(stations, t.map)

ReadStations(s) ==
  LET t == task[s]
      asked == {t.stations[i].robot : i \in DOMAIN t.stations} \ {NoRobot} IN
  /\ t.place = "read"
  /\ EditsExist(t)
  /\ Goto(s, [t EXCEPT !.place = IF asked = {} THEN "commit" ELSE "robots",
                       !.current = [i \in On(stations, t.map) |-> stations[i].robot],
                       !.asked = asked, !.todo = asked])
  /\ UNCHANGED <<rows, holds, started>>

\* Where a request goes on when it has locked its robots.
Locked(t) ==
  CASE t.op = "save" -> "commit" [] t.op = "assign" -> "assign"
    [] t.op = "create" -> "claim" [] t.op = "delete" -> "remove"

\* The next of the robots; one that is gone has no row to lock.
LockRobot(s) ==
  LET t == task[s]  r == NextRobot(t) IN
  /\ t.place = "robots"
  /\ Granted(s)
  /\ holds' = [holds EXCEPT ![s] = IF robots[r] = Gone THEN @ ELSE @ \cup Wants(t)]
  /\ Goto(s, [t EXCEPT !.todo = @ \ {r}, !.place = IF t.todo = {r} THEN Locked(t) ELSE "robots"])
  /\ UNCHANGED <<rows, started>>

ZonesAfter(t) ==
  LET removed == IF t.zones = <<>> THEN On(zones, t.map) ELSE On(zones, t.map) \cap (DOMAIN t.zones \ Kept(t)) IN
  IF "zones" \notin t.sections THEN zones
  ELSE [i \in (DOMAIN zones \ removed) \cup Kept(t) |->
          IF i \in Kept(t) THEN [map |-> t.map, shape |-> t.zones[i]] ELSE zones[i]]

\* A robot of this map that has no station on another one.
RobotAccepted(t, r) ==
  r # NoRobot => robots[r] = t.map /\ \A i \in Taken(r) : stations[i].map = t.map

\* The stations whose robot the request changes, as it read them.
Changed(t) == {i \in Edited(t, t.stations) : t.current[i] # t.stations[i].robot}

\* Variant: no assignment is released before new ones are written.
ReleasedNothing(t) ==
  [i \in DOMAIN stations \ (DOMAIN t.current \ DOMAIN t.stations) |-> stations[i]]

\* delete_many and clear_assignments.
Released(t) ==
  [i \in DOMAIN stations \ (DOMAIN t.current \ DOMAIN t.stations) |->
     IF i \in Changed(t) THEN [stations[i] EXCEPT !.robot = NoRobot] ELSE stations[i]]

\* uq_docking_station_robot_id refuses a row as soon as another one has its robot.
Conflict(t) ==
  \E i \in DOMAIN t.stations, j \in DOMAIN Released(t) :
    /\ i # j /\ t.stations[i].robot # NoRobot
    /\ t.stations[i].robot = Released(t)[j].robot
    /\ i \in Edited(t, t.stations) \/ j \notin DOMAIN t.stations

\* Variant: save_many returns those rows that it finds.
RowsIgnored(t) == TRUE

\* save_many returns the rows it has updated, and fails when one is missing.
RowsFound(t) == EditsExist(t)

\* save_many; match gives the edges by which each station is placed.
StationsAfter(t, match) ==
  LET written == DOMAIN t.stations \ (Edited(t, t.stations) \ DOMAIN stations) IN
  IF "stations" \notin t.sections THEN stations
  ELSE [i \in DOMAIN Released(t) \cup written |->
          IF i \in written
          THEN [map |-> t.map, robot |-> t.stations[i].robot,
                shape |-> Snapped(t.stations[i].shape, match[i])]
          ELSE Released(t)[i]]

\* _validate_actions: where the stations may be placed, and their robots.
Placed(t, match) ==
  \A i \in DOMAIN t.stations :
    /\ match[i] \in Matches(t.stations[i].shape, Boundary(t))
    /\ ProtrusionAllowed(Snapped(t.stations[i].shape, match[i]), Boundary(t), match[i][2])

RobotsAccepted(t) == \A i \in DOMAIN t.stations : RobotAccepted(t, t.stations[i].robot)

\* validate_all_within_boundary, of the zones and of the stations.
AllInside(t, match) ==
  /\ \A i \in On(ZonesAfter(t), t.map) : Covers(Boundary(t), ZonesAfter(t)[i].shape)
  /\ \A i \in On(StationsAfter(t, match), t.map) :
       Covers(Boundary(t), StationsAfter(t, match)[i].shape)

Savable(t, match) ==
  /\ Placed(t, match)
  /\ RobotsAccepted(t)
  /\ ~Conflict(t)
  /\ RowsFound(t)
  /\ t.checked => AllInside(t, match)

\* The pairs of edges that PostGIS may choose for the stations of t.
Matchings(t) ==
  {match \in [DOMAIN t.stations -> (UNION {Ends(x) : x \in StationShapes}) \X Ends(Boundary(t))] :
     \A i \in DOMAIN match :
       LET M == Matches(t.stations[i].shape, Boundary(t))
       IN  IF M = {} THEN match[i] = <<t.stations[i].shape.lo, Boundary(t).lo>> ELSE match[i] \in M}

CommitSave(s) ==
  LET t == task[s] IN
  /\ t.place = "commit"
  /\ \E match \in Matchings(t) :
       /\ Savable(t, match)
       /\ stations' = StationsAfter(t, match)
  /\ zones' = ZonesAfter(t)
  /\ boundary' = [boundary EXCEPT ![t.map] = Boundary(t)]
  /\ redrawn' = IF "boundary" \notin t.sections THEN redrawn
                ELSE IF t.checked THEN redrawn \ {t.map} ELSE redrawn \cup {t.map}
  /\ Finish(s)
  /\ UNCHANGED <<made, robots, lastRow, started>>

-----------------------------------------------------------------------------
(* Robots *)

\* get_by_id_and_map_for_update
StationFree(t) == t.station \in DOMAIN stations /\ stations[t.station].robot = NoRobot

LockStation(s) ==
  LET t == task[s] IN
  /\ t.place = "station"
  /\ Granted(s)
  /\ StationFree(t)
  /\ holds' = [holds EXCEPT ![s] = @ \cup Wants(t)]
  /\ Goto(s, [t EXCEPT !.place = "robots"])
  /\ UNCHANGED <<rows, started>>

\* The robot is on this map and at no other station, as the unique constraint also
\* demands.
Assignable(t, r) == robots[r] = t.map /\ Taken(r) \subseteq {t.station}

AssignRobot(s) ==
  LET t == task[s] IN
  /\ t.place = "assign"
  /\ \E r \in t.asked :
       /\ Assignable(t, r)
       /\ stations' = [stations EXCEPT ![t.station].robot = r]
  /\ Finish(s)
  /\ UNCHANGED <<made, boundary, zones, robots, lastRow, redrawn, started>>

\* Variant: a robot may be taken from another map.
ClaimableFromAnywhere(R) == \A r \in R : robots[r] # Gone

\* _validate_robots of create_map
Claimable(R) == \A r \in R : robots[r] = Nowhere

CreateMap(s) ==
  LET t == task[s] IN
  /\ t.place = "claim"
  /\ Claimable(t.asked)
  /\ made' = made \cup {t.map}
  /\ robots' = [r \in Robots |-> IF r \in t.asked THEN t.map ELSE robots[r]]
  /\ Finish(s)
  /\ UNCHANGED <<boundary, zones, stations, lastRow, redrawn, started>>

\* hard_delete_bot, and ON DELETE CASCADE of docking_station.robot_id.
DeleteBot(s) ==
  LET t == task[s] IN
  /\ t.place = "remove"
  /\ Granted(s)
  /\ \A r \in t.asked : robots[r] # Gone
  /\ robots' = [r \in Robots |-> IF r \in t.asked THEN Gone ELSE robots[r]]
  /\ stations' = [i \in {i \in DOMAIN stations : stations[i].robot \notin t.asked} |-> stations[i]]
  /\ Finish(s)
  /\ UNCHANGED <<made, boundary, zones, lastRow, redrawn, started>>

\* What the transaction has read makes it fail, and roll back.  (A robot may always
\* turn out to be executing a command, and is then not deleted.)
Refused(t) ==
  CASE t.place = "zones" -> ~ZonesAccepted(t)
    [] t.place = "read" -> ~EditsExist(t)
    [] t.place = "commit" -> \E match \in Matchings(t) : ~Savable(t, match)
    [] t.place = "station" -> ~StationFree(t)
    [] t.place = "assign" -> \E r \in t.asked : ~Assignable(t, r)
    [] t.place = "claim" -> ~Claimable(t.asked)
    [] t.place = "remove" -> TRUE
    [] OTHER -> FALSE

Refuse(s) ==
  /\ Granted(s)
  /\ Refused(task[s])
  /\ Finish(s)
  /\ UNCHANGED <<rows, started>>

-----------------------------------------------------------------------------
(* Properties *)

ZonesAreDisjoint ==
  \A i, j \in DOMAIN zones :
    i # j /\ zones[i].map = zones[j].map => ~Overlap(zones[i].shape, zones[j].shape)

LayoutFits ==
  \A m \in made \ redrawn :
    /\ \A i \in On(zones, m) : Covers(boundary[m], zones[i].shape)
    /\ \A i \in On(stations, m) :
         boundary[m].lo - 1 <= stations[i].shape.lo /\ stations[i].shape.hi <= boundary[m].hi + 1

\* However saves of zones, stations, boundaries and layouts interleave, the zones of a
\* map never overlap: each is compared with what the one before it committed.  And
\* unless a boundary was saved on its own since the last layout that had one, all
\* zones are inside it, and no station is more than 0.5 map units outside.
LayoutIsConsistent == ZonesAreDisjoint /\ LayoutFits

\* A robot that has a station still exists, and stands on the map of the station.
StationedOnItsMap ==
  \A i \in DOMAIN stations :
    stations[i].robot # NoRobot => robots[stations[i].robot] = stations[i].map

\* A robot is assigned to one station at most.
OneStationPerRobot == \A r \in Robots : Cardinality(Taken(r)) <= 1

-----------------------------------------------------------------------------
\* Requests meet whatever layout earlier ones have left.
Init ==
  /\ made = Built
  /\ robots \in [Robots -> Built \cup {Nowhere}]
  /\ boundary \in [Maps -> Boundaries \cup {NoBoundary}]
  /\ \A m \in Maps \ Built : boundary[m] = NoBoundary
  /\ redrawn = {}
  /\ lastRow \in 0..MaxRows
  /\ \E n \in 0..lastRow :
       /\ zones \in [1..n -> [map : Built, shape : ZoneShapes]]
       /\ stations \in [n + 1 .. lastRow -> [map : Built, robot : Stationed \cup {NoRobot}, shape : Docked]]
  /\ LayoutIsConsistent /\ StationedOnItsMap /\ OneStationPerRobot
  /\ task = [s \in Requests |-> Idle]
  /\ holds = [s \in Requests |-> {}]
  /\ started = 0

Next ==
  \E s \in Requests :
    \/ \E m \in Maps : BeginSave(s, m)
    \/ \E i \in Ids, r \in Robots : BeginAssign(s, i, r)
    \/ \E m \in Maps, R \in SUBSET Robots : BeginCreate(s, m, R)
    \/ \E r \in Robots : BeginDelete(s, r)
    \/ LockMap(s)
    \/ SaveZones(s)
    \/ ReadStations(s)
    \/ LockRobot(s)
    \/ CommitSave(s)
    \/ LockStation(s)
    \/ AssignRobot(s)
    \/ CreateMap(s)
    \/ DeleteBot(s)
    \/ Refuse(s)

Spec == Init /\ [][Next]_vars

-----------------------------------------------------------------------------
(* Further properties *)

\* The tables hold rows of their types, a station's robot exists or is none, and
\* only a request in progress holds locks.
TypeOK ==
  /\ made \subseteq Maps
  /\ boundary \in [Maps -> Boundaries \cup {NoBoundary}]
  /\ DOMAIN zones \cup DOMAIN stations \subseteq 1..lastRow
  /\ \A i \in DOMAIN zones : zones[i] \in [map : made, shape : ZoneShapes]
  /\ \A i \in DOMAIN stations :
       stations[i] \in [map : made, robot : Robots \cup {NoRobot}, shape : Shape]
  /\ robots \in [Robots -> made \cup {Nowhere, Gone}]
  /\ lastRow \in 0..MaxRows /\ started \in 0..MaxRequests /\ redrawn \subseteq Maps
  /\ \A s \in Requests : task[s] = Idle => holds[s] = {}

\* What save_docking_stations has validated never meets the unique constraint on
\* robots: stations may exchange robots, or take one from a deleted station.
ValidatedSavesAreWritable ==
  \A s \in Requests :
    task[s].place = "commit" /\ RobotsAccepted(task[s]) => ~Conflict(task[s])

\* No requests wait for each other's locks, whatever maps and robots they share.
NoLockCycle ==
  \A X \in (SUBSET Requests) \ {{}} :
    \E s \in X : \A other \in X \ {s} : Wants(task[s]) \cap holds[other] = {}

\* A save of stations leaves the map with the stations it was given, and no other:
\* one that a deleted robot took with it meanwhile makes it fail.
SavedAsSubmitted ==
  [][\A s \in Requests :
       "stations" \in task[s].sections /\ task[s].place = "commit" /\ stations' # stations /\ task'[s] = Idle
         => On(stations', task[s].map) = DOMAIN task[s].stations]_vars
=============================================================================
