# A formal model of pleaco-backend

pleaco-backend is the backend of a fleet of cleaning robots: HTTP handlers for
accounts, groups, maps and robots, a RabbitMQ queue per robot, an MQTT gateway to
the devices, Redis for live state and PostgreSQL for everything durable. This
directory models the parts of it in which several actors share state, checks the
models with TLC, and proves the most important results with TLAPS.

Paths below are relative to the repository (`src/app/...` is written `app/...`).

## 1. Inventory

| Component | State | Operations | What is hard | What makes it correct |
|---|---|---|---|---|
| Robot command service (`app/services/robot_action.py`) | none of its own; Redis keys, queue, database | `submit`, `process_message`, `reconcile_robot`, `run_reconciler`, `get_command` | every `await` interleaves with other handlers and other processes; crashes between intent and publication; deadlines racing answers | one outstanding command, genuine outcomes, retries only after failures, position only after success, every reservation ends |
| Robot command store (`app/external/redis/robot_commands.py`) | reservation, command records, dispatch markers, confirmed position | `active`, `reserve`, `transition`, `mark_dispatched`, `position` | two-GET reads, full-record comparison, `allkeys-lru` eviction | reservation and record agree; no stale write |
| MQTT gateway (`app/external/mqtt/robot_action.py`) | subscriber connection, publications under way | `publish_command`, `handle_message`, `start`, `stop` | a publication whose confirmation is lost; threads that outlive cancellation | a movement is never sent after its deadline |
| Robot action topic, RabbitMQ client (`app/external/queues/`) | subscriptions, channels, the broker's queues | `publish`, `subscribe`, `_consume_message` | redelivery, retry queue, dead letters, two settlements of one delivery | a message is settled once; retries are bounded |
| Robot status (`app/services/bot_status.py`) | durable sequence and connectivity, cached status, last-seen key | status events, heartbeats, broadcast | two transactions per event, out-of-order events, expiring freshness | the cache never runs ahead of the database or back; transitions are announced |
| Groups and invitations (`app/services/group.py`, `app/repository/group_*.py`) | memberships, invitations, cached roles | create, invite, accept, remove, change role, expiry | Redis and PostgreSQL changed one after the other, requests racing | owners stay; an invitation is redeemed as offered; Redis follows the database |
| Permissions (`app/core/rbac/`) | cached role | `require_permission` | a cached role that is stale when used | no action with a revoked role for longer than the cache promises |
| Accounts and sessions (`app/services/auth.py`) | user status, one-time codes, token pairs | register, verify, login, refresh, switch group | codes and tokens used twice or replaced | one valid access token per sign-in, none beyond its time; a session lasts until logout, expiry or eviction; a confirmed account stays confirmed |
| Maps, zones, docking stations (`app/services/map.py`, `environment_zones.py`, `docking_station.py`) | layout rows, station per robot | save layout, assign and release station | lock orders of different services, geometry checks against other rows | a saved layout is consistent; one station per robot; no lock cycle |
| Robots (`app/services/bot.py`) | robot rows | create, list, delete | deletion against assignment and running commands | deletion leaves no dangling assignment |
| Realtime rooms (`app/external/realtime/`, `app/services/map_room.py`) | socket sessions and rooms | connect, join, leave, disconnect | joining while membership changes | only members receive a map's events |
| Startup (`app/cmd/main.py`) | background tasks | lifespan, retry loops | order of start and stop | tasks end before the clients they use |
| Tags, users, mail, SSO, schemas, migrations | rows; none | CRUD, I/O | nothing concurrent of their own | - |

The components meet in few places. The command service reads the group, map and
connectivity of a robot from PostgreSQL and its heartbeat from Redis, both written
by the status service; a status event that takes a robot offline calls
`reconcile_robot`. Answers enter through the gateway, which publishes them to the
robot's queue, where the same handler consumes commands and answers. The RabbitMQ
client decides what happens to a message whose handler failed.

`PROJECT.json` lists every component with its modelling status, and under
`hazards` the places where this code can go wrong in a way a unit test hardly
reaches, with the properties that would notice.

## 2. Modules and plan

| Module | Models | Section |
|---|---|---|
| `RobotCommand` | the command service, its store, the queue and the gateway, for one robot | 3 |
| `CommandLifecycle`, `RobotCommandRefinement` | what a caller of the command service is promised; the refinement mapping | 3 |
| `RabbitConsumer` | one subscription of the RabbitMQ client | 4 |
| `MessageDelivery` | what a queue with a retry policy promises | 4 |
| `RobotStatus` | connectivity of one robot, from MQTT to the broadcast | 5 |
| `GroupMembership` | members of one group and the permission check | 6 |
| `MapLayout` | boundaries, zones, docking stations and the robots on the maps | 7 |
| `AccountSession` | one account and the browser signed in to it | 8 |
| `RobotCommandProofs`, `RobotCommandLifecycleProofs`, `RabbitConsumerProofs`, `RobotStatusProofs`, `GroupMembershipProofs`, `MapLayoutProofs`, `MapLayoutLockProofs`, `AccountSessionProofs` | the theorems | 9 |
| `MC...` | symmetry and small sets for TLC | with their module |

The modules meet where one assumes what another shows. RobotCommand lets its queue
repeat, delay, reorder and, after a failure, drop messages, which is weaker than what
RabbitConsumer provides. Its `live` may change at any moment, as the row and the
heartbeat of RobotStatus do. GroupMembership's permission check guards the
requests of the other services, which are modelled after it has passed.

Each module names its *variants*: operators marked "Variant" in a comment are plausible
mistakes, used to show that a property notices them, and are part of no
specification.

Done, in this order: RobotCommand with CommandLifecycle, RabbitConsumer, RobotStatus,
GroupMembership, MapLayout, AccountSession; theorems about RobotCommand,
RabbitConsumer, RobotStatus, GroupMembership, MapLayout and AccountSession. Left:

1. One module composed of RobotStatus and RobotCommand, so that `live` is what
   RobotStatus writes and an OFFLINE event calls `reconcile_robot`.
2. Map rooms of the realtime sockets, and the order in which startup and
   shutdown start and stop the background tasks.

Deadlock is checked in `RobotCommandEvictions` and `RobotCommandRelease`, where the
reconciler's one-second loop never ends. All other instances stop legitimately, when
their bounded requests, events or messages are used up, and say `CHECK_DEADLOCK FALSE`.

## 3. RobotCommand

All keys, queues and topics carry the robot's identifier, so one robot is modelled.

### State

| Variable | Code |
|---|---|
| `active` | `robot:{id}:active_command` |
| `records` | `robot:{id}:command:{command_id}`; `Absent` is a missing key |
| `markers` | `...:dispatch:{attempt}` |
| `position` | `robot:{id}:position` |
| `queue` | the robot's RabbitMQ queue, its retry queue and redelivered copies, as a set |
| `acks` | answers on their way from the robot to the gateway |
| `heard`, `verdict` | what reached the robot and what it did (outside the program) |
| `assignment`, `live` | group and map of the robot, persisted ONLINE with a fresh heartbeat |
| `task` | the local variables and the place of every running handler |
| `leases`, `horizon` | deadlines granted, deadlines that have passed |
| `issued` | command identifiers used so far (`uuid4`) |

### Atomicity

A Redis script is one action; so is one `GET`. Each `await` of
`process_message`, `reconcile_robot` and `submit` ends an action, so any other
handler may run between `active()`'s two reads, before the context query, before
the heartbeat check, before the transition, before and after the MQTT publication,
and before the marker is written. `handle_message` is one action: its check and its
publication are apart in the code, and the queue being an unordered set with
arbitrary delay stands for what may happen in between.

Handlers share `Common` (`active` and `_eligible`); consumers continue with
`Consume` (`process_message`), reconcilers with `Resume` and `PublishCommand`, and
requests with `Submit`. `Reconcilers` stands for `run_reconciler`, the reconciliation
in `get_command` and the one a status event triggers: they are the same calls.

### Data abstraction

- A record keeps its status, attempt, group-and-map, origin and *lease*. The
  target is determined by origin and action, so a position is named by the command
  whose target it is; the action never changes and is left out. `created_at` and
  `failure_reason` are left out.
- Time. `_deadline()` is the clock plus one constant, so deadlines expire in the order
  they were granted: the n-th deadline has passed when `horizon >= n`. Two saved
  records of one command with the same status and attempt differ in `updated_at`
  and `deadline`; a fresh lease per deadline keeps exactly that distinction for the
  full-record comparison. Backend and Redis are assumed to share one clock: the
  code compares `datetime.now` in one place and Redis `TIME` in the other.
- `queue` is a set: the code identifies messages by command, attempt and outcome
  and nothing depends on how many copies there are. Delivery may keep the message,
  which is a redelivered copy; failing handlers keep it or drop it, which is
  the retry queue or the dead-letter queue.
- The robot answers an attempt it heard with one outcome, any number of times. That
  is the device contract the comment at `app/services/robot_action.py:490` relies
  on ("same attempt is deduplicated by the robot").
- Faults are: a consumer dying with its delivery requeued (`Crash`), a dependency
  raising anywhere (`Raise`), an MQTT publication that fails or whose confirmation
  is lost, a marker whose reply is lost, a failing first publication, and keys
  evicted by `allkeys-lru` (`Evict`, for the kinds of keys in `Evictable`).

### Properties and runs

| Property | Why it could fail |
|---|---|
| `OneOutstandingCommand` | the two-read `active()`, the release of dangling reservations, restored snapshots |
| `OutcomeIsGenuine` | duplicated and late answers of earlier attempts, the limit of four |
| `RetriesFollowFailures` | redeliveries, recovered dispatches and restores that count as a new attempt |
| `OriginIsCurrent` | `submit` computes the target from a position that changes before it reserves |
| `TerminalIsFinal` | late timeouts, answers and restores over a settled record |
| `PositionMovesOnSuccess` | an answer after the deadline, for a command that lost its reservation, or for a robot that has changed maps |
| `ReservationEndsInTime` | an evicted record whose reservation nobody can settle, a status without a deadline |
| `IntentReachesRobot` | a reserved command without a broker message, a marker written for a publication that failed |
| `ImplementsLifecycle` | all of the above, and stale snapshots that take an attempt back, seen by a caller |

| Run | Instance | Shows |
|---|---|---|
| `RobotCommandReservations` | 2 commands, 1 consumer, 2 requests, 2 maps, 1 change of map or liveness, 1 expiring deadline | `TypeOK`, `OriginIsCurrent`, `PositionMovesOnSuccess` |
| `RobotCommandEvictions` | 2 commands, consumer, reconciler and request, 2 expiring deadlines, 1 fault or eviction of a record, marker or position | `OneOutstandingCommand`, `TerminalIsFinal` |
| `RobotCommandAttempts` | 1 command with 2 attempts, 2 consumers, reconciler and request, 1 fault, no expiring deadline | `OutcomeIsGenuine`, `RetriesFollowFailures`, `ImplementsLifecycle` |
| `RobotCommandRelease` | 1 command, consumer, reconciler and request, 3 expiring deadlines, 1 fault or evicted record, `FairSpec` | `ReservationEndsInTime`, `IntentReachesRobot` |

Two facts that one may expect are *not* properties, because the code does not
provide them: a command can be cancelled or time out after its eligibility check and
still be handed to MQTT, and a command that timed out may have moved the robot
although the confirmed position stays where it was. Both are documented design.
`OneOutstandingCommand` makes an exception for an evicted *reservation*: the code
releases a reservation without a record, but a record without its reservation stays
unsettled, and a second command is admitted.

Bounds: `MaxLeases`, `MaxHorizon`, `MaxFaults`, `MaxChanges` and the set of command
identifiers. Two commands are enough for every hazard between a command and its
successor, because a handler's snapshot mentions one command only. Leases allow
every attempt of the instance to be queued and dispatched. One fault is enough to put a
handler on each of its error paths, and the answer to that fault is then explored
against everything else. The theorems of section 9 remove all of these bounds.

### Fairness

`Fairness` asks that a started consumer or reconciler runs on, that the
one-second loop starts its next pass (`run_reconciler` catches every exception), and
that the broker delivers a message it keeps (strong fairness, since the consumer may
be busy whenever the message is there; RabbitConsumer shows what that rests on).
`ReservationEndsInTime` has as its hypothesis `WF_vars(Tick)`, that time passes:
nothing else would ever settle a command whose answer does not come. Nothing is asked
of robots, users, the database or faults. Faults are finitely many by `MaxFaults`;
without that, a Redis that is down for ever keeps a robot reserved for ever, and no
retry can help.

## 4. RabbitConsumer and MessageDelivery

`RabbitConsumer` models one subscription of `RabbitMQClient`
(`app/external/queues/queue.py`): `publish`, the callback `_consume_message`, the
retry queue with its TTL, the dead-letter queue, and the settlement of a delivery.

| Variable | Code |
|---|---|
| `published` | messages given to `publish` |
| `ready`, `delayed`, `dead` | copies in the queue, in its retry queue and in the dead-letter queue; a copy carries its `x-retry-count` |
| `task` | the callbacks: copy, place, verdict, and whether the channel of the delivery is still open |
| `calls`, `handled` | handler calls and successes, kept for the properties |

`Deliver` is the broker's hand-over under `prefetch_count`, with the decoding that
rejects a malformed message; `HandlerSucceeds` and `HandlerFails` are the handler's
outcomes; `ScheduleRetry` and `RetainOriginal` are the publication of the retry copy,
confirmed or not; `Settle` is ack, reject or nack, and `FailSettle` the same on a channel
that is gone; `Return` is the TTL. `LoseChannel` hands every unsettled delivery out
again while its callback runs on; `Crash` ends the callbacks too. Each broker call is one
action. The topology (exchanges, arguments of queues) and connecting are left out.

| Property | Why it could fail |
|---|---|
| `NothingLost` | the retry copy and the acknowledgement of the original are two steps, and either may fail |
| `TriesAreBounded` | one comparison decides between another try and the dead-letter queue |
| `ImplementsDelivery` | every published message is handled or dead-lettered, the latter only after all its tries; with liveness |

`MessageDelivery` is the abstract specification: a message may be tried any number of times
(at least once), is set aside only when malformed or after all its tries, and none
stays unsettled for ever. `ImplementsDelivery` is its `FairSpec` under the mapping
that reads `aside` off the dead-letter queue.

Run `RabbitRetries`: a retried, an unretried and a malformed message, 2 retries, 2
callbacks, prefetch 2, 1 fault. Three messages are the three policies; a callback
handles one message, so more of them meet only through the prefetch limit, which two
callbacks reach. `FairSpec`: every callback takes its steps (handlers end, and
a publication is confirmed or refused), the broker delivers a copy that it
can deliver, and a TTL runs out. Faults are not fair.

## 5. RobotStatus

`RobotStatus` models one robot's connectivity, from its MQTT messages to the
broadcast; `MCRobotStatus` adds the symmetry of processes and coroutines.

| Variable | Code |
|---|---|
| `registered`, `row`, `lastSeen` | the robot's row: existence, status with sequence number, `last_seen_at` |
| `cache`, `live` | Redis `robot:{id}:state` and `robot:{id}:last_seen_at` |
| `inbox`, `queue` | MQTT messages to handle; the `pleaco-backend.robot-status` queue, retried copies included |
| `task` | the consumer callback, a callback that outlived its channel, and the MQTT coroutines of each process |
| `now` | the backend's clock, shared by all processes |
| `sent`, `beats` | what the robot has sent (outside the program) |
| `history`, `announced` | what was committed and broadcast, kept for the properties |

`Consume` and `Handle` start `process_status_event`; `SaveStatus` and `IgnoreStatus` are
its first transaction, `UpdateCacheIfCurrent` the second one with the Redis script,
`Publish` the broadcast and `Settle` the acknowledgement. A transaction is one action
because every writer of the row and of the two keys holds the row's lock from its
first read to its commit; only expiry and the loss of Redis ignore the lock, and they
are actions of their own. The call of `reconcile_robot` between the two transactions
changes nothing here and is part of the delay that any interleaving allows; what it
does is in RobotCommand.

Data. An event keeps its type, sequence number, connectivity and operational status.
A robot numbers its events, so the message identifier and the sequence number
coincide. `STALE` is written by nobody and, like `OFFLINE`, is refused in an operational
event. IP addresses, group, map and the second room of a broadcast are left out. The
queue is unordered: retries, redeliveries and several publishers reorder it.

`Disturbances` lists what may go wrong in an instance, at most `MaxFaults` times: MQTT
or RabbitMQ delivering twice (`duplicate`, `reconnect`), a refused publication
(`broker`), a failing transaction (`database`), Redis unavailable (`redis read`,
`redis write`) or emptied (`redis loss`), an expired freshness key (`expiry`), a failed
broadcast (`delivery`), a process that dies (`crash`) and a deleted robot (`delete`).

| Property | Holds | Why it could fail |
|---|---|---|
| `CacheCopiesRow` | always | an overtaken event writes the cache after a newer one |
| `CacheCatchesUp` | unless Redis fails or forgets, or a process dies in between | the overtaken event skips the cache, and nobody else writes it |
| `ConnectivityConverges` | unless the broker refused an event, or more transactions failed than a message has retries | operational events take a direct route and overtake |
| `BroadcastsFollowTransitions` | its order: with one callback at a time | duplicates, redeliveries, the check of currency and the broadcast apart |
| `OfflineCoversHeartbeats` | unless Redis could not be read | a heartbeat races the OFFLINE event |
| `LastSeenNeverGoesBack` | with one callback at a time | the time of receipt is older than the lock |

Run `RobotStatusDisturbed`: 1 process with 1 MQTT coroutine, 3 events, 1 heartbeat, 1
disturbance of any of the eleven kinds. The exceptions in the table are conjuncts of the
properties (`Without`), so each kind of disturbance is checked against every property
it may not break. *One callback at a time* (`Serial`) is one process whose channel was never
replaced. Three events are the shortest history in which a transition is
overtaken, repeated and undone. One process runs two callbacks at once after
`reconnect`, which is what a second process would add. No liveness is claimed.

`ConnectivityConverges` excludes events that reach the dead-letter queue: a connectivity
event whose transaction fails once more than it may be retried is given up, and nobody
repeats it. One fault cannot do that in `RobotStatusDisturbed`, which has one retry; the proof
(section 9) asked for this premise.

What does *not* hold: with a second consumer, or a callback that outlives its channel,
broadcasts can be out of order and `last_seen_at` can go back, because both are decided
outside the lock; after a crash or a Redis failure the cache of that event is not
written again, because its redelivery is a duplicate; when Redis cannot be read, the
offline snapshot misses the last heartbeat; an event that the broker refuses or that
ends in the dead letters is lost. The row itself converges in all cases but the last.

## 6. GroupMembership

`GroupMembership` models the members of one group (`app/services/group.py`) and
the permission check of every request (`app/core/rbac`).

| Variable | Code |
|---|---|
| `rows` | `group_members`: role, status and pending invitation of each user |
| `offers`, `expired` | what each invitation promised; those whose `invitation_expires_at` has passed |
| `stored`, `pending` | Redis `group-invitation:{id}` and the index of a member's last invitation |
| `cache` | Redis `{member}:{group}`, the role the permission check reads first |
| `task` | what each request has read, and its next step |
| `held`, `overtaken`, `drifted`, `unindexed` | history: roles held as an accepted member; users an invitation wrote about after someone else had; users whose Redis copies a race, a failure or an eviction left to chance; invitations whose index Redis evicted |

One statement or one Redis script is one action, and no request locks what it read, so
requests interleave between all of them: `Check` is the permission check (cache,
database, filling of the cache), `Invite` is `invite_group_members` (validation, second
load, flush, Redis), `Manage` is `update_group_member` and `delete_group_member` with
their second check against the target, `Accept` is `validate_group_invitation`. `Expire`,
`DropInvitation` and `RejectExpired` are the clock, the TTL in Redis and the expiry
reconciler. `ForgetRole`, `ForgetInvitation` and `ForgetIndex` are evictions: Redis runs with
`allkeys-lru` (`src/redis.conf:28-29`) and may let go of any of the three keys. An ORM flush writes only the columns that differ from the loaded row
(`Refreshed`). Creating the group is the initial state. A request invites one user:
several users of a request are several rows written in one statement, each as here.

| Property | Why it could fail |
|---|---|
| `OwnersStay` | the two checks of one request see different roles, cached ones may be old |
| `CachedRoleWasHeld` | the cache is filled from a row that is not accepted, or no longer |
| `OneStoredPerMember` | acceptance, removal and replacement delete keys of one another; an invitation whose index was evicted is excepted, since the next replacement cannot find it |
| `InvitationsAgree` | PostgreSQL and Redis are changed one after the other |
| `CacheAgrees` | a role changed in the database, the cache follows later or never |
| `AcceptedAsOffered` | an invitation is opened, then replaced, revoked or expired, then redeemed; the request that accepts has to be the one that takes the step |

`InvitationsAgree` and `CacheAgrees` speak of users about whom no request is still under way,
except those whom a race, a failure or an eviction has touched (`drifted`, `overtaken`). So
they say that the statements of every operation are the right ones, not that the races are
harmless: a fill of the cache that read the membership before a change of role marks its
user as drifted, and so does a request that stops between PostgreSQL and Redis. What such a
race leaves behind does not always go away by itself. An invitation and its index expire
in Redis, but the cached role is stored without a TTL (`set_group_member_redis`): it stays
until the next change of the role, the removal of the member or an eviction. `OwnersStay`,
`CachedRoleWasHeld` and `OneStoredPerMember` hold of such users too and, unless an invitation
was written over a membership that had changed (`overtaken`), `AcceptedAsOffered`: the
WHERE clause of the UPDATE decides, not Redis.

Runs: `GroupMembers` has an owner and another user, at most 4 requests, 2 at a
time, 2 invitations, the roles MEMBER and ADMIN, and one request that ends early or one
evicted key (2.8 million states). Four requests are an invitation, its acceptance, a change and a
removal; the history that any property needs to break is not longer, and two
requests at a time are every race of a pair of statements. One history is longer: an
administrator whose own role shrinks between the two checks of one request takes an
invitation, its acceptance, two changes of the role and the request itself, and a third
user; `GroupKeepsItsOwners` (section 9) covers it for any number of requests and users. `GroupReinvited` needs
three requests and no fault.

## 7. MapLayout

`MapLayout` models the layout of maps: boundaries (`app/services/map.py`), environment
zones, docking stations, and the operations on robots that touch them (`create_map`,
`assign_robot_to_station`, `delete_bot`).

| Variable | Code |
|---|---|
| `made`, `boundary`, `zones`, `stations`, `robots` | the rows of the five tables |
| `lastRow` | the last identifier of a zone or a station |
| `redrawn` | history: the maps whose boundary was last saved on its own |
| `task`, `holds` | the transaction of each request, and its row locks |

Each request is one transaction that locks its map first; what it reads after that only
changes with transactions that do not lock the map, and only their reads are actions of
their own: `LockMap`, `SaveZones`, `ReadStations`, `LockRobot` for one robot at a time
(`ORDER BY id FOR UPDATE`), `CommitSave`. A save of boundary, zones, stations or a whole
layout is a set of sections; `checked` is the validation of everything that only `save_layout` with a
boundary does. `delete_bot` takes the robot's station through the foreign key,
without the lock of the map. A transaction that cannot go on is refused (`Refuse`).

Geometry is seen along one axis: a polygon is an interval, an edge of the
workspace one of its ends, and the unit is 0.5 map units, `EDGE_ALIGNMENT_TOLERANCE`.
Covering, overlapping and touching of intervals behave as PostGIS's predicates do for
rectangles of one height; the choice between equally close edges is left open
(`Matches`), since it depends on where the rings of the polygons start.

| Property | Why it could fail |
|---|---|
| `LayoutIsConsistent` | two saves validate against what they can see; what a layout keeps is checked last |
| `StationedOnItsMap` | a robot is claimed by a new map, or deleted, while it is assigned |
| `ValidatedSavesAreWritable` | stations that exchange robots meet the unique constraint |
| `NoLockCycle` | maps, stations and robots locked in different orders by four services |
| `SavedAsSubmitted` | a deleted robot takes a station with it that a save has read |

Run `MapLayouts`: two maps (one exists), two robots, two requests at a time and in all,
two zones or stations per request and in the tables, a workspace and its first half, two
zones that can overlap, one station near an edge. It starts from *every* consistent layout of that
size, which stands for the requests before; two transactions are every pair that
can race. Longer cycles of locks are not in the run: `LocksAreOrdered` (section 9) excludes
them for any number of requests.

## 8. AccountSession

`AccountSession` models one account and the browser signed in to it
(`app/services/auth.py`, `app/repository/user.py`, the authentication middleware).

| Variable | Code |
|---|---|
| `account` | the row: status, active group, whether it has a password |
| `code` | the one-time code in Redis, and whether its owner has been sent it |
| `store`, `profile` | the valid tokens and the cached profile in Redis, with their expiry |
| `cookies` | the browser's |
| `task` | the requests of several tabs |
| `issued`, `switches` | when each pair was issued; how many switches of the group have begun |
| `dropped` | history: the refresh tokens a logout deleted or Redis evicted |

Requests interleave at every database statement and Redis call; `StoreToken` stores the
two tokens of a pair in either order (`asyncio.gather`), and `Answer` is apart from the
last step because answers reach the browser in any order. `Fail` ends a request
between any two of them. `Tick` drops the keys whose TTL is over. Redis also evicts: it is
limited to 256 MB under `allkeys-lru` (`src/redis.conf:28-29`), so `EvictToken` and
`EvictProfile` may drop a token or the cached profile at any time, and `ExpireCode` a code. A
token is its claims: rotating back to a group makes the same token again. The rotation script is one step. Codes and passwords are not compared:
only the owner of the account enters a code. Deleted accounts, changed passwords and the
profile's other fields are left out.

| Property | Why it could fail |
|---|---|
| `OneAccessTokenPerGrant` | two tabs switch to different groups with the same token |
| `NothingOutlivesItsGrant` | a rotation computes a new lifetime |
| `SessionSurvives` | two tabs renew with one refresh token, an answer is lost, or a cookie is set whose token was not stored |
| `SpentGrantsStaySpent` | a logout races a rotation that is about to replace the token |
| `ConfirmedStaysConfirmed` | a confirmation reads, then writes without looking; registrations race |

`SessionSurvives` has three exceptions, and the code has no remedy for any of them: the
token's own expiry, a logout, and an eviction. An evicted refresh token is refused although
its signature is still valid, and its owner has to sign in again. The other properties
bound the tokens from above and hold across evictions; that an evicted access token stays gone is
part of `SpentGrantsStaySpent`.

Run `AccountSessions`: 2 requests at a time, 2 groups, 2 grants, at most 3 turns (pairs
issued and switches begun), 1 failure or eviction, an access token of 2 and a refresh token
of 3 ticks, and 3 ticks (1.3 million states). Two grants are two tabs or two
sign-ins, or a sign-in and its renewal. Two groups and three turns are a sign-in and two
switches that start from the same access token and would replace it by two different ones, which is how
`OneAccessTokenPerGrant` could break; if the script did not look for the old key, that run would show it.
Three ticks let both tokens of the first pair expire, while the second lives. More bounds: `SignedUp`
(tokens are not issued while a code is under way; the two touch no common state),
`GrantsLeft` and `TurnsLeft` (no sign-in, renewal or switch begins when none is left) and the
clock's start with the first tokens (nothing depends on the time before them).
`AccountRefused` needs one grant and one tick.

## 9. Proofs

All theorems hold for every value of the constants that meets the named assumptions; no
bound of an instance enters. No theorem is about liveness.

### RobotCommandProofs

`InvariantHolds` (`Spec => []InductiveInvariant`), and from it `TypeCorrect`,
`OneCommandAtATime`, `OutcomesAreGenuine`, `AttemptsInOrder`, `OriginsAreCurrent`,
`PositionsAndMarkersAreEarned` and the action properties `SettledIsFinal`,
`AttemptsNeverGoBack` and `PositionFollowsSuccess`. `PositionIsEarned`, `MarkersAreTruthful`
and `AttemptsAdvance` are proved only: what runs could show of them is part of
`PositionMovesOnSuccess`, `IntentReachesRobot` and `ImplementsLifecycle`.

Assumptions: `ConstantsAssumption` (the special values are not ordinary ones, bounds
are natural numbers, at least one attempt) and `TasksAssumption` (consumers,
reconcilers and requests are different handlers).

Why a stronger invariant is needed: the safety properties speak of the store, but
what a step writes comes from a handler's snapshot and from a message. The inductive
invariant therefore adds that every message in flight tells the truth about the
robot (`Truthful`), that every record is well formed (`RecordShape`), and what a
handler may rely on at each place (`HandlerShape`): its snapshot's earlier attempts
failed, its message carries the snapshot's attempt, and between saving a dispatch and
confirming it the record it wrote and the snapshot it would restore describe the same
movement. Nothing relates a snapshot to the *current* record: that is what the
comparison in the transition script is for, and `TransitionKeepsStore` is the
lemma that says so.

The argument: `TransitionKeepsStore` treats every use of the transition script at once;
`OneHandlerStep` reduces the invariant after a handler's step to that handler, the
store and the new messages; `EnvironmentFrame` does the same for steps of the
robot, the broker, the clock and the database. There is then one lemma per action,
`NextInvariant` puts them together, and `NextMoves` and `PositionMoves` say what a step
may do to a record and to the position, for the action properties.

### RobotCommandLifecycleProofs

`LifecycleImplemented` (`Spec => ImplementsLifecycle`, the whole refinement, which has no
fairness), on top of `RobotCommandProofs` and under one more assumption, `Evictable = {}`:
Redis keeps its keys. An evicted record would make a command new again in the eyes of a caller.

One conjunct joins the inductive invariant: `Kept`, every accepted command has a record.
It makes the release of dangling reservations (`ReleasePromised`) a stutter and, with
`OneOutstandingCommand`, every record that a transition replaces an open one. `Follows` lists
the records that may follow each other; `TransitionPromised` shows once that such a transition is a step of
`CommandLifecycle` and one that does not apply is a stutter. Each handler that writes the store then
only has to show that what it writes follows what it read: the snapshot a failed
dispatch restores has the attempt of the record it replaces, a retry comes from
an attempt below the limit, a failure is one of the last attempt.

### RabbitConsumerProofs

`TypeCorrect`, `NoMessageLost`, `DeliveryImplemented` and `TriesBounded`
(`TriesAreBounded`), for any messages, callbacks, prefetch, retry limit and
number of faults (`ConsumerAssumption`). `TypeOK` is inductive; it needs that a copy to be
retried is below the limit, and that what a lost channel returns is a natural number
(`HeldCopiesCount`, from the finiteness of the callbacks). `NothingLost` is not: a
delivery about to be acknowledged counts as a copy of the broker, and is none a step later.
The strengthening `AllSecured` does not count it, and so demands that the success or the
retry copy came first, which is the order of the code.

`DeliveryImplemented` (`Spec => Delivery!Spec`) is the safety part of the refinement of
`MessageDelivery`. Its invariant `TriesCounted` says that the retry count a copy carries is
at most the number of times its message has been handled, wherever the copy is, so that a well-formed
message is not set aside before the policy's tries are used up. Fairness stays with the run.

`TriesBounded` needs the other direction, which holds only while nothing fails: a lost channel or
a process that dies repeats a call. `TriesAreBounded` says nothing of a message under way,
so `Tracked` follows it: the message is in one place (`Alone`), as one copy in one
queue or as one callback's delivery, and there its retry count *is* the number of calls
made (`Due`). What makes it inductive is where a place ends: a delivery about to be
acknowledged is none, since the retry copy that stands for it, or the success, came first.

### RobotStatusProofs

`InvHolds` (`Spec => []Inv`), and from it `TypeCorrect`, `OfflineIsCovered`
(`OfflineCoversHeartbeats`), `CacheFollowsRow` (`CacheCatchesUp`) and the action properties
`OnlyTheRowIsCached` (`CacheCopiesRow`) and `LastSeenOnlyAdvances`;
`BroadcastsAreTransitions` (`BroadcastsFollowTransitions`); and `ReportsAreKept`
(`Spec => []ConnectivityOK`) with `ConnectivityIsSettled` (`ConnectivityConverges`). All are under `StatusAssumption`
(bounds are natural numbers, there are a first event and a first instant, coroutines are not callbacks).
The first three and `CacheCopiesRow` hold for any number of processes, so the run's single
process loses nothing there.

What the code relies on is that the row's sequence number only grows. `Shape(t)` says
what follows for an event between its two transactions: it is the one that made the row
what it is, or it is older than the row, so the comparison of numbers in
`_update_cache_if_current` really decides whether the cached state is the row's
(`CurrentIsRow`). `CacheOK` adds that the cache never leads the row and is the row
when the numbers agree, which makes the skip in the Redis script harmless. `ReceiptOK` is
the claim behind `LastSeenNeverGoesBack`: while the only callback holds an event,
`last_seen_at` is no later than the event's receipt. A heartbeat cannot change it, since it
writes Redis only.

The argument: `FaultFacts` and `WithoutStays` make an exception of `Without`, once
granted, permanent; `SlotMoves` and `SlotPromises` reduce the invariant after a step to the
slot that took it; `SaveFacts` and `CacheWrites` say what the two transactions
write. Then one lemma per group of actions, and `StepInv`.

Broadcasts have an invariant of their own, `BroadcastsOK`. A callback that may still broadcast
(`Pending`) made a transition that has not been broadcast, that no other callback will broadcast, and that
is newer than all broadcasts before it if there is one callback at a time (`PendingOK`). A coroutine
never makes one, since an operational event that is accepted leaves the connectivity as it is. That
numbers are not reused is again the growth of the row's number (`TransitionsBound`), so a
failed cache transaction, which the code treats as current, cannot disturb the order either.

`ConnectivityConverges` speaks of the end; its invariant `ConnectivityOK` relates, at any
time, all the robot has sent to what was committed. `RowOK`: the row shows the
last connectivity the robot reported up to the row's number (`Reported`). `ReportsOK`: every
connectivity event after that number is in MQTT or in the queue, so none was skipped. An
operational event that overtakes keeps both: the robot sends one only while it is online
(`SentOK`), and the row accepts one only when it shows ONLINE itself and leaves it so. That
the row then passes over nothing rests on `CarriedOK` (what is in MQTT, in the queue or in a slot was sent as
it is, and has been retried no more often than transactions failed, by counting in `FaultsCounted`) and on `SavedOK`
(a consumer acknowledges only an event the row has reached). A callback whose channel was
replaced, or a crash, takes nothing out of the queue. The proof failed at first in `FailSave`: an event
past its last retry leaves the queue unsaved. That is the code's policy, so the property names it
(`Times("database") <= RetryLimit`).

`CachedConnectivityIsSettled` joins this with `CacheCatchesUp`: from the robot's last report to
the Redis snapshot, once nothing is left to handle. It is proved only, as a consequence
of two properties that the run checks.

### GroupMembershipProofs

`InvHolds` (`Spec => []Inv`), and from it `TypeCorrect`, `GroupKeepsItsOwners`,
`CacheIsEarned`, `OneInvitationStored`, `OfferIsKept` (`PendingAsOffered`, proved only) and
the action property `AcceptanceIsAsOffered`; and `AgreementHolds` (`Spec => []Agreement`),
from which `InvitationsAreInAgreement` (`InvitationsAgree`) and `CacheIsInAgreement`
(`CacheAgrees`) follow. All are under `MembershipAssumption` (there is a founder,
the asked roles are roles, the bounds are numbers).

`Inv` is the conjunction of `DatabaseOK`, `RedisOK`, `RequestsOK` and `RestOK`. Its core
is `Shape(t)`, what a request has established at its place: an invitation past its
validation is not for a founder; a founder loaded as a target has the role OWNER, so
that no caller outranks it and neither a change nor a removal gets past its second
check; what is about to be cached is a role its user has held; what is about to be stored in Redis was
offered to that member. Roles held, offers and lost indices only grow (`Grows`), so the other requests
keep their shape whatever one of them does (`OneRequestMoves`). One lemma per action, then `InvStep`.

`InvitationsAgree` and `CacheAgrees` are silent while a request is busy with the user, so
`Agreement` speaks of that time. For a user that is neither `drifted` nor `overtaken`,
`Agreed(u)` says three things. What a request remembers of the user is still true at its
place (`Knows`): the role it is about to cache, the invitation it is about to store, the
membership it is about to delete. Where Redis differs from PostgreSQL, some request is on
its way to the write that puts it right (`WritesRole`, `WritesOffer`). And no two of these
writes undo each other. A second commit while one is under way marks the user as drifted (`Cross`), which
is why what the requests know survives; an evicted invitation or index marks its member too.
`UnindexedAdrift` says that an invitation without an index is one of a member marked
already, so that for any other a replacement finds and deletes the invitation before it. `Traces` says whose invitation every membership, index and
request names, for all users, so that a step on behalf of one member leaves the keys of
the others alone.

The argument: `AgreedMove` and `AgreedAlone` reduce a step to the request that takes it, with
and without another request on the same user; there is one lemma per statement of each operation, and
`AgreementIsVisible` shows that once nobody is behind, nobody is left to write.

### MapLayoutProofs

`InvHolds` (`Spec => []Inv`), and from it `TypeCorrect`, `LayoutStaysConsistent`
(`LayoutIsConsistent`), `StationsFollowRobots` (`StationedOnItsMap`),
`ValidatedSavesSucceed` (`ValidatedSavesAreWritable`) and the action property
`SubmittedIsSaved` (`SavedAsSubmitted`), under `LayoutAssumption` (the special values are
not ordinary ones, there are finitely many robots, shapes are intervals, bounds are numbers). Nothing bounds the requests,
and the layout at the start is any consistent one.

What a save writes was checked in earlier steps, so the invariant has to say that the checks
are still true. `SaveOK` does: a save past its first step holds its map; no zone of
that map has changed since `ZonesAccepted`; and every station on the map is
among those it read, with the robot it read. A deleted robot may take a
station away in between, but it never adds one or changes its robot. `IdsOK` gives every
request identifiers of its own, so that what is new for one cannot be an edit for another.
`LocksOK` says that a lock has one holder, and that an assignment past its first step holds its
map, which is why it cannot change a station that a save has read (`OneSavePerMap`).

The argument: a step that writes no row is reduced to its request by `Moves` and `Advance`;
a step that ends a transaction by `EndStep`, which asks that the maps other requests are
saving keep what was read of them (`MapKept`). `SavedZones` and `SavedStations` say
what a save leaves in the tables; `FreshIds` that the identifiers it creates are those
between the old and the new `lastRow`, by counting; `PlacedFits` that a placed
station is within 0.5 map units of the workspace.

### MapLayoutLockProofs

`LocksAreOrdered` (`Spec => []NoLockCycle`), on top of `MapLayoutProofs`.

The invariant `OrderOK` says what each request has locked at its place (`Orderly`):
nothing before its map; no robot before the step that locks robots, and there only
robots before the next one; a station only as an assignment, and one that has no
robot. `SameStation` adds that two assignments of one station are on one map,
hence never both past its lock.

The argument (`OneGoesOn`): among any requests, one waits for none of the others. A deletion
that waits for stations waits for stations with a robot, which no assignment has locked
(`RemoveNeverWaits`); an assignment that holds its map is alone with its station
(`StationNeverWaits`). If all wait for maps or robots and one for a robot, the one whose
next robot is the greatest goes on, since the others only hold smaller ones, or nothing; if all wait for
maps, none holds anything. The greatest robot is why `Robots` must be finite; that
finitely many numbers have a greatest one is proved from well-foundedness (`Least`,
`FiniteBounded`, `Greatest`).

### AccountSessionProofs

`InvHolds` (`Spec => []Inv`), and from it `TypeCorrect`, `OneAccessToken`,
`GrantsBoundAccess`, `SessionsSurvive` and the action properties `ConfirmationLasts` and
`SpentForGood`, under `AccountAssumption`.

`Genuine(t)` is what a signature guarantees: a token belongs to a grant that was issued
and expires when that grant says, however often it was rotated. The invariant demands it
of every token in Redis, in the cookies and in a request. `Good(t)` adds what a request has
established at its place; in particular, the refresh token it is about to answer with is
already stored, or among the ones it still stores, or has expired or been dropped. `Single` extends `OneAccessTokenPerGrant` to
tokens that wait to be stored, which is why two tabs cannot both replace one token: the
rotation script removes the token it replaces in the same step. `StoreOK` says that
Redis keeps a refresh token no shorter than its signature is valid, so that a key that
expires (`TickStep`) never ends a session early. An eviction (`EvictTokenStep`) may: Redis lets go of
live tokens, so `SessionsSurvive` holds with the evicted refresh tokens excepted by name, and is false
without that exception. What it rules out for every number of tabs, renewals and failures is everything the
program itself could do to a session.

The argument: requests that touch no token are treated at once (`TokenlessStep`,
`QuietStep`); `Preserved` is what the others have in common, and `TokenStep` reduces
their steps to it; `ReplaceStep`, `IssueStep`, `StoreStep` and `DropStep` are the ones that
change the store. For `SpentForGood`, `OthersAreSteady` shows that nothing but a
replacement, a storing and an issue ever adds a token, and `SpentStep` that these need a token
of the same grant.

### Only model-checked

Liveness and fairness, which the prover cannot reach: `ReservationEndsInTime`,
`IntentReachesRobot` and the fairness of `ImplementsDelivery`. Every other property of a
passing run is stated by a theorem. The properties of the runs that expect a violation are
false, and section 10 says why.

## 10. Where code and text disagree

- `RobotStatusBroadcastLost`. The row for `robot.online` in
  `src/guides/ROBOT_STATUS_REALTIME_DATA_FLOW.md` (line 33) says that an accepted
  transition starts freshness and results in `robot.status`. An operational event
  that commits between the two transactions of the ONLINE event makes it count as
  overtaken: it is neither broadcast nor given freshness, while the operational event
  broadcasts nothing. (The row for `robot.heartbeat`, line 35, also says heartbeats
  are deduplicated; the code has no such check, and a duplicate refreshes freshness.)
- `GroupReinvited`. The docstring of `invite_group_members`
  (`app/services/group.py:242`) says that accepted memberships cannot be invited again. A
  member who accepts an earlier invitation between the validation and the flush of a
  second one is made PENDING again.
- `AccountRefused`. The comment at `app/services/auth.py:315` says that a repeated request
  for an inactive account sends its mail again. Registration refuses any account that
  exists, so an account whose code was never sent, or has expired, can neither be
  confirmed nor register again (it can sign in with Google).
- Renewal, without a run. `refresh_token` is documented to validate a refresh token and
  "replace it with a new token pair" (`app/services/auth.py:529`), and its inner function to
  "rotate the supplied refresh token" (`:543`). The code (`:545-578`) issues a new pair and
  never deletes the token it was given: that one can be used again until it expires, is
  dropped by a logout that presents it, or is evicted. `Refresh` models the code.
  `SessionSurvives` depends on this: were the token replaced as the docstrings say, a browser
  that never gets the answer of a renewal would keep a refresh token that is no longer valid.

## 11. Not modelled

- Realtime rooms: sessions and rooms are python-socketio's state. A socket's membership is
  checked when it connects and when it subscribes to a map, and nothing removes a
  member's sockets from their rooms later; no state of the program depends on it.
- Startup and shutdown: one coroutine starts and stops clients and tasks in a fixed order.
- Tags, users' profiles, mail, single sign-on providers: sequential rows or pure I/O. The
  schema's constraints enter the models of the services that rely on them.
- Robots: creation (a unique serial number), update, listing. Maps: names, tags,
  dimensions, `update_map`, the status ASSIGNED, which no modelled decision reads.
- Groups: reading groups and invitations, the mail of an invitation.
- RobotStatus: a Redis write that lands after its client has given up on it. A write that
  fails was not applied.
- RobotCommand: authorization of `submit` and of the reads, the numbers of a movement
  (target, bounds of the map), malformed messages, the address fallback and thread
  handling inside one MQTT publication, restoring subscriptions at startup, and the scan
  of Redis keys by which the reconciler finds its robots.
- RabbitMQ client: the declaration of exchanges and queues, connecting and closing, and the
  publisher channel that two publications may open at once.
