# nvmesh-management in TLA+

Models, model-checking runs and proofs for the management server of NVMesh.
The modules are beside this file; `PROJECT.json` lists the runs, which
definition models which lines, and the hazards the properties are for. All
paths below are relative to the repository's `src/`.

To run one of the checks, or the proofs:

    tlc -workers 2 -config ZoneLock.cfg MCZoneLock
    tlapm ZoneLockProofs.tla        (and the other ...Proofs modules)

Contents: [the system](#1-the-system), [modules](#2-the-modules),
[runs](#3-the-runs-and-their-bounds), [fairness](#4-fairness),
[proofs](#5-what-is-proved), [disagreements](#6-where-the-code-and-what-is-said-of-it-disagree),
[observations](#7-observations),
[limits](#8-what-is-not-modelled), [plan](#9-plan).

## 1. The system

Several *managements* (Node processes, one per host, stateless but for caches)
run the control plane of a cluster of storage targets and clients. They share
one MongoDB replica set, in which everything is kept, talk to each other over a
websocket mesh, and to the hosts' daemons (the TOMA of a target, the client, the
management agent, the upgrade agent) by Kafka topics. Any management may
receive any message and any request of a user, and any of them may stop at any
point: what keeps them from stepping on each other is conditional updates of
single documents, locks made of such updates, tokens and sequence numbers in
messages, and heartbeats with time-outs.

Inside a management JavaScript runs one callback at a time. Every interleaving
problem is therefore between two calls to the database (or to Kafka, or a
timer), in one process or in several, and that is the granularity of every
module here: **one action is what happens from one such call to the next**.

| Component | State it keeps | Operations | Interacts with | What is hard | What makes it correct |
|---|---|---|---|---|---|
| Zone lock (`modules/lock.js`, `queue.js`) | document per zone in `lock`; per process `waitingForLock`, `lockingQueue`, `releaseCounter` | acquire one zone, several, all; release; expand; delete | everyone who allocates, deletes or repairs; heartbeats | two processes between read and update; crash with the lock; lock order; queue against timer | one job in a zone; no one waits for ever; no deadlock |
| Management cluster (`modules/managementCluster.js`, `modules/websocket.js`) | `managementCluster` (heartbeat, boot version), websocket connections | join, beat, find and delete dead managements, mesh | locks, sanity, every `handledBy` | a restart within the time-out; document deleted and inserted again | who is dead is told right, boots are told apart |
| Sanity and recovery (`modules/sanityAndRecover.js`) | `configurationVersion` document of the cluster | take the run, ~40 recovery passes, release | all collections; the zone lock | runs that overlap or crash; entities half made by a live management | only what a dead boot left is touched, and all of it in the end |
| Keepalive (`modules/lastMessageLog.js`) | document per component in `lastMessageLog` | log a message; claim, handle and mark a time-out; recover claims | Kafka router; client, target, zone, upgrade agent | logged and handled without order; two claimants; late keepalives | silence leads to DOWN, life to UP, the past to nothing |
| Clients (`modules/client.js`) | `client` (status, tokens, attachments, sequence numbers) | keepalives, attach, detach, control jobs, deletion | volumes (reservations), Kafka | tokens, reordered reports, versions of attachments | attachments follow the user's wish; exclusive reservations are exclusive |
| Targets (`modules/target.js`, `modules/node.js`, `modules/serverClass.js`) | `server` (NICs, disks, zone, TOMA status, tokens) | reports, keepalives, joining and leaving zones, deletion | zones, disks, volumes, Kafka | a queue of reports per process; reports under old tokens; two zones at once | a target is in one zone; only reports of its current token count |
| Zones and TOMA leaders (`modules/zone.js`) | `zone` (targets, leader, leader token, version) | target updates, ranking, leader changes, time-out of the leader | targets, volumes | compare and swap with retries; leaders of an earlier term | one leader per token, no update lost |
| Kafka consumer (`modules/kafka.js`, `modules/kafkaRouter.js`, `models/kafkaMessages`) | per process: registry of offsets, pause state, consumers; `kafkaGarbage...` topics | consume, route, commit, pause, recycle, create and delete topics | every handler | handlers end out of order; rebalances; commits of gaps | no message lost, committed only when all before it are handled |
| Volumes (`modules/volume.js`) | `volume` (chunks, pRaids, status, reservations, versions) | create, extend, delete, status of pRaids, segments, snapshots | allocation, disks, clients, zones | status computed from reports in any order | the status follows the pRaids; no reservation is lost |
| Allocation (`utils.js`) | segments in `server.disks` and `volume.chunks` | free ranges, candidates, allocation per RAID level, rollback | zone lock | rollback of a half-made volume; alignment, exact fits | segments never overlap, domains are kept apart |
| Drives (`modules/disk.js`, `modules/diskClass.js`) | `server.disks` | format, evict, reinstate, remove | zone lock, volumes | states reported while being changed | no drive with segments is removed |
| Encryption and keys (`modules/volumeEncryption.js`, `modules/key.js`, ...) | `volume.encryption`, `key` | initialize, rotate, recover | clients, Kafka | steps with acknowledgements | a key in use is not lost |
| Upgrades (`modules/upgrade*.js`, `modules/release*.js`) | `upgrade` (steps, lock) | schedule, lock, run steps, retry, abort | upgrade agents | two schedulers; restart in a step | one upgrade at a time, each step once |
| Configuration profiles (`modules/configurationProfiles.js`) | `configurationProfile`, versions on hosts | apply, verify | agents | versions that cross | a host ends with the last profile |
| Bootstrap (`app.js`, `bootstrapper.js`, `objectNotifier.js`) | `bootVersion` | start, exit on an uncaught exception | all | a crash at any point | a boot version is never used twice |
| VPGs, security groups, catalogue, users, settings | documents | create, read, update, delete | routes | nothing concurrent of their own | - |
| Database wrapper, backups, logging, web interface, packaging | - | input and output | - | - | - |

The boundaries are mostly the database and `handledBy`: a pair of
`managementId` and `bootVersion` that marks who is at work on a document, to be
compared with the heartbeats of `managementCluster`.

## 2. The modules

| Module | Models | Uses |
|---|---|---|
| `ZoneLease` | what a zone lock promises, abstractly | |
| `ZoneTurns` | what the lock of a zone is to its users, abstractly | |
| `ZoneLock` | the lock of one zone, between and inside managements | implements `ZoneLease` and `ZoneTurns` |
| `ZoneLocks` | jobs that lock several zones, one Lock object per management and zone | the locks of `ZoneLock`, reduced to their holder; uses each as `ZoneTurns` says |
| `TargetUpdates` | how TOMA gets to know the targets of a zone | the lock of `ZoneLock`, reduced to its holder, and the recovery of `SanityAndRecover`, reduced to its passes over targets |
| `KafkaOffsets` | consumption of a partition: registry, commits, throttle | |
| `KafkaRecycle` | how a management replaces its consumer | |
| `AgentKeepalive` | liveness of an agent: Kafka, log, claims, token | |
| `SanityAndRecover` | who runs the recovery, and what it removes | |
| `VolumeStatus` | TOMA's reports on segments, the volume's status and action | |
| `EncryptionCommand` | commands on the passphrases of a volume | its change of the volume's action is an event of `VolumeStatus` |
| `...Proofs` | the theorems about the module of that name | that module (`KafkaProofs`: both modules about Kafka) |
| `MC...` | the sets and functions of the runs | |

A definition named in a comment as a *variant* is not part of a model: it is a
definition above it with a plausible bug, and `PROJECT.json` says which property
it breaks.

### ZoneLock, ZoneLease and ZoneTurns

`lockDoc` is the document of the zone (`lockCounter`, `status`, `handledBy`; a
counter of 0 says that there is none), `fresh` the age of each management's
heartbeat, `up` and `bootVersion` its process, `waitingForLock`, `lockingQueue`
and `releaseCounter` the fields of its `Lock` object. A *request* is one call
of `acquireLockByZone` with its callback; `pc` says which call to the database
or which timer it waits for, `oldLock` is what it read. `lapsed` is a history
variable: the values of `lockCounter` whose holder crashed, went silent for
longer than `MANAGEMENT_TIMED_OUT_INTERVAL_IN_MINUTES`, or passed for dead
because its heartbeat could not be read.

The actions follow a request through `acquireLock` (`AcquireLockByZone`,
`FindLock`, `CheckAlive`), `initialLockCreation`, `createLock`
(`CreateLock`, `RetryAcquire`) and `releaseLock` (`ReleaseLock`,
`ReleaseCallback`, `DeferredAcquire`: every 25th entry of the queue is started
by a timer, here every `ReleaseLimit`-th). `Crash`, `Restart`,
`HeartbeatExpires` and `Heartbeat` are the environment. `FaultSpec` adds the
errors of the database, with what the code makes of them.

`ZoneLease` has clients and epochs only: a lease is granted under a new epoch
when it is free, or over the head of a holder whose epoch lapsed; a client that
leaves frees its own epoch and no other. The refinement mapping sends
`lockCounter` to the epoch (`ImplementsLease`), and every database call that
neither grants nor frees to a stutter.

`ZoneTurns` is the lock from the other side, that of the jobs which use it: who
holds it (and whether it may be taken from the holder), the flag and the queue of
each management, and whether a user is out, queued, put off, asking, in, or
leaving. Counters, boots, heartbeats and the calls to the database are gone
(`ImplementsTurns`). It is what `ZoneLocks` has of each of its locks
(`UsesLocks`), so the two modules meet in it.

### ZoneLocks

Jobs take the locks of several zones one after the other: `acquireLockByZones`
in the order of `Array.prototype.sort` (`Sorted`), `acquireGlobalLock` and
`releaseGlobalLock` in the order of `Object.keys` (`Keys`), both over
`zonesLocks` of their management, which grows with the zones that were asked
for; `releaseLockByZones` takes the Set as it was built (`Built`). What a job
still has to lock, or to release, is a set (`todo`), of which it takes the first
zone in its order (`First`); the orders are the places of the zones. `holder` is the management that
each document names; reading, comparing and updating it, crashes and errors are
`ZoneLock`'s subject and left out, the per-zone queues and flags are not, for
they are what a job waits in while it holds other zones. `Turns(z)` is the zone
`z` by itself: `UsesLocks` says that a job takes its turns there whatever it does
to other zones.

Two things that the code does are named, not cut away. A global job releases the
zones that are known *now* (7); a zone whose lock it so gives away without
having it is `stray` (history) until nobody uses that lock any more, and
`ZoneHasOneJob` and `UsesLocks` speak of the other zones. And the two orders are
two (6.3): `Stuck` are jobs that wait for each other in a circle,
`CirclesAreMixed` says that a circle has jobs of both kinds, and `EveryJobEnds`
that every other job gets its zones and ends.

### TargetUpdates

`zone` is the lock document of zone 1 as far as its targets go: `members` is
`targetsInZone`, `sequence` is `targetUpdatesSequence`, `last` is
`lastTargetUpdate`. `server` are the documents of the targets, `topic` the
messages to the zone's leader. A *job* is one call of `setZone`, one of
`deleteTargets`, or the recovery; `handler` is `handleTargetUpdateInZone` of
each job and target, from its read of the zone (`FindZoneLock`) over its compare
and swap (`UpdateZone`), the count in the target's document, the message and the
clearing of `lastTargetUpdate` to its own update, which comes after that of
another handler that it found in the zone. The recovery reads the zone, counts
its targets and may overwrite the set (`RepairZone`, `checkForZonesCounters`),
then adds again the targets whose message is still required
(`CheckForTargetAddition`). Events are a crash, a message that cannot be sent,
and the deletion of a target that had no zone when its request came, which
takes no lock. `log`, `cleared` and `dropped` are history: the update and the
set at each number, the numbers whose record in the zone was cleared by a
handler of another update, and the updates whose handler ended, by a crash or a
failed send, before it told them.

### KafkaOffsets and KafkaRecycle

`KafkaOffsets` is one partition: `offsets` is `offsetsRegistry` of each
management ("absent", at work or "done" for each offset), `handlers` what it
really works at, `messagesInProcess` what it counts, `isConsumerPaused` what it
thinks of its consumer and `held` what the consumer does, `commits` the commits
in flight. `handleMessage` is `Receive`, with `Throw` when the router throws;
`Finish` and `FinishWithError` are its callback; `CommitOffsets` is called by
them and by the timer; `ApplyCommit`, `RefuseCommit` and `CommitReturns` are
Kafka's side. `Rebalance`, `Assign`, `Crash`, `Restart`, `Recycle` and
`ConsumerForgets` (kafkajs restarts by itself and forgets that it was paused)
are what happens to a consumer. `handled` and `failed` are history.

`KafkaRecycle` is the consumer as a whole: `currentConsumerIdCounter`,
`consumerIdOnRecycle`, the requests that wait with a `callback` or are put off
(`pending`), the cool-down of `DEBOUNCER_MINIMUM_WAIT` (`recent`), the retries
(`timers`), the grace period after failed commands (`graceTimer`), and where
`doRecycleConsumer` is (`phase`). Its names say "Recycle" where `KafkaOffsets`
has the same ones, because `KafkaProofs` extends both. Requests come from the boot, from a change
of topics, from a crash of the consumer and from the grace period. A consumer is
`Deserted` if it has the topics but does not consume, and no recycle in progress
will replace it by one that has them; `ignored` (history) says that a request was
answered as if nothing were to be done for such a one, and none was taken up
since.

### AgentKeepalive

`topic` are the keepalives of one agent, not yet committed; `handling` and
`toLog` the two independent writes a consumed keepalive leads to; `client` and
`log` the two documents they write; `update` the token on its way to the agent,
in the debouncer or in Kafka. `loop` is `startKeepaliveValidationInterval` of
each management: recover claims that are too old (`FindStaleHandling`,
`CheckHandler`, `ResetHandling`), claim a document that timed out
(`GetTimedOut`), mark the client DOWN (`HandleTimeout`), mark the document
(`MarkAsHandled`). The agent itself is external: it counts its messages, takes
the token it is sent, and forgets both when it restarts. A keepalive has one bit
of history, `late`: the agent was declared DOWN after it was sent.

### SanityAndRecover

`cluster` and `fresh` are the documents of `managementCluster`, `versionDoc` the
cluster document of `configurationVersion`, in which the hash of the cluster's
state is represented by the state; `entity` are documents in status pending,
such as volumes in creation, with their `handledBy`. `pc` and `memory` are
where the poll of `managementCluster.js` is and what it read: the poll, the two
calls of `tryToAcquireLock` (`ReadCluster`, `Acquire`), the removal
(`LoadPending`, `Categorize`, `FindStale`, then `DeleteNext` and `Remove` for
each entity), and `releaseLock`. A start deletes the management's own document
before it inserts it (`DeleteOwnDocument`, `Join`), and an operator may delete
that of a management found dead two steps before (`FindDead`,
`DeleteManagement`). `lapsed` is history again: the boots that were silent, or
deleted, while they ran.

### VolumeStatus

`volume` has for each segment its status and vitality and the pending ones, and
the volume's own status and action; `rank` is the version of the last report
that was stored for each pRaid (token, major and minor version, term), and
`latest` (history) the place of that report in TOMA's order; `overwritten`
(history) are the segments whose vitality a calculation took from an older
report than the last one. `UpdatePRaid` is
`handlePRaidStatusMessage` with the update whose query compares the versions
(`NewerVersion`); `FetchVolume` and `UpdateVolume` are the two calls of a
calculation, `snapshot` what the first one read, and the query of the second one
compares the pending statuses (`SamePending`). A management runs one
calculation of a volume at a time; requests that come meanwhile wait in `InWork`
sets and start another one (`CalculateAgain`). `SetEncryptionCommand` and
`EncryptionResponse` change the action, as `volumeEncryption.js` does, and
enter the calculation with the volume they wrote. `missed` and `lost` are history:
which exceptional things happened, and which reports were stored by a management
that crashed before it calculated, until they come again.

### EncryptionCommand

A *request* is a call that initializes a volume or changes a passphrase; `pc`
is the step of its waterfall: `FetchAndVerify`, `ChooseTOMA`,
`SetEncryptionCommand` (whose query lets one command through at a time,
`NoneInProgress`), the calculation it waits for, `SendEncryptionCommandToTOMA`
and `UpdateLastCommandSent`. `command` and `lastSent` are the fields of
`encryption` in the volume's document. TOMA (`Execute`) is external;
`HandleCommandResponse` takes a response for that of the last command that was
recorded as sent (`LastMessage`); `ShowResponse` and `AcknowledgeResponseError`
are the user's.

## 3. The runs and their bounds

| Run | Distinct states | Asks | Shows |
|---|---|---|---|
| `zone_lock` | 186 274 | is no request forgotten, and all served, in turns? | holds, with a crash and a restart of each management; except behind the earlier boot of a management that is back (6.1) |
| `zone_lock_faults` | 849 268 | what is left when heartbeats are missed and the database fails once | a lease with epochs; two in the zone only if one lapsed |
| `zone_locks` | 35 714 | do five jobs over three zones keep apart, and end? | no job in a zone of another, and each zone is used as `ZoneTurns` allows, but for zones that a global release gave away (7); circles are of global and sorted jobs together (6.3), and every job outside of one ends |
| `target_updates` | 890 078 | is what TOMA hears of a zone true, and complete? | holds, with one crash, failed send or deletion of a pending target; see 7 for what heals no more |
| `kafka_offsets` | 1 001 334 | is a message lost? | no offset is committed over one that nobody handled, with two faults of four kinds |
| `kafka_throttle` | 148 643 | does the throttle cap the load, and end? | holds, with two faults of four kinds, up to what the code leaves for ever (7) |
| `kafka_recycle` | 287 702 | is there one consumer, and does it consume the last topics? | holds, with three faults of four kinds, unless a request is ignored for a consumer that does not consume (6.7, 7) |
| `agent_keepalive` | 468 705 | does the status follow the agent? | holds, with two faults of five kinds |
| `sanity` | 1 874 487 | do runs respect each other, and living creators? | holds, with two faults of four kinds |
| `sanity_liveness` | 547 468 | is what a dead boot left removed? | holds, with two crashes |
| `volume_status` | 167 459 | do the newest report and the segments win? | holds, with one event of four kinds |
| `encryption_command` | 214 401 | is there one command at a time, and told truly? | holds, but for the named exception of 6.8, with two faults of five kinds |

Every bound is a constant in a `.cfg`:

- **Two managements** where managements meet. All interactions are pairwise, by
  way of one document or one partition; with two, each can be holder, waiter,
  thief, dead and back. Where a theorem is proved (5) no bound is needed.
- `Req`: three requests in `m1` and one in `m2` fill the queue, reach the timer
  (`ReleaseLimit = 2`: the second release in a row defers), and let a new
  request slip in between; with missed heartbeats two and one.
- `MaxBoot = 2`: one crash and one restart of each management, so that an
  earlier boot can be named by the document. `MaxErrors = 1`: one database error,
  at any call.
- `ZoneLocks`: zones "9", "10" and "11", so that the two orders differ, and one
  of them is new to `m1`; jobs over {9, 11}, {9, 10, 11} and {11}, whose Sets
  have different orders, and a global job in each management: enough for two
  jobs in the queue of one zone, for a circle of global and sorted jobs (and one
  of sorted jobs if they did not sort), and for a global job that releases the
  zone in which another works. The last two do happen in the run.
- `TargetUpdates`: two targets set by one call, one of them deleted by another,
  and the recovery: three handlers can meet in one zone, each with an update
  of another one to finish. One event (`MaxEvents = 1`): a second crash would meet
  only a recovery that starts anew. The theorem has no such bound.
- `KafkaOffsets`: three messages, so that a gap has finished messages before and
  behind it; one of them is garbage (`MCGarbage`). Two commits of a management
  in flight (`Slot`), which the code can have and no more matter. The cap
  (5000 in the code) is 3 where it must not interfere and 1 in `KafkaThrottle`,
  where one management suffices: the throttle is local.
- `KafkaRecycle`: two topics, the first known at the start, and `MaxChanges = 3`, so
  that topics are added and deprecated during a recycle, and one changes there and
  back while a consumer that has not seen it starts. Three faults and the
  changes use up fewer consumers than `MaxId` allows: it never stops a recycle.
- `MaxFaults = 2` in `SanityAndRecover`: one fault during the recovery from
  another. One entity: the removal goes through them one by one, and their
  documents do not interact. An entity is created once.
- `AgentKeepalive`: sequence numbers to 2 (an older and a newer message), one
  keepalive on the topic and one to be logged per management (with the
  redelivery and the two writes this gives a message handled twice and one
  logged late), every fault once and two in a behaviour. One of the managements
  is assigned the partition: partitions move when a consumer dies, and the
  fault that moves them also stops its handler.
- `VolumeStatus`: a mirror that loses a segment and whose other one then goes
  down with the status it has, and a pRaid of one segment that is rebuilt: two
  reports that can be reordered and differ in a segment's vitality alone, and
  two that are calculated together. Three reports keep two managements busy at once.
- `EncryptionCommand`: two requests of the same kind and one of another are what
  can be in conflict in pairs, with a third command to be overtaken.
- Symmetry of managements is used where there are safety and action properties
  only (`kafka_offsets`, `sanity`), never with liveness.

`CHECK_DEADLOCK FALSE` in all: requests are made once, entities are created
once, reports end and faults run out, so that behaviours really end. That
nothing *waits* at the end is what the liveness properties and `NoLostWakeup`
state.

Each property has a *mutant* in `PROJECT.json`: a definition that models code,
changed the way a bug might change it, under which the run finds the property
violated.

## 4. Fairness

- A call to the database returns, and a timer fires, in a process that runs:
  weak fairness of the steps of each request, job, poll or loop. Weak is
  enough, since no other process disables such a step for ever.
- Callers of a lock release it in their epilogue (`ReleaseLock`, `Step` of
  `ZoneLocks`). A caller that forgets is a different question: none is modelled.
- Heartbeats of a stopped process grow too old; time-outs expire.
- Kafka delivers what is in a topic to the consumer that is assigned it, assigns
  the partition to a member of the group, answers a commit, and answers a
  connect and a disconnect one way or the other. Nothing is assumed of the
  order of commits in flight.
- A process that consumes a partition and stopped is started again
  (`KafkaOffsets`); elsewhere a stopped process may never come back. In
  particular a zone lock is taken over from a management that stays down.
- The recovery runs after a crash, and after a message that could not be sent
  (`toggleForceSanityAndRecover`, `kafka.js:319-343`): `WF` of `RecoveryStep`.
- The agent of `AgentKeepalive` sends as long as it runs, and takes its token;
  TOMA executes the commands it gets, and answers.
- Nothing is assumed of users and faults: a lock, a command or a zone need not
  be asked for.

Keepalive intervals are shorter than time-outs, except that one keepalive may be
late (`"late"` in `Faults`); the creation of a client takes less than a
time-out; `MANAGEMENT_TIMED_OUT_INTERVAL` is longer than `connectTimeoutMS`,
as in the default configuration.

## 5. What is proved

For every value of the constants that the assumptions of the modules allow: no
bound on managements, requests, zones, jobs, messages, targets or faults. The
theorems are about the `Spec` of each module; those of the zone lock are about
`FaultSpec`, in which every call to the database may fail, but for the three that
errors do break (`LockIsExclusive`, `NoWakeupIsLost`, `LockTakesTurns`).

| Module | Theorem | States | Run |
|---|---|---|---|
| `ZoneLockProofs` | `TypeCorrect` | `[]TypeOK` | `zone_lock` |
| | `LeaseIsExclusive` | `[]ExclusiveUnlessLapsed` | `zone_lock_faults` |
| | `SectionIsHeld` | `[]SectionHoldsLock` | `zone_lock_faults` |
| | `ManagementIsSerial` | `[]SerialInManagement` | `zone_lock_faults` |
| | `LockIsExclusive` | `[]MutualExclusion`: without missed heartbeats one request at a time | - |
| | `NoWakeupIsLost` | `[]NoLostWakeup` | `zone_lock` |
| | `StealsOnlyLapsed` | `StealOnlyFromDead`: a held lock is taken from a lapsed holder only | - |
| | `LockImplementsLease` | `ImplementsLease` | `zone_lock_faults` |
| | `LockTakesTurns` | `ImplementsTurns` | `zone_lock` |
| `ZoneLocksProofs` | `TypeCorrect` | `[]TypeOK` | - |
| | `JobsAreApart`, `CirclesAreOfBoth`, `JobsUseLocks` | `[]ZoneHasOneJob`, `[]CirclesAreMixed`, `UsesLocks` | `zone_locks` |
| `TargetUpdatesProofs` | `TypeCorrect`, `TruthIsSent`, `NoUpdateLost` | `[]TypeOK`, `[]MessagesAreTrue`, `[]NoUpdateIsLost` | `target_updates` |
| `KafkaProofs` | `TypeCorrect` | `[]TypeOK` | - |
| | `NoMessageLost` | `[]CommittedIsHandled` | `kafka_offsets` |
| | `LoadStaysCapped` | `[]LoadIsCapped` | `kafka_throttle` |
| | `RecycleTypeCorrect` | `[]RecycleTypeOK` | - |
| | `NoZombieConsumer` | `[]ConsumerIsCurrent` | `kafka_recycle` |
| `AgentKeepaliveProofs` | `TypeCorrect`, `LateIsIgnored` | `[]TypeOK`, `LateKeepaliveIgnored` | `agent_keepalive` |
| `SanityAndRecoverProofs` | `TypeCorrect`, `RunIsHandled`, `OnlyStaleIsRemoved` | `[]TypeOK`, `[]HandledByRunner`, `RemovesOnlyStale` | `sanity` |
| `VolumeStatusProofs` | `TypeCorrect`, `SegmentsFollowReports`, `NewestReportWins`, `QuietVolumeIsSettled` | `[]TypeOK`, `[]SegmentsAreOfLatest`, `[]NewestWins`, `[]SettledWhenQuiet` | `volume_status` |
| `EncryptionCommandProofs` | `TypeCorrect`, `NoParallelCommands`, `TruthIsTold` | `[]TypeOK`, `[]OneCommandAtATime`, `[]VolumeTellsTruth` | `encryption_command` |

Every invariant and every action property that a run checks is stated by a
theorem.

### The zone lock

Exclusion is not inductive: that a second request cannot pass the compare and
swap depends on what it read, on who has lapsed since, and on the first being
the only one of its management. The inductive invariant `IInv` is

- `TypeOK`, and `SerialInManagement`: one request at work per management;
- `QueueInv`: the queue holds waiting requests of its own management, each
  once, so that a dequeued request was not at work already;
- `UpInv`: only running processes work;
- `DocInv`: a locked document names a management, whose counter is in `lapsed`
  unless that boot runs and beats;
- `ReadInv`: what a request read is not newer than the document, and if the
  counter has not changed, the holder has not either. The exception is the first
  counter: after an insertion that failed a request goes on as if it had read a
  document that is not there. A request that is about to
  update a held lock has a lapsed holder: this is why the stale answer of
  `CheckAlive` does no harm, the counter would have moved;
- `TicketInv`: who is in the zone holds the lock or lapsed;
- `StallInv`: without missed heartbeats and errors nobody in the zone has lapsed.

`InitInv` and `InductiveStep` prove it, one step per action, with one lemma per
action for the queue and the flags (`...Memory`) and one for the document and
the readings (`...Data`). The theorems then follow: two requests in the zone that
have not lapsed would both hold the one counter, hence have the same management
and be the same. `StealOnlyFromDead` follows from `ReadInv` at `CreateLock`.

`NoLostWakeup` needs the converse of `QueueInv`, and who is to wake the queue
(`WakeInv`): a queued request is in the queue of its management; while the flag is
set somebody is at work; while the queue is not empty somebody is at work or
behind the timer of `releaseLock`. With database errors it is false: a caller
that gives up after a failed acquire (`GiveUp`) leaves the flag set and nobody at
work, and who is queued stays there.

The refinement needs one more fact, `OwnTicketInv`: while a request is in the
zone, its management has the lock exactly as long as the counter is that of the
request. A release asks for the management only, so without it a `Leave` could
free the lease of a successor. With it every action is a step of the lease:
`CreateLock` that finds its counter is `Enter`, `ReleaseLock` is `Leave`, a
crash is `Vanish` of the management's requests, a heartbeat that expires is
`Silence`, and everything else (`Quiet`, and the insertion of the document)
changes nothing the lease knows of.

### Several zones

`ZoneHasOneJob` says that no zone is taken for locked by two jobs, but a stray
one. The document of a zone names a management only (`HolderAt`), so between the
jobs of one management it is the flag that keeps them apart: whoever *uses* the
lock of a zone, from its question for the document until the callback of its
release, has set the flag (`FlagAt`) and is the only one (`SerialAt`). `LockInv`
says these three of every zone that is not stray. A job that is dequeued takes
the flag over from the one that released, for which `QueueInv` is needed: it
waits for that zone, and is in the queue once. What a job over zones has is what
it set out to lock less what it has still to do, and what it releases is what it
has (`PlanInv`). A global job may know more zones by the time it releases: the
zone is stray from then on (`GivesAway`), and stays so while anybody uses its
lock. When nobody does, the three hold of it again for want of anyone they
speak of (`LockStep`), whatever the flag and the document say: at worst the flag
is down and the next one to ask sets it.

`CirclesAreMixed` has an induction over nothing but numbers behind it. What a job
has comes before what it waits for in its own order (`PlanInv`). In a circle of
jobs of one kind each waits for a zone that another has, whose own next zone
comes later in the same order; a finite set of jobs has one whose next zone comes
last (`Greatest`, by the well-foundedness of the natural numbers), and nobody
can have that. It needs nothing of flags or documents, so stray zones are no
exception. That the first zone in an order exists is `FirstIn`, of the same kind.

### Why the locks of several zones may be reduced

`ZoneLocks` has of each lock a holder, a flag and a queue. That this is what a
lock is like, and that the jobs keep to its rules, are two theorems about the
same abstract module. `LockTakesTurns`: every step of `ZoneLock` is a step of
`ZoneTurns` or none of it. A request that asks, retries and compares is
"asking" throughout; when its compare and swap finds the document as it was, it
takes a lock that is free or overdue, and this is `ReadInv` again; a release
frees what its management still holds; the callback gives the flag to the first
of the queue, who is not at work by `QueueInv`. It does not hold under database
errors, for the reason given above: `GiveUp` leaves without passing the turn on.

`JobsUseLocks`: every step of `ZoneLocks`, seen from one zone, is a step of
`ZoneTurns` or none of it. A job that takes one zone asks for the next in the
same step, which is `Take` for the one and `Ask` for the other. The part that
could go wrong is the release: a job gives back, zone after zone, what `ToRelease`
says, and each must be one that it is "in". By `PlanInv` it is, for a job over
zones; a global job that releases a zone it does not have makes it stray, and the
theorem leaves the zone out until nobody uses its lock (`ReleasesOwn`). By
`HolderAt` the management holds it, so that the release does free it. The job that is dequeued is "queued" in this zone (`QueueInv`), and
out of every zone that it does not have.

So what a job waits for in `ZoneLocks` is what a request of `ZoneLock` waits for.
`ZoneLock` has behaviours that `ZoneLocks` leaves out, crashes and takeovers:
these are steps of `ZoneTurns` which no job takes.

### The targets of a zone

`MessagesAreTrue` speaks of messages that are sent; what makes it true is what
handlers know before they send. `IInv` of `TargetUpdatesProofs` is `Typed` (the types of all
but the history `dropped`),
`AddedInv` (an update to add a target that was written found it in the set, so
that the count without it is never negative), and, unless the recovery
overwrote the set (`Overwritten`), `TrueInv`:

- `LogInv`: the zone's number is the length of the log, its set the last one of
  the log, and each update did change the set;
- `LastInv`: the update that is left in the zone is the last one of the log;
- `HandlerTrue`: the number and the set that a handler read, or wrote, belong
  together in the log. Here the compare and swap over the number matters: what
  a handler writes continues the very entry that it read;
- `TopicInv`: messages are true, and stay so, since the log only grows.

`NoUpdateIsLost` says where each number of the log is: told to TOMA, or left in
the zone, or cleared by the handler of another update. In the last case its own
handler is still to tell it, or ended before; then the target of an addition is
to be told by the recovery, or was removed or deleted. For a removal there is
nothing of the kind in the code, and the property says so: once its record is
cleared (`zone.js:372`) and its handler has ended, TOMA is never told of it (see
7). `FairInv` has the history of it (`Accounted`,
`Repeated`) and what makes the steps keep it: a handler that is about to change
the zone read it without an update that is left, so that it overwrites none; one
that tells or clears an update has told it first, or is at its number
(`HandlersFair`); a target in a zone has its message still required, or in the topic
(`ServersFair`); a target leaves the zone's set by a removal that the log has
(`LeavesByRemoval`), unless the recovery overwrote the set. `ToldInv` follows
the handlers of updates that were not told (`Pursued`): each has a handler that
is about to send it, or is in `dropped`. It needs that no handler is overwritten
at work: those of a job start once, and those of the recovery when none of them
is at work (`NotStarted`).

The proof failed at first, for a good reason: an earlier form of the property
held with one event and is false with more, when a deletion overtakes the
handler of an addition. It is restated over the history `cleared`, and with
`RemovedBefore`.

### Consumption

`CommittedIsHandled` needs to know what registries say (`RegSafe`: "done" was
handled, and so was an offset that is missing below one that is there), what
commits in flight say (`CommitSafe`), and that what was delivered is in the
registry or was handled (`PositionSafe`). The streak that `commitOffsets` takes
starts at the lowest offset of a registry which may be stale by a rebalance or
two: `RegSafe` says that this does no harm. The order of commits in flight does
not matter: each one alone is safe.

`LoadIsCapped` is about three things that may drift apart: the handlers that
work, the number that is counted, and the hold of the consumer. `CappedAt` says
that what works is counted (`messagesInProcess` may be too high, never too low),
that the consumer is held exactly when the flag says paused, and that an unheld
consumer finds at most `MaxInProcess` handlers, and one more for each recycled
consumer, whose successor starts unpaused. Once kafkajs forgot a pause none of
this is left but the count, and the property claims nothing.

For `KafkaRecycle` the addition is `NoneWhileInit`: while a consumer is being
started no other one consumes. It holds because a failed disconnect ends the
recycle.

### The keepalive of an agent

A DOWN agent comes UP by `HandleKeepalive` only, which asks for the client's
token. The invariant `TokenInv` says that no token anywhere - the agent's, those
of keepalives in the topic, those of updates on their way - is ahead of the
client's, and that the token of a late keepalive is behind. It depends on how
the client comes to its first token, which is 1, or that of a keepalive of an
agent that had a client document before: `NoClientInv` says what tokens there
are before there is a client, and `HandlingInv` that the keepalive that is
handled is still the first of the topic, and has a token when the status is
asked for. The theorem is about agents that `Init` allows: one that comes with
the token of an earlier client document comes with 1.

### The recovery

`HandledByRunner` alone is not inductive: a management that takes the run gives
the document a new version, and the others stop being its runner only if none of
them has that version already. `VersionInv`, that a run has the version of the
document or an earlier one, closes it. Most actions neither change the document
nor begin a run (`QuietStep`); what is left is `Acquire` and `ReleaseLock`,
which both compare with the document in the step that writes it.

`RemovesOnlyStale` spans several steps of one recovery, with the crash, the
restart, the silence or the deletion of the creator in between. `RInv` says of what
a run has found that it was stale when it was categorised (`FoundInv`), and
staleness is stable: boots and lapses only grow (`ProcessesGrow`). The steps
that establish it read `managementCluster`, which names the wrong thing while a
management starts: `NewBootInv` (a starting process has created nothing yet
under its boot) and `AbsentInv` (who serves and is not in the cluster, or not
fresh, has lapsed) are why an absent or silent creator is rightly taken for one
that is over.

### The status of a volume

Two invariants. `SegmentsInv`, the property itself with the types: each segment
is or is about to be in the status of the last stored report, without any
hypothesis on the reports. A calculation compares the pending *statuses* when it
writes and not the vitality (`isDead`), which it writes as well: so the status
is always that of the last report, and the vitality unless the segment is one of
`overwritten` (section 7). `OrderInv`: the stored version is that of the report
with the highest place so far (`RankIsOfLatest`), and what is worked at was
stored (`WorkIsOld`); `NewestReportWins` has the hypothesis `SentInOrder`, that
TOMA's versions grow as it sends; `MCVolumeStatus` asserts it of the reports of
the run.

`SettledWhenQuiet` says that a volume on which nobody works has no pending status,
and the status and action that its segments call for. `SettledInv` is about who is
still to calculate. A calculation that has not read the volume, or has to read
it again, will see everything (`Ahead`); one that is reading is as good for a
pRaid as long as no report changed the segments that it read (`SameAt`). While a
pRaid has pending statuses, or a calculation is about to write what it read
before a change, the *last* report of that pRaid is ahead, or held by a
calculation that read its result, or comes again after a crash (`Covered`); the
same holds of the last command (`CommandCovered`), of which there is one at a
time (`CommandInv`). When nobody works nothing covers, so nothing is open.

The proof attempt corrected this property too. A report that was stored by a
management that crashed comes again, and is skipped if the stored version is its
own and it would change nothing. An earlier version of the property took every
such report for an exception; now only one that would change nothing is one
(`"report"` in `missed`, by the history `lost`), and `VersionInv` proves
that any other is taken up. A code that skipped every report it knows would
break the property.

### Encryption commands

`CommandInv`: unless a response of an earlier command was once taken for the
current one (`"old" \in missed`), the request in progress is the one whose index
the volume has (`InProgressIsCurrent`), alone (`Alone`), what TOMA has to execute
is that command (`TopicIsCurrent`), and what was answered is neither (`AnswersAreOld`,
`SentOnce`). This one does not hold once the exception was taken, and the
property claims nothing from then on.

`TruthInv` holds throughout. What a user saw is an old command or has a response
(`SeenAreOld`), which is why a late acknowledgement does no harm. An executed
command always has the response of the last message that was recorded
(`ExecutedIsLast`), which is at most the volume's own (`LastIsOld`): it is
either the command's, or that of an earlier one, and then the command is not yet
recorded as sent (`TakenForNewer`). That the volume is initialized only after an
initialization rests on `AskedInv`: what TOMA has, and answered, is the command
of some request, and nobody was asked for a passphrase before the volume was
initialized (`PassphraseAfterInit`), so the first success is that of an `INIT`.

### Only model-checked

Liveness (the prover does not handle `ENABLED`): `ServedUnlessOldBoot`,
`EveryJobEnds`, `EveryTargetIsTold`, `EveryMessageHandled`, `DoneIsCommitted`,
`BootCompletes`, `TopicsAreConsumed`, `SilentAgentGoesDown`,
`LiveAgentComesUp`, `StaleEntityRemoved`, `EveryReportEnds`, `CommandSettles`.

## 6. Where the code and what is said of it disagree

Read in the code while it was modelled. The properties of the runs are stated so
that they hold in spite of these, and each exception they name is one of these
or of section 7.

1. **An earlier boot keeps the lock** (`lock.js:152`). A waiter asks whether the
   *management* of the holder beats, not whether the boot that took the lock
   still runs. After a restart within the time-out the lock of the earlier boot
   looks alive to the other managements, until the restarted one asks for this
   very zone. `test/testZoneLocking.js:124` expects the lock of a dead management
   to be released. `ServedUnlessOldBoot` names the case.
2. **Deleting a zone restarts its counter** (`lock.js:83`): a request that read
   the earlier document passes the compare and swap against a new one that is
   held. Deletion is not in the model.
3. **Two lock orders** (`lock.js:498`, against the comment at `:363`). Zones are
   sorted as strings in one place, and in the order of `Object.keys` in another,
   which differs for ids like `"9"` and `"10"`: a global job and one that sorts
   wait for each other for ever. The run has such ids, and the circle;
   `CirclesAreMixed` says that this is the only kind, and `EveryJobEnds` leaves
   out the jobs in it.
4. **`expandZoneLocks` releases** (`lock.js:428`) where its callers expect it to
   acquire. It is not in the model.
5. **Two recoveries at once** (`sanityAndRecover.js:90`). When the handler of the
   current run is alive, the query of `tryToAcquireLock` gets no condition on
   it: a forced run, or the next change of the cluster, starts beside it.
   `RemovesOnlyStale` holds all the same.
6. **A dead agent stays UP** (`client.js:4041`). The first keepalive is logged
   under token -1, the client it creates has token 1: the time-out looks for a
   client with token -1, finds none, and is marked as handled.
   `test/testAgentKafka.js:69` expects DOWN. `SilentAgentGoesDown` leaves
   out an agent that died after its first keepalive.
7. **A stopped consumer is not replaced** (`kafka.js:1268`, `:1291`). A recycle
   that failed is put off ("will retry..."); when its time comes it finds the
   mark that it left itself, takes it for a recycle in progress, and does
   nothing. So does the request of a crash within the cool-down. If the recycle
   served a request that was folded into it, the retry finds a consumer newer than
   the one it asked for (`:1257`), which that very recycle disconnected. The
   management then consumes nothing until somebody asks again with another
   id or other topics. `TopicsAreConsumed` names all this (`ignored`), and the
   run has it.
8. **A late response marks a new command executed** (`volumeEncryption.js:320`).
   A response of the last command that comes again between
   `setEncryptionCommand` and `updateLastCommandSent` of the next one has the
   index that is compared with, so the new command counts as executed.
   `test/testVolumeEncryption.js` ("on TOMA old command index - should handle
   fail") expects the opposite. `VolumeTellsTruth` names the state this leads
   to (`TakenForNewer`); `OneCommandAtATime` and `CommandSettles` claim nothing
   after it (`"old" \in missed`).
9. **"We will handle this target first, then retry for the original target"**
   (`zone.js:285-286`) does not hold when the target of the left update was
   deleted: see the first of the observations on targets.

## 7. Observations

Further behaviour of the code that a maintainer may want to know of. Where a
model has it, a property names it as an exception.

Locks and recovery:

- `releaseGlobalLock` looks the zones up again (`lock.js:471`): zones that
  became known since are released without having been acquired, though another
  job may work in them. Such a zone is `stray` in `ZoneHasOneJob` and
  `UsesLocks`; that two jobs then are in it does happen in the run.
- `execPerZone` knows the zones of this process only (`lock.js:495`); what others
  created since its start is not covered by its global lock.
- `acquireLockByZones` releases, on an error, zones it never acquired
  (`lock.js:372`); `acquireLockByPRaids` passes an `Array` to a function that
  asks for `size` (`lock.js:413`), and so releases nothing.
- `disk.js:973` and `target.js:424` ignore the error of an acquire and go on, and
  release what they do not hold. This is `ReleaseFailed`.
- `releaseLock` reads `modifiedCount` of an undefined result on an error
  (`lock.js:183`): the process ends. This is `ReleaseLockError`.
- `forceDeleteVolume` releases its lock only if the id of the zone is a positive
  number (`utils.js:4244`), and also if it did not get the lock.
- `deleteManagementFromClusterDoc` builds a path from an id with dots
  (`managementCluster.js:49`), so that nothing is removed. If it were, boot
  versions would start at 1 again, and the comparison of boots would fail.
- If a creator crashes once more between the `deleteMany` and the upsert of its
  start, the run for that state spares what it created a moment ago, and no other run
  follows until the cluster changes. `StaleEntityRemoved` leaves this case out.
- `afterAllocationSucceeded` finishes a volume by its name (`utils.js:2875`): if a
  recovery removed it and the name was used again, it writes over the new one.

Targets of a zone:

- When the message of a deletion cannot be sent, or `setZone` runs while a
  pending target is deleted, the document of the target is gone and
  `lastTargetUpdate` stays: every later handler in that zone finds no document,
  throws, and ends its process. This is `"thrown"` in `missed`.
- `retryFlowForOriginalTargetIfNeeded` compares the targets and not the types of
  the updates (`zone.js:401-402`): a deletion that first finished the addition of
  the same target takes itself for done.
- `clearLastTargetUpdateInLock` clears whatever is there, also the record of a
  handler that came later. When that one then ends before its message, TOMA is
  not told of a removal; an addition is made again by the recovery. This is the
  last case of `NoUpdateIsLost`.
- `checkForZonesCounters` retries without a delay and for ever while
  `lastTargetUpdate` is there (`sanityAndRecover.js:1610`, `:1627`, `:1644`), and
  so keeps `checkForTargetAddition`, which would clear it, from running.
  `EveryTargetIsTold` names this.
- It may also put back a target that was removed between its two reads, and
  overwrites the set without a new number (`"repair"` in `missed`).
- `checkForTargetAddition` adds again a target whose deletion is in progress.
- The deletion of a target that had no zone holds no lock and races with
  `setZone`.
- `checkForTargetsDeletion` (`sanityAndRecover.js:1456`) passes ids where
  `deleteTargets` expects objects, and its `if (errorMessages)` is always true.
- A repeated announcement carries the number of the zone at that time, which may
  be that of an update of another target, with another count.

Kafka:

- A message whose handler failed stays unfinished in the registry and blocks all
  later commits of the process. `DoneIsCommitted` names it.
- When `routeMessage` throws, `messagesInProcess` is not counted down: a few of
  these keep the consumer paused (`Leaked`).
- Two commits may be in flight and be applied in either order, so that the
  committed offset goes back; a refused commit is not tried again by itself.
- kafkajs restarts a consumer by itself, unpaused; the flag still says paused.
- The registry survives a rebalance: entries of an earlier assignment make
  commits of offsets behind the group's. They are safe (`NoMessageLost`).
- A topic that changes, and changes back, while a new consumer starts leaves it
  with a subscription that is not the last one: the second request compares the
  topics with those of the consumer that is being replaced, and is ignored. This
  is `ignored` in `TopicsAreConsumed` too.

Keepalives:

- `recoverStaleHandlings` returns without calling back when the owner of a stale
  claim is alive (`lastMessageLog.js:321`): this management's loop never
  runs again. The model has it (`"stuck"`); `SilentAgentGoesDown` asks for one
  management whose loop goes on.
- `resendAgentTokenIfNeeded` compares `clientToken`, which its projection
  leaves out (`client.js:4208`): an agent whose token is higher than the
  database's, as after a restored backup, is never told another.
- A keepalive that was handled but not logged when its management stopped leaves
  an agent UP of which no log document tells. This is `~Logged`.

Volumes:

- A calculation that leaves the action as it is may overwrite the status that a
  later one wrote: the query of the update does not compare the status. This is
  `"stale"`.
- Nor does it compare `isDead` (`volume.js:1450`), which the update sets
  (`:1479`), though `StatusChanges` (`:969-973`) cares for a segment that is normal
  and dead: a report that changes nothing but the vitality of a segment, and
  comes between the read and the update of a calculation of an earlier one, is
  lost. The run has it; these segments are `overwritten` in
  `SegmentsAreOfLatest`.
- A crash after a report was stored and before its calculation: the report comes
  again, is skipped when it would change nothing (a report of one segment), and
  the pending statuses wait for another report.
- A database error acknowledges the report all the same.
- A crash between an encryption command, or its response, and the calculation
  leaves the volume's action as it was.
- Reports with deprecated segments write the whole chunk over the pending
  statuses (`volume.js:2014-2032`), and `handleWithoutDeprecations` goes
  through them too. They are not modelled.

Encryption:

- A response that comes before `updateLastCommandSent` is dropped, and the
  command stays sent for ever.
- A crash or a failed send leaves the command pending for ever:
  `resendStaleEncryptionCommands` asks for `encryption.commandStatus` and
  `encryption.commandIndex`, which no document has (`volumeEncryption.js:117`).
- What `INIT` verified is stale when `setEncryptionCommand` writes: a volume may
  be initialized twice, in spite of `ENCRYPTION_ALREADY_INITIALIZED`
  (`systemMessages.js:2658`).

## 8. What is not modelled

The table of section 1 and `"components"` in `PROJECT.json` say for each part
whether it is modelled, partly or not at all. The repository has some 93 000 lines;
the modules stand for about 3 700 of them, those in which several processes
meet. The rest is mostly documents that are created, read, updated and
deleted by one request at a time, validation, the web interface, scripts, and
entities whose lifecycle passes through the protocols modelled here. Left out
within the modelled parts:

- Zone lock: deletion of a zone, `expandZoneLocks`, `acquireLockByVPG`, and how
  allocation chooses a zone; they end in the modelled acquire.
- `SanityAndRecover`: the recovery passes other than that of pending volumes
  and, in `TargetUpdates`, of targets: pending upgrades, snapshots, extensions
  and deletions have the same categorisation, and their own effects belong to
  the modules of those entities.
- The zone lock inside a removal (`SanityAndRecover`), jobs whose acquire fails
  (`ZoneLocks`), the lock's own calls (`TargetUpdates`): composing them with
  `ZoneLock`'s states is out of TLC's reach. For `ZoneLocks` the abstract module
  `ZoneTurns` stands between the two; the others take what `ZoneLock` shows.
- `TargetUpdates`: one zone, which is never deleted and has its leader's topics
  (`createZoneTopics` does not fail); `segmentsInZone`, the dispatch of hardware
  configurations and the checks of drives before a deletion; a deleted target
  does not come back.
- `KafkaOffsets` and `KafkaRecycle`: the producer, topics and their access lists,
  the validation of messages. One partition, since the registry has one entry
  per partition and they meet only in the count of the throttle. `pause` and
  `resume` of kafkajs succeed: what `pauseConsumer` and `resumeConsumer` do when
  they throw (`kafka.js:960-963`, `:982-994`: the error handler, and a new attempt
  to resume after 5 seconds) is left out. A crash takes the commits in flight of
  the process with it; one that arrives after the crash is not modelled. It
  would be one that `CommitSafe` already knows of.
- `AgentKeepalive`: TOMA, leaders, clients and upgrade agents as components of
  `lastMessageLog`; a change of the keepalive interval, and of the
  compatibility version of an agent. A management handles one keepalive to its
  end before it takes the next, where the code does not wait
  (`kafka.js:1078` calls `routeMessage` without `await`): what overlaps in one
  process is only shown to be safe as far as keepalives that are handled late,
  or by different managements, are.
- `VolumeStatus`: one volume; a report is of one pRaid, segments are normal, dead,
  under recovery or booting; no persistent or remapped statuses, no snapshots.
  The callback after a report was stored and the start of its calculation are
  one step. So are the update of the document by an encryption command
  (`volumeEncryption.js:390-399`) and the callback that enters a calculation
  (`volume.js:1372`): whether one is in progress is tested when the document is
  written. The states in between are ones in which the calculation at work is
  behind, which `stale` excuses anyhow.
- `EncryptionCommand`: the choice of a TOMA, keys and certificates, cryptography.
  One volume.
- Allocation, drives, upgrades, profiles, attachments: see the plan.
- Users, settings, catalogue, interface, scripts, logging: documents and
  input and output, no protocol.

MongoDB is taken at its word: a call on one document is atomic, acknowledged
writes stay.

## 9. Plan

What is left, by how much depends on it and how little of it a test reaches:

1. **`Reservations`** (`client.js` attach and detach, `volume.js:517-710`):
   modes, versions and preemption; exclusive means exclusive.
2. **`UpgradeScheduler`** (`upgrade.js:486-540`, `:922`): its lock, steps, retries and
   restarts.
3. **`Allocation`** (`utils.js:1030-1120`, `:2338-2900`): free ranges and segments as
   functions against a reference definition; rollback.
4. **`ZoneLeader`** (`zone.js`): ranking and tokens of a leader, its time-out
   through `lastMessageLog`. Abstract: one leader per term.
5. **`TargetReports`** (`target.js:99-237`): the queue of reports per process.
6. Profiles, drives, extension and deletion of volumes, as far as they have
   protocols.

Theorems, next: abstract specifications of the other components, and that the
modules implement them, as `ZoneLock` implements `ZoneLease`: a log of which a
prefix is committed (`KafkaOffsets`), a set of which only stale members are
removed (`SanityAndRecover`), one command slot per volume (`EncryptionCommand`);
what is left of the zone lock's wake-ups under database errors.
