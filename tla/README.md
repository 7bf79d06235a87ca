# Sentry USB: a verification project

Sentry USB turns a Raspberry Pi into the USB drive that a Tesla records its
dashcam footage on.  The car writes to a disk image; the Pi takes copy-on-write
snapshots of it, publishes the clips of every snapshot through a farm of
symbolic links, archives and uploads them, and releases old snapshots when
space runs out.  The car cuts the power whenever it likes.

This directory holds TLA+ models of that program, the TLC configurations that
check them on small instances, and TLAPS proofs of their main theorems.  All
paths below are relative to `src/`.

## Inventory

| Part | Source | State | Operations | What is hard | What makes it correct |
|---|---|---|---|---|---|
| Snapshot store and link farm | `crates/usb_gadget/src/snapshot.rs` | snapshot directories (image, TOC, markers) on `/backingfiles`; links on `/mutable`; per-boot notes in `/tmp` | take, relink, rebuild, release, sweep | stops and power cuts between steps; two file systems that lose different things | no clip forgotten, no link astray, no last copy lost |
| Boot-time TOC rebuild | `run/archiveloop` 483-634 | the same files, plus a failure count | once per boot, one snapshot | picks before it locks | as above |
| Free-space manager | `crates/usb_gadget/src/space.rs` | stall latch in `/run` | measure, release, measure again | an unreliable clock, counts that others change, a retrying caller | newest footage stays, no needless eviction, verdicts last |
| Free-space loop | `run/archiveloop` 2973-3099 | status file | test pressure every 30 s, call the manager, report | its tests mirror the manager's | pressure is answered, latch cleared |
| USB gadget, cycle lock | `crates/usb_gadget/src/lib.rs`, `cycle_lock.rs` | configfs gadget, flock | enable, disable, bind with retries | several programs disable, work and enable | car and Pi never both write |
| Archive loop, stall watchdog | `run/archiveloop` | flags in `/tmp`, mounts | disconnect, archive, reconnect | stale state, recoveries, cooldowns | the drive always comes back |
| Archive control | `crates/drives/src/archive_control.rs`, `archive_mount_lock.rs` | cancel request, owner of the mount | request, observe, release | a cancel racing an end | no cancel lost or left over |
| Cloud sync | `crates/cloud_uploader/src/sync/*`, `charges.rs`, `charge_deletes.rs` | staged intents in SQLite, server revisions | stage, publish conditionally, recover, retire, delete | lost answers, other editors, late uploads | each edit applied once, none reverted |
| Drive database | `crates/drives/src/*` | SQLite | import, group, edit | numeric grouping, migrations | its queues are in `RateSync` and `ChargeSweep`, the rest is outside |
| Cloud pairing | `crates/cloud_uploader/src/pairing.rs`, `state.rs`, `rekey.rs` | credentials in memory and on disk, the attempt | pair, cancel, unpair, rotate, revoke | answers to older credentials | an ended pairing stays ended |
| Preferences journal | `crates/api/src/preferences_journal.rs` | SQLite row and JSON file | publish, confirm, recover | a stop between the two | they agree after recovery |
| Push retry | `crates/api/src/push_retry.rs` | queue, worker flag | fail, retry, deliver | a newer push during a retry | never twice, never stale over new |
| Updates | `crates/api/src/update_attempt.rs`, `auto_update*.rs` | attempt file | begin, save, verify | reboots in every phase | an install is never replayed |
| TTL and size caches | `crates/api/src/ttl_cache.rs`, `reflink.rs` | entries, generation | compute, store, clear | a store after a clear | no value older than a clear |
| Keep-awake, away mode | `crates/api/src/keep_awake.rs`, `away_mode.rs` | state, epoch, nudge | start, stop, expire | work after the lock is dropped | a stopped nudge stays stopped |
| BLE radio lock | `crates/tesla_telemetry/src/lock.rs` | lock file | acquire, refresh, reclaim | check and write are two steps | one owner |
| The rest | LED, BLE, setup, web, disk reader, notify, config, shell, ws | little or none | I/O and presentation | - | - |

The parts meet in the file system rather than in calls: the snapshot producer,
the TOC rebuild, the releases and the sweep share one `flock` on the snapshots
directory; the manager calls the release under the same lock and leaves its
latch for the loop and for the web API; the daemon starts the sweep a minute
after boot; a setup re-run asks for a rebuild with a flag file.  The archive
loop, its watchdog and two request handlers share the gadget and a second
`flock`; the loop hands each cycle to the update coordinator over HTTP and they
exclude each other by a third; the preferences, the rate edits and the cloud
uploader share one SQLite database and one file under a process-wide mutex.

`PROJECT.json` lists every part with its status and every hazard with its line.

## Modules

| Module | Models | Checked by | Proved in |
|---|---|---|---|
| `SnapshotStore` | snapshot store, link farm, TOC rebuild | `MCSnapshotStore` | `SnapshotStore_proofs` |
| `FreeSpace` | free-space manager and its loop | `MCFreeSpace` | `FreeSpace_proofs` |
| `OneWriter` | abstract: who has the disk images | as a refinement of `GadgetCycle` | `GadgetCycle_proofs` |
| `GadgetCycle` | gadget, cycle lock, archive loop, watchdog, chime writer, toggle | `MCGadgetCycle` | `GadgetCycle_proofs` |
| `PushRetry` | queue of mobile pushes and its worker | `MCServices` | `Delivery_proofs` |
| `AutoUpdate` | automatic and manual updates, cancellation, startup migration | `MCServices` | `AutoUpdate_proofs` |
| `Caches` | stale-while-revalidate cache, snapshot size cache | `MCServices` | `Server_proofs` |
| `KeepAwake` | keep-awake sessions | `MCServices` | `Server_proofs` |
| `ChargeSweep` | charge sessions to the Cloud: upload sweep and cursor, delete outbox, imports | `MCServices` | `Delivery_proofs` |
| `Pairing` | pairing with the Cloud, credentials, key rotation, revocation | `MCServices` | `Pairing_proofs` |
| `RateSync` | preferences journal, rate edits, conditional publication | `MCRateSync` | `RateSync_proofs` |

`SnapshotStore` and `FreeSpace` meet in the release of a snapshot: `FreeSpace`
decides which and when, `SnapshotStore` has its inside.  `GadgetCycle` composes
the parties of the gadget; `AutoUpdate` the parties of an update; `RateSync` the
file, the database, the uploader, the service and a second client.  `MCServices`
puts six modules without common state into one run: its variable `focus`
chooses at the start which of them moves (the two caches apart), so the state
space is their sum.

Every safety property that a run checks is also proved, for every value of the
constants (see *Proofs*); the liveness properties stay with TLC.

## SnapshotStore

### State

`snap[s]` is the directory of slot `s`: whether it, its image and its TOC exist,
what they hold, and the marker files (`pending` with its failure count, `verify`,
`gaveUp`, `checked`, `recFails`).  A clip is a name with a size, so that a clip
can grow between snapshots.  `links` is the farm and `durable` what of it is on
disk.  `marked`, `failed`, `recovered` and `candidate` are what `/tmp` and the
shell remember of this boot.  `pc`, `cur`, `base`, `todo`, `outcome` and `plan`
belong to the operation that holds the lock.  `moved`, `torn` and `slipped` are
history variables, so that the invariants name their exceptions exactly: `moved`
has the clips a release touches whose links are not on disk yet, the re-points
of the release itself and, among the clips of its snapshot, links made shortly
before; `torn` the clips a release or a rebuild left unlinked, or left with a
link it should have removed; `slipped` the snapshots that missed their boot-time
mark.

### Actions

| Code | Actions |
|---|---|
| `make_snapshot` | `MakeBegin`, `MakeCopy`(`Fails`), `MakeMark` ... `RelinkDone`, `MakeScanFails`, `MakeDuplicate`, `MakeDiscardImage`, `MakeDiscardDir`, `MakeOwe`, `MakeCommit`, `MakeLink`, `MakeFinish` |
| `relink_pending_snapshot`, `relink_snapshot` | `MakeMark`, `RelinkPlace`, `SettleOk`, `SettleBad`, `RelinkDone` |
| `rebuild_all_snapshot_links` | `Rebuild`, `RebuildDone`; the request is `SetupRerun` |
| `release_snapshot_files` | `ReleaseBegin` (plan), `ReleaseImage`, `ReleaseDir`, `ReleasePrune`, `ReleaseRepoint` |
| `sweep_dangling_links` | `Sweep` |
| `recover_one_snapshot_toc` | `RecoverPick`, `RecoverSkip`, `RecoverLock`, `RecoverScan`, `RecoverCommit`, `RecoverFails` |
| the environment | `CarWrites`, `CarDeletes`, `Writeback`, `ProcessDies`, `PowerCut` |

A step of the model is a piece of code between two points where a stop leaves
different files behind.  A stop may come between any two of them.

### Assumptions

* `/backingfiles` keeps its changes in order, except that a TOC not written back
  may come back missing or empty; the code's own recovery is for that case.
* `/mutable` loses any subset of the links not written back.
* Snapshots are minutes apart, so the links of one are on disk before the next
  begins (`links = durable` in `MakeBegin`).
* A clip name the car has deleted does not come back: names are timestamps.

### Properties

| Property | Meaning |
|---|---|
| `NothingForgotten` | a clip on a kept image that no link leads to is owed by a snapshot that holds it |
| `LinksLeadToClips` | a link leads to an image with its clip, unless the release under way is about to unlink it, was stopped before it did, or could not |
| `ImagesOutliveReuse` | reuse and discard never take the last copy |
| `NewerTargetsStay` | re-linking never moves a clip to an older snapshot |
| `DebtsAreServed` | every debt is served in the end |

The exceptions they name are real behaviours of the code: a release drops the
debt of the clips it holds that were not linked yet; a release passes over links
that fail, and leaves no marker: the prune skips a link it cannot unlink
(`snapshot.rs` 775-779) and stops half way when `/backingfiles` is found unmounted
(695-702), the re-pointing skips a link it cannot make (681-684) and is skipped as
a whole when the mount is gone (423), and so the dangling link or the unlinked
clip stays until the next sweep or for ever (`LeavesBehind` puts it into `torn`;
a surviving TOC that cannot be read while the release is planned has the effect
of a failed re-point and is covered by it); a rebuild after a setup
re-run relinks in full and in directory order, so it may move links to older
snapshots; a baseline whose image a stopped release took while its TOC stayed
can still make a new image look like a duplicate.  One exception came out of the
proof, beyond the bounds of the runs: a setup re-run makes the rebuild place a
link to an older snapshot, which leaves no debt; before that link is on disk, a
release takes the only snapshot that owed the clip; then a power cut loses the
link.  It takes four troubles, TLC shows it in 41 states once it knows where to
look, and `moved` names it.

### Runs

* `snapshot_safety`: two clips (symmetric), three slots, clips of one size step,
  one failure to give up, two troubles.  A trouble is a stop, a power cut, a
  failing call, a release or a setup re-run.  Three slots give a newest, an
  oldest and one in between; two clips let one be linked and the other not; two
  troubles let a second stop hit the recovery from a first.  `Commuting` in
  `MCSnapshotStore` moves steps that commute to one place.
* `snapshot_debts`: one clip, two failures to give up, one trouble, no
  constraint, no symmetry, under the fairness of `FairSpec`.  The run starts from
  `Backlog`, a store that the program reaches by failing links and a power cut:
  three committed snapshots owe links or a re-check at the start of a boot, so
  that one debt is neither the newest nor the oldest.  The two slots above are
  for the snapshots taken while the debts are served.  `Picks` that always takes
  the two ends of the store starves the one in between, which is the mutant.
* `release_orphans` and `lost_links`: the two violations below.

`FairSpec` asks that an operation that holds the lock runs on (`MakeStep`,
`ReleaseStep`, `RecoverStep`: `snapshotloop` never ends and nothing in an
operation waits without a timeout) and that the kernel writes back.  No release,
re-run or rebuild has to begin.  `DebtsAreServed` lets the model stop when the
slots of the instance are used up; the program has a million.

## FreeSpace

### State and actions

`free` and `ifree` are the two resources, `table` and `reserve` the sizes they
are compared with, `mtime` the snapshots with the time their image bears,
`latch` the file in `/run`.  `newest`, `verdict` and `eased` are histories: the
snapshot taken last, the count of the last stall until it is exceeded, and
whether somebody made room since the last measurement.

| Code | Actions |
|---|---|
| `freespacemanager` | `LoopHealthy`, `LoopStalled`, `LoopCall` |
| `manage_free_space` | `ManageBegin`, `ManageNext`, `ManageRelease`, `ManageSkip`, `ManageMeasure`, `ManageFails` |
| `make_snapshot`, `DELETE /api/snapshots/:id` | `TakeSnapshot`, `UserDeletes` |
| the environment | `OthersWrite`, `OthersDelete`, `Remount`, `ManageDies`, `Reboot` |

A release gives back any amount, nothing included.  The clock may stand at any
reading when a snapshot is taken.  A release is one step here; how it can be
stopped is the subject of `SnapshotStore`.  A latch that cannot be written and a
free-inode count that the shell cannot read are not modelled.

### Properties

| Property | Meaning |
|---|---|
| `TargetIsReachable` | the inode reserve is below the table (the fix for the loss of all snapshots on small tables) |
| `NewestFootageStays` | the manager never evicts the snapshot taken last |
| `EvictsOnlyUnderPressure` | it releases only while a target is missed, or room came after it measured |
| `VerdictIsFinal` | after a stall it releases nothing for inodes until they rise |
| `PressureIsAnswered` | the loop meets the byte target, and the inode target or gives a verdict on it, unless there is nothing to release or the byte target is the whole disk |

### Runs

* `free_space`: four slots, so that a run can release two and keep two; a clock
  with two readings, enough to make the newest look oldest; three bytes; byte
  targets below and at the size of the disk; inode tables where the reserve is
  capped; a stall after two useless releases; one trouble (a kill, a reboot, a
  remount, a count that cannot be read or a failing release).  `SmallSteps` in
  `MCFreeSpace` lets others move one unit at a time.  It runs under `FairSpec`: weak fairness of `ManagerStep`,
  since the loop never ends and a call of the manager goes on to its end.
* `risen_latch`: the violation below, with three slots and no constraint.

## GadgetCycle

### State and actions

`gdir` is the gadget's configfs directory (absent, half built, complete), `udc`
whether it is bound, `mnt` the mount points at which an image of the drive is
mounted, `lock` the holder of the cycle lock.  `loop` is the main loop: `stage`
says where it is between two operations on the gadget, `job` and `pc` where it
is inside one, `first`, `ok` and `cancelled` what the cycle remembers.  `wd` with
`recov` and `chime` with `was` are the watchdog and the chime writer; `reach` and
`travel` are the archive's reachability and Travel Mode.

| Code | Actions |
|---|---|
| startup, `connect_usb_at_startup` | `Startup`, `ConnectAtStartup`, `FirstCycle` |
| `wait_for_archive_to_be_reachable`, `archive_clips`, cancellation, the end of a cycle, `wait_after_archive_cycle`, `check_if_usb_gadget_is_mounted` | `AwaitArchive`, `ArchiveClips`, `CopyMusic`, `Reconnect`, `CancelRequested`, `CancelCleanup`, `EndCycle`, `Rest`, `TriggerSync` |
| disconnect, fsck, mount, sync of user media, connect | `LoopAcquire`, `LoopDecide`, `LoopFsck`, `LoopMount`, `LoopUnmount`, `LoopSyncMount`, `LoopSyncUnmount`, `LoopEnable` |
| `gadget_stall_watchdog` | `WdDecide`, `WdAcquire`, `WdTimeout`, `WdVerify`, `WdEnable` |
| `sync_chime_to_cam_disk`, `clear_chimes_from_cam_disk` | `ChimeRequest` ... `ChimeEnable` |
| `toggle_drives` | `Toggle` |
| the environment | `ComeOrGo`, `SetTravelMode`, `KillArchiveloop`, `KillServer`, `Reboot` |

Operations that end in one critical section of the lock are one action where a
stop inside leaves nothing else behind than a stop before or after; a stop while
configfs is written may leave any directory (`Torn`).

### Properties and runs

| Property | Meaning |
|---|---|
| `NoTwoWriters` | no image is mounted here while the car has it |
| `BoundIsPopulated` | a bound gadget has its primary disk, whatever a failed or interrupted enable left |
| `ImagesHaveOneWriter` | the cycles implement `OneWriter`: the images go from the car to this machine and back only through nobody's hands |
| `DriveComesBack` | the drive is presented again and again |
| `WaitingPresentsDrive` | while the loop waits for the archive, the car has its drive (violated, see below) |

The constant `Faults` says which faults an instance has.  `gadget_cycle` has
failing binds (and a missing configfs, for which a disable fails as well), missing
storage and stuck reclaim mounts, one kill or reboot at any step and one watchdog
recovery.  One stop is enough to leave every torn state, and the watchdog's limit only ends its recoveries.  Four faults are
excluded from that run because each breaks `NoTwoWriters` on its own:

* `toggle`, a toggle of the drives while an image is mounted: the run
  `gadget_toggle`, the fourth violation below;
* `music`, a kill of archiveloop while the music image is mounted: the restarted
  loop unmounts neither image before it presents the drive; the cam image is
  unmounted on the way by the sync of user media, the music image is not;
* `umount`, an unmount that fails: the code falls back to a lazy one, or goes on,
  and presents the drive;
* `residue`, a directory that `disable` cannot remove: the chime writer takes a
  leftover directory for an active gadget (`is_gadget_active` looks at the
  directory only), and enables it at its end although the loop has the image
  mounted.

So `gadget_cycle` shows that without these four the locking is right, at every
interleaving of the four parties, and the other two runs show how it is not.

Fairness: archiveloop, the watchdog and a chime request run on; a waiter of a
`flock` gets it in the end (strong fairness of `LoopAcquire`: each holder's time
is bounded); the car comes home and leaves again and again, and the loop's polls
see it (strong fairness of `AwaitArchive` and `Rest`); a bind, a mount or a
release that is tried again and again succeeds at last.  Without the last, a
machine whose controller never binds presents no drive, and nothing could.

## PushRetry

Pushes are numbered by `started_at`.  Each closure given to `with_queue` is one
step; the request travels between two.  `taken` counts how often the server took
a push, which the code cannot know.

`PushTakenOnce`: never twice.  `RetryIsNewest`: a retry is started only for the
push that is still queued, and no newer one of its type is known to have arrived.
`PendingIsSettled`: nothing stays queued, because worker and flag agree across
the two critical sections of `after_dispatch`.

A first attempt in flight does not delay a retry, so a newer push may arrive
before an older retry that was already on its way: the property is about what
the code knows when it starts to send.

## AutoUpdate

One newer release exists.  `files` has the executables and the version file,
replaced in that order, then the archive scripts, which no decision reads;
`receipt` is `attempt.json` with the `target` of the attempt (`NoTarget` when the
look for a release failed), `proof` the shutdown receipts, `outcome` what was
queued to be told, `marker` the versions with a `.migrated` file.  `boot`, `cycle`,
`cycleLock`, `job` and `armed` belong to the boot, `guard`, `coord`, `manual` and
`work` to the server process, `startup`, `migrated` and `tries` to its start.
`lapsed` has the attempts with a write that failed in this start.  The history
variables `migrations`, `sound` and `installer` record the starts in which the
script ran to verify an attempt, the migrations that ended well, and whose release
is installed.

A write of the receipt or of an outcome may fail before the rename or after it,
with the new content in place (`Unwritten`); what the code does then is part of
each action: the coordinator ends without telling anyone (`SaveFailed`,
`TellFailed`), startup goes on unverified, and a recovery that cannot write is
only logged (`RecoverAfterStartup`).  A failed look for a release fails an attempt
without a target (`CheckFails`), and its receipt replaces the earlier one.  The
migration script is run up to three times in one start (`MigrationRetries`).

| Code | Actions |
|---|---|
| `archive_control.rs`, `archive-control.sh` | `CycleBegin`, `CycleEnd`, `RequestCancel`, `TryBeginWork`, `EndWork` |
| `auto_update.rs`, `auto_update_install.rs` | `Coordinate`, `CoordEnds`, `CheckFails`, `BeginAttempt`, `StageDone`, `ReserveWork`, `FinalGate`, `LockCycle`, `Commit`, `ReplaceFiles`, `ReplaceFails`, `ArmShutdownReceipt`, `AskReboot`, `CoordFails`, `SaveFailed`, `TellFailed` |
| `update.rs` | `ManualStart`, `ManualInstall`, `ManualFails`, `ClearAfterManualRepair`, `ManualReboot` |
| `migrate.rs`, `update_attempt.rs` | `StartupMigration`, `MigrationRetries`, `MigrationEnds`, `RecoverAfterStartup` |
| systemd, power | `BeginShutdown`, `WriteShutdownReceipt`, `PowerGoes`, `ServerRestarts`, `LoopDies` |

`ReplacementIsAlone`: while files are replaced no background work runs, no manual
update is under way, and no cancellation of this cycle was accepted.
`VerifiedIsEarned`: success is reported only for a complete installation that runs
after the shutdown the attempt asked for, with its migration done.
`MigratesOnce`: the verification of an attempt runs the script in one start of the
server only, up to three times there, and is not resumed in another.
`AttemptsSettle`: an attempt with a receipt ends with an outcome or is superseded;
the exception is one whose receipt or outcome could not be written in this start
(`lapsed`), which waits for the next.  `FailedIsNotReplayed` is violated, see below.

Bounds: `UpdateBounds` in `MCServices` makes two instances, one attempt with two
power cuts and a manual update (install, verify, and one more cut in between or
after), and two attempts with one power cut, so that the second can overwrite the
receipt of the first; one restart, one write that fails.  Fairness: the
coordinator's waits have deadlines, startup is a task that runs, a shutdown that
began ends in a boot.

## Caches

`StaleWhileRevalidate`: `data` counts changes, `cleared` is the change the last
`clear` made known, `flight` the load that holds the single-flight lock.
`AnswersFollowClears`: nobody who asks after a clear is answered with data from
before it, neither from the slot nor by waiting for another request's load.

`SizeCache`: `image[n]` is the image behind a name and `inode[n]` the inode number of
its file.  Names are reused, and so are the numbers of files that are gone.  A figure
is modelled by the image it was measured on (`of`), and is kept with the number that
was read for it (`id`).  A measurement reads the extents of a file (`Measure`) and
then its identity (`Identify`), by name both times; a release, or a release and a new
image of the same name, may come between the two.  The page shows a figure when the
number it was kept with is the number of the file behind the name now (`GetIfSame`).

`FiguresMatchImages`: a figure shown was measured on the image that is there now, and
after the last deletion through the API that was answered.  Two images escape the
check and are named in `mistaken`: one that got the inode number noted for an earlier
image of its name, and one made between the two reads of its name, which is then
credited with the extents of the image before it.  Releases by other processes are not
told to the server; then the identity protects the figure of the name itself.  The
figures are cumulative, and what older files contribute to one may be out of date
until the figures expire, as the code accepts; that part is not modelled.

Two requests, two keys, two names, three images and one deletion by the user among
any number by others: a load on each side of a clear, and one reuse of a name while
its neighbour stays.

## KeepAwake

`ka` is the manager's inner state, `owner` the registration that `awake_stop`
consults, `task[e]` the task of the session that began with epoch `e`.  A poll and
the critical section that acts on it are two steps.  Notifications only shorten
waits and are left out.

`SessionsAreWatched`: every session has the task of its own epoch at work on it.
`SessionsEnd`: it ends when nobody extends it any more (calls are bounded by
`MaxCalls`).  `OwnerIsReleased`: the registration does not outlive the session.

Four calls give start, stop, start and a heartbeat in every order; two busy
periods make one session queue twice.

## ChargeSweep

Charge sessions are known by the timestamp of their first row, on the Pi and in
the Cloud.  `local`, `mark`, `outbox`, `cursor` and `fullDone` are SQLite:
telemetry rows, `charge_uploads`, `charge_delete_outbox` and the two entries of
`meta`.  `sweep` is the loop with what it read; `account` is the Cloud, `late` the
uploads whose answer was lost and which may still commit.

| Code | Actions |
|---|---|
| `charges.rs` `sweep_once` | `ReadCursor`, `ReadUploads`, `ReadRows`, `StoreFrontier`, `ReadOutbox`, `PostCharges`, `PostUnanswered`, `AcknowledgeCharge`, `SweepFails` |
| `charge_deletes.rs` `sweep_once` | `ReadDeletes`, `PostDeletes`, `AcknowledgeDelete` |
| `bulk_delete_charges`, import | `BulkDelete`, `ImportRows`, `ImportReset` |
| the sampler, the date, the Cloud, a stop | `ChargeBegins`, `ChargeEnds`, `NewDay`, `LateCommit`, `SweeperDies` |

Every read and every write of a sweep is a step, since each is a transaction of
its own and only writers wait for an import.  A refusal (storage full, consent,
key rotation) refuses the batch and is `SweepFails`.

`CursorWaits`: the cursor never passes a session that is not in the Cloud, however
imports, deletions and re-imports fall between the reads and the write of a sweep.
The session of an import under way (`importing`) is behind it until the reset.  The
sessions of two imports stay there and are named, in `slipped`, until they are
deleted: that of an import a restart stops between its rows and its reset of the
cursor, and that of one during a sweep that began without a
cursor, where the compare-and-set token cannot tell "unset" from "unset again".
`ChargesAgree`: when the user rests, the Cloud has exactly the closed sessions of
the Pi but for the ones it rejects; for the two exceptions this is the work of the
daily full scan.

Assumed of the world: an upload without an answer commits or dies before the final
delete of a settled row (the round of grace the code grants), a delete without an
answer does not land rounds later, and a session begun on the Pi is newer than
those before (after a clock that ran back, the daily scan finds it).  Fairness: the
loop is woken by its timer at the latest and goes on, an import ends, charges end,
days pass.  Bounds: two sessions, of which the second is too large for the Cloud,
an import, two deletions and one fault: enough to delete during an upload, import
again during the deletion, and delete once more.

## Pairing

`creds` is the copy of the credentials in memory, `credFile` the one on disk; they
are known by the attempt that obtained them and the generation of their key.
`active` is the attempt that owns the pairing, `permit` the attempts whose `Notify`
holds a permit, `run[n]` the task of attempt `n`, `shown` what the interface shows.
Two agents work with copies of the credentials: the sweep loop (uploads, sync, key
rotation) and the location repair.

| Code | Actions |
|---|---|
| `pairing.rs`, `begin_pairing` ... `fail_pairing` | `BeginPairing`, `Handshake`, `AttemptCancelled`, `ReportProgress`, `PollEnds`, `CompletePairing`, `CompleteUnsaved`, `FailPairing` |
| `cancel_pairing`, `unpair` | `CancelPairing`, `Unpair`, `UnpairFails` |
| `uploader.rs`, `sync.rs`, `background.rs` | `AgentBegins`, `AgentChecks`, `RequestFails`, `AgentStored`, `AgentRevoked`, `AgentStale` |
| `rekey.rs` | `RekeyAnswers`, `ApplyRekey` |
| the Cloud, a restart | `CloudAnswers`, `CloudRevokes`, `CloudRotates`, `UploaderRestarts` |

An operation on the state is one step: it holds the locks of all it decides on,
taken in one order.  A stop between the file and the memory needs no step of its
own, since a restart reads the file.  Error texts, set after the locks are
dropped, are left out.

`EndedStaysEnded`: what the user cancelled or unpaired comes back neither by a late
answer, nor by a rotation under way, nor by a restart.  `RevokeHitsItsOwn`: the Pi
gives up a pairing on its own only if the Cloud revoked that one.  `SpinnerStops`:
an attempt is not shown as under way for ever.  A rotation is applied in the
generation that was answered, whatever the Cloud has done since.  Fairness: the
task of an attempt goes on, its requests have time limits and
its polling ends after eleven minutes.

Two pairings let every late answer of the first meet the second; one rotation and
one break (a restart, a failed write or a failed removal) suffice for each race.
The properties hold with three pairings as well (5.7 million states).

## RateSync

A document gives each field a value.  A queued edit is a row keyed by its
generation (`at`, the primary key `changed_at`).  Ciphertexts are known by a number of their
own, since encryption is randomised.  `journal`, `events`, `dirty`, `receipt` and
`checked` are rows of SQLite, `file` is the preferences file; `net` holds the
requests that may still arrive, any number of times; `applied` the operations the
service remembers.  `intended`, `shown`, `seen` and `others` are histories.

| Code | Actions |
|---|---|
| `preferences_journal.rs`, `preferences.rs` | `EditBegin`, `EditOther`, `StageEdit`, `Save`, `Finish`, `Recover` |
| `conditional_rate.rs` `prepare_initial` | `SyncBegin`, `ReadInitial`, `QueueBegin`, `QueueInitial`, `MarkChecked` |
| `push` | `LoadBegin`, `Load`, `Snapshot`, `ReadAndMerge`, `Reserve`, `Post`, `PostApplied`, `PostRejected`, `PostUnclear` |
| `recover`, `confirm_current`, `rate_confirmation.rs` | `Examine`, `ReadCurrent`, `ConfirmBegin`, `StageConfirmation`, `Finish` |
| the pull (`sync.rs`, `store_rate_doc`) | `PullRead`, `PullBegin`, `StoreDoc` |
| the service, the other client, faults | `ServeUnheard`, `OtherClient`, `OperationFails`, `Stop` |

| Property | Meaning |
|---|---|
| `RatesRecoverable` | a save is atomic across SQLite and the file, wherever it or its recovery stops |
| `UnsentEditsShow` | neither a confirmation nor a pull takes back what the user saved and the Cloud does not have |
| `EditsArrive` | an edit leaves the queue only when its value has been in the Cloud |
| `OthersEditsSurvive` | a merge, a repetition or a late request never reverts an edit nobody here has seen |
| `QueueDrains` | after the faults the queue empties, unless the documents conflict |

Two fields let one edit merge and another conflict; two edits (values new, old or
absent) let one come during the publication of the other; one edit by the other
client; two faults let a second hit the recovery from a first.  Fairness: the
holder of the mutex goes on, an edit that was begun ends, and the uploader sweeps
again and again; strong, because it waits for a mutex that others take as well
and which is handed out fairly.  Faults are bounded, so a sweep without one
follows.  The service applies a conditional write when the ciphertext is the
expected one and remembers operations; this is external, taken from how
`conditional_rate.rs` treats its answers.

## What the violations show

1. `release_orphans`.  `snapshot.rs` 412 plans re-points before a release "so
   clips another snapshot still holds aren't orphaned".  A stop between the
   removal (417) and the re-point (424) loses the plan; the link dangles, the
   sweep removes it, and no marker makes a holder owe it.
2. `lost_links`.  `make_snapshot.sh` 206-209 marks the newest snapshot once per
   boot because a power cut can lose its links.  When the TOC rebuild commits a
   newer image first, the mark passes by the snapshot that lost them.
3. `risen_latch`.  `archiveloop` 3044-3048 says that the manager is called and
   clears the latch once counts rise above it.  It is called only while they are
   at or below the reserve (3034); a rise above both strands the latch.
4. `gadget_toggle`.  `archiveloop` 440-442 and `cycle_lock.rs` 3-4 say that the
   lock is held across disable, work and enable.  `ensure_cam_file_is_mounted`
   and `ensure_music_file_is_mounted` (1353-1365) release it before they mount;
   `toggle_drives` takes it, finds the gadget inactive and enables it.
5. `gadget_departure`.  `archiveloop` 2577-2578 says that after a departure the
   gadget is still presented.  When the archive is lost during the clean-up of
   the first cycle of a boot, the cycle returns at 2583 with the gadget down, the
   end-of-cycle check runs only while the archive is reachable, and the check
   between cycles is not made after the first: the loop waits without a drive.
   Later cycles make that check, and `DriveComesBack` holds.
6. `update_replay`.  `migrate.rs` 109 logs of an update that failed: "not replaying
   its migration on a later boot".  The receipt tells it so.  When a later look for
   a release gives an error (`auto_update.rs` 188), a failed receipt without a target
   is saved over it (233-244), and the next start runs the migration of the installed
   release as an ordinary one.

Behaviour met on the way that no property is about: the boot counts as marked
even when the marker of the newest snapshot could not be written; the stall
guard counts per run, so on a store with one or two releasable snapshots it
never trips and the exhausted list (`space.rs` 371) latches nothing; one inode
freed by anyone clears the latch; a failed release is skipped without measuring.
In `keep_awake.rs`, `stop` releases the registration after it dropped the mutex
(167), so a session that starts in between loses its own; an extension that comes
between the watcher's look and its second critical section (276) is lost; and a
heartbeat that found no session starts an automatic one with its own duration
even when a manual one began in between (149).

The cursor of the charge sweep: `charges.rs` says "The raw cursor is a CAS token so
imports cannot be overwritten with a stale frontier mid-sweep".  With an unset cursor
the token is the same before and after an import's reset, so the frontier is stored
and an imported session behind it waits for the next day's full scan.

The pairing: when a revoked pairing's file cannot be removed, `handle_remote_revoke`
forgets it in memory only and a later `unpair` finds nothing to remove, so a restart
loads it again until the Cloud refuses it once more.  Routes noted as uploaded stay
so when the Pi is paired with another account.

## Proofs

TLAPS proves the theorems below for every value of the constants that satisfies
the named assumptions of the modules.  These say that bounds are natural numbers
and, beyond that: `BoundsAssumption`, there is a slot and a failure count to give
up at; `SpaceAssumption`, the reserve's floor and divisors are positive, the cap
divisor is above one and tables are not smaller than it; `GadgetAssumption`,
users and faults are the ones the module knows; `PushAssumption`, only known
kinds are retried and the uptime can pass the window after a boot in which pushes
are retried; `CacheAssumption`, no key or request is called
like the marks for "none"; `ChargeAssumption`, the large sessions are sessions.
`KeepAwakeAssumption`, `PairingAssumption`, `UpdateAssumption` and
`RateAssumption` say nothing else.  Every module's type invariant is part of its
inductive invariant.

### SnapshotStore_proofs

`TypeCorrect`, `LinksLead`, `ImagesOutlive`, `NewerTargets`, with releases that
fail for any of their links.  None of the properties is inductive.  `Inductive` adds:

* `DirsAreSound`: a TOC lists a clip only in the size the image has it, so the
  comparison of TOCs is a comparison of images;
* `CurIsTop`, `CurIsPrivate`: the slot being filled is the highest, and nothing
  points into it before its TOC commits - why reuse and discard break no link;
* `CurImage`, `DiscardIsCovered`: what the slot holds at each step, and that a
  discarded image is covered by the baseline;
* `TodoIsCommitted`, `ReleaseIsPlanned`: what a relink and a release rely on;
* `LinksAreGood`: links, and the links a power cut would bring back, lead to
  their clip, but for the clips in `torn`.

The proof groups actions by their effect on the store (steps that leave it
alone, that write markers only, that touch only the slot at hand) and shows each
group, then each remaining action, to preserve the conjuncts.

`NothingIsForgotten` rests on a second invariant, `OwedInv` (the theorem
`DebtsOutliveCuts`).  That every unlinked clip is owed is not inductive, because
a power cut takes links away; so `OwedInv` says the same twice, of the links
(`LinkIsOwed`) and of the links a power cut would bring back (`LossIsOwed`).  A
link that is not on disk is covered by a marker on disk, or by the newest
snapshot, which each boot marks, as long as no directory above it can become the
newest one unmarked (`IsTop`).  The slot being filled and the one being taken
away answer for nothing; the release that takes one away answers by its plan
(`Planned`), and where it planned nothing, no TOC lists the clip and whoever
keeps it has lost its TOC (`UnplannedIsLost`; that a best survivor exists when
there is one is `LargestSlot`).  The rest is what single steps rely on:
`TidyInv` (a TOC lists all of its image or nothing), `UnwrittenInv` (a debt is
struck out only when its links are on disk or lead to a snapshot with a debt of
its own), `PendingInv` and `PlacedInv`.  `LinkCarried` and `LossCarried` say once
what a step has to show; there is one lemma per action or group of actions.

### FreeSpace_proofs

`TypeCorrect`, `Reachable`, `NewestStays`, `EvictsUnderPressure`, `VerdictFinal`.
`Inductive` adds `NewestIsSafe` (the newest snapshot is the highest slot and never
in the queue), `IdleIsClean`, `MissedIsStillMissed` (between a measurement and the
release it justifies, the target stays missed unless others made room) and
`VerdictStands` (while a verdict stands, the latch holds it and no run pursues
inodes).

### GadgetCycle_proofs

`GadgetTypes` and `BoundGadgetsArePopulated` hold under all faults.  `BoundInv`
says that whoever is past its disable holds the lock (`LockInv`) and has the
controller unbound (`UnboundInv`), so an interrupted enable never tears a bound
gadget.

`CarAndMachineApart` (`NoTwoWriters`) and `CyclesImplementOneWriter` (the
refinement of `OneWriter`: initial states map to initial states, every step to a
step or a stutter) have the hypothesis `Faults \subseteq CycleFaults`, that is
failing binds, missing storage and stuck reclaim mounts.  The hypothesis is
needed: each of the four other faults breaks the property on its own, as said
above.  `ApartInv` says that whenever an image is mounted, or the loop may mount
one without the lock, the gadget directory is gone (`DownInv`), which is what
keeps the chime writer and the watchdog from presenting the drive.

### Delivery_proofs

`PushesAreTakenOnce` and `RetriesAreNewest`.  `PushInv`: a push is with its
dispatch until that failed for certain (`BornInv`), there is one worker and only
while the flag is up (`OneWorkerInv`), and a push that is queued was
not taken, but for the one whose answer the worker has just heard (`QueueInv`,
`HeldInv`).

`CursorPassesNothing` (`CursorWaits`).  `ChargeInv` is about a sweep between its
first read and its write, with the session of an import under way set apart: the
cursor is still the token unless an import unset it
(`TokenInv`), a mark that was read is still there unless the session was deleted
and imported again (`UploadsInv`), and a session that was not there when the rows
were read is newer than all of them or was imported (`RowsInv`).

### Server_proofs

`AnswersAreCurrent` and `FiguresAreCurrent`: what is in the slot, and what a load
of this generation has read, is not older than the last clear (`SlotInv`,
`AwaitInv`).  `SizeInv`: a measurement knows its generation (`GenerationInv`), and
wherever a number that was noted is the number of the file behind the name now, the
figure beside it was measured on that file, or the file is `mistaken` (`KeptInv` for
the cache, `MeasureInv` for the measurement and for a file between its two reads);
numbers are never 0 (`NumberInv`), so that what was not read matches nothing.
`SessionsHaveTheirTask` and `RegistrationEnds`: a task acts only in
its own epoch; `EpochInv` bounds the epochs by the calls made, so that the
model's set of epochs does not run out.

### AutoUpdate_proofs

`FilesAreReplacedAlone`, `MigrationRunsOnce` and `VerifiedOnlyWhenEarned`.
`UpdInv`: one update task at a time (`GuardInv`), the receipt follows the
coordinator (`ReceiptInv`), background work is shut out from the reservation on
and the cycle's lock is held from the last look at the cancellation on
(`AloneInv`), an attempt not yet under verification was not migrated and one being
migrated was so in this start only (`FreshInv`), and what startup has established
while it runs (`StartupInv`).  Writes that fail, before or after their rename, are
part of every step.

### Pairing_proofs

`CancelledStaysCancelled` and `RevocationIsOfThisPairing`.
`PairInv`: credentials in anybody's hands come from an attempt that is over
(`ObtainedInv`), the attempt that owns the pairing is under way and not cancelled
(`OwnerInv`), the Cloud makes a pairing once (`PollInv`), an agent was told
"revoked" only of a revoked pairing (`AgentInv`).  So nothing that still has a
copy of credentials can be the attempt that is cancelled now.

### RateSync_proofs

`SavesAreAtomic`, `UnsentEditsStay`, `RetiredEditsArrived`, `UnseenEditsSurvive`.
`RateInv` follows an edit from the journal to the file (`SaveInv`), into the queue
(`QueueInv`, `LoneInv`), through the steps of a publication (`SyncInv`, with one
part per step) and out of it (`RetireInv`, `ReceiptInv`); `IntentInv` says that
what the file has, or will have once the save under way ends, carries the edits
that stay queued; `CloudInv`,
`RequestInv` and `SpareInv` say what the requests under way can still do, however
late and often they arrive.  The oldest and newest queued edit of a field exist
because a set of naturals has a least element (`WFMin`); the same argument serves
for `Min` in `Delivery_proofs`.

### Only model-checked

`DebtsAreServed`, `PressureIsAnswered`, `DriveComesBack`, `PendingIsSettled`,
`AttemptsSettle`, `SessionsEnd`, `ChargesAgree`, `SpinnerStops` and `QueueDrains`:
liveness, and the fairness and `ENABLED` it rests on, is out of the prover's reach.

## Not modelled

In the store: the gap-fill backfill of older clips, the purge of events, autofs
and the stable mount link, mount guards other than the one for slot reuse,
`fsck` of the image, deletions of links by users and the archiver, and read
errors of an old TOC.  In the manager: alerts.  In the archive loop: copying and
its progress, drive processing, notifications, the digest that decides whether
user media changed (any answer is allowed), the Wi-Fi and time workers.  In the
updates: downloads, signatures, channels, backups.  In the cloud sync: the
conditional publication of the mutable fields of charges and drives (the protocol
of the rates, with deletions), forced and tagged intents, the queue an older
version left (`conditional_rate.rs` 172-175), the nesting of plans and fields with
its conflict for an edit of a plan another client removed (`rate_intent.rs`
134-140; fields are flat here), the batching of route uploads; of the pairing,
cryptography and error texts.  In keep-awake: the scripts, away
and travel mode timers.

Left out as a whole: the grouping of GPS samples, the SQLite schema and its
migrations, import and export formats, which are numeric or textual algorithms on
large inputs rather than protocols; the Bluetooth sessions and the telemetry
sampler, whose behaviour is the car's; the radio lock, whose source states that
its check and its write are not atomic and accepts it; set-up, repair ladders, LED,
disk reader and web interface, which are input and output.  These parts make up
most of the repository's lines, so the mapped share stays small: the models cover
the parts where order, failure and concurrency decide.

## Mutants

Every property of a passing run has an operator named `<Definition>_<Bug>` next
to the definition it distorts, the way a plausible bug would: a slot wiped with
its image, a re-check forgotten, TOCs compared by length, a reserve without its
cap, a clock that is trusted, a watchdog that does not look again, a receipt that
is kept after a rejection, a cache that does not ask whose figure it shows.  Replacing the
definition by it violates the property.  `CHECK_DEADLOCK FALSE` stands only in
`Services.cfg`: a queue that is empty, a cache nobody asks or a session that ended
may rest, and the bounds on calls, images and boots end the behaviours of the instance.
