----------------------------- MODULE FreeSpace -----------------------------
(***************************************************************************)
(* The free-space manager: crates/usb_gadget/src/space.rs, called by the   *)
(* freespacemanager loop of run/archiveloop.                               *)
(*                                                                         *)
(* Two resources run out: bytes on /backingfiles, and inodes on /mutable,  *)
(* where every retained clip costs a symlink.  Releasing the oldest        *)
(* snapshot always helps the first and only sometimes the second, so a     *)
(* stall guard stops inode-driven eviction after a few useless releases    *)
(* and latches the verdict in /run for the loop that calls every 30 s.     *)
(*                                                                         *)
(* A release is one step here; SnapshotStore has what happens inside it.   *)
(* The car, the archiver and everything else on the Pi use up and give     *)
(* back bytes and inodes at any moment, and the clock may stand anywhere   *)
(* when a snapshot is taken.                                               *)
(***************************************************************************)
EXTENDS Integers

CONSTANTS
    MaxSlot,          \* bound: highest slot number ever allocated
    Clock,            \* readings of the unsynchronised clock (mtimes)
    TotalBytes,       \* size of /backingfiles
    Reserves,         \* byte targets a caller may ask for
    InodeTables,      \* sizes the inode table of /mutable may have
    ReserveFloor,     \* INODE_RESERVE_FLOOR
    ReserveDivisor,   \* INODE_RESERVE_DIVISOR
    CapDivisor,       \* INODE_RESERVE_CAP_DIVISOR
    MaxStale,         \* MAX_STALE_INODE_RELEASES
    MaxTrouble        \* bound: failing calls, remounts, kills and reboots

ASSUME SpaceAssumption ==
    /\ MaxSlot \in Nat \ {0} /\ Clock \subseteq Nat /\ TotalBytes \in Nat
    /\ Reserves \subseteq Nat
    /\ ReserveFloor \in Nat \ {0} /\ ReserveDivisor \in Nat \ {0}
    /\ CapDivisor \in Nat /\ CapDivisor > 1
    /\ InodeTables \subseteq Nat /\ \A n \in InodeTables : n >= CapDivisor
    /\ MaxStale \in Nat \ {0} /\ MaxTrouble \in Nat

Slots == 1..MaxSlot
Nothing == -1                 \* no latch, no slot, an unreadable count

VARIABLES
    table,      \* inodes of /mutable, in all
    reserve,    \* the byte target
    free,       \* free bytes of /backingfiles
    ifree,      \* free inodes of /mutable
    rw,         \* /mutable is mounted read-write
    mtime,      \* modification time of the image of each snapshot there is
    latch,      \* /run/sentryusb_inode_stall: the count at the stall
    pc,         \* step of manage_free_space, "idle" outside it
    queue,      \* snapshots it may still release
    policy,     \* the inode target in force, 0 when the inode policy is off
    before,     \* free inodes read before the release under way
    stale,      \* StallGuard::consecutive
    status,     \* what /run/sentryusb_storage_cleanup.json says
    newest,     \* history: the snapshot taken last
    verdict,    \* history: the count of the last stall, until it is exceeded
    eased,      \* history: others freed something since the last measurement
    trouble     \* how much of MaxTrouble is used up

sizes == <<table, reserve>>
counts == <<free, ifree, rw>>
run == <<pc, queue, policy, before, stale>>
vars == <<sizes, counts, mtime, latch, run, status, newest, verdict, eased, trouble>>

snaps == DOMAIN mtime

TypeOK ==
    /\ table \in InodeTables /\ reserve \in Reserves
    /\ free \in 0..TotalBytes /\ ifree \in 0..table /\ rw \in BOOLEAN
    /\ snaps \subseteq Slots /\ mtime \in [snaps -> Clock]
    /\ latch \in 0..table \cup {Nothing}
    /\ pc \in {"idle", "begin", "next", "release", "measure"}
    /\ queue \subseteq snaps /\ (pc = "release" => queue # {})
    /\ policy \in 0..table /\ before \in 0..table \cup {Nothing}
    /\ stale \in 0..(MaxStale - 1)
    /\ status \in {"none", "healthy", "recovering", "recovered", "failed"}
    /\ newest \in snaps \cup {Nothing} /\ verdict \in 0..table \cup {Nothing}
    /\ eased \in BOOLEAN /\ trouble \in 0..MaxTrouble

-----------------------------------------------------------------------------
Smaller(a, b) == IF a <= b THEN a ELSE b
Greater(a, b) == IF a <= b THEN b ELSE a

\* Mutant: the target is not capped, as shipped in v3.20.0 to v3.20.8.
InodeReserve_NoCap(total) == Greater(total \div ReserveDivisor, ReserveFloor)

\* inode_reserve
InodeReserve(total) ==
    Smaller(Greater(total \div ReserveDivisor, ReserveFloor), total \div CapDivisor)

\* Mutant: bytes exactly at the reserve do not meet the target.
TargetsMet_Strict(inodes, ireserve) ==
    free > reserve /\ (inodes = Nothing \/ inodes > ireserve)

\* targets_met: an unreadable inode count is not a reason to evict.
TargetsMet(inodes, ireserve) ==
    free >= reserve /\ (inodes = Nothing \/ inodes > ireserve)

\* list_snapshots_by_age: by mtime, then by name.
Older(s, t) == mtime[s] < mtime[t] \/ (mtime[s] = mtime[t] /\ s < t)

\* Mutant: only the newest by mtime is protected.
Releasable_TrustsClock == {s \in snaps : \E t \in snaps : Older(s, t)}

\* releasable: all but the newest by mtime and the highest slot.
Releasable ==
    {s \in snaps : (\E t \in snaps : Older(s, t)) /\ (\E t \in snaps : t > s)}

Oldest(S) == {s \in S : \A t \in S \ {s} : Older(s, t)}

\* The snapshot s is gone.
Gone(s) ==
    /\ mtime' = [t \in snaps \ {s} |-> mtime[t]]
    /\ newest' = IF newest = s THEN Nothing ELSE newest

Troubled == trouble < MaxTrouble /\ trouble' = trouble + 1

\* get_inodes(..).ok(): the count, or nothing when it cannot be read.
Reads(count) ==
    \/ count = ifree /\ UNCHANGED trouble
    \/ count = Nothing /\ Troubled

Init ==
    /\ table \in InodeTables /\ reserve \in Reserves
    /\ free = TotalBytes /\ ifree = table /\ rw = TRUE
    /\ mtime = [s \in {} |-> Nothing]
    /\ latch = Nothing /\ pc = "idle" /\ queue = {} /\ policy = 0
    /\ before = Nothing /\ stale = 0 /\ status = "none"
    /\ newest = Nothing /\ verdict = Nothing /\ eased = FALSE /\ trouble = 0

-----------------------------------------------------------------------------
(* freespacemanager, every 30 seconds. *)

\* The inode reserve the loop watches: none on a read-only /mutable, and none
\* that the table cannot hold.
Armed == IF rw /\ InodeReserve(table) < table THEN InodeReserve(table) ELSE 0
InodesLow == Armed > 0 /\ ifree <= Armed
Stalled == latch # Nothing /\ ifree <= latch

\* Mutant: the loop watches bytes only.
Pressure_BytesOnly == free < reserve

\* Low on bytes, or on inodes that the manager has not given up on.
Pressure == free < reserve \/ (InodesLow /\ ~Stalled)

LoopHealthy ==
    /\ pc = "idle" /\ ~Pressure /\ ~(InodesLow /\ Stalled)
    /\ status' = "healthy"
    /\ UNCHANGED <<sizes, counts, mtime, latch, run, newest, verdict, eased, trouble>>

\* The verdict stands: do not call, only report.
LoopStalled ==
    /\ pc = "idle" /\ ~Pressure /\ InodesLow /\ Stalled
    /\ status' = "failed"
    /\ UNCHANGED <<sizes, counts, mtime, latch, run, newest, verdict, eased, trouble>>

LoopCall ==
    /\ pc = "idle" /\ Pressure
    /\ pc' = "begin" /\ status' = "recovering"
    /\ UNCHANGED <<sizes, counts, mtime, latch, queue, policy, before, stale, newest,
                   verdict, eased, trouble>>

\* manage_free_space returns, and the loop reports.
Return(relieved) ==
    /\ pc' = "idle" /\ queue' = {} /\ policy' = 0 /\ before' = Nothing /\ stale' = 0
    /\ eased' = FALSE
    /\ status' = IF relieved /\ latch' = Nothing THEN "recovered" ELSE "failed"

-----------------------------------------------------------------------------
(* manage_free_space *)

\* The lock is busy, or the file system cannot be measured.
ManageFails ==
    /\ pc \in {"begin", "measure"} /\ Troubled
    /\ UNCHANGED latch /\ Return(FALSE)
    /\ UNCHANGED <<sizes, counts, mtime, newest, verdict>>

\* Mutant: a standing verdict is forgotten by the next run.
Trusted_IgnoresLatch(count) == count # Nothing /\ InodeReserve(table) < table

\* The inode count to act on: nothing unless /mutable is mounted read-write,
\* the target can be reached, and the count has risen since the last stall.
Trusted(count) ==
    /\ count # Nothing /\ InodeReserve(table) < table
    /\ latch = Nothing \/ count > latch

\* Measure, and list what may be released.
ManageBegin ==
    /\ pc = "begin"
    /\ \E count \in 0..table \cup {Nothing} :
         /\ IF rw THEN Reads(count) ELSE count = Nothing /\ UNCHANGED trouble
         /\ LET inodes   == IF Trusted(count) THEN count ELSE Nothing
                ireserve == IF Trusted(count) THEN InodeReserve(table) ELSE 0
                cleared  == IF Trusted(count) THEN Nothing ELSE latch
            IN  \/ /\ reserve >= TotalBytes
                   /\ latch' = latch /\ verdict' = verdict /\ Return(FALSE)
                \/ /\ reserve < TotalBytes /\ TargetsMet(inodes, ireserve)
                   /\ latch' = cleared /\ verdict' = verdict /\ Return(TRUE)
                \/ \* nothing to release: hopeless when only inodes are low
                   /\ reserve < TotalBytes /\ ~TargetsMet(inodes, ireserve)
                   /\ Releasable = {}
                   /\ latch' = IF free >= reserve THEN inodes ELSE cleared
                   /\ verdict' = IF free >= reserve THEN inodes ELSE verdict
                   /\ Return(FALSE)
                \/ /\ reserve < TotalBytes /\ ~TargetsMet(inodes, ireserve)
                   /\ Releasable # {}
                   /\ latch' = cleared /\ verdict' = verdict
                   /\ queue' = Releasable /\ policy' = ireserve /\ stale' = 0
                   /\ pc' = "next" /\ UNCHANGED <<before, status>>
    /\ eased' = FALSE
    /\ UNCHANGED <<sizes, counts, mtime, newest>>

\* The next snapshot, if any is left.
ManageNext ==
    /\ pc = "next"
    /\ \/ /\ queue = {}
          /\ UNCHANGED <<latch, trouble>> /\ Return(FALSE)
       \/ /\ queue # {} /\ pc' = "release"
          /\ IF policy > 0 THEN Reads(before')
             ELSE before' = Nothing /\ UNCHANGED trouble
          /\ UNCHANGED <<latch, queue, policy, stale, status, eased>>
    /\ UNCHANGED <<sizes, counts, mtime, newest, verdict>>

\* Whatever the released images and links gave back.  Links cannot be removed
\* from a read-only /mutable.
Gains ==
    /\ free' \in free..TotalBytes
    /\ ifree' \in IF rw THEN ifree..table ELSE {ifree}
    /\ verdict' = IF verdict # Nothing /\ ifree' > verdict THEN Nothing ELSE verdict

ManageRelease ==
    /\ pc = "release"
    /\ \E s \in Oldest(queue) :
         Gone(s) /\ queue' = queue \ {s}
    /\ Gains
    /\ pc' = "measure"
    /\ UNCHANGED <<sizes, rw, latch, policy, before, stale, status, eased, trouble>>

\* A failed release is skipped without a new measurement, even when the image
\* went before it failed.
ManageSkip ==
    /\ pc = "release" /\ Troubled
    /\ \E s \in Oldest(queue) :
         /\ queue' = queue \ {s}
         /\ \/ UNCHANGED <<mtime, newest, free, ifree, verdict, eased>>
            \/ Gone(s) /\ Gains /\ eased' = TRUE
    /\ pc' = "next"
    /\ UNCHANGED <<sizes, rw, latch, policy, before, stale, status>>

\* StallGuard::record, after a release that left count inodes free.
Useless(count) ==
    /\ free >= reserve
    /\ before # Nothing /\ count # Nothing /\ count <= before

\* Mutant: the guard trips one release late.
Trips_Late(count) == Useless(count) /\ stale >= MaxStale

Trips(count) == Useless(count) /\ stale + 1 >= MaxStale

\* Both targets again, and the stall guard.
ManageMeasure ==
    /\ pc = "measure"
    /\ \E count \in 0..table \cup {Nothing} :
         /\ IF policy > 0 THEN Reads(count)
            ELSE count = Nothing /\ UNCHANGED trouble
         /\ \/ /\ TargetsMet(count, policy)
               /\ UNCHANGED <<latch, verdict>> /\ Return(TRUE)
            \/ /\ ~TargetsMet(count, policy)
               /\ Trips(count)
               /\ latch' = count /\ verdict' = count /\ Return(FALSE)
            \/ /\ ~TargetsMet(count, policy)
               /\ ~Trips(count)
               /\ stale' = IF Useless(count) THEN stale + 1 ELSE 0
               /\ pc' = "next"
               /\ UNCHANGED <<latch, verdict, queue, policy, before, status>>
    /\ eased' = FALSE
    /\ UNCHANGED <<sizes, counts, mtime, newest>>

-----------------------------------------------------------------------------
(* Everything else. *)

\* make_snapshot, under the same lock: the next slot, stamped by the clock.
TakeSnapshot(n) ==
    /\ pc = "idle" /\ \A s \in snaps : s < n
    /\ n = 1 \/ n - 1 \in snaps
    /\ \E now \in Clock :
         mtime' = [s \in snaps \cup {n} |-> IF s = n THEN now ELSE mtime[s]]
    /\ newest' = n
    /\ UNCHANGED <<sizes, counts, latch, run, status, verdict, eased, trouble>>

\* A snapshot is deleted from the web interface, under the same lock.
UserDeletes(s) ==
    /\ pc = "idle" /\ s \in snaps
    /\ Gone(s)
    /\ UNCHANGED <<sizes, counts, latch, run, status, verdict, eased, trouble>>

OthersWrite ==
    /\ free' \in 0..free /\ ifree' \in IF rw THEN 0..ifree ELSE {ifree}
    /\ UNCHANGED <<sizes, rw, mtime, latch, run, status, newest, verdict, eased, trouble>>

OthersDelete ==
    /\ Gains
    /\ eased' = (pc # "idle")
    /\ UNCHANGED <<sizes, rw, mtime, latch, run, status, newest, trouble>>

\* An ext4 error remounts /mutable read-only.
Remount ==
    /\ rw /\ Troubled /\ rw' = FALSE
    /\ UNCHANGED <<sizes, free, ifree, mtime, latch, run, status, newest, verdict, eased>>

\* The manager is killed and its lock with it.
ManageDies ==
    /\ pc # "idle" /\ Troubled
    /\ UNCHANGED latch /\ Return(FALSE)
    /\ UNCHANGED <<sizes, counts, mtime, newest, verdict>>

\* /run is a tmpfs.
Reboot ==
    /\ Troubled
    /\ rw' = TRUE /\ latch' = Nothing /\ verdict' = Nothing
    /\ pc' = "idle" /\ queue' = {} /\ policy' = 0 /\ before' = Nothing /\ stale' = 0
    /\ status' = "none" /\ eased' = FALSE
    /\ UNCHANGED <<sizes, free, ifree, mtime, newest>>

-----------------------------------------------------------------------------
ManagerStep ==
    \/ LoopHealthy \/ LoopStalled \/ LoopCall
    \/ ManageBegin \/ ManageNext \/ ManageRelease \/ ManageMeasure

Next ==
    \/ ManagerStep \/ ManageFails \/ ManageSkip \/ ManageDies
    \/ \E n \in Slots : TakeSnapshot(n) \/ UserDeletes(n)
    \/ OthersWrite \/ OthersDelete \/ Remount \/ Reboot

Spec == Init /\ [][Next]_vars

\* The loop never ends and a run of the manager goes on to its end.
FairSpec == Spec /\ WF_vars(ManagerStep)

-----------------------------------------------------------------------------
(* Properties *)

\* The manager never evicts the footage recorded last, wherever the clock
\* stood when it was taken ("reliable when an unsynchronized Pi clock makes a
\* new snapshot appear oldest").
NewestFootageStays ==
    [][pc # "idle" /\ newest # Nothing => newest' \in snaps']_vars

\* The inode target can be reached on every inode table: it is below the size
\* of the table, so the check against it in manage_free_space never fires
\* ("this cannot fire today").
TargetIsReachable == InodeReserve(table) < table

\* A snapshot is released only while a target is really missed: measuring
\* after each release keeps the loop from taking one more than it needs.  The
\* exception is room made by others, or by a failed release, after the last
\* measurement.
Missed == free < reserve \/ (policy > 0 /\ ifree <= policy)

EvictsOnlyUnderPressure ==
    [][ManageRelease => Missed \/ eased]_vars

\* A stall verdict is final: until the free inodes have risen above the count
\* it was reached at, or the Pi reboots, no run releases a snapshot for the
\* sake of inodes (the latch is for "a 30-second retrying caller" that would
\* "delete three more snapshots per attempt").
VerdictIsFinal ==
    [][ManageRelease /\ verdict # Nothing => free < reserve \/ eased]_vars

\* Pressure is answered: again and again the targets are met, or nothing is
\* left that the manager may release.  A verdict excuses a shortage of inodes
\* alone, never one of bytes.
PressureIsAnswered ==
    []<>(\/ free >= reserve /\ (rw => ifree > InodeReserve(table) \/ latch # Nothing)
         \/ Releasable = {} \/ reserve >= TotalBytes)

\* What archiveloop says of the latch: "once counts rise above the latched
\* value we DO invoke the manager again, and it clears the latch".  It is not
\* invoked when they rise above the reserve at once.
RisenLatchIsCleared ==
    ~<>[](latch # Nothing /\ rw /\ ifree > latch)
=============================================================================
