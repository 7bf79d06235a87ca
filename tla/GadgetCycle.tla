---------------------------- MODULE GadgetCycle ----------------------------
(***************************************************************************)
(* The USB drive between the car and this machine: the configfs gadget     *)
(* (crates/usb_gadget/src/lib.rs), the gadget cycle lock (cycle_lock.rs),  *)
(* and the four parties that take the drive away and give it back:         *)
(* archiveloop's main loop and its stall watchdog (run/archiveloop), and   *)
(* the server's lock-chime writer and drive toggle (lock_chime.rs,         *)
(* system.rs).                                                             *)
(***************************************************************************)
EXTENDS Naturals, FiniteSets

CONSTANTS
  MaxRecoveries,  \* watchdog cycles per start of archiveloop (3 in the code)
  MaxStops,       \* bound: kills and reboots
  Users,          \* what the user does in the web UI: "chime", "toggle"
  Faults          \* the environment's faults, see FaultKinds

(***************************************************************************)
(* "bind": configfs may be missing, and writing it or binding the UDC may  *)
(* fail.  "storage": the backing store may be missing.  "reclaim": the     *)
(* mount of an fsck reclaim may be stuck.  "toggle": the user toggles the  *)
(* drives while an image is mounted.  "music": archiveloop is killed while *)
(* the music image is mounted.  "residue": a teardown may leave the gadget *)
(* directory behind.  "umount": a plain umount may fail.                   *)
(***************************************************************************)
FaultKinds == {"bind", "storage", "reclaim", "toggle", "music", "residue", "umount"}

ASSUME GadgetAssumption ==
  /\ MaxRecoveries \in Nat
  /\ MaxStops \in Nat
  /\ Users \subseteq {"chime", "toggle"}
  /\ Faults \subseteq FaultKinds

VARIABLES
  gdir,     \* the gadget's configfs directory
  udc,      \* the gadget is bound to the USB controller
  mnt,      \* mount points in use: an image of the drive is mounted there
  lock,     \* who holds /tmp/sentryusb_gadget_cycle.lock
  loop,     \* archiveloop's main loop: [pc, job, stage, first, ok, cancelled]
  wd,       \* the stall watchdog
  recov,    \* its recoveries since archiveloop started
  chime,    \* the server's lock-chime cycle
  was,      \* that cycle found the gadget present
  reach,    \* the archive server is reachable: the car is at home
  travel,   \* Travel Mode is on
  stops     \* kills and reboots so far

gvars == <<gdir, udc, mnt>>
vars == <<gdir, udc, mnt, lock, loop, wd, recov, chime, was, reach, travel, stops>>

Stages == {"boot", "connect", "start", "await", "archive", "music",
           "reconnect", "cancel", "end", "after", "rest"}
Jobs == {"none", "cam", "music", "connect", "ensure"}
LoopPC == {"at", "wait", "held", "fsck", "mount", "work",
           "pull", "pulled", "push", "pushed", "enable"}

TypeOK ==
  /\ gdir \in {"absent", "partial", "complete"}
  /\ udc \in BOOLEAN
  /\ mnt \subseteq {"cam", "music", "reclaim"}
  /\ lock \in {"free", "loop", "watchdog", "chime"}
  /\ loop \in [pc : LoopPC, job : Jobs, stage : Stages, first : BOOLEAN,
               ok : BOOLEAN, cancelled : BOOLEAN]
  /\ wd \in {"idle", "wait", "held", "enable"}
  /\ recov \in 0..MaxRecoveries
  /\ chime \in {"idle", "wait", "held", "write", "umount", "enable"}
  /\ was \in BOOLEAN
  /\ reach \in BOOLEAN
  /\ travel \in BOOLEAN
  /\ stops \in 0..MaxStops

\* archiveloop has just been started.
FreshLoop == [pc |-> "at", job |-> "none", stage |-> "boot", first |-> FALSE,
              ok |-> TRUE, cancelled |-> FALSE]

Init ==
  /\ gdir = "absent" /\ udc = FALSE /\ mnt = {}
  /\ lock = "free"
  /\ loop = FreshLoop
  /\ wd = "idle" /\ recov = 0
  /\ chime = "idle" /\ was = FALSE
  /\ reach \in BOOLEAN /\ travel \in BOOLEAN
  /\ stops = 0

-----------------------------------------------------------------------------
(* The gadget. *)

\* is_active and usb_gadget_is_active: bound, with a populated primary LUN.
Active == udc /\ gdir = "complete"

\* disable(): unbind, tear the directory down; what cannot be removed is only
\* reported.
Disable ==
  /\ udc' = FALSE
  /\ gdir' \in IF gdir = "absent" THEN {"absent"}
               ELSE {"absent"} \cup (IF "residue" \in Faults THEN {"partial"} ELSE {})

\* Mutant: the directory is taken for a configured gadget as soon as it exists.
MayBind_AnyDirectory(d) == d # "absent"

\* "refusing to bind USB gadget without a populated primary disk"
MayBind(d) == d = "complete"

\* enable().  A complete directory has its LUN files written again, an
\* incomplete one is torn down first, an absent one is built; a write that
\* fails leaves it incomplete.  bind_udc then makes five attempts, each read
\* back, and may fail too.
Enable ==
  /\ gdir' \in {"complete"} \cup (IF "bind" \in Faults THEN {"partial"} ELSE {})
  /\ udc' \in {MayBind(gdir')} \cup (IF "bind" \in Faults THEN {FALSE} ELSE {})

UnmountPoint(m) ==
  mnt' \in {mnt \ {m}} \cup (IF "umount" \in Faults THEN {mnt} ELSE {})

-----------------------------------------------------------------------------
(* Locks.  flock by name; a killed holder's lock is released with its file.  *)

Acquire(a) == lock = "free" /\ lock' = a
Release(a) == lock = a /\ lock' = "free"

LoopWindow == loop.job \in {"cam", "music"} /\ loop.pc \in {"mount", "work"}

OnlyLoop == UNCHANGED <<wd, recov, chime, was, reach, travel, stops>>
OnlyWd == UNCHANGED <<loop, chime, was, reach, travel, stops>>
OnlyChime == UNCHANGED <<loop, wd, recov, reach, travel, stops>>

-----------------------------------------------------------------------------
(* The main loop: where it stands between two gadget operations.  A cycle is *)
(* started by Go and ends in Done.                                           *)

Go(j) == loop' = [loop EXCEPT !.pc = "wait", !.job = j]
GoTo(s) == loop' = [loop EXCEPT !.stage = s]

\* A cycle's results are forgotten with it.
Waiting == [pc |-> "at", job |-> "none", stage |-> "await", first |-> FALSE,
            ok |-> TRUE, cancelled |-> FALSE]

\* The stage that follows a finished gadget operation.
After(ok) ==
  CASE loop.stage = "boot" -> "connect"
    [] loop.stage = "connect" -> IF ok THEN "start" ELSE "connect"
    [] loop.stage = "archive" -> "music"
    [] loop.stage = "music" -> "reconnect"
    [] loop.stage \in {"reconnect", "cancel"} -> "end"
    [] loop.stage = "end" -> "after"
    [] loop.stage = "after" -> "rest"
    [] OTHER -> "await"

Done(ok) ==
  IF After(ok) = "await" THEN loop' = Waiting
  ELSE loop' = [loop EXCEPT !.pc = "at", !.job = "none", !.stage = After(ok)]

At(s) == loop.pc = "at" /\ loop.stage = s

\* Startup.  A bound gadget is left alone in Travel Mode; otherwise the cam
\* image is cleaned, unless a user skip deferred that, and the drive presented.
Startup ==
  /\ At("boot")
  /\ IF travel /\ Active THEN GoTo("start")
     ELSE Go("cam") \/ GoTo("connect")
  /\ UNCHANGED <<gvars, lock>> /\ OnlyLoop

\* connect_usb_at_startup: try until connected, or found connected.
ConnectAtStartup ==
  /\ At("connect")
  /\ Go("connect") \/ (Active /\ GoTo("start"))
  /\ UNCHANGED <<gvars, lock>> /\ OnlyLoop

BeginCycle(f) ==
  loop' = [loop EXCEPT !.stage = "archive", !.first = f, !.ok = TRUE,
                       !.cancelled = FALSE]

\* The archive reachable at startup is archived to at once; else the loop
\* waits for it.
FirstCycle ==
  /\ At("start")
  /\ IF reach THEN BeginCycle(TRUE) ELSE GoTo("await")
  /\ UNCHANGED <<gvars, lock>> /\ OnlyLoop

\* wait_for_archive_to_be_reachable.
AwaitArchive ==
  /\ At("await") /\ reach
  /\ BeginCycle(FALSE)
  /\ UNCHANGED <<gvars, lock>> /\ OnlyLoop

\* archive_clips up to the cleanup.  The archive cannot be mounted: fail.  The
\* clips failed, or there is nothing to clean, or Travel Mode, or the archive
\* was lost: no cleanup.  Otherwise clean_cam_mount.
ArchiveClips ==
  /\ At("archive")
  /\ \/ loop' = [loop EXCEPT !.stage = "end", !.ok = FALSE]
     \/ \E ok \in BOOLEAN : loop' = [loop EXCEPT !.stage = "music", !.ok = ok]
     \/ reach /\ ~travel /\ Go("cam")
  /\ UNCHANGED <<gvars, lock>> /\ OnlyLoop

\* archive_clips after the cleanup: stop when the archive is lost, copy music
\* unless Travel Mode or failed clips forbid it or there is none.
CopyMusic ==
  /\ At("music")
  /\ IF ~reach THEN loop' = [loop EXCEPT !.stage = "end", !.ok = FALSE]
     ELSE (loop.ok /\ ~travel /\ Go("music")) \/ GoTo("reconnect")
  /\ UNCHANGED <<gvars, lock>> /\ OnlyLoop

\* The reconnect branch of archive_clips.
Reconnect ==
  /\ At("reconnect")
  /\ IF (travel \/ ~loop.ok) /\ Active THEN GoTo("end") ELSE Go("ensure")
  /\ UNCHANGED <<gvars, lock>> /\ OnlyLoop

\* archive_cancel_requested between two stages.
CancelRequested ==
  /\ loop.pc = "at" /\ loop.stage \in {"archive", "music", "reconnect", "end"}
  /\ ~loop.cancelled
  /\ loop' = [loop EXCEPT !.stage = "cancel", !.cancelled = TRUE]
  /\ UNCHANGED <<gvars, lock>> /\ OnlyLoop

\* archive_cancel_cleanup, in the cycle and again after it.
CancelCleanup ==
  /\ At("cancel") \/ At("after")
  /\ IF (loop.stage = "cancel" \/ loop.cancelled) /\ ~Active THEN Go("ensure")
     ELSE GoTo(IF loop.stage = "cancel" THEN "end" ELSE "rest")
  /\ UNCHANGED <<gvars, lock>> /\ OnlyLoop

\* The end of a cycle: ensure the drive, when at home and not in Travel Mode.
EndCycle ==
  /\ At("end")
  /\ IF reach /\ ~travel THEN Go("ensure") ELSE GoTo("after")
  /\ UNCHANGED <<gvars, lock>> /\ OnlyLoop

\* wait_after_archive_cycle, then, except after the first cycle,
\* check_if_usb_gadget_is_mounted.
\* Mutant: nobody looks at the gadget between two cycles.
LeaveRest_Unchecked == loop' = Waiting

LeaveRest == IF ~loop.first /\ ~Active THEN Go("ensure") ELSE loop' = Waiting

Rest ==
  /\ At("rest")
  /\ ~reach \/ (~loop.cancelled /\ (travel \/ ~loop.ok))
  /\ LeaveRest
  /\ UNCHANGED <<gvars, lock>> /\ OnlyLoop

\* trigger_sync: the user's canary files end either wait.
TriggerSync ==
  /\ \/ At("rest") /\ LeaveRest
     \/ At("await") /\ BeginCycle(FALSE)
  /\ UNCHANGED <<gvars, lock>> /\ OnlyLoop

-----------------------------------------------------------------------------
(* The main loop: one gadget operation, under the lock. *)

LoopAt(p) == loop.pc = p
Step(p) == loop' = [loop EXCEPT !.pc = p]
Fail == Done(FALSE) /\ Release("loop")

\* The operations that end by presenting the drive.
Presents == loop.job \in {"connect", "ensure"}

LoopAcquire ==
  /\ LoopAt("wait") /\ Acquire("loop") /\ Step("held")
  /\ UNCHANGED gvars /\ OnlyLoop

\* Mutant: the drive is synced without being taken from the car.
LoopDecide_KeepsGadget ==
  /\ LoopAt("held")
  /\ \/ Step("fsck") /\ UNCHANGED <<gdir, udc, lock>>
     \/ /\ loop.job = "ensure" /\ Active
        /\ Done(TRUE) /\ Release("loop") /\ UNCHANGED <<gdir, udc>>
  /\ UNCHANGED mnt /\ OnlyLoop

\* ensure_usb_drives_connected_locked keeps a working drive unless user media
\* changed; connect gives up while the storage is not ready, and everyone when
\* there is no configfs to disable the gadget in.
LoopDecide ==
  /\ LoopAt("held")
  /\ \/ Disable /\ Step("fsck") /\ UNCHANGED lock
     \/ /\ loop.job = "ensure" /\ Active
        /\ Done(TRUE) /\ Release("loop") /\ UNCHANGED <<gdir, udc>>
     \/ /\ "bind" \in Faults \/ ("storage" \in Faults /\ Presents)
        /\ Fail /\ UNCHANGED <<gdir, udc>>
  /\ UNCHANGED mnt /\ OnlyLoop

\* fix_errors_in_images: a reclaim mount that cannot be released stops the
\* operation.  A cleanup then gives the lock back, a connect keeps it.
LoopFsck ==
  /\ LoopAt("fsck")
  /\ \/ "reclaim" \in Faults /\ Fail /\ mnt' = mnt \cup {"reclaim"}
     \/ /\ mnt' = mnt \ {"reclaim"}
        /\ IF Presents THEN Step("pull") /\ UNCHANGED lock
           ELSE Step("mount") /\ Release("loop")
  /\ UNCHANGED <<gdir, udc>> /\ OnlyLoop

\* ensure_cam_file_is_mounted and ensure_music_file_is_mounted: the lock is
\* already released.  Music goes on without its mount.
LoopMount ==
  /\ LoopAt("mount")
  /\ \/ mnt' = mnt \cup {loop.job} /\ Step("work")
     \/ /\ UNCHANGED mnt
        /\ IF loop.job = "cam" THEN Done(FALSE) ELSE Step("work")
  /\ UNCHANGED <<gdir, udc, lock>> /\ OnlyLoop

LoopUnmount ==
  /\ LoopAt("work") /\ UnmountPoint(loop.job) /\ Done(TRUE)
  /\ UNCHANGED <<gdir, udc, lock>> /\ OnlyLoop

\* sync_disk_media_to_host and sync_user_media_to_cam: mount, copy, unmount.
LoopSyncMount ==
  /\ \/ /\ LoopAt("pull")
        /\ \/ mnt' = mnt \cup {"cam"} /\ Step("pulled")
           \/ "cam" \notin mnt /\ UNCHANGED mnt /\ Step("push")
     \/ /\ LoopAt("push")
        /\ \/ mnt' = mnt \cup {"cam"} /\ Step("pushed")
           \/ "cam" \notin mnt /\ UNCHANGED mnt /\ Step("enable")
  /\ UNCHANGED <<gdir, udc, lock>> /\ OnlyLoop

LoopSyncUnmount ==
  /\ LoopAt("pulled") \/ LoopAt("pushed")
  /\ UnmountPoint("cam")
  /\ Step(IF LoopAt("pulled") THEN "push" ELSE "enable")
  /\ UNCHANGED <<gdir, udc, lock>> /\ OnlyLoop

LoopEnable ==
  /\ LoopAt("enable") /\ Enable /\ Release("loop") /\ Done(udc')
  /\ UNCHANGED mnt /\ OnlyLoop

LoopCycle ==
  \/ LoopAcquire \/ LoopDecide \/ LoopFsck \/ LoopMount \/ LoopUnmount
  \/ LoopSyncMount \/ LoopSyncUnmount \/ LoopEnable

LoopStage ==
  \/ Startup \/ ConnectAtStartup \/ FirstCycle \/ AwaitArchive \/ ArchiveClips
  \/ CopyMusic \/ Reconnect \/ CancelCleanup \/ EndCycle \/ Rest

-----------------------------------------------------------------------------
(* gadget_stall_watchdog. *)

\* Mutant: no limit on recoveries.
WdDecide_Unlimited ==
  /\ wd = "idle" /\ Active
  /\ wd' = "wait"
  /\ UNCHANGED <<gvars, lock, recov>> /\ OnlyWd

\* A stall is seen on an active gadget; the decision is taken without the lock.
WdDecide ==
  /\ wd = "idle" /\ Active /\ recov < MaxRecoveries
  /\ wd' = "wait"
  /\ UNCHANGED <<gvars, lock, recov>> /\ OnlyWd

\* flock -w 60.
WdAcquire ==
  /\ wd = "wait" /\ Acquire("watchdog") /\ wd' = "held"
  /\ UNCHANGED <<gvars, recov>> /\ OnlyWd

WdTimeout ==
  /\ wd = "wait" /\ lock # "free" /\ wd' = "idle"
  /\ UNCHANGED <<gvars, lock, recov>> /\ OnlyWd

\* Mutant: what was seen before the lock was taken is trusted.
WdMayCycle_Stale == TRUE

\* The check made again under the lock.
WdMayCycle == Active /\ "cam" \notin mnt /\ "music" \notin mnt

WdVerify ==
  /\ wd = "held"
  /\ IF WdMayCycle THEN Disable /\ wd' = "enable" /\ UNCHANGED lock
     ELSE UNCHANGED <<gdir, udc>> /\ wd' = "idle" /\ Release("watchdog")
  /\ UNCHANGED <<mnt, recov>> /\ OnlyWd

WdEnable ==
  /\ wd = "enable" /\ Enable /\ Release("watchdog")
  /\ wd' = "idle" /\ recov' = recov + 1
  /\ UNCHANGED mnt /\ OnlyWd

Watchdog == WdDecide \/ WdAcquire \/ WdTimeout \/ WdVerify \/ WdEnable

-----------------------------------------------------------------------------
(* sync_chime_to_cam_disk and clear_chimes_from_cam_disk, in the server. *)

ChimeRequest ==
  /\ "chime" \in Users
  /\ chime = "idle" /\ chime' = "wait"
  /\ UNCHANGED <<gvars, lock, was>> /\ OnlyChime

ChimeAcquire ==
  /\ chime = "wait" /\ Acquire("chime") /\ chime' = "held"
  /\ UNCHANGED <<gvars, was>> /\ OnlyChime

\* cycle_lock::acquire gives up after 600 s.
ChimeTimeout ==
  /\ chime = "wait" /\ lock # "free" /\ chime' = "idle"
  /\ UNCHANGED <<gvars, lock, was>> /\ OnlyChime

\* is_gadget_active looks at the directory only.
ChimeDisable ==
  /\ chime = "held" /\ chime' = "write"
  /\ was' = (gdir # "absent")
  /\ IF was' THEN Disable ELSE UNCHANGED <<gdir, udc>>
  /\ UNCHANGED <<mnt, lock>> /\ OnlyChime

\* An image somebody has mounted is left alone, and a mount may fail.
ChimeMount ==
  /\ chime = "write"
  /\ \/ "cam" \notin mnt /\ mnt' = mnt \cup {"cam"} /\ chime' = "umount"
     \/ UNCHANGED mnt /\ chime' = "enable"
  /\ UNCHANGED <<gdir, udc, lock, was>> /\ OnlyChime

ChimeUnmount ==
  /\ chime = "umount" /\ UnmountPoint("cam") /\ chime' = "enable"
  /\ UNCHANGED <<gdir, udc, lock, was>> /\ OnlyChime

ChimeEnable ==
  /\ chime = "enable" /\ chime' = "idle" /\ was' = FALSE
  /\ IF was THEN Enable ELSE UNCHANGED <<gdir, udc>>
  /\ Release("chime")
  /\ UNCHANGED mnt /\ OnlyChime

Chime == ChimeAcquire \/ ChimeTimeout \/ ChimeDisable \/ ChimeMount
         \/ ChimeUnmount \/ ChimeEnable

-----------------------------------------------------------------------------
(* toggle_drives: one request, under the lock from its first look to its end. *)

Toggle ==
  /\ "toggle" \in Users
  /\ lock = "free"
  /\ "toggle" \in Faults \/ (mnt = {} /\ ~LoopWindow)
  /\ IF Active THEN Disable ELSE Enable
  /\ UNCHANGED <<mnt, lock, loop, wd, recov, chime, was, reach, travel, stops>>

-----------------------------------------------------------------------------
(* The environment. *)

ComeOrGo ==
  /\ reach' = ~reach
  /\ UNCHANGED <<gvars, lock, loop, wd, recov, chime, was, travel, stops>>

SetTravelMode ==
  /\ travel' = ~travel
  /\ UNCHANGED <<gvars, lock, loop, wd, recov, chime, was, reach, stops>>

\* A gadget whose owner dies while it writes configfs may be left half built,
\* or built and not bound.
Torn(dying) == gdir' \in IF dying THEN {gdir, "partial", "complete"} ELSE {gdir}

\* archiveloop dies and is started again: the gadget and the mounts survive,
\* its lock does not.  Its first act is to release a reclaim mount.
KillArchiveloop ==
  /\ stops < MaxStops
  /\ "music" \in Faults \/ "music" \notin mnt
  /\ stops' = stops + 1
  /\ loop' = FreshLoop /\ wd' = "idle" /\ recov' = 0
  /\ lock' = IF lock \in {"loop", "watchdog"} THEN "free" ELSE lock
  /\ Torn(LoopAt("enable") \/ wd = "enable")
  /\ mnt' \in {mnt \ {"reclaim"}} \cup
       (IF "reclaim" \in Faults /\ (LoopAt("fsck") \/ "reclaim" \in mnt)
        THEN {mnt \cup {"reclaim"}} ELSE {})
  /\ UNCHANGED <<udc, chime, was, reach, travel>>

KillServer ==
  /\ stops < MaxStops
  /\ stops' = stops + 1
  /\ chime' = "idle" /\ was' = FALSE
  /\ lock' = IF lock = "chime" THEN "free" ELSE lock
  /\ Torn(chime = "enable" /\ was)
  /\ UNCHANGED <<udc, mnt, loop, wd, recov, reach, travel>>

Reboot ==
  /\ stops < MaxStops
  /\ stops' = stops + 1
  /\ gdir' = "absent" /\ udc' = FALSE /\ mnt' = {} /\ lock' = "free"
  /\ loop' = FreshLoop /\ wd' = "idle" /\ recov' = 0
  /\ chime' = "idle" /\ was' = FALSE
  /\ UNCHANGED <<reach, travel>>

Next ==
  \/ LoopStage \/ LoopCycle \/ Watchdog \/ Chime
  \/ CancelRequested \/ TriggerSync \/ ChimeRequest \/ Toggle \/ ComeOrGo \/ SetTravelMode
  \/ KillArchiveloop \/ KillServer \/ Reboot

Spec == Init /\ [][Next]_vars

(***************************************************************************)
(* Every started operation goes on; the lock is not withheld from a        *)
(* blocked flock for ever; the loop's polls of the archive see a change    *)
(* that comes again and again; what may fail succeeds in the end when it   *)
(* is tried again and again.                                               *)
(***************************************************************************)
Fairness ==
  /\ WF_vars(LoopStage) /\ WF_vars(LoopCycle) /\ WF_vars(Watchdog) /\ WF_vars(Chime)
  /\ WF_vars(ComeOrGo)
  /\ SF_vars(AwaitArchive) /\ SF_vars(Rest) /\ SF_vars(LoopAcquire)
  /\ SF_vars(LoopDecide /\ Presents /\ loop'.pc = "fsck")
  /\ SF_vars(LoopFsck /\ loop'.pc = "pull")
  /\ SF_vars(LoopEnable /\ udc')

FairSpec == Spec /\ Fairness

-----------------------------------------------------------------------------
(* Properties. *)

\* An image is never mounted here while the car has it: "two writers on one
\* block device" (run/archiveloop, above GADGET_CYCLE_LOCK).
NoTwoWriters == Active => mnt = {}

\* enable() never binds a gadget whose primary disk is missing, whatever a
\* failed or interrupted enable left behind.
BoundIsPopulated == udc => gdir = "complete"

\* The cycles implement OneWriter: the drive goes from the car to this
\* machine and back only through an unbound, unmounted state.
Holder == IF Active THEN (IF mnt = {} THEN "car" ELSE "both")
          ELSE (IF mnt = {} THEN "nobody" ELSE "pi")

Images == INSTANCE OneWriter WITH holder <- Holder

ImagesHaveOneWriter == Images!Spec

\* A driver who comes home and leaves again and again finds the drive presented
\* again and again, whatever failed in between.
DriveComesBack == []<>Active

\* While the loop waits for the archive to come back, the car has its drive:
\* "If the user drove away during archive, the gadget is still presented to the
\* car" (run/archiveloop, archive_clips).
WaitingPresentsDrive == At("await") => Active
=============================================================================
