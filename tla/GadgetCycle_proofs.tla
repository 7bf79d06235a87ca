------------------------- MODULE GadgetCycle_proofs -------------------------
(***************************************************************************)
(* Proofs about the gadget cycle, for every number of recoveries, kills    *)
(* and reboots and every set of users and faults.                          *)
(*                                                                         *)
(* Two inductive invariants.  BoundInv needs no assumption on the faults:  *)
(* whoever is past its "disable" holds the lock and has the controller     *)
(* unbound, so an interrupted enable() never tears a bound gadget.         *)
(* ApartInv is about the images: whenever one is mounted, or the loop may  *)
(* mount one without the lock, the gadget directory is gone, which is what *)
(* keeps the chime writer and the watchdog from presenting the drive.  It  *)
(* holds under the faults the cycles handle, CycleFaults.                  *)
(***************************************************************************)
EXTENDS GadgetCycle, TLAPS

LoopType == [pc : LoopPC, job : Jobs, stage : Stages, first : BOOLEAN,
             ok : BOOLEAN, cancelled : BOOLEAN]

\* Where each party is when it must have the lock, and where it is when it has
\* taken the drive from the car and not given it back.
LoopLocked == {"held", "fsck", "pull", "pulled", "push", "pushed", "enable"}
LoopCycling == LoopLocked \ {"held"}
ChimeLocked == {"held", "write", "umount", "enable"}
ChimeCycling == ChimeLocked \ {"held"}

LockInv ==
  /\ loop.pc \in LoopLocked => lock = "loop"
  /\ wd \in {"held", "enable"} => lock = "watchdog"
  /\ chime \in ChimeLocked => lock = "chime"

UnboundInv ==
  /\ loop.pc \in LoopCycling => ~udc
  /\ wd = "enable" => ~udc
  /\ chime \in ChimeCycling => ~udc

\* The watchdog counts a recovery after it, and decides before it.
RecoveryInv == wd # "idle" => recov < MaxRecoveries

\* An operation has a job, and only a cleanup or a music copy mounts without
\* the lock.
JobInv ==
  /\ loop.pc # "at" => loop.job # "none"
  /\ loop.pc \in {"mount", "work"} => loop.job \in {"cam", "music"}

BoundInv == TypeOK /\ LockInv /\ UnboundInv /\ JobInv /\ RecoveryInv /\ BoundIsPopulated

-----------------------------------------------------------------------------
(* What the steps between two gadget operations have in common: the loop's   *)
(* record changes, and no cycle is under way before or after.                *)

StageStep == LoopStage \/ CancelRequested \/ TriggerSync

\* The stage after a finished operation is a stage.
LEMMA AfterType == ASSUME NEW ok \in BOOLEAN PROVE After(ok) \in Stages
  BY DEF After, Stages

\* The loop's record while it waits, and after a start, has the record's type.
LEMMA WaitingType ==
  /\ Waiting \in LoopType /\ Waiting.pc = "at" /\ Waiting.job = "none"
  /\ FreshLoop \in LoopType /\ FreshLoop.pc = "at" /\ FreshLoop.job = "none"
  <1>1. Waiting \in LoopType
    BY DEF Waiting, LoopType, LoopPC, Jobs, Stages
  <1>2. FreshLoop \in LoopType
    BY DEF FreshLoop, LoopType, LoopPC, Jobs, Stages
  <1> QED BY <1>1, <1>2 DEF Waiting, FreshLoop

\* A finished operation leaves the loop between two operations.
LEMMA DoneFacts ==
  ASSUME loop \in LoopType, NEW ok \in BOOLEAN, Done(ok)
  PROVE  loop' \in LoopType /\ loop'.pc = "at" /\ loop'.job = "none"
  <1>1. After(ok) \in Stages
    BY AfterType
  <1>2. CASE After(ok) = "await"
    BY <1>2, WaitingType DEF Done
  <1>3. CASE After(ok) # "await"
    <2>1. loop' = [loop EXCEPT !.pc = "at", !.job = "none", !.stage = After(ok)]
      BY <1>3 DEF Done
    <2> QED BY <1>1, <2>1 DEF LoopType, LoopPC, Jobs
  <1> QED BY <1>2, <1>3

\* A step of the main loop between two operations changes nothing but the
\* loop's record, and may only ask for the lock.
LEMMA StageFacts ==
  ASSUME loop \in LoopType, StageStep
  PROVE  /\ loop' \in LoopType
         /\ loop.pc = "at" /\ loop'.pc \in {"at", "wait"}
         /\ loop'.pc = "wait" => loop'.job # "none"
         /\ UNCHANGED <<gdir, udc, mnt, lock, wd, recov, chime, was, reach, travel, stops>>
  <1> USE DEF OnlyLoop, gvars, At, Go, GoTo, LoopType, LoopPC, Jobs, Stages
  <1>1. CASE Startup BY <1>1 DEF Startup
  <1>2. CASE ConnectAtStartup BY <1>2 DEF ConnectAtStartup
  <1>3. CASE FirstCycle BY <1>3 DEF FirstCycle, BeginCycle
  <1>4. CASE AwaitArchive BY <1>4 DEF AwaitArchive, BeginCycle
  <1>5. CASE ArchiveClips BY <1>5 DEF ArchiveClips
  <1>6. CASE CopyMusic BY <1>6 DEF CopyMusic
  <1>7. CASE Reconnect BY <1>7 DEF Reconnect
  <1>8. CASE CancelCleanup BY <1>8 DEF CancelCleanup
  <1>9. CASE EndCycle BY <1>9 DEF EndCycle
  <1>10. CASE Rest BY <1>10, WaitingType DEF Rest, LeaveRest
  <1>11. CASE CancelRequested BY <1>11 DEF CancelRequested
  <1>12. CASE TriggerSync BY <1>12, WaitingType DEF TriggerSync, LeaveRest, BeginCycle
  <1> QED
    BY <1>1, <1>2, <1>3, <1>4, <1>5, <1>6, <1>7, <1>8, <1>9, <1>10, <1>11, <1>12
       DEF StageStep, LoopStage

\* disable() leaves the gadget unbound, enable() binds only a complete one.
LEMMA DisableFacts == Disable => ~udc' /\ udc' = FALSE /\ gdir' \in {"absent", "partial"}
  BY DEF Disable

LEMMA EnableFacts ==
  Enable => gdir' \in {"partial", "complete"} /\ udc' \in BOOLEAN /\ (udc' => gdir' = "complete")
  BY DEF Enable, MayBind

\* umount takes the mount away, or leaves everything mounted.
LEMMA UnmountFacts == ASSUME NEW m, UnmountPoint(m) PROVE mnt' = mnt \ {m} \/ mnt' = mnt
  BY DEF UnmountPoint

-----------------------------------------------------------------------------
(* The first invariant, action by action. *)

LEMMA BoundInit == Init => BoundInv
  <1> SUFFICES ASSUME Init PROVE BoundInv
    OBVIOUS
  <1>1. loop \in LoopType /\ loop.pc = "at"
    BY WaitingType DEF Init
  <1>2. TypeOK
    <2>1. recov \in 0..MaxRecoveries /\ stops \in 0..MaxStops
      BY GadgetAssumption DEF Init
    <2>2. udc \in BOOLEAN /\ was \in BOOLEAN /\ reach \in BOOLEAN /\ travel \in BOOLEAN
      BY Zenon DEF Init
    <2>3. mnt = {} /\ gdir = "absent" /\ lock = "free" /\ wd = "idle" /\ chime = "idle"
      BY DEF Init
    <2> QED BY <1>1, <2>1, <2>2, <2>3 DEF TypeOK, LoopType
  <1>3. LockInv /\ UnboundInv
    BY <1>1 DEF Init, LockInv, UnboundInv, LoopLocked, LoopCycling, ChimeLocked, ChimeCycling
  <1>4. JobInv /\ RecoveryInv /\ BoundIsPopulated
    BY <1>1 DEF Init, JobInv, RecoveryInv, BoundIsPopulated
  <1> QED BY <1>2, <1>3, <1>4 DEF BoundInv

\* One gadget operation of the main loop keeps the first invariant.
LEMMA BoundLoop == BoundInv /\ LoopCycle => BoundInv'
  <1> SUFFICES ASSUME BoundInv, LoopCycle PROVE BoundInv'
    OBVIOUS
  <1> USE DEF BoundInv, TypeOK, LockInv, UnboundInv, JobInv, RecoveryInv, BoundIsPopulated,
              OnlyLoop, LoopAt, LoopLocked, LoopCycling, ChimeLocked, ChimeCycling
  <1>t. loop \in LoopType
    BY DEF LoopType
  <1>s. ASSUME NEW p \in LoopPC, Step(p)
        PROVE loop' \in LoopType /\ loop'.pc = p /\ loop'.job = loop.job
    BY <1>t, <1>s DEF Step, LoopType
  <1>p. {"held", "fsck", "mount", "work", "pull", "pulled", "push", "pushed", "enable"}
          \subseteq LoopPC
    BY DEF LoopPC
  <1>d. ASSUME NEW ok \in BOOLEAN, Done(ok)
        PROVE loop' \in LoopType /\ loop'.pc = "at" /\ loop'.job = "none"
    BY <1>t, <1>d, DoneFacts
  <1>1. CASE LoopAcquire
    BY <1>1, <1>s, <1>p DEF LoopAcquire, Acquire, gvars, LoopType
  <1>2. CASE LoopDecide
    <2>1. CASE Disable /\ Step("fsck") /\ UNCHANGED lock
      BY <1>2, <2>1, <1>s, <1>p, DisableFacts DEF LoopDecide, LoopType
    <2>2. ASSUME NEW ok \in BOOLEAN, Done(ok), Release("loop"), UNCHANGED <<gdir, udc>>
          PROVE BoundInv'
      BY <1>2, <2>2, <1>d DEF LoopDecide, LoopType, Release
    <2> QED BY <1>2, <2>1, <2>2 DEF LoopDecide, Fail
  <1>3. CASE LoopFsck
    <2>1. CASE Fail /\ mnt' = mnt \cup {"reclaim"}
      BY <1>3, <2>1, <1>d DEF LoopFsck, LoopType, Release, Fail
    <2>2. CASE mnt' = mnt \ {"reclaim"} /\ Step("pull") /\ UNCHANGED lock
      BY <1>3, <2>2, <1>s, <1>p DEF LoopFsck, LoopType
    <2>3. CASE mnt' = mnt \ {"reclaim"} /\ Step("mount") /\ Release("loop")
      <3>1. loop.job \in {"cam", "music"}
        BY <1>3, <2>3 DEF LoopFsck, Presents, LoopType, Jobs, Step
      <3> QED BY <1>3, <2>3, <3>1, <1>s, <1>p DEF LoopFsck, LoopType, Release
    <2> QED BY <1>3, <2>1, <2>2, <2>3 DEF LoopFsck
  <1>4. CASE LoopMount
    <2>1. mnt' \subseteq {"cam", "music", "reclaim"}
      BY <1>4, GadgetAssumption DEF LoopMount
    <2>2. \/ loop' \in LoopType /\ loop'.pc = "work" /\ loop'.job = loop.job
          \/ loop' \in LoopType /\ loop'.pc = "at"
      BY <1>4, <1>s, <1>p, <1>d DEF LoopMount
    <2> QED BY <1>4, <2>1, <2>2 DEF LoopMount, LoopType
  <1>5. CASE LoopUnmount
    <2>1. mnt' \subseteq mnt
      BY <1>5, UnmountFacts DEF LoopUnmount
    <2> QED BY <1>5, <2>1, <1>d DEF LoopUnmount, LoopType
  <1>6. CASE LoopSyncMount
    BY <1>6, <1>s, <1>p DEF LoopSyncMount, LoopType
  <1>7. CASE LoopSyncUnmount
    <2>1. mnt' \subseteq mnt
      BY <1>7, UnmountFacts DEF LoopSyncUnmount
    <2> QED BY <1>7, <2>1, <1>s, <1>p DEF LoopSyncUnmount, LoopType
  <1>8. CASE LoopEnable
    BY <1>8, <1>d, EnableFacts DEF LoopEnable, LoopType, Release
  <1> QED BY <1>1, <1>2, <1>3, <1>4, <1>5, <1>6, <1>7, <1>8 DEF LoopCycle

\* The other parties leave the loop's job alone.
LEMMA JobKept == JobInv /\ UNCHANGED loop => JobInv'
  BY DEF JobInv

\* The watchdog keeps the first invariant.
LEMMA BoundWatchdog == BoundInv /\ Watchdog => BoundInv'
  <1> SUFFICES ASSUME BoundInv, Watchdog PROVE BoundInv'
    OBVIOUS
  <1> USE DEF BoundInv, TypeOK, LockInv, UnboundInv, RecoveryInv, BoundIsPopulated,
              OnlyWd, gvars, Acquire, Release, LoopLocked, LoopCycling, ChimeLocked, ChimeCycling
  <1>1. CASE WdDecide BY <1>1, JobKept DEF WdDecide
  <1>2. CASE WdAcquire BY <1>2, JobKept DEF WdAcquire
  <1>3. CASE WdTimeout BY <1>3, JobKept DEF WdTimeout
  <1>4. CASE WdVerify
    <2>1. CASE Disable /\ wd' = "enable" /\ UNCHANGED lock
      BY <1>4, <2>1, JobKept, DisableFacts DEF WdVerify
    <2>2. CASE UNCHANGED <<gdir, udc>> /\ wd' = "idle" /\ Release("watchdog")
      BY <1>4, <2>2, JobKept DEF WdVerify
    <2> QED BY <1>4, <2>1, <2>2 DEF WdVerify
  <1>5. CASE WdEnable
    <2>1. recov' \in 0..MaxRecoveries
      BY <1>5, GadgetAssumption DEF WdEnable
    <2>2. wd = "enable" /\ wd' = "idle" /\ lock = "watchdog" /\ lock' = "free"
          /\ UNCHANGED <<mnt, loop, chime, was, reach, travel, stops>>
      BY <1>5 DEF WdEnable
    <2>3. gdir' \in {"partial", "complete"} /\ udc' \in BOOLEAN /\ (udc' => gdir' = "complete")
      BY <1>5, EnableFacts DEF WdEnable
    <2> QED BY <2>1, <2>2, <2>3, JobKept
  <1> QED BY <1>1, <1>2, <1>3, <1>4, <1>5 DEF Watchdog

\* The server's chime cycle keeps the first invariant.
LEMMA BoundChime == BoundInv /\ (Chime \/ ChimeRequest) => BoundInv'
  <1> SUFFICES ASSUME BoundInv, Chime \/ ChimeRequest PROVE BoundInv'
    OBVIOUS
  <1> USE DEF BoundInv, TypeOK, LockInv, UnboundInv, RecoveryInv, BoundIsPopulated,
              OnlyChime, gvars, Acquire, Release, LoopLocked, LoopCycling, ChimeLocked, ChimeCycling
  <1>0. CASE ChimeRequest BY <1>0, JobKept DEF ChimeRequest
  <1>1. CASE ChimeAcquire BY <1>1, JobKept DEF ChimeAcquire
  <1>2. CASE ChimeTimeout BY <1>2, JobKept DEF ChimeTimeout
  <1>3. CASE ChimeDisable BY <1>3, JobKept, DisableFacts DEF ChimeDisable
  <1>4. CASE ChimeMount BY <1>4, JobKept DEF ChimeMount
  <1>5. CASE ChimeUnmount BY <1>5, JobKept DEF ChimeUnmount, UnmountPoint
  <1>6. CASE ChimeEnable BY <1>6, JobKept, EnableFacts DEF ChimeEnable
  <1> QED BY <1>0, <1>1, <1>2, <1>3, <1>4, <1>5, <1>6 DEF Chime

\* The drive toggle, the surroundings, kills and reboots keep it.
LEMMA BoundOthers ==
  BoundInv /\ (Toggle \/ ComeOrGo \/ SetTravelMode \/ KillArchiveloop \/ KillServer \/ Reboot)
    => BoundInv'
  <1> SUFFICES ASSUME BoundInv, Toggle \/ ComeOrGo \/ SetTravelMode \/ KillArchiveloop
                                \/ KillServer \/ Reboot
               PROVE  BoundInv'
    OBVIOUS
  <1> USE DEF BoundInv, TypeOK, LockInv, UnboundInv, RecoveryInv, BoundIsPopulated,
              gvars, LoopLocked, LoopCycling, ChimeLocked, ChimeCycling
  <1>f. FreshLoop \in LoopType /\ FreshLoop.pc = "at"
    BY WaitingType
  <1>1. CASE Toggle BY <1>1, JobKept, DisableFacts, EnableFacts DEF Toggle
  <1>2. CASE ComeOrGo
    <2>1. reach' \in BOOLEAN
      BY <1>2, Zenon DEF ComeOrGo
    <2> QED BY <1>2, <2>1, JobKept DEF ComeOrGo
  <1>3. CASE SetTravelMode
    <2>1. travel' \in BOOLEAN
      BY <1>3, Zenon DEF SetTravelMode
    <2> QED BY <1>3, <2>1, JobKept DEF SetTravelMode
  <1>4. CASE KillArchiveloop
    BY <1>4, <1>f, GadgetAssumption DEF KillArchiveloop, Torn, LoopAt, LoopType, JobInv
  <1>5. CASE KillServer
    <2>1. stops' \in 0..MaxStops /\ gdir' \in {"absent", "partial", "complete"}
      BY <1>5, GadgetAssumption DEF KillServer, Torn
    <2>2. udc' => gdir' = "complete"
      BY <1>5 DEF KillServer, Torn
    <2> QED BY <1>5, <2>1, <2>2, JobKept DEF KillServer
  <1>6. CASE Reboot
    <2>1. stops' \in 0..MaxStops
      BY <1>6, GadgetAssumption DEF Reboot
    <2>2. loop' \in LoopType /\ loop'.pc = "at"
      BY <1>6, <1>f DEF Reboot
    <2>3. recov' \in 0..MaxRecoveries
      BY <1>6, GadgetAssumption DEF Reboot
    <2> QED BY <1>6, <2>1, <2>2, <2>3 DEF Reboot, LoopType, JobInv
  <1> QED BY <1>1, <1>2, <1>3, <1>4, <1>5, <1>6

LEMMA BoundNext == BoundInv /\ [Next]_vars => BoundInv'
  <1> SUFFICES ASSUME BoundInv, [Next]_vars PROVE BoundInv'
    OBVIOUS
  <1>1. CASE StageStep
    <2>1. loop \in LoopType
      BY DEF BoundInv, TypeOK, LoopType
    <2>2. /\ loop' \in LoopType /\ loop'.pc \in {"at", "wait"}
          /\ loop'.pc = "wait" => loop'.job # "none"
          /\ UNCHANGED <<gdir, udc, mnt, lock, wd, recov, chime, was, reach, travel, stops>>
      BY <1>1, <2>1, StageFacts
    <2>3. TypeOK' /\ RecoveryInv' /\ BoundIsPopulated'
      BY <2>2 DEF BoundInv, TypeOK, RecoveryInv, BoundIsPopulated, LoopType
    <2>4. LockInv' /\ UnboundInv' /\ JobInv'
      BY <2>2 DEF BoundInv, LockInv, UnboundInv, JobInv, LoopLocked, LoopCycling
    <2> QED BY <2>3, <2>4 DEF BoundInv
  <1>2. CASE UNCHANGED vars
    BY <1>2, JobKept DEF vars, BoundInv, TypeOK, LockInv, UnboundInv, RecoveryInv, BoundIsPopulated
  <1> QED
    BY <1>1, <1>2, BoundLoop, BoundWatchdog, BoundChime, BoundOthers DEF Next, StageStep

(* The state of the gadget, the lock and the four parties keeps its type,  *)
(* whatever fails and whoever is killed; in particular the watchdog never  *)
(* makes more recoveries than its limit.                                   *)
THEOREM GadgetTypes == Spec => []TypeOK
  <1>1. Spec => []BoundInv
    BY BoundInit, BoundNext, PTL DEF Spec
  <1>2. BoundInv => TypeOK
    BY DEF BoundInv
  <1> QED BY <1>1, <1>2, PTL

(* enable() never leaves the controller bound to a gadget without its      *)
(* primary disk, under every combination of faults: not after a failed     *)
(* write, not after a kill in the middle of it.                            *)
THEOREM BoundGadgetsArePopulated == Spec => []BoundIsPopulated
  <1>1. Spec => []BoundInv
    BY BoundInit, BoundNext, PTL DEF Spec
  <1>2. BoundInv => BoundIsPopulated
    BY DEF BoundInv
  <1> QED BY <1>1, <1>2, PTL

-----------------------------------------------------------------------------
(* The second invariant: an image is mounted only while the gadget directory *)
(* is gone.                                                                  *)

\* The faults under which the cycles keep car and machine apart.
CycleFaults == {"bind", "storage", "reclaim"}

\* A directory that is there means nothing is mounted, nor about to be.
DownInv ==
  /\ mnt # {} => gdir = "absent"
  /\ LoopWindow => gdir = "absent"
  /\ loop.pc \in LoopCycling => gdir = "absent"
  /\ chime \in ChimeCycling => gdir = "absent"

\* The music image is mounted by nobody but the loop's music copy.
MusicInv == "music" \in mnt => loop.job = "music" /\ loop.pc = "work"

\* What may be mounted while the drive is about to be presented.
LoopMountInv ==
  /\ loop.pc \in {"pull", "pulled", "push", "pushed"} => mnt \subseteq {"cam"}
  /\ loop.pc = "enable" => mnt = {}

WdMountInv == wd = "enable" => mnt = {} /\ ~LoopWindow /\ gdir = "absent"

\* A chime cycle that took the drive from the car is alone with the image.
ChimeMountInv ==
  /\ was /\ chime \in ChimeCycling => ~LoopWindow /\ mnt \subseteq {"cam"}
  /\ was /\ chime \in {"write", "enable"} => mnt = {}

ApartInv == DownInv /\ MusicInv /\ LoopMountInv /\ WdMountInv /\ ChimeMountInv

\* Without residue a teardown is complete, and without a stuck umount an
\* unmount is one.
LEMMA DisableDown == ASSUME Faults \subseteq CycleFaults, Disable PROVE gdir' = "absent"
  BY DEF Disable, CycleFaults

LEMMA UnmountDown ==
  ASSUME Faults \subseteq CycleFaults, NEW m, UnmountPoint(m) PROVE mnt' = mnt \ {m}
  BY DEF UnmountPoint, CycleFaults

LEMMA ApartInit == Init => ApartInv
  <1> SUFFICES ASSUME Init PROVE ApartInv
    OBVIOUS
  <1>1. loop.pc = "at" /\ mnt = {} /\ wd = "idle" /\ chime = "idle"
    BY WaitingType DEF Init
  <1> QED
    BY <1>1 DEF ApartInv, DownInv, MusicInv, LoopMountInv, WdMountInv, ChimeMountInv,
                LoopWindow, LoopLocked, LoopCycling, ChimeLocked, ChimeCycling

\* One gadget operation of the main loop keeps the images apart.
LEMMA ApartLoop ==
  ASSUME Faults \subseteq CycleFaults, BoundInv, ApartInv, LoopCycle PROVE ApartInv'
  <1> USE DEF ApartInv, DownInv, MusicInv, LoopMountInv, WdMountInv, ChimeMountInv,
              LoopWindow, LockInv, OnlyLoop, LoopAt, LoopLocked, LoopCycling,
              ChimeLocked, ChimeCycling
  <1>t. loop \in LoopType /\ LockInv /\ mnt \subseteq {"cam", "music", "reclaim"}
    BY DEF BoundInv, TypeOK, LoopType
  <1>s. ASSUME NEW p \in LoopPC, Step(p) PROVE loop'.pc = p /\ loop'.job = loop.job
    BY <1>t, <1>s DEF Step, LoopType
  <1>p. {"held", "fsck", "mount", "work", "pull", "pulled", "push", "pushed", "enable"}
          \subseteq LoopPC
    BY DEF LoopPC
  <1>d. ASSUME NEW ok \in BOOLEAN, Done(ok) PROVE loop'.pc = "at" /\ loop'.job = "none"
    BY <1>t, <1>d, DoneFacts
  <1>1. CASE LoopAcquire
    BY <1>1, <1>t, <1>s, <1>p DEF LoopAcquire, Acquire, gvars
  <1>2. CASE LoopDecide
    <2>1. CASE Disable /\ Step("fsck") /\ UNCHANGED lock
      BY <1>2, <2>1, <1>t, <1>s, <1>p, DisableDown DEF LoopDecide
    <2>2. ASSUME NEW ok \in BOOLEAN, Done(ok), UNCHANGED <<gdir, udc>> PROVE ApartInv'
      BY <1>2, <2>2, <1>t, <1>d DEF LoopDecide
    <2> QED BY <1>2, <2>1, <2>2 DEF LoopDecide, Fail
  <1>3. CASE LoopFsck
    <2>0. lock = "loop" /\ gdir = "absent" /\ wd # "enable" /\ chime \notin ChimeCycling
      BY <1>3, <1>t DEF LoopFsck
    <2>1. CASE Fail /\ mnt' = mnt \cup {"reclaim"}
      BY <1>3, <2>0, <2>1, <1>t, <1>d DEF LoopFsck, Fail
    <2>2. CASE mnt' = mnt \ {"reclaim"} /\ Step("pull") /\ UNCHANGED lock
      <3>1. mnt' \subseteq {"cam"}
        BY <1>3, <2>2, <1>t DEF LoopFsck
      <3> QED BY <1>3, <2>0, <2>2, <3>1, <1>t, <1>s, <1>p DEF LoopFsck
    <2>3. CASE mnt' = mnt \ {"reclaim"} /\ Step("mount") /\ Release("loop")
      BY <1>3, <2>0, <2>3, <1>t, <1>s, <1>p DEF LoopFsck
    <2> QED BY <1>3, <2>1, <2>2, <2>3 DEF LoopFsck
  <1>4. CASE LoopMount
    <2>0. loop.job \in {"cam", "music"} /\ LoopWindow
      BY <1>4 DEF LoopMount, BoundInv, JobInv
    <2>1. gdir = "absent" /\ wd # "enable" /\ ~(was /\ chime \in ChimeCycling)
      BY <2>0
    <2>2. \/ loop'.pc = "work" /\ loop'.job = loop.job /\ mnt' \in {mnt, mnt \cup {loop.job}}
          \/ loop'.pc = "at" /\ mnt' = mnt
      BY <1>4, <1>s, <1>p, <1>d DEF LoopMount
    <2> QED BY <1>4, <2>0, <2>1, <2>2 DEF LoopMount
  <1>5. CASE LoopUnmount
    <2>1. mnt' = mnt \ {loop.job} /\ loop.pc = "work" /\ loop'.pc = "at"
      BY <1>5, <1>d, UnmountDown DEF LoopUnmount
    <2>2. loop.job \in {"cam", "music"}
      BY <2>1 DEF BoundInv, JobInv
    <2> QED BY <1>5, <2>1, <2>2, <1>t DEF LoopUnmount
  <1>6. CASE LoopSyncMount
    <2>0. lock = "loop" /\ gdir = "absent" /\ wd # "enable" /\ chime \notin ChimeCycling
      BY <1>6, <1>t DEF LoopSyncMount
    <2>1. mnt \subseteq {"cam"} /\ mnt' \subseteq {"cam"}
      BY <1>6 DEF LoopSyncMount
    <2>2. loop'.pc \in {"pulled", "push", "pushed", "enable"}
      BY <1>6, <1>s, <1>p DEF LoopSyncMount
    <2>3. loop'.pc = "enable" => mnt' = {}
      BY <1>6, <2>1, <1>s, <1>p DEF LoopSyncMount
    <2> QED BY <1>6, <2>0, <2>1, <2>2, <2>3 DEF LoopSyncMount
  <1>7. CASE LoopSyncUnmount
    <2>0. lock = "loop" /\ gdir = "absent" /\ wd # "enable" /\ chime \notin ChimeCycling
      BY <1>7, <1>t DEF LoopSyncUnmount
    <2>1. mnt' = {}
      BY <1>7, UnmountDown DEF LoopSyncUnmount
    <2>2. loop'.pc \in {"push", "enable"}
      BY <1>7, <1>s, <1>p DEF LoopSyncUnmount
    <2> QED BY <1>7, <2>0, <2>1, <2>2 DEF LoopSyncUnmount
  <1>8. CASE LoopEnable
    <2>0. lock = "loop" /\ mnt' = {} /\ wd # "enable" /\ chime \notin ChimeCycling
      BY <1>8, <1>t DEF LoopEnable
    <2>1. loop'.pc = "at"
      BY <1>8, <1>d, EnableFacts DEF LoopEnable
    <2> QED BY <1>8, <2>0, <2>1 DEF LoopEnable
  <1> QED BY <1>1, <1>2, <1>3, <1>4, <1>5, <1>6, <1>7, <1>8 DEF LoopCycle

\* The watchdog keeps the images apart: it cycles a gadget that is presented.
LEMMA ApartWatchdog ==
  ASSUME Faults \subseteq CycleFaults, BoundInv, ApartInv, Watchdog PROVE ApartInv'
  <1> USE DEF ApartInv, DownInv, MusicInv, LoopMountInv, WdMountInv, ChimeMountInv,
              LoopWindow, LockInv, OnlyWd, LoopLocked, LoopCycling, ChimeLocked, ChimeCycling
  <1>t. LockInv
    BY DEF BoundInv
  <1>1. CASE WdDecide BY <1>1 DEF WdDecide, gvars
  <1>2. CASE WdAcquire BY <1>2 DEF WdAcquire, gvars
  <1>3. CASE WdTimeout BY <1>3 DEF WdTimeout, gvars
  <1>4. CASE WdVerify
    <2>1. CASE WdMayCycle
      <3>1. Disable /\ gdir = "complete" /\ wd' = "enable"
        BY <1>4, <2>1 DEF WdVerify, WdMayCycle, Active
      <3> QED BY <1>4, <3>1, DisableDown DEF WdVerify
    <2>2. CASE ~WdMayCycle
      BY <1>4, <2>2 DEF WdVerify
    <2> QED BY <2>1, <2>2
  <1>5. CASE WdEnable
    <2>1. mnt' = {} /\ loop.pc \notin LoopCycling /\ chime \notin ChimeCycling /\ ~LoopWindow
      BY <1>5, <1>t DEF WdEnable
    <2> QED BY <1>5, <2>1 DEF WdEnable
  <1> QED BY <1>1, <1>2, <1>3, <1>4, <1>5 DEF Watchdog

\* The chime writer keeps the images apart: it gives the drive back only if it
\* found the directory, and then nobody else had an image mounted.
LEMMA ApartChime ==
  ASSUME Faults \subseteq CycleFaults, BoundInv, ApartInv, Chime \/ ChimeRequest PROVE ApartInv'
  <1> USE DEF ApartInv, DownInv, MusicInv, LoopMountInv, WdMountInv, ChimeMountInv,
              LoopWindow, LockInv, OnlyChime, LoopLocked, LoopCycling, ChimeLocked, ChimeCycling
  <1>t. LockInv /\ gdir \in {"absent", "partial", "complete"}
    BY DEF BoundInv, TypeOK
  <1>0. CASE ChimeRequest BY <1>0 DEF ChimeRequest, gvars
  <1>1. CASE ChimeAcquire BY <1>1 DEF ChimeAcquire, gvars
  <1>2. CASE ChimeTimeout BY <1>2 DEF ChimeTimeout, gvars
  <1>3. CASE ChimeDisable
    <2>0. gdir' = "absent"
      BY <1>3, DisableDown DEF ChimeDisable
    <2>1. lock = "chime" /\ loop.pc \notin LoopCycling /\ wd # "enable"
      BY <1>3, <1>t DEF ChimeDisable
    <2>2. was' => mnt = {} /\ ~LoopWindow
      BY <1>3 DEF ChimeDisable
    <2> QED BY <1>3, <2>0, <2>1, <2>2 DEF ChimeDisable
  <1>4. CASE ChimeMount
    <2>1. lock = "chime" /\ loop.pc \notin LoopCycling /\ wd # "enable" /\ gdir = "absent"
      BY <1>4, <1>t DEF ChimeMount
    <2> QED BY <1>4, <2>1 DEF ChimeMount
  <1>5. CASE ChimeUnmount
    <2>1. lock = "chime" /\ loop.pc \notin LoopCycling /\ wd # "enable" /\ gdir = "absent"
      BY <1>5, <1>t DEF ChimeUnmount
    <2>2. mnt' = mnt \ {"cam"}
      BY <1>5, UnmountDown DEF ChimeUnmount
    <2> QED BY <1>5, <2>1, <2>2 DEF ChimeUnmount
  <1>6. CASE ChimeEnable
    <2>1. lock = "chime" /\ loop.pc \notin LoopCycling /\ wd # "enable"
      BY <1>6, <1>t DEF ChimeEnable
    <2>2. was => mnt = {} /\ ~LoopWindow
      BY <1>6 DEF ChimeEnable
    <2>3. ~was => gdir' = gdir
      BY <1>6 DEF ChimeEnable
    <2> QED BY <1>6, <2>1, <2>2, <2>3 DEF ChimeEnable
  <1> QED BY <1>0, <1>1, <1>2, <1>3, <1>4, <1>5, <1>6 DEF Chime

\* The drive toggle, the surroundings, kills and reboots keep the images apart.
LEMMA ApartOthers ==
  ASSUME Faults \subseteq CycleFaults, BoundInv, ApartInv,
         Toggle \/ ComeOrGo \/ SetTravelMode \/ KillArchiveloop \/ KillServer \/ Reboot
  PROVE  ApartInv'
  <1> USE DEF ApartInv, DownInv, MusicInv, LoopMountInv, WdMountInv, ChimeMountInv,
              LoopWindow, LockInv, gvars, LoopLocked, LoopCycling, ChimeLocked, ChimeCycling
  <1>t. LockInv
    BY DEF BoundInv
  <1>f. FreshLoop.pc = "at"
    BY WaitingType
  <1>1. CASE Toggle
    <2>1. lock = "free" /\ mnt = {} /\ ~LoopWindow
      BY <1>1 DEF Toggle, CycleFaults
    <2>2. loop.pc \notin LoopCycling /\ chime \notin ChimeCycling /\ wd # "enable"
      BY <1>t, <2>1
    <2> QED BY <1>1, <2>1, <2>2 DEF Toggle
  <1>2. CASE ComeOrGo BY <1>2 DEF ComeOrGo
  <1>3. CASE SetTravelMode BY <1>3 DEF SetTravelMode
  <1>4. CASE KillArchiveloop
    <2>1. loop'.pc = "at" /\ wd' = "idle" /\ "music" \notin mnt
      BY <1>4, <1>f DEF KillArchiveloop, CycleFaults
    <2>2. CASE LoopAt("enable") \/ wd = "enable"
      <3>1. mnt = {} /\ ~LoopAt("fsck") /\ chime \notin ChimeCycling
        BY <2>2, <1>t DEF LoopAt
      <3>2. mnt' = {}
        BY <1>4, <3>1 DEF KillArchiveloop
      <3> QED BY <1>4, <2>1, <3>1, <3>2 DEF KillArchiveloop
    <2>3. CASE ~(LoopAt("enable") \/ wd = "enable")
      <3>1. gdir' = gdir
        BY <1>4, <2>3 DEF KillArchiveloop, Torn
      <3>2. "music" \notin mnt' /\ UNCHANGED <<chime, was>>
        BY <1>4, <2>1 DEF KillArchiveloop
      <3>3. mnt' # {} => gdir = "absent"
        BY <1>4 DEF KillArchiveloop, LoopAt
      <3>4. chime \in ChimeCycling => loop.pc # "fsck"
        BY <1>t
      <3>5. was /\ chime \in ChimeCycling => mnt' \subseteq mnt
        BY <1>4, <3>4 DEF KillArchiveloop, LoopAt
      <3> QED BY <2>1, <3>1, <3>2, <3>3, <3>5
    <2> QED BY <2>2, <2>3
  <1>5. CASE KillServer
    <2>1. CASE chime = "enable" /\ was
      <3>1. mnt = {} /\ ~LoopWindow /\ loop.pc \notin LoopCycling /\ wd # "enable"
        BY <2>1, <1>t
      <3> QED BY <1>5, <3>1 DEF KillServer
    <2>2. CASE ~(chime = "enable" /\ was)
      BY <1>5, <2>2 DEF KillServer, Torn
    <2> QED BY <2>1, <2>2
  <1>6. CASE Reboot BY <1>6, <1>f DEF Reboot
  <1> QED BY <1>1, <1>2, <1>3, <1>4, <1>5, <1>6

LEMMA ApartNext ==
  Faults \subseteq CycleFaults => (BoundInv /\ ApartInv /\ [Next]_vars => ApartInv')
  <1> SUFFICES ASSUME Faults \subseteq CycleFaults, BoundInv, ApartInv, [Next]_vars
               PROVE  ApartInv'
    OBVIOUS
  <1>1. CASE StageStep
    <2>1. /\ loop.pc = "at" /\ loop'.pc \in {"at", "wait"}
          /\ UNCHANGED <<gdir, udc, mnt, lock, wd, chime, was>>
      BY <1>1, StageFacts DEF BoundInv, TypeOK, LoopType
    <2> QED
      BY <2>1 DEF ApartInv, DownInv, MusicInv, LoopMountInv, WdMountInv, ChimeMountInv,
                  LoopWindow, LoopLocked, LoopCycling
  <1>2. CASE UNCHANGED vars
    BY <1>2 DEF vars, ApartInv, DownInv, MusicInv, LoopMountInv, WdMountInv, ChimeMountInv,
                LoopWindow
  <1> QED
    BY <1>1, <1>2, ApartLoop, ApartWatchdog, ApartChime, ApartOthers DEF Next, StageStep

\* The two invariants exclude a second writer.
LEMMA ApartIsOneWriter == BoundInv /\ ApartInv => NoTwoWriters
  BY DEF ApartInv, DownInv, NoTwoWriters, Active

LEMMA ApartAlways ==
  ASSUME Faults \subseteq CycleFaults PROVE Spec => [](BoundInv /\ ApartInv)
  <1>1. BoundInv /\ ApartInv /\ [Next]_vars => (BoundInv /\ ApartInv)'
    BY BoundNext, ApartNext
  <1> QED BY BoundInit, ApartInit, <1>1, PTL DEF Spec

(* An image is never mounted here while the car has it, however the main   *)
(* loop, the stall watchdog, the chime writer, the user's toggle, kills    *)
(* and reboots interleave: with failing binds, missing storage and stuck   *)
(* reclaim mounts, for any number of cycles.  The lock alone does not give *)
(* this, for the loop mounts without it: the missing gadget directory does.*)
THEOREM CarAndMachineApart ==
  ASSUME Faults \subseteq CycleFaults PROVE Spec => []NoTwoWriters
  BY ApartAlways, ApartIsOneWriter, PTL

-----------------------------------------------------------------------------
(* The refinement of OneWriter.  A step changes the mounts, or who the gadget  *)
(* is presented to, or it takes everything away (a reboot): never both ways    *)
(* at once.                                                                    *)

HandOver == UNCHANGED mnt \/ Active' = Active \/ (mnt' = {} /\ ~Active')

LEMMA HandOverStep == BoundInv /\ [Next]_vars => HandOver
  <1> SUFFICES ASSUME BoundInv, [Next]_vars PROVE HandOver
    OBVIOUS
  <1> USE DEF HandOver, gvars
  <1>1. CASE StageStep
    BY <1>1, StageFacts DEF BoundInv, TypeOK, LoopType
  <1>2. CASE LoopCycle
    <2>1. CASE LoopAcquire \/ LoopDecide \/ LoopEnable
      BY <2>1 DEF LoopAcquire, LoopDecide, LoopEnable
    <2>2. CASE LoopFsck \/ LoopMount \/ LoopUnmount \/ LoopSyncMount \/ LoopSyncUnmount
      <3>1. UNCHANGED <<gdir, udc>>
        BY <2>2 DEF LoopFsck, LoopMount, LoopUnmount, LoopSyncMount, LoopSyncUnmount
      <3> QED BY <3>1 DEF Active
    <2> QED BY <1>2, <2>1, <2>2 DEF LoopCycle
  <1>3. CASE Watchdog
    BY <1>3 DEF Watchdog, WdDecide, WdAcquire, WdTimeout, WdVerify, WdEnable
  <1>4. CASE Chime \/ ChimeRequest
    BY <1>4 DEF Chime, ChimeRequest, ChimeAcquire, ChimeTimeout, ChimeDisable, ChimeMount,
                ChimeUnmount, ChimeEnable, Active
  <1>5. CASE Toggle \/ ComeOrGo \/ SetTravelMode \/ KillServer
    BY <1>5 DEF Toggle, ComeOrGo, SetTravelMode, KillServer
  <1>6. CASE KillArchiveloop
    <2>1. CASE LoopAt("enable") \/ wd = "enable"
      <3>1. ~udc
        BY <2>1 DEF BoundInv, UnboundInv, LoopAt, LoopLocked, LoopCycling
      <3> QED BY <1>6, <3>1 DEF KillArchiveloop, Active
    <2>2. CASE ~(LoopAt("enable") \/ wd = "enable")
      BY <1>6, <2>2 DEF KillArchiveloop, Torn, Active
    <2> QED BY <2>1, <2>2
  <1>7. CASE Reboot
    BY <1>7 DEF Reboot, Active
  <1>8. CASE UNCHANGED vars
    BY <1>8 DEF vars
  <1> QED
    BY <1>1, <1>2, <1>3, <1>4, <1>5, <1>6, <1>7, <1>8 DEF Next, StageStep

\* Between two states without a second writer such a step is one of OneWriter.
LEMMA HandOverRefines ==
  NoTwoWriters /\ NoTwoWriters' /\ HandOver => [Images!Next]_Holder
  <1> SUFFICES ASSUME NoTwoWriters, NoTwoWriters', HandOver PROVE [Images!Next]_Holder
    OBVIOUS
  <1> USE DEF NoTwoWriters, HandOver, Holder
  <1>1. Holder = IF Active THEN "car" ELSE IF mnt = {} THEN "nobody" ELSE "pi"
    OBVIOUS
  <1>2. Holder' = IF Active' THEN "car" ELSE IF mnt' = {} THEN "nobody" ELSE "pi"
    OBVIOUS
  <1>3. CASE Active
    BY <1>1, <1>2, <1>3 DEF Images!Next, Images!TakeFromCar
  <1>4. CASE ~Active /\ mnt = {}
    BY <1>1, <1>2, <1>4 DEF Images!Next, Images!Mount, Images!GiveToCar
  <1>5. CASE ~Active /\ mnt # {}
    BY <1>1, <1>2, <1>5 DEF Images!Next, Images!Unmount
  <1> QED BY <1>3, <1>4, <1>5

(* The gadget cycles implement OneWriter: the images go from the car to    *)
(* this machine and back only through a state in which nobody has them.    *)
THEOREM CyclesImplementOneWriter ==
  ASSUME Faults \subseteq CycleFaults PROVE Spec => ImagesHaveOneWriter
  <1>1. Init => Images!Init
    BY DEF Init, Images!Init, Images!Holders, Holder, Active
  <1>2. BoundInv /\ ApartInv /\ (BoundInv /\ ApartInv)' /\ [Next]_vars => [Images!Next]_Holder
    <2>1. (BoundInv /\ ApartInv)' => NoTwoWriters'
      BY DEF ApartInv, DownInv, NoTwoWriters, Active
    <2> QED BY <2>1, HandOverStep, HandOverRefines, ApartIsOneWriter
  <1> QED BY ApartAlways, <1>1, <1>2, PTL DEF Spec, ImagesHaveOneWriter, Images!Spec
=============================================================================
