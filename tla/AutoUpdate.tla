----------------------------- MODULE AutoUpdate -----------------------------
(***************************************************************************)
(* Automatic updates after an archive cycle: admission and installation    *)
(* (crates/api/src/auto_update.rs, auto_update_install.rs), the durable    *)
(* receipt of the attempt (update_attempt.rs), verification at the next    *)
(* start (sentryusb/src/migrate.rs, recover_after_startup), the manual     *)
(* update (update.rs), and what they exclude: an accepted cancellation of  *)
(* the cycle and background work (drives/src/archive_control.rs,           *)
(* run/archive-control.sh).  The Pi may lose power at any step, and the    *)
(* server may be restarted without a reboot.                               *)
(*                                                                         *)
(* One newer release exists: version 1, the installation starts at 0.      *)
(* "bin" stands for the executables, "ver" for the version file that is    *)
(* replaced after them, before the archive scripts.  A receipt or an       *)
(* outcome that cannot be written is a fault: it is only logged, and       *)
(* nothing tries again before the server starts anew.                      *)
(***************************************************************************)
EXTENDS Naturals, FiniteSets

CONSTANTS MaxAttempts,  \* bound: automatic attempts in a behaviour
          MaxBoots,     \* bound: boots in a behaviour
          MaxRestarts,  \* bound: restarts of the server without a reboot
          MaxCycles,    \* bound: archive cycles
          MaxWorkers,   \* bound: background workers at once
          MaxManuals,   \* bound: manual updates
          MaxSaveFaults \* bound: receipts and outcomes that cannot be written

ASSUME UpdateAssumption ==
  /\ MaxAttempts \in Nat /\ MaxBoots \in Nat \ {0} /\ MaxRestarts \in Nat
  /\ MaxCycles \in Nat /\ MaxWorkers \in Nat
  /\ MaxManuals \in Nat /\ MaxSaveFaults \in Nat

Attempts == 1..MaxAttempts
Boots == 1..MaxBoots
Cycles == 1..MaxCycles
NewRelease == 1
NoTarget == 2                    \* the target of a check that found none
MigrationTries == 3              \* runs of the migration script in one start
Files == {"bin", "ver"}

\* A start of the server.
Starts == [boot : Boots, start : 0..MaxRestarts]

VARIABLES
  \* on the card: survive a power cut
  receipt,     \* attempt.json
  proof,       \* the attempts whose shutdown receipt was written
  outcome,     \* outcome[a]: what was queued to be told about attempt a
  files,       \* what is installed
  marker,      \* the versions with a .migrated marker
  \* of this boot
  boot,        \* the boot id
  cycle,       \* the archive cycle in progress, 0 when there is none
  cycles,      \* how many have begun
  cancelled,   \* the cycles with an accepted cancellation
  claimed,     \* the cycles an update was considered for
  cycleLock,   \* who holds archive-cycle.lock
  job,         \* the reboot job: "none", "asked", "stopping"
  armed,       \* the hand-off unit that writes the shutdown receipt
  \* of this server process
  exe,         \* the version of the running executable
  startup,     \* where startup stands: "start", "migrating", "plain", "recover", "ready"
  migrated,    \* what the startup migration returned
  tries,       \* runs of the migration script in this start
  lapsed,      \* the attempts with a write that failed in this start
  guard,       \* who holds the update guard: "nobody", "auto", "manual"
  coord,       \* the coordinator task
  manual,      \* the manual update task
  work,        \* BACKGROUND_WORK: a count, or reserved for the update
  \* counters, and what really happened
  made,        \* attempts so far: their ids
  restarts,    \* restarts of the server so far
  manuals,     \* manual updates so far
  faults,      \* writes that failed so far
  migrations,  \* migrations[a]: the starts that ran the script to verify attempt a
  sound,       \* the attempts whose migration ran to a successful end
  installer    \* the attempt that installed the version file, 0 for none

card == <<receipt, proof, outcome, files, marker>>
bootVars == <<cycle, cycles, cancelled, claimed, cycleLock, job, armed>>
startVars == <<startup, migrated, tries, lapsed>>
serverVars == <<exe, startVars, guard, coord, manual, work>>
ghost == <<made, restarts, manuals, faults, migrations, sound, installer>>
updVars == <<card, boot, bootVars, serverVars, ghost>>

NoReceipt == [id |-> 0, phase |-> "none", boot |-> 0, vboot |-> 0, sha |-> 0,
              target |-> NoTarget]
NoCoord == [pc |-> "idle", cycle |-> 0, id |-> 0, target |-> NoTarget,
            was |-> [f \in Files |-> 0]]
Terminal(r) == r.phase \in {"verified", "failed", "interrupted"}
Unfinished(r) == r.phase # "none" /\ ~Terminal(r)

UpdateTypeOK ==
  /\ receipt \in [id : 0..MaxAttempts,
                  phase : {"none", "preparing", "installing", "awaiting_reboot",
                           "verifying", "verified", "failed", "interrupted"},
                  boot : 0..MaxBoots, vboot : 0..MaxBoots, sha : {0, NewRelease},
                  target : {NewRelease, NoTarget}]
  /\ proof \subseteq Attempts
  /\ outcome \in [Attempts -> {"none", "verified", "failed", "interrupted"}]
  /\ files \in [Files -> {0, NewRelease}] /\ marker \subseteq {0, NewRelease}
  /\ boot \in Boots /\ cycle \in 0..MaxCycles /\ cycles \in 0..MaxCycles
  /\ cancelled \subseteq Cycles /\ claimed \subseteq Cycles
  /\ cycleLock \in {"nobody", "coord"}
  /\ job \in {"none", "asked", "stopping"} /\ armed \in BOOLEAN
  /\ exe \in {0, NewRelease}
  /\ startup \in {"start", "migrating", "plain", "recover", "ready"} /\ migrated \in BOOLEAN
  /\ tries \in 0..MigrationTries /\ lapsed \subseteq Attempts
  /\ guard \in {"nobody", "auto", "manual"}
  /\ coord.pc \in {"idle", "check", "staging", "staged", "gate", "lock", "commit",
                   "replace", "replaced", "scripts", "arm", "reboot", "await", "failed"}
  /\ manual \in {"idle", "install", "half", "clear", "reboot", "await"}
  /\ work \in [count : 0..MaxWorkers, exclusive : BOOLEAN]
  /\ made \in 0..MaxAttempts /\ restarts \in 0..MaxRestarts
  /\ manuals \in 0..MaxManuals /\ faults \in 0..MaxSaveFaults
  /\ migrations \in [Attempts -> SUBSET Starts] /\ sound \subseteq Attempts
  /\ installer \in 0..MaxAttempts

ServerStarts ==
  /\ exe' = files'["bin"]
  /\ startup' = "start" /\ migrated' = FALSE /\ tries' = 0 /\ lapsed' = {}
  /\ guard' = "nobody" /\ coord' = NoCoord /\ manual' = "idle"
  /\ work' = [count |-> 0, exclusive |-> FALSE]

UpdateInit ==
  /\ receipt = NoReceipt /\ proof = {} /\ outcome = [a \in Attempts |-> "none"]
  /\ files = [f \in Files |-> 0] /\ marker = {0}
  /\ boot = 1 /\ cycle = 0 /\ cycles = 0 /\ cancelled = {} /\ claimed = {}
  /\ cycleLock = "nobody" /\ job = "none" /\ armed = FALSE
  /\ exe = 0 /\ startup = "start" /\ migrated = FALSE /\ tries = 0 /\ lapsed = {}
  /\ guard = "nobody" /\ coord = NoCoord /\ manual = "idle"
  /\ work = [count |-> 0, exclusive |-> FALSE]
  /\ made = 0 /\ restarts = 0 /\ manuals = 0 /\ faults = 0
  /\ migrations = [a \in Attempts |-> {}] /\ sound = {} /\ installer = 0

\* The write of a receipt or an outcome of attempt a succeeds, or it fails:
\* before the rename, or after it, with the new content in place.
Written == UNCHANGED <<faults, lapsed>>
Unwritten(a) ==
  faults < MaxSaveFaults /\ faults' = faults + 1 /\ lapsed' = lapsed \cup {a}

-----------------------------------------------------------------------------
(* The archive cycle, its cancellation, and background work.               *)

CycleBegin ==
  /\ cycle = 0 /\ cycles < MaxCycles
  /\ cycles' = cycles + 1 /\ cycle' = cycles + 1
  /\ UNCHANGED <<card, boot, cancelled, claimed, cycleLock, job, armed, serverVars,
                 ghost>>

(* The loop ends the cycle when the hand-off answers, or when its own call *)
(* times out while the coordinator is still at work.                       *)
CycleEnd ==
  /\ cycle # 0 /\ cycleLock = "nobody"
  /\ cycle' = 0
  /\ UNCHANGED <<card, boot, cycles, cancelled, claimed, cycleLock, job, armed,
                 serverVars, ghost>>

(* archiveloop is killed: its process id is no longer alive, so the cycle  *)
(* is not active, whoever holds the lock.                                  *)
LoopDies ==
  /\ cycle # 0
  /\ cycle' = 0
  /\ UNCHANGED <<card, boot, cycles, cancelled, claimed, cycleLock, job, armed,
                 serverVars, ghost>>

(* The request is accepted whoever holds the lock.                         *)
RequestCancel_NoLock ==
  /\ cycle # 0 /\ cycle \notin cancelled
  /\ cancelled' = cancelled \cup {cycle}
  /\ UNCHANGED <<card, boot, cycle, cycles, claimed, cycleLock, job, armed, serverVars,
                 ghost>>

RequestCancel ==
  /\ cycle # 0 /\ cycle \notin cancelled
  /\ cycleLock = "nobody"
  /\ cancelled' = cancelled \cup {cycle}
  /\ UNCHANGED <<card, boot, cycle, cycles, claimed, cycleLock, job, armed, serverVars,
                 ghost>>

ValidCycle(c) == cycle = c /\ c \notin cancelled

TryBeginWork ==
  /\ ~work.exclusive /\ work.count < MaxWorkers
  /\ work' = [work EXCEPT !.count = @ + 1]
  /\ UNCHANGED <<card, boot, bootVars, exe, startVars, guard, coord, manual,
                 ghost>>

EndWork ==
  /\ work.count > 0
  /\ work' = [work EXCEPT !.count = @ - 1]
  /\ UNCHANGED <<card, boot, bootVars, exe, startVars, guard, coord, manual,
                 ghost>>

-----------------------------------------------------------------------------
(* The coordinator.  Errors before the attempt exists just end it; later   *)
(* ones, a failed look for a release included, are recorded as a failure.  *)

Goto(pc) == coord' = [coord EXCEPT !.pc = pc]

Coordinate ==
  /\ startup = "ready" /\ coord.pc = "idle" /\ guard = "nobody"
  /\ cycle # 0 /\ ValidCycle(cycle) /\ cycle \notin claimed
  /\ claimed' = claimed \cup {cycle}
  /\ guard' = "auto"
  /\ coord' = [NoCoord EXCEPT !.pc = "check", !.cycle = cycle]
  /\ UNCHANGED <<card, boot, cycle, cycles, cancelled, cycleLock, job, armed, exe,
                 startVars, manual, work, ghost>>

(* Not enabled, not eligible, the recheck fails, the previous attempt is   *)
(* unfinished, or there is nothing newer.                                  *)
CoordEnds ==
  /\ coord.pc = "check"
  /\ guard' = "nobody" /\ coord' = NoCoord
  /\ UNCHANGED <<card, boot, bootVars, exe, startVars, manual, work,
                 ghost>>

(* The attempt exists once the previous one is known to be over.           *)
NewAttempt(pc, target) ==
  /\ coord.pc = "check" /\ ~Unfinished(receipt)
  /\ made < MaxAttempts
  /\ made' = made + 1
  /\ coord' = [coord EXCEPT !.pc = pc, !.id = made + 1, !.target = target]
  /\ UNCHANGED <<proof, outcome, files, marker, boot, bootVars, exe, startup, migrated,
                 tries, guard, manual, work, restarts, manuals, migrations, sound, installer>>

(* latest_stable gives an error: the attempt fails without a target.       *)
CheckFails ==
  /\ NewAttempt("failed", NoTarget)
  /\ Written /\ UNCHANGED receipt

(* An unsuccessful attempt has not established its version as installed.   *)
ComparisonVersion ==
  IF receipt.phase \notin {"none", "verified"} /\ receipt.target = files["ver"]
  THEN 0 ELSE files["ver"]

Preparing(a) ==
  [id |-> a, phase |-> "preparing", boot |-> boot, vboot |-> 0, sha |-> 0,
   target |-> NewRelease]

BeginAttempt ==
  /\ ValidCycle(coord.cycle) /\ NewRelease > ComparisonVersion
  /\ \/ /\ NewAttempt("staging", NewRelease)
        /\ Written /\ receipt' = Preparing(made + 1)
     \/ /\ NewAttempt("failed", NewRelease)
        /\ Unwritten(made + 1) /\ receipt' \in {receipt, Preparing(made + 1)}

(* Download and validate, watched by monitor_cycle; then the recheck and   *)
(* the reservation against background work.                                *)
StageDone ==
  /\ coord.pc = "staging" /\ Goto("staged")
  /\ UNCHANGED <<card, boot, bootVars, exe, startVars, guard, manual, work,
                 ghost>>

ReserveWork ==
  /\ coord.pc = "staged" /\ ValidCycle(coord.cycle)
  /\ work.count = 0 /\ ~work.exclusive
  /\ work' = [work EXCEPT !.exclusive = TRUE]
  /\ Goto("gate")
  /\ UNCHANGED <<card, boot, bootVars, exe, startVars, guard, manual,
                 ghost>>

FinalGate ==
  /\ coord.pc = "gate" /\ ValidCycle(coord.cycle)
  /\ Goto("lock")
  /\ UNCHANGED <<card, boot, bootVars, exe, startVars, guard, manual, work,
                 ghost>>

LockCycle ==
  /\ coord.pc = "lock" /\ cycleLock = "nobody" /\ ValidCycle(coord.cycle)
  /\ cycleLock' = "coord"
  /\ Goto("commit")
  /\ UNCHANGED <<card, boot, cycle, cycles, cancelled, claimed, job, armed, exe,
                 startVars, guard, manual, work, ghost>>

Commit ==
  /\ coord.pc = "commit"
  /\ receipt' = [receipt EXCEPT !.phase = "installing", !.sha = NewRelease]
  /\ coord' = [coord EXCEPT !.pc = "replace", !.was = files]
  /\ UNCHANGED <<proof, outcome, files, marker, boot, bootVars, exe, startVars, guard,
                 manual, work, ghost>>

OnlyFilesChange ==
  UNCHANGED <<receipt, proof, outcome, marker, boot, bootVars, exe, startVars, guard,
              manual, work, made, restarts, manuals, faults, migrations, sound>>

ReplaceFiles ==
  /\ \/ /\ coord.pc = "replace" /\ Goto("replaced")
        /\ files' = [files EXCEPT !["bin"] = NewRelease] /\ UNCHANGED installer
     \/ /\ coord.pc = "replaced" /\ Goto("scripts")
        /\ files' = [files EXCEPT !["ver"] = NewRelease] /\ installer' = coord.id
     \/ coord.pc = "scripts" /\ Goto("arm") /\ UNCHANGED <<files, installer>>
  /\ OnlyFilesChange

(* A replacement fails: what was replaced is rolled back, except for files *)
(* whose rollback fails too, which is only logged.                         *)
ReplaceFails(undone) ==
  /\ coord.pc \in {"replace", "replaced", "scripts"} /\ Goto("failed")
  /\ files' = [f \in Files |-> IF f \in undone THEN coord.was[f] ELSE files[f]]
  /\ installer' = IF files'["ver"] = NewRelease THEN installer ELSE 0
  /\ OnlyFilesChange

ArmShutdownReceipt ==
  /\ coord.pc = "arm"
  /\ armed' = TRUE
  /\ Goto("reboot")
  /\ UNCHANGED <<card, boot, cycle, cycles, cancelled, claimed, cycleLock, job, exe,
                 startVars, guard, manual, work, ghost>>

AskReboot ==
  /\ coord.pc = "reboot"
  /\ receipt' = [receipt EXCEPT !.phase = "awaiting_reboot"]
  /\ job' = IF job = "none" THEN "asked" ELSE job
  /\ Goto("await")
  /\ UNCHANGED <<proof, outcome, files, marker, boot, cycle, cycles, cancelled, claimed, cycleLock,
                 armed, exe, startVars, guard, manual, work, ghost>>

(* Any step may fail; the reboot fails only when the system is not         *)
(* stopping after the deadline.                                            *)
CoordFails ==
  /\ \/ coord.pc \in {"staging", "staged", "gate", "lock", "commit", "arm", "reboot"}
     \/ coord.pc = "await" /\ job # "stopping"
  /\ Goto("failed")
  /\ UNCHANGED <<card, boot, bootVars, exe, startVars, guard, manual, work,
                 ghost>>

(* The guards of the block are dropped, and the failure is saved, over the *)
(* receipt of an earlier attempt when this one has none.  When it cannot   *)
(* be saved the task ends, and nothing is told.                            *)
FailedReceipt ==
  [id |-> coord.id, phase |-> "failed", boot |-> boot, vboot |-> 0,
   sha |-> IF receipt.id = coord.id THEN receipt.sha ELSE 0, target |-> coord.target]

FailureSaved == receipt.id = coord.id /\ receipt.phase = "failed"

SaveFailed ==
  /\ coord.pc = "failed" /\ ~FailureSaved
  /\ \/ Written /\ receipt' = FailedReceipt /\ UNCHANGED <<guard, coord>>
     \/ /\ Unwritten(coord.id) /\ receipt' \in {receipt, FailedReceipt}
        /\ guard' = "nobody" /\ coord' = NoCoord
  /\ cycleLock' = IF cycleLock = "coord" THEN "nobody" ELSE cycleLock
  /\ work' = [work EXCEPT !.exclusive = FALSE]
  /\ UNCHANGED <<proof, outcome, files, marker, boot, cycle, cycles, cancelled, claimed, job,
                 armed, exe, startup, migrated, tries, manual, made, restarts, manuals, migrations,
                 sound, installer>>

QueueOutcome(a, phase) ==
  outcome' = IF outcome[a] = "none" THEN [outcome EXCEPT ![a] = phase] ELSE outcome

(* The failure is queued to be told, unless that cannot be written.        *)
TellFailed ==
  /\ coord.pc = "failed" /\ FailureSaved
  /\ \/ Written /\ QueueOutcome(coord.id, "failed")
     \/ Unwritten(coord.id) /\ UNCHANGED outcome
  /\ guard' = "nobody" /\ coord' = NoCoord
  /\ UNCHANGED <<receipt, proof, files, marker, boot, bootVars, exe, startup, migrated, tries,
                 manual, work, made, restarts, manuals, migrations, sound, installer>>

-----------------------------------------------------------------------------
(* The manual update.  It is refused while an automatic attempt is         *)
(* unfinished, installs a chosen version and supersedes the receipt.       *)

ManualStep(from, to) == manual = from /\ manual' = to

ManualStart ==
  /\ guard = "nobody" /\ ~Unfinished(receipt)
  /\ manuals < MaxManuals /\ manuals' = manuals + 1
  /\ ManualStep("idle", "install")
  /\ guard' = "manual"
  /\ UNCHANGED <<card, boot, bootVars, exe, startVars, coord, work, made, restarts, faults,
                 migrations, sound, installer>>

(* Once the binary is moved nothing fails the update any more; the version *)
(* file stays as it is when the tag is unknown or cannot be written.       *)
ManualInstall(v) ==
  /\ \/ ManualStep("install", "half") /\ files' = [files EXCEPT !["bin"] = v]
     \/ /\ ManualStep("half", "clear")
        /\ v \in {files["bin"], files["ver"]} /\ files' = [files EXCEPT !["ver"] = v]
  /\ installer' = 0
  /\ UNCHANGED <<receipt, proof, outcome, marker, boot, bootVars, exe, startVars, guard,
                 coord, work, made, restarts, manuals, faults, migrations, sound>>

ManualFails ==
  /\ \/ manual \in {"install", "clear", "reboot"}
     \/ manual = "await" /\ job # "stopping"
  /\ manual' = "idle" /\ guard' = "nobody"
  /\ UNCHANGED <<card, boot, bootVars, exe, startVars, coord, work,
                 ghost>>

ClearAfterManualRepair ==
  /\ ManualStep("clear", "reboot")
  /\ receipt' = NoReceipt
  /\ UNCHANGED <<proof, outcome, files, marker, boot, bootVars, exe, startVars, guard,
                 coord, work, ghost>>

ManualReboot ==
  /\ ManualStep("reboot", "await")
  /\ job' = IF job = "none" THEN "asked" ELSE job
  /\ UNCHANGED <<card, boot, cycle, cycles, cancelled, claimed, cycleLock, armed, exe,
                 startVars, guard, coord, work, ghost>>

-----------------------------------------------------------------------------
(* Startup: the migration decides whether this start is the expected one,  *)
(* then recover_after_startup judges an unfinished attempt.                *)

(* The receipt is only read: the shutdown evidence is not consumed.        *)
BeginVerification_NotConsumed ==
  /\ receipt.phase = "awaiting_reboot" /\ receipt.boot # boot
  /\ receipt.id \in proof
  /\ receipt' = [receipt EXCEPT !.vboot = boot]

BeginVerification ==
  /\ receipt.phase = "awaiting_reboot" /\ receipt.boot # boot
  /\ receipt.id \in proof
  /\ receipt' = [receipt EXCEPT !.phase = "verifying", !.vboot = boot]

(* prepare_startup_verification is reached, and would succeed.             *)
Expected ==
  /\ receipt.phase = "awaiting_reboot" /\ receipt.target = files["ver"]
  /\ receipt.sha # 0 /\ exe = receipt.sha
  /\ receipt.boot # boot /\ receipt.id \in proof

(* The receipt tells of an unsuccessful update to the installed version.   *)
GivenUp == receipt.phase \in {"failed", "interrupted"} /\ receipt.target = files["ver"]

ThisStart == [boot |-> boot, start |-> restarts]

StartupMigration ==
  /\ startup = "start"
  /\ \/ /\ Expected /\ BeginVerification /\ Written
        /\ migrations' = [migrations EXCEPT ![receipt.id] = @ \cup {ThisStart}]
        /\ startup' = "migrating" /\ tries' = 1 /\ migrated' = FALSE
     \/ /\ Expected /\ Unwritten(receipt.id)
        /\ UNCHANGED receipt \/ BeginVerification
        /\ startup' = "recover" /\ migrated' = FALSE /\ UNCHANGED <<migrations, tries>>
     \/ /\ (Unfinished(receipt) /\ ~Expected) \/ GivenUp
        /\ startup' = "recover" /\ migrated' = FALSE
        /\ Written /\ UNCHANGED <<receipt, migrations, tries>>
     \/ /\ ~Unfinished(receipt) /\ ~GivenUp /\ files["ver"] \in marker
        /\ startup' = "recover" /\ migrated' = TRUE
        /\ Written /\ UNCHANGED <<receipt, migrations, tries>>
     \/ /\ ~Unfinished(receipt) /\ ~GivenUp /\ files["ver"] \notin marker
        /\ startup' = "plain" /\ tries' = 1 /\ migrated' = FALSE
        /\ Written /\ UNCHANGED <<receipt, migrations>>
  /\ UNCHANGED <<proof, outcome, files, marker, boot, bootVars, exe, guard, coord, manual, work,
                 made, restarts, manuals, sound, installer>>

(* The script failed for want of a network, and is run again from its      *)
(* beginning.                                                              *)
MigrationRetries ==
  /\ startup \in {"migrating", "plain"} /\ tries < MigrationTries
  /\ tries' = tries + 1
  /\ migrations' = IF startup = "migrating"
                   THEN [migrations EXCEPT ![receipt.id] = @ \cup {ThisStart}]
                   ELSE migrations
  /\ UNCHANGED <<card, boot, bootVars, exe, startup, migrated, lapsed, guard, coord, manual,
                 work, made, restarts, manuals, faults, sound, installer>>

(* The migration ends: well, with its marker written, or not.              *)
MigrationEnds(ok) ==
  /\ startup \in {"migrating", "plain"}
  /\ startup' = "recover" /\ migrated' = ok /\ tries' = 0
  /\ marker' = IF ok THEN marker \cup {files["ver"]} ELSE marker
  /\ sound' = IF startup = "migrating" /\ ok THEN sound \cup {receipt.id} ELSE sound
  /\ UNCHANGED <<receipt, proof, outcome, files, boot, bootVars, exe, lapsed, guard, coord, manual,
                 work, made, restarts, manuals, faults, migrations, installer>>

(* The version alone decides.                                              *)
BootOutcome_ByVersion ==
  IF exe # receipt.sha THEN "interrupted" ELSE "verified"

(* Success needs the expected shutdown, this boot, this executable and the *)
(* migration; without the first three the attempt was interrupted.         *)
BootOutcome ==
  IF \/ receipt.phase # "verifying" \/ receipt.vboot # boot \/ receipt.boot = boot
     \/ receipt.sha = 0 \/ exe # receipt.sha
  THEN "interrupted"
  ELSE IF ~migrated THEN "failed" ELSE "verified"

(* Only an attempt under verification is judged.                           *)
Judged_VerifyingOnly(r) ==
  IF r.phase = "verifying" THEN [r EXCEPT !.phase = BootOutcome] ELSE r

Judged(r) == IF Unfinished(r) THEN [r EXCEPT !.phase = BootOutcome] ELSE r

(* The judgement is saved and queued to be told.  When one of the two      *)
(* cannot be written that is only logged, and the server is ready.         *)
RecoverAfterStartup ==
  /\ startup = "recover" /\ startup' = "ready" /\ migrated' = FALSE
  /\ \/ /\ Written /\ receipt' = Judged(receipt)
        /\ IF Terminal(receipt') THEN QueueOutcome(receipt.id, receipt'.phase)
                                 ELSE UNCHANGED outcome
     \/ /\ receipt.phase # "none" /\ Unwritten(receipt.id)
        /\ receipt' \in {receipt, Judged(receipt)} /\ UNCHANGED outcome
  /\ UNCHANGED <<proof, files, marker, boot, bootVars, exe, tries, guard, coord, manual, work,
                 made, restarts, manuals, migrations, sound, installer>>

-----------------------------------------------------------------------------
(* systemd and the power supply.                                           *)

(* A reboot the user or a program asked for, or the one asked for above.   *)
BeginShutdown ==
  /\ job # "stopping" /\ boot < MaxBoots
  /\ job' = "stopping"
  /\ UNCHANGED <<card, boot, cycle, cycles, cancelled, claimed, cycleLock, armed,
                 serverVars, ghost>>

(* confirm-shutdown.py, run when the hand-off unit is stopped.             *)
WriteShutdownReceipt ==
  /\ job = "stopping" /\ armed
  /\ receipt.phase = "awaiting_reboot" /\ receipt.boot = boot
  /\ proof' = proof \cup {receipt.id}
  /\ armed' = FALSE
  /\ UNCHANGED <<receipt, outcome, files, marker, boot, cycle, cycles, cancelled, claimed,
                 cycleLock, job, serverVars, ghost>>

PowerGoes ==
  /\ boot < MaxBoots
  /\ boot' = boot + 1
  /\ cycle' = 0 /\ cancelled' = {} /\ claimed' = {} /\ cycleLock' = "nobody"
  /\ job' = "none" /\ armed' = FALSE
  /\ UNCHANGED <<card, cycles, ghost>>
  /\ ServerStarts

ServerRestarts ==
  /\ restarts < MaxRestarts
  /\ restarts' = restarts + 1
  /\ cycleLock' = IF cycleLock = "coord" THEN "nobody" ELSE cycleLock
  /\ UNCHANGED <<card, boot, cycle, cycles, cancelled, claimed, job, armed, made,
                 manuals, faults, migrations, sound, installer>>
  /\ ServerStarts

CoordStep ==
  \/ Coordinate \/ CoordEnds \/ CheckFails \/ BeginAttempt \/ StageDone \/ ReserveWork
  \/ FinalGate \/ LockCycle \/ Commit \/ ReplaceFiles \/ (\E F \in SUBSET Files : ReplaceFails(F))
  \/ ArmShutdownReceipt \/ AskReboot \/ CoordFails \/ SaveFailed \/ TellFailed

StartupStep ==
  \/ StartupMigration \/ MigrationRetries \/ (\E ok \in BOOLEAN : MigrationEnds(ok))
  \/ RecoverAfterStartup

UpdateNext ==
  \/ CycleBegin \/ CycleEnd \/ LoopDies \/ RequestCancel \/ TryBeginWork \/ EndWork
  \/ CoordStep \/ StartupStep
  \/ ManualStart \/ (\E v \in {0, NewRelease} : ManualInstall(v)) \/ ManualFails
  \/ ClearAfterManualRepair \/ ManualReboot
  \/ BeginShutdown \/ WriteShutdownReceipt \/ PowerGoes \/ ServerRestarts

UpdateSpec == UpdateInit /\ [][UpdateNext]_updVars

-----------------------------------------------------------------------------
(* While files are replaced nothing else may touch them or lose by it: no  *)
(* background worker runs, no manual update is under way, and the user     *)
(* was not told that this cycle is cancelled (final gate to commit).       *)
ReplacementIsAlone ==
  coord.pc \in {"replace", "replaced", "scripts"} =>
    work.count = 0 /\ manual = "idle" /\ coord.cycle \notin cancelled

(* An attempt is reported as a success only when the complete release is   *)
(* installed and running, after the shutdown it asked for, and its         *)
(* migration ran to its end: no power cut or restart at any step turns a   *)
(* half-installed or unmigrated release into a verified one                *)
(* (begin_verification, boot_outcome).                                     *)
VerifiedIsEarned ==
  [][receipt.phase # "verified" /\ receipt'.phase = "verified" =>
       /\ files["bin"] = NewRelease /\ files["ver"] = NewRelease /\ exe = NewRelease
       /\ receipt.id \in sound /\ receipt.id \in proof
       /\ boot # receipt.boot]_updVars

(* The verification of an automatic update runs the migration in one start *)
(* of the server only.  The script may run three times in that start, and  *)
(* is never resumed in another one, whatever restarts and power cuts       *)
(* follow ("never resumed on another boot", begin_verification).           *)
MigratesOnce == \A a \in Attempts : \A s, t \in migrations[a] : s = t

(* Every attempt with a receipt ends: its outcome is queued to be told, or *)
(* its receipt is superseded.  A stop at any step, a reboot that never     *)
(* comes and a restart of the server leave no update in progress for ever. *)
(* The exception is a receipt or an outcome that could not be written in   *)
(* this start: nothing tries again, and the attempt waits for the next.    *)
AttemptsSettle ==
  \A a \in Attempts : []<>(outcome[a] # "none" \/ receipt.id # a \/ a \in lapsed)

(* What the startup migration logs of an update that failed or was         *)
(* interrupted: "Previous automatic update failed; not replaying its       *)
(* migration on a later boot".  A later check that fails overwrites the    *)
(* receipt, and the next start runs the migration of the release as an     *)
(* ordinary one.                                                           *)
FailedIsNotReplayed ==
  startup = "plain" /\ installer # 0 /\ migrations[installer] # {} =>
    outcome[installer] \notin {"failed", "interrupted"}
=============================================================================
