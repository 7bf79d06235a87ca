-------------------------- MODULE AutoUpdate_proofs --------------------------
(***************************************************************************)
(* Proofs about automatic updates (AutoUpdate), for any number of          *)
(* attempts, boots, restarts, cycles and workers: files are replaced by    *)
(* one actor alone, an attempt is migrated at most once, and it is called  *)
(* verified only when it is.                                               *)
(***************************************************************************)
EXTENDS AutoUpdate, TLAPS

-----------------------------------------------------------------------------
(* The inductive invariant.                                                *)

CoordType ==
  [pc : {"idle", "check", "staging", "staged", "gate", "lock", "commit",
         "replace", "replaced", "scripts", "arm", "reboot", "await", "failed"},
   cycle : 0..MaxCycles, id : 0..MaxAttempts, target : {NewRelease, NoTarget},
   was : [Files -> {0, NewRelease}]]

\* One update task at a time, told by the update guard; the automatic one only
\* after startup.
GuardInv ==
  /\ coord.pc # "idle" <=> guard = "auto"
  /\ manual # "idle" <=> guard = "manual"
  /\ coord.pc # "idle" => startup = "ready"

\* The receipt follows the coordinator, and a manual update finds none unfinished.
ReceiptInv ==
  /\ coord.pc \in {"staging", "staged", "gate", "lock", "commit"} =>
       receipt.phase = "preparing"
  /\ coord.pc \in {"replace", "replaced", "scripts", "arm", "reboot"} =>
       receipt.phase = "installing"
  /\ coord.pc = "await" => receipt.phase = "awaiting_reboot"
  /\ coord.pc \notin {"idle", "check"} => coord.id \in 1..made
  /\ manual # "idle" => ~Unfinished(receipt)

\* Background work is shut out from the reservation on, and the cycle's lock is
\* held from the last look at the cancellation on.
AloneInv ==
  /\ coord.pc \in {"gate", "lock", "commit", "replace", "replaced", "scripts", "arm", "reboot",
                   "await"} =>
       work.exclusive /\ work.count = 0
  /\ coord.pc \in {"commit", "replace", "replaced", "scripts", "arm", "reboot", "await"} =>
       cycleLock = "coord"
  /\ coord.pc \in {"commit", "replace", "replaced", "scripts"} => coord.cycle \notin cancelled

\* An attempt that is not under verification yet was not migrated, and one that
\* is migrated just now was not migrated in another start.
FreshInv ==
  /\ receipt.phase # "none" => receipt.id \in 1..made
  /\ receipt.phase \in {"preparing", "installing", "awaiting_reboot"} =>
       migrations[receipt.id] = {}
  /\ \A a \in Attempts : a > made => migrations[a] = {}
  /\ startup = "migrating" => \A s \in migrations[receipt.id] : s = ThisStart

\* What startup has established while it runs.
StartupInv ==
  /\ startup # "ready" /\ Unfinished(receipt) => exe = files["bin"]
  /\ startup = "plain" => ~Unfinished(receipt)
  /\ startup = "migrating" => receipt.phase = "verifying"
  /\ startup = "migrating" \/ (startup = "recover" /\ migrated /\ Unfinished(receipt)) =>
       files["ver"] = NewRelease /\ exe = NewRelease /\ receipt.id \in proof
  /\ startup = "recover" /\ migrated /\ Unfinished(receipt) => receipt.id \in sound

UpdInv ==
  /\ UpdateTypeOK /\ coord \in CoordType
  /\ GuardInv /\ ReceiptInv /\ AloneInv /\ FreshInv /\ StartupInv
  /\ MigratesOnce

ReceiptType ==
  [id : 0..MaxAttempts,
   phase : {"none", "preparing", "installing", "awaiting_reboot",
            "verifying", "verified", "failed", "interrupted"},
   boot : 0..MaxBoots, vboot : 0..MaxBoots, sha : {0, NewRelease},
   target : {NewRelease, NoTarget}]
OutcomeType == [Attempts -> {"none", "verified", "failed", "interrupted"}]
WorkType == [count : 0..MaxWorkers, exclusive : BOOLEAN]

-----------------------------------------------------------------------------
(* Facts every step uses.                                                  *)

\* The records that stand for nothing, and the numbers.
LEMMA UpdateFacts ==
  /\ NoReceipt \in ReceiptType /\ NoReceipt.phase = "none"
  /\ NoCoord \in CoordType /\ NoCoord.pc = "idle"
  /\ 0 \in 0..MaxAttempts /\ 0 \in 0..MaxCycles /\ 1 \in Boots /\ Boots \subseteq 0..MaxBoots
  /\ [count |-> 0, exclusive |-> FALSE] \in WorkType
  <1>1. NoReceipt \in ReceiptType /\ NoReceipt.phase = "none"
    BY UpdateAssumption DEF NoReceipt, ReceiptType, NewRelease, NoTarget
  <1>2. NoCoord \in CoordType /\ NoCoord.pc = "idle"
    BY UpdateAssumption DEF NoCoord, CoordType, NewRelease, NoTarget
  <1>3. 0 \in 0..MaxAttempts /\ 0 \in 0..MaxCycles /\ 1 \in Boots /\ Boots \subseteq 0..MaxBoots
    BY UpdateAssumption DEF Boots
  <1>4. [count |-> 0, exclusive |-> FALSE] \in WorkType
    BY UpdateAssumption DEF WorkType
  <1> QED BY <1>1, <1>2, <1>3, <1>4

\* Each part of the invariant stays when what it speaks of does.
LEMMA SameParts ==
  /\ GuardInv /\ UNCHANGED <<coord, guard, manual, startup>> => GuardInv'
  /\ ReceiptInv /\ UNCHANGED <<coord, receipt, manual, made>> => ReceiptInv'
  /\ AloneInv /\ UNCHANGED <<coord, work, cycleLock, cancelled>> => AloneInv'
  /\ FreshInv /\ UNCHANGED <<receipt, made, migrations, startup, boot, restarts>> => FreshInv'
  /\ StartupInv /\ UNCHANGED <<startup, receipt, exe, files, migrated, proof, sound>>
       => StartupInv'
  /\ MigratesOnce /\ UNCHANGED migrations => MigratesOnce'
  <1>1. GuardInv /\ UNCHANGED <<coord, guard, manual, startup>> => GuardInv'
    BY DEF GuardInv
  <1>2. ReceiptInv /\ UNCHANGED <<coord, receipt, manual, made>> => ReceiptInv'
    BY DEF ReceiptInv, Unfinished, Terminal
  <1>3. AloneInv /\ UNCHANGED <<coord, work, cycleLock, cancelled>> => AloneInv'
    BY DEF AloneInv
  <1>4. FreshInv /\ UNCHANGED <<receipt, made, migrations, startup, boot, restarts>> => FreshInv'
    BY DEF FreshInv, ThisStart
  <1>5. StartupInv /\ UNCHANGED <<startup, receipt, exe, files, migrated, proof, sound>>
          => StartupInv'
    BY DEF StartupInv, Unfinished, Terminal
  <1>6. MigratesOnce /\ UNCHANGED migrations => MigratesOnce'
    BY DEF MigratesOnce
  <1> QED BY <1>1, <1>2, <1>3, <1>4, <1>5, <1>6

\* The coordinator moves on.
LEMMA GotoFacts ==
  ASSUME coord \in CoordType, NEW pc \in {"idle", "check", "staging", "staged", "gate", "lock",
           "commit", "replace", "replaced", "scripts", "arm", "reboot", "await", "failed"}, Goto(pc)
  PROVE  coord' \in CoordType /\ coord'.pc = pc /\ coord'.cycle = coord.cycle
         /\ coord'.id = coord.id
  BY DEF Goto, CoordType

LEMMA UpdInitInv == UpdateInit => UpdInv
  <1> SUFFICES ASSUME UpdateInit PROVE UpdInv
    OBVIOUS
  <1>1. receipt = NoReceipt /\ coord = NoCoord /\ work = [count |-> 0, exclusive |-> FALSE]
    BY DEF UpdateInit
  <1>2. /\ outcome \in OutcomeType
        /\ files \in [Files -> {0, NewRelease}] /\ marker \subseteq {0, NewRelease}
        /\ migrations \in [Attempts -> SUBSET Starts]
        /\ \A a \in Attempts : migrations[a] = {}
    BY DEF UpdateInit, OutcomeType
  <1>3. files["bin"] = 0 /\ exe = 0 /\ exe \in {0, NewRelease}
    BY DEF UpdateInit, Files
  <1>4. armed \in BOOLEAN /\ migrated \in BOOLEAN /\ ~migrated
    BY Zenon DEF UpdateInit
  <1>5. /\ proof \subseteq Attempts /\ sound \subseteq Attempts
        /\ cancelled \subseteq Cycles /\ claimed \subseteq Cycles
        /\ cycleLock = "nobody" /\ job = "none" /\ startup = "start" /\ guard = "nobody"
        /\ manual = "idle" /\ lapsed \subseteq Attempts
    BY DEF UpdateInit
  <1>6. /\ boot \in Boots /\ cycle \in 0..MaxCycles /\ cycles \in 0..MaxCycles
        /\ made \in 0..MaxAttempts /\ restarts \in 0..MaxRestarts
        /\ tries \in 0..MigrationTries /\ manuals \in 0..MaxManuals
        /\ faults \in 0..MaxSaveFaults /\ installer \in 0..MaxAttempts
    BY UpdateFacts, UpdateAssumption DEF UpdateInit, MigrationTries
  <1>7. UpdateTypeOK /\ coord \in CoordType
    <2>1. receipt \in ReceiptType /\ work \in WorkType /\ coord \in CoordType
      BY <1>1, UpdateFacts
    <2>2. coord.pc = "idle"
      BY <1>1, UpdateFacts
    <2> QED BY <1>2, <1>3, <1>4, <1>5, <1>6, <2>1, <2>2
            DEF UpdateTypeOK, ReceiptType, WorkType, OutcomeType
  <1>8. receipt.phase = "none" /\ coord.pc = "idle"
    BY <1>1, UpdateFacts
  <1>9. GuardInv /\ ReceiptInv /\ AloneInv
    BY <1>5, <1>8 DEF GuardInv, ReceiptInv, AloneInv
  <1>10. FreshInv /\ MigratesOnce
    BY <1>2, <1>5, <1>8 DEF FreshInv, MigratesOnce
  <1>11. StartupInv
    BY <1>5, <1>8 DEF StartupInv, Unfinished
  <1> QED BY <1>7, <1>9, <1>10, <1>11 DEF UpdInv

-----------------------------------------------------------------------------
(* The steps.                                                              *)

\* The archive cycle and the reboot job.  A cancellation is only accepted while
\* nobody holds the cycle's lock.
LEMMA CycleSteps ==
  ASSUME UpdInv, CycleBegin \/ CycleEnd \/ LoopDies \/ RequestCancel \/ BeginShutdown
  PROVE  UpdInv'
  <1> USE DEF UpdInv
  <1>u. UNCHANGED <<receipt, proof, outcome, files, boot, claimed, cycleLock, armed, exe, startup,
                    migrated, guard, coord, manual, work, made, restarts, migrations, sound,
                    marker, tries, lapsed, manuals, faults, installer>>
    BY DEF CycleBegin, CycleEnd, LoopDies, RequestCancel, BeginShutdown, card, serverVars,
           startVars, ghost
  <1>1. cycle' \in 0..MaxCycles /\ cycles' \in 0..MaxCycles
    <2>1. cycle \in 0..MaxCycles /\ cycles \in 0..MaxCycles /\ MaxCycles \in Nat
      BY UpdateAssumption DEF UpdateTypeOK
    <2>2. CASE CycleBegin
      BY <2>1, <2>2 DEF CycleBegin
    <2>3. CASE CycleEnd \/ LoopDies
      BY <2>1, <2>3 DEF CycleEnd, LoopDies
    <2>4. CASE RequestCancel \/ BeginShutdown
      BY <2>1, <2>4 DEF RequestCancel, BeginShutdown
    <2> QED BY <2>2, <2>3, <2>4
  <1>2. /\ cancelled' \subseteq Cycles
        /\ cancelled' = cancelled \/ cycleLock = "nobody"
    <2>1. CASE RequestCancel
      <3>1. cycle \in Cycles
        BY <2>1, UpdateAssumption DEF RequestCancel, UpdateTypeOK, Cycles
      <3> QED BY <2>1, <3>1 DEF RequestCancel, UpdateTypeOK
    <2>2. CASE ~RequestCancel
      BY <2>2 DEF CycleBegin, CycleEnd, LoopDies, BeginShutdown, UpdateTypeOK
    <2> QED BY <2>1, <2>2
  <1>3. job' \in {"none", "asked", "stopping"}
    BY DEF CycleBegin, CycleEnd, LoopDies, RequestCancel, BeginShutdown, UpdateTypeOK
  <1>4. UpdateTypeOK' /\ coord' \in CoordType
    BY <1>u, <1>1, <1>2, <1>3 DEF UpdateTypeOK
  <1>5. AloneInv'
    BY <1>u, <1>2 DEF AloneInv
  <1> QED BY <1>u, <1>4, <1>5, SameParts

\* Background workers begin and end; none begins once they are shut out.
LEMMA WorkSteps ==
  ASSUME UpdInv, TryBeginWork \/ EndWork
  PROVE  UpdInv'
  <1> USE DEF UpdInv
  <1>u. UNCHANGED <<receipt, proof, outcome, files, boot, cycle, cycles, cancelled, claimed,
                    cycleLock, job, armed, exe, startup, migrated, guard, coord, manual, made,
                    restarts, migrations, sound, marker, tries, lapsed, manuals, faults,
                    installer>>
    BY DEF TryBeginWork, EndWork, card, bootVars, startVars, ghost
  <1>1. /\ work \in WorkType /\ work.count \in 0..MaxWorkers
        /\ MaxWorkers \in Nat
    BY UpdateAssumption DEF UpdateTypeOK, WorkType
  <1>2. PICK n \in 0..MaxWorkers : work' = [work EXCEPT !.count = n]
    <2>1. CASE TryBeginWork
      BY <1>1, <2>1 DEF TryBeginWork
    <2>2. CASE EndWork
      BY <1>1, <2>2 DEF EndWork
    <2> QED BY <2>1, <2>2
  <1>3. work' \in WorkType
    BY <1>1, <1>2 DEF WorkType
  <1>4. UpdateTypeOK' /\ coord' \in CoordType
    BY <1>u, <1>3 DEF UpdateTypeOK, WorkType
  <1>5. ~work.exclusive \/ work.count # 0
    BY <1>1 DEF TryBeginWork, EndWork
  <1>6. AloneInv'
    BY <1>u, <1>5 DEF AloneInv
  <1> QED BY <1>u, <1>4, <1>6, SameParts

\* The coordinator's steps up to the commit, and its errors: the card is left alone.
LEMMA CoordQuietSteps ==
  ASSUME UpdInv, StageDone \/ ReserveWork \/ FinalGate \/ LockCycle \/ ArmShutdownReceipt
                 \/ CoordFails
  PROVE  UpdInv'
  <1> USE DEF UpdInv
  <1>u. UNCHANGED <<receipt, proof, outcome, files, boot, cycle, cycles, cancelled, claimed, job,
                    exe, startup, migrated, guard, manual, made, restarts, migrations, sound,
                    marker, tries, lapsed, manuals, faults, installer>>
    BY DEF StageDone, ReserveWork, FinalGate, LockCycle, ArmShutdownReceipt, CoordFails, card,
           bootVars, startVars, ghost
  <1>t. work \in WorkType /\ cycleLock \in {"nobody", "coord"} /\ armed \in BOOLEAN
    BY DEF UpdateTypeOK, WorkType
  <1>k. ASSUME NEW pc \in {"staged", "gate", "lock", "commit", "reboot", "failed"}, Goto(pc),
               coord.pc # "idle", work' \in WorkType, cycleLock' \in {"nobody", "coord"},
               armed' \in BOOLEAN, ReceiptInv', AloneInv'
        PROVE  UpdInv'
    <2>1. coord' \in CoordType /\ coord'.pc = pc
      BY <1>k, GotoFacts
    <2>2. UpdateTypeOK'
      BY <1>u, <1>k, <2>1 DEF UpdateTypeOK, WorkType
    <2>3. GuardInv'
      BY <1>u, <1>k, <2>1 DEF GuardInv
    <2> QED BY <1>u, <1>k, <2>1, <2>2, <2>3, SameParts
  <1>1. CASE StageDone
    <2>1. coord.pc = "staging" /\ Goto("staged") /\ UNCHANGED <<work, cycleLock, armed>>
      BY <1>1 DEF StageDone, bootVars
    <2>2. coord'.pc = "staged" /\ coord'.id = coord.id
      BY <2>1, GotoFacts
    <2>3. ReceiptInv' /\ AloneInv'
      BY <1>u, <2>1, <2>2 DEF ReceiptInv, AloneInv, Unfinished, Terminal
    <2> QED BY <1>k, <1>t, <2>1, <2>3
  <1>2. CASE ReserveWork
    <2>1. /\ coord.pc = "staged" /\ Goto("gate") /\ UNCHANGED <<cycleLock, armed>>
          /\ work.count = 0 /\ work' = [work EXCEPT !.exclusive = TRUE]
      BY <1>2 DEF ReserveWork, bootVars
    <2>2. coord'.pc = "gate" /\ coord'.id = coord.id /\ work' \in WorkType /\ work'.exclusive /\ work'.count = 0
      BY <1>t, <2>1, GotoFacts DEF WorkType
    <2>3. ReceiptInv' /\ AloneInv'
      BY <1>u, <2>1, <2>2 DEF ReceiptInv, AloneInv, Unfinished, Terminal
    <2> QED BY <1>k, <1>t, <2>1, <2>2, <2>3
  <1>3. CASE FinalGate
    <2>1. coord.pc = "gate" /\ Goto("lock") /\ UNCHANGED <<work, cycleLock, armed>>
      BY <1>3 DEF FinalGate, bootVars
    <2>2. coord'.pc = "lock" /\ coord'.id = coord.id
      BY <2>1, GotoFacts
    <2>3. ReceiptInv' /\ AloneInv'
      BY <1>u, <2>1, <2>2 DEF ReceiptInv, AloneInv, Unfinished, Terminal
    <2> QED BY <1>k, <1>t, <2>1, <2>3
  <1>4. CASE LockCycle
    <2>1. /\ coord.pc = "lock" /\ Goto("commit") /\ UNCHANGED <<work, armed>>
          /\ cycleLock' = "coord" /\ coord.cycle \notin cancelled
      BY <1>4 DEF LockCycle, ValidCycle
    <2>2. coord'.pc = "commit" /\ coord'.cycle = coord.cycle /\ coord'.id = coord.id
      BY <2>1, GotoFacts
    <2>3. ReceiptInv' /\ AloneInv'
      BY <1>u, <2>1, <2>2 DEF ReceiptInv, AloneInv, Unfinished, Terminal
    <2> QED BY <1>k, <1>t, <2>1, <2>3
  <1>5. CASE ArmShutdownReceipt
    <2>1. coord.pc = "arm" /\ Goto("reboot") /\ UNCHANGED <<work, cycleLock>>
      BY <1>5 DEF ArmShutdownReceipt
    <2>2. coord'.pc = "reboot" /\ coord'.id = coord.id
      BY <2>1, GotoFacts
    <2>3. ReceiptInv' /\ AloneInv'
      BY <1>u, <2>1, <2>2 DEF ReceiptInv, AloneInv, Unfinished, Terminal
    <2>4. armed' \in BOOLEAN
      BY <1>5, Zenon DEF ArmShutdownReceipt
    <2> QED BY <1>k, <1>t, <2>1, <2>3, <2>4
  <1>6. CASE CoordFails
    <2>1. /\ coord.pc \in {"staging", "staged", "gate", "lock", "commit", "arm", "reboot", "await"}
          /\ Goto("failed") /\ UNCHANGED <<work, cycleLock, armed>>
      BY <1>6 DEF CoordFails, bootVars
    <2>2. coord'.pc = "failed" /\ coord'.id = coord.id
      BY <2>1, GotoFacts
    <2>3. ReceiptInv' /\ AloneInv'
      BY <1>u, <2>1, <2>2 DEF ReceiptInv, AloneInv, Unfinished, Terminal
    <2> QED BY <1>k, <1>t, <2>1, <2>3
  <1> QED BY <1>1, <1>2, <1>3, <1>4, <1>5, <1>6

\* A write that fails is counted.
LEMMA WriteFacts ==
  ASSUME UpdateTypeOK, NEW a \in Attempts, Written \/ Unwritten(a)
  PROVE  faults' \in 0..MaxSaveFaults /\ lapsed' \subseteq Attempts
  BY UpdateAssumption DEF UpdateTypeOK, Written, Unwritten

\* An update is considered, and not made.
LEMMA CoordinateSteps ==
  ASSUME UpdInv, Coordinate \/ CoordEnds
  PROVE  UpdInv'
  <1> USE DEF UpdInv
  <1>u. UNCHANGED <<receipt, proof, outcome, files, boot, cycle, cycles, cancelled, cycleLock, job,
                    armed, exe, startup, migrated, manual, work, made, restarts, migrations,
                    sound, marker, tries, lapsed, manuals, faults, installer>>
    BY DEF Coordinate, CoordEnds, card, bootVars, startVars, ghost
  <1>t. cycle \in 0..MaxCycles /\ claimed \subseteq Cycles /\ MaxCycles \in Nat
    BY UpdateAssumption DEF UpdateTypeOK
  <1>1. CASE Coordinate
    <2>1. /\ guard = "nobody" /\ guard' = "auto" /\ startup = "ready" /\ coord.pc = "idle"
      BY <1>1 DEF Coordinate
    <2>2. coord' \in CoordType /\ coord'.pc = "check"
      <3>1. NoCoord \in CoordType /\ coord' = [NoCoord EXCEPT !.pc = "check", !.cycle = cycle]
        BY <1>1, UpdateFacts DEF Coordinate
      <3> QED BY <1>t, <3>1 DEF CoordType
    <2>3. claimed' \subseteq Cycles
      BY <1>1, <1>t DEF Coordinate, Cycles
    <2>4. UpdateTypeOK'
      BY <1>u, <2>1, <2>2, <2>3 DEF UpdateTypeOK
    <2>5. GuardInv' /\ ReceiptInv' /\ AloneInv'
      BY <1>u, <2>1, <2>2 DEF GuardInv, ReceiptInv, AloneInv, Unfinished, Terminal
    <2> QED BY <1>u, <2>2, <2>4, <2>5, SameParts
  <1>2. CASE CoordEnds
    <2>1. UNCHANGED claimed /\ guard' = "nobody" /\ coord' = NoCoord /\ coord.pc = "check"
      BY <1>2 DEF CoordEnds, bootVars
    <2>2. coord' \in CoordType /\ coord'.pc = "idle"
      BY <2>1, UpdateFacts
    <2>4. UpdateTypeOK'
      BY <1>u, <2>1, <2>2 DEF UpdateTypeOK
    <2>5. GuardInv' /\ ReceiptInv' /\ AloneInv'
      BY <1>u, <2>1, <2>2 DEF GuardInv, ReceiptInv, AloneInv, Unfinished, Terminal
    <2> QED BY <1>u, <2>2, <2>4, <2>5, SameParts
  <1> QED BY <1>1, <1>2

\* An attempt begins, or fails before it has a receipt of its own.
LEMMA CoordBeginSteps ==
  ASSUME UpdInv, CheckFails \/ BeginAttempt
  PROVE  UpdInv'
  <1> USE DEF UpdInv
  <1> DEFINE n == made + 1
  <1>0. PICK pc \in {"staging", "failed"}, target \in {NewRelease, NoTarget} :
          /\ NewAttempt(pc, target)
          /\ Written \/ Unwritten(n)
          /\ receipt' \in {receipt, Preparing(n)}
          /\ pc = "staging" => receipt' = Preparing(n)
    <2>1. CASE CheckFails
      BY <2>1 DEF CheckFails
    <2>2. CASE BeginAttempt
      BY <2>2 DEF BeginAttempt
    <2> QED BY <2>1, <2>2
  <1>u. UNCHANGED <<proof, outcome, files, boot, cycle, cycles, cancelled, claimed, cycleLock, job,
                    armed, exe, startup, migrated, guard, manual, work, restarts, migrations,
                    sound, marker, tries, manuals, installer>>
    BY <1>0 DEF NewAttempt, bootVars
  <1>t. /\ made \in 0..MaxAttempts /\ boot \in 0..MaxBoots /\ coord \in CoordType
        /\ receipt \in ReceiptType /\ MaxAttempts \in Nat
    BY UpdateFacts, UpdateAssumption DEF UpdateTypeOK, ReceiptType
  <1>1. /\ n \in Attempts /\ n \in 0..MaxAttempts /\ n \in 1..n /\ 1..made \subseteq 1..n
        /\ \A a \in Attempts : a > n => a > made
        /\ n > made
    BY <1>0, <1>t DEF NewAttempt, Attempts
  <1>2. /\ coord.pc = "check" /\ made' = n /\ ~Unfinished(receipt)
        /\ coord' = [coord EXCEPT !.pc = pc, !.id = n, !.target = target]
    BY <1>0 DEF NewAttempt
  <1>3. faults' \in 0..MaxSaveFaults /\ lapsed' \subseteq Attempts
    BY <1>0, <1>1, WriteFacts
  <1>4. Preparing(n) \in ReceiptType /\ Preparing(n).phase = "preparing" /\ Preparing(n).id = n
    <2>1. 0 \in 0..MaxBoots
      BY UpdateAssumption
    <2> QED BY <1>t, <1>1, <2>1 DEF ReceiptType, Preparing
  <1> HIDE DEF n
  <1>5. coord' \in CoordType /\ coord'.pc = pc /\ coord'.id = n
    BY <1>t, <1>1, <1>2 DEF CoordType
  <1>6. receipt' \in ReceiptType
    BY <1>0, <1>4, <1>t
  <1>7. UpdateTypeOK'
    BY <1>u, <1>1, <1>2, <1>3, <1>5, <1>6 DEF UpdateTypeOK, ReceiptType
  <1>8. startup = "ready" /\ manual = "idle" /\ guard = "auto"
    BY <1>2 DEF GuardInv
  <1>9. GuardInv' /\ AloneInv'
    BY <1>u, <1>5, <1>8 DEF GuardInv, AloneInv
  <1>10. ReceiptInv'
    BY <1>0, <1>u, <1>1, <1>2, <1>4, <1>5, <1>8 DEF ReceiptInv
  <1>11. FreshInv'
    BY <1>0, <1>u, <1>1, <1>2, <1>4, <1>8 DEF FreshInv, Unfinished, Terminal
  <1>12. StartupInv'
    BY <1>u, <1>8 DEF StartupInv
  <1> QED BY <1>u, <1>5, <1>7, <1>9, <1>10, <1>11, <1>12, SameParts

\* The receipt is committed before files are replaced, and awaits the reboot after.
LEMMA CoordReceiptSteps ==
  ASSUME UpdInv, Commit \/ AskReboot
  PROVE  UpdInv'
  <1> USE DEF UpdInv
  <1>u. UNCHANGED <<proof, outcome, files, boot, cycle, cycles, cancelled, claimed, cycleLock,
                    armed, exe, startup, migrated, guard, manual, work, made, restarts,
                    migrations, sound, marker, tries, lapsed, manuals, faults, installer>>
    BY DEF Commit, AskReboot, bootVars, startVars, ghost
  <1>t. receipt \in ReceiptType /\ files \in [Files -> {0, NewRelease}] /\ job \in {"none", "asked", "stopping"}
    BY DEF UpdateTypeOK, ReceiptType
  <1>1. job' \in {"none", "asked", "stopping"}
    BY <1>t DEF Commit, AskReboot, bootVars
  <1>2. /\ coord.pc \in {"commit", "reboot"}
        /\ receipt' \in ReceiptType /\ receipt'.id = receipt.id
        /\ coord' \in CoordType /\ coord'.cycle = coord.cycle /\ coord'.id = coord.id
        /\ \/ coord.pc = "commit" /\ coord'.pc = "replace" /\ receipt'.phase = "installing"
           \/ coord.pc = "reboot" /\ coord'.pc = "await" /\ receipt'.phase = "awaiting_reboot"
    <2>1. CASE Commit
      <3>1. coord' \in CoordType /\ coord'.cycle = coord.cycle /\ coord'.id = coord.id
            /\ coord.pc = "commit" /\ coord'.pc = "replace"
        BY <1>t, <2>1 DEF Commit, CoordType
      <3>2. receipt' \in ReceiptType /\ receipt'.id = receipt.id /\ receipt'.phase = "installing"
        BY <1>t, <2>1 DEF Commit, ReceiptType
      <3> QED BY <3>1, <3>2
    <2>2. CASE AskReboot
      BY <1>t, <2>2, GotoFacts DEF AskReboot, ReceiptType
    <2> QED BY <2>1, <2>2
  <1>3. receipt.phase \in {"preparing", "installing"}
    BY <1>2 DEF ReceiptInv
  <1>4. UpdateTypeOK'
    BY <1>u, <1>1, <1>2 DEF UpdateTypeOK, ReceiptType
  <1>5. manual = "idle" /\ startup = "ready"
    BY <1>2 DEF GuardInv
  <1>6. GuardInv' /\ ReceiptInv' /\ AloneInv'
    BY <1>u, <1>2, <1>5 DEF GuardInv, ReceiptInv, AloneInv
  <1>7. FreshInv' /\ StartupInv'
    BY <1>u, <1>2, <1>3, <1>5 DEF FreshInv, StartupInv
  <1> QED BY <1>u, <1>2, <1>4, <1>6, <1>7, SameParts

\* Files are replaced, or put back.
LEMMA CoordFileSteps ==
  ASSUME UpdInv, ReplaceFiles \/ \E F \in SUBSET Files : ReplaceFails(F)
  PROVE  UpdInv'
  <1> USE DEF UpdInv
  <1>u. UNCHANGED <<receipt, proof, outcome, boot, cycle, cycles, cancelled, claimed, cycleLock,
                    job, armed, exe, startup, migrated, guard, manual, work, made, restarts,
                    migrations, sound, marker, tries, lapsed, manuals, faults>>
    BY DEF ReplaceFiles, ReplaceFails, OnlyFilesChange, bootVars, startVars
  <1>t. /\ coord \in CoordType /\ files \in [Files -> {0, NewRelease}]
        /\ installer \in 0..MaxAttempts /\ 0 \in 0..MaxAttempts
    BY UpdateFacts DEF UpdateTypeOK
  <1>1. /\ files' \in [Files -> {0, NewRelease}] /\ installer' \in 0..MaxAttempts
    <2>1. CASE ReplaceFiles
      BY <1>t, <2>1 DEF ReplaceFiles, CoordType
    <2>2. ASSUME NEW F \in SUBSET Files, ReplaceFails(F)
          PROVE  files' \in [Files -> {0, NewRelease}] /\ installer' \in 0..MaxAttempts
      BY <1>t, <2>2 DEF ReplaceFails, CoordType
    <2> QED BY <2>1, <2>2
  <1>2. /\ coord.pc \in {"replace", "replaced", "scripts"}
        /\ coord' \in CoordType /\ coord'.cycle = coord.cycle /\ coord'.id = coord.id
        /\ coord'.pc \in {"replaced", "scripts", "arm", "failed"}
    BY GotoFacts DEF ReplaceFiles, ReplaceFails
  <1>3. UpdateTypeOK'
    BY <1>u, <1>1, <1>2 DEF UpdateTypeOK
  <1>4. manual = "idle" /\ startup = "ready"
    BY <1>2 DEF GuardInv
  <1>5. GuardInv' /\ ReceiptInv' /\ AloneInv' /\ StartupInv'
    BY <1>u, <1>2, <1>4 DEF GuardInv, ReceiptInv, AloneInv, StartupInv
  <1> QED BY <1>u, <1>2, <1>3, <1>5, SameParts

\* A failure is saved, then told; each may fail, and ends the task.
LEMMA CoordFailedSteps ==
  ASSUME UpdInv, SaveFailed \/ TellFailed
  PROVE  UpdInv'
  <1> USE DEF UpdInv
  <1>u. /\ UNCHANGED <<proof, files, boot, cycle, cycles, cancelled, claimed, job, armed, exe,
                       startup, migrated, manual, made, restarts, migrations, sound, marker,
                       tries, manuals, installer>>
        /\ coord.pc = "failed"
    BY DEF SaveFailed, TellFailed, bootVars
  <1>t. /\ receipt \in ReceiptType /\ work \in WorkType /\ cycleLock \in {"nobody", "coord"}
        /\ outcome \in OutcomeType /\ coord \in CoordType /\ boot \in 0..MaxBoots
        /\ 0 \in 0..MaxBoots /\ 1..made \subseteq Attempts
    BY UpdateFacts, UpdateAssumption DEF UpdateTypeOK, ReceiptType, WorkType, OutcomeType, Attempts
  <1>g. manual = "idle" /\ startup = "ready" /\ guard = "auto"
    BY <1>u DEF GuardInv
  <1>i. coord.id \in 1..made /\ coord.id \in Attempts
    BY <1>u, <1>t DEF ReceiptInv
  <1>w. faults' \in 0..MaxSaveFaults /\ lapsed' \subseteq Attempts
    BY <1>i, WriteFacts DEF SaveFailed, TellFailed
  <1>c. /\ coord' \in CoordType
        /\ \/ coord' = coord /\ guard' = guard
           \/ coord'.pc = "idle" /\ guard' = "nobody"
    BY <1>t, UpdateFacts DEF SaveFailed, TellFailed
  <1>1. CASE SaveFailed
    <2>1. UNCHANGED outcome /\ cycleLock' \in {"nobody", "coord"}
      BY <1>1, <1>t DEF SaveFailed
    <2>2. /\ FailedReceipt \in ReceiptType /\ FailedReceipt.phase = "failed"
          /\ FailedReceipt.id = coord.id
      BY <1>t, <1>i DEF FailedReceipt, ReceiptType, CoordType, NewRelease
    <2>3. receipt' = receipt \/ receipt' = FailedReceipt
      BY <1>1 DEF SaveFailed
    <2>4. work' \in WorkType
      BY <1>1, <1>t DEF SaveFailed, WorkType
    <2>5. UpdateTypeOK'
      <3>1. receipt' \in ReceiptType
        BY <1>t, <2>2, <2>3
      <3>2. guard' \in {"nobody", "auto", "manual"}
        BY <1>c, <1>g
      <3> QED BY <1>u, <1>w, <1>c, <2>1, <2>4, <3>1, <3>2
              DEF UpdateTypeOK, ReceiptType, WorkType, CoordType
    <2>6. GuardInv' /\ ReceiptInv' /\ AloneInv' /\ StartupInv'
      BY <1>u, <1>c, <1>g, <1>i DEF GuardInv, ReceiptInv, AloneInv, StartupInv
    <2>7. FreshInv'
      BY <1>u, <1>g, <1>i, <2>2, <2>3 DEF FreshInv
    <2> QED BY <1>u, <1>c, <2>5, <2>6, <2>7, SameParts
  <1>2. CASE TellFailed
    <2>1. UNCHANGED <<receipt, work, cycleLock>>
      BY <1>2 DEF TellFailed, bootVars
    <2>3. outcome' \in OutcomeType
      BY <1>2, <1>t, <1>i DEF TellFailed, QueueOutcome, OutcomeType
    <2>4. UpdateTypeOK'
      <3>2. guard' \in {"nobody", "auto", "manual"}
        BY <1>c, <1>g
      <3> QED BY <1>u, <1>w, <1>c, <2>1, <2>3, <3>2 DEF UpdateTypeOK, CoordType, OutcomeType
    <2>5. GuardInv' /\ ReceiptInv' /\ AloneInv'
      BY <1>u, <1>c, <1>g, <1>i, <2>1 DEF GuardInv, ReceiptInv, AloneInv
    <2> QED BY <1>u, <1>c, <2>1, <2>4, <2>5, SameParts
  <1> QED BY <1>1, <1>2

\* The manual update, which never meets an unfinished receipt.
LEMMA ManualSteps ==
  ASSUME UpdInv,
         \/ ManualStart \/ (\E v \in {0, NewRelease} : ManualInstall(v)) \/ ManualFails
         \/ ClearAfterManualRepair \/ ManualReboot
  PROVE  UpdInv'
  <1> USE DEF UpdInv
  <1>u. UNCHANGED <<proof, outcome, boot, cycle, cycles, cancelled, claimed, cycleLock, armed,
                    exe, startup, migrated, coord, work, made, restarts, migrations, sound,
                    marker, tries, lapsed, faults>>
    BY DEF ManualStart, ManualInstall, ManualFails, ClearAfterManualRepair, ManualReboot, card,
           bootVars, startVars, ghost
  <1>n. manuals' \in 0..MaxManuals /\ installer' \in 0..MaxAttempts
    BY UpdateFacts, UpdateAssumption
       DEF ManualStart, ManualInstall, ManualFails, ClearAfterManualRepair, ManualReboot, ghost,
           UpdateTypeOK
  <1>1. /\ job' \in {"none", "asked", "stopping"}
        /\ files' \in [Files -> {0, NewRelease}]
        /\ manual' \in {"idle", "install", "half", "clear", "reboot", "await"}
        /\ guard' \in {"nobody", "auto", "manual"}
    <2>1. job' \in {"none", "asked", "stopping"} /\ guard' \in {"nobody", "auto", "manual"}
          /\ manual' \in {"idle", "install", "half", "clear", "reboot", "await"}
      BY DEF ManualStart, ManualInstall, ManualFails, ClearAfterManualRepair, ManualReboot,
             ManualStep, bootVars, UpdateTypeOK
    <2>2. files' \in [Files -> {0, NewRelease}]
      BY DEF ManualStart, ManualInstall, ManualFails, ClearAfterManualRepair, ManualReboot,
             card, UpdateTypeOK
    <2> QED BY <2>1, <2>2
  <1>2. ~Unfinished(receipt)
    BY DEF ManualStart, ManualInstall, ManualFails, ClearAfterManualRepair, ManualReboot,
           ManualStep, ReceiptInv
  <1>3. receipt' = receipt \/ receipt' = NoReceipt
    BY DEF ManualStart, ManualInstall, ManualFails, ClearAfterManualRepair, ManualReboot, card
  <1>4. ~Unfinished(receipt')
    BY <1>2, <1>3, UpdateFacts DEF Unfinished
  <1>5. coord.pc = "idle" /\ guard # "auto" /\ (manual' # "idle" <=> guard' = "manual")
        /\ guard' # "auto"
    BY DEF ManualStart, ManualInstall, ManualFails, ClearAfterManualRepair, ManualReboot,
           ManualStep, GuardInv
  <1>6. UpdateTypeOK'
    <2>1. receipt' \in ReceiptType
      BY <1>3, UpdateFacts DEF UpdateTypeOK, ReceiptType
    <2> QED BY <1>u, <1>n, <1>1, <2>1 DEF UpdateTypeOK, ReceiptType
  <1>7. GuardInv' /\ ReceiptInv'
    BY <1>u, <1>4, <1>5 DEF GuardInv, ReceiptInv
  <1>m. startup # "migrating"
    BY <1>2 DEF StartupInv, Unfinished, Terminal
  <1>8. FreshInv'
    BY <1>u, <1>m, <1>3, UpdateFacts DEF FreshInv
  <1>9. StartupInv'
    BY <1>u, <1>m, <1>4 DEF StartupInv
  <1> QED BY <1>u, <1>6, <1>7, <1>8, <1>9, SameParts

\* The migration is let through in one start, and the evidence is consumed with it.
LEMMA StartupMigrationStep ==
  ASSUME UpdInv, StartupMigration
  PROVE  UpdInv'
  <1> USE DEF UpdInv
  <1>u. /\ UNCHANGED <<proof, outcome, files, boot, cycle, cycles, cancelled, claimed, cycleLock,
                       job, armed, exe, guard, coord, manual, work, made, restarts, sound,
                       marker, manuals, installer>>
        /\ startup = "start"
    BY DEF StartupMigration, bootVars
  <1>t. /\ receipt \in ReceiptType /\ migrations \in [Attempts -> SUBSET Starts]
        /\ boot \in 0..MaxBoots /\ made \in 0..MaxAttempts /\ 1..made \subseteq Attempts
        /\ ThisStart \in Starts /\ files["ver"] \in {0, NewRelease} /\ tries \in 0..MigrationTries
    BY UpdateFacts, UpdateAssumption
       DEF UpdateTypeOK, ReceiptType, Attempts, ThisStart, Starts, Files
  <1>m. migrated' \in BOOLEAN
    BY Zenon DEF StartupMigration
  <1>r. tries' \in 0..MigrationTries
    BY <1>t DEF StartupMigration, MigrationTries
  <1>i. coord.pc = "idle"
    BY <1>u DEF GuardInv
  <1>e. Expected => /\ files["ver"] = NewRelease /\ exe = NewRelease /\ receipt.id \in proof
                    /\ receipt.phase = "awaiting_reboot" /\ Unfinished(receipt)
                    /\ receipt.id \in 1..made /\ receipt.id \in Attempts
    <2> SUFFICES ASSUME Expected
                 PROVE  /\ files["ver"] = NewRelease /\ exe = NewRelease /\ receipt.id \in proof
                        /\ receipt.phase = "awaiting_reboot" /\ Unfinished(receipt)
                        /\ receipt.id \in 1..made /\ receipt.id \in Attempts
      OBVIOUS
    <2>1. /\ receipt.phase = "awaiting_reboot" /\ receipt.target = files["ver"]
          /\ receipt.sha # 0 /\ exe = receipt.sha /\ receipt.id \in proof
      BY DEF Expected
    <2>2. files["ver"] = NewRelease /\ exe = NewRelease
      BY <1>t, <2>1 DEF ReceiptType, NewRelease, NoTarget
    <2> QED BY <1>t, <2>1, <2>2 DEF FreshInv, Unfinished, Terminal
  <1>b. ASSUME BeginVerification
        PROVE  receipt' \in ReceiptType /\ receipt'.phase = "verifying" /\ receipt'.id = receipt.id
    BY <1>t, <1>b DEF BeginVerification, ReceiptType
  <1>1. CASE /\ Expected /\ BeginVerification /\ Written
             /\ migrations' = [migrations EXCEPT ![receipt.id] = @ \cup {ThisStart}]
             /\ startup' = "migrating" /\ tries' = 1
    <2>1. receipt.id \in 1..made /\ receipt.id \in Attempts /\ migrations[receipt.id] = {}
      BY <1>1, <1>e DEF FreshInv
    <2>2. /\ migrations' \in [Attempts -> SUBSET Starts]
          /\ \A s \in migrations'[receipt.id] : s = ThisStart
          /\ \A a \in Attempts : a # receipt.id => migrations'[a] = migrations[a]
      BY <1>1, <1>t, <2>1
    <2>3. /\ receipt' \in ReceiptType /\ receipt'.phase = "verifying" /\ receipt'.id = receipt.id
          /\ UNCHANGED <<faults, lapsed>>
      BY <1>1, <1>b DEF Written
    <2>4. UpdateTypeOK'
      BY <1>u, <1>m, <1>r, <1>1, <2>2, <2>3 DEF UpdateTypeOK, ReceiptType
    <2>5. manual = "idle"
      BY <1>1, <1>e DEF ReceiptInv
    <2>6. GuardInv' /\ ReceiptInv'
      BY <1>u, <1>i, <2>3, <2>5 DEF GuardInv, ReceiptInv
    <2>7. MigratesOnce'
      BY <2>2 DEF MigratesOnce
    <2>8. FreshInv'
      <3>1. ~(receipt.id > made) /\ ThisStart' = ThisStart
        BY <1>u, <1>t, <2>1 DEF ThisStart
      <3> QED BY <1>u, <2>1, <2>2, <2>3, <3>1 DEF FreshInv
    <2>9. StartupInv'
      <3>1. startup' = "migrating"
        BY <1>1
      <3>2. exe = files["bin"]
        BY <1>u, <1>1, <1>e DEF StartupInv
      <3> QED BY <1>u, <1>1, <1>e, <2>3, <3>1, <3>2 DEF StartupInv
    <2> QED BY <1>u, <1>i, <2>4, <2>6, <2>7, <2>8, <2>9, SameParts
  <1>2. CASE /\ Expected /\ Unwritten(receipt.id) /\ UNCHANGED <<migrations, tries>>
             /\ UNCHANGED receipt \/ BeginVerification
             /\ startup' = "recover" /\ migrated' = FALSE
    <2>1. /\ receipt' \in ReceiptType /\ receipt'.id = receipt.id
          /\ receipt'.phase \in {"awaiting_reboot", "verifying"}
      BY <1>2, <1>b, <1>e, <1>t
    <2>2. faults' \in 0..MaxSaveFaults /\ lapsed' \subseteq Attempts
      BY <1>2, <1>e, WriteFacts
    <2>3. UpdateTypeOK'
      BY <1>u, <1>m, <1>r, <1>2, <2>1, <2>2 DEF UpdateTypeOK, ReceiptType
    <2>4. manual = "idle"
      BY <1>2, <1>e DEF ReceiptInv
    <2>5. GuardInv' /\ ReceiptInv'
      BY <1>u, <1>i, <2>4, <1>2 DEF GuardInv, ReceiptInv
    <2>6. FreshInv'
      BY <1>u, <1>2, <1>e, <2>1 DEF FreshInv
    <2>7. StartupInv'
      <3>1. startup' = "recover" /\ ~migrated'
        BY <1>2
      <3>2. exe = files["bin"]
        BY <1>u, <1>2, <1>e DEF StartupInv
      <3> QED BY <1>u, <3>1, <3>2 DEF StartupInv
    <2> QED BY <1>u, <1>i, <1>2, <2>3, <2>5, <2>6, <2>7, SameParts
  <1>3. CASE /\ UNCHANGED <<receipt, migrations>> /\ Written
             /\ startup' \in {"recover", "plain"}
             /\ startup' = "plain" \/ migrated' => ~Unfinished(receipt)
    <2>1. UNCHANGED <<faults, lapsed>>
      BY <1>3 DEF Written
    <2>2. UpdateTypeOK'
      BY <1>u, <1>m, <1>r, <1>3, <2>1 DEF UpdateTypeOK
    <2>3. GuardInv' /\ ReceiptInv'
      BY <1>u, <1>i, <1>3 DEF GuardInv, ReceiptInv, Unfinished, Terminal
    <2>4. FreshInv'
      BY <1>u, <1>3 DEF FreshInv
    <2>5. StartupInv'
      <3>1. Unfinished(receipt)' <=> Unfinished(receipt)
        BY <1>3 DEF Unfinished, Terminal
      <3> QED BY <1>u, <1>3, <3>1 DEF StartupInv
    <2> QED BY <1>u, <1>i, <1>3, <2>2, <2>3, <2>4, <2>5, SameParts
  <1> QED BY <1>1, <1>2, <1>3 DEF StartupMigration

\* The script is run again in the same start.
LEMMA MigrationRetriesStep ==
  ASSUME UpdInv, MigrationRetries
  PROVE  UpdInv'
  <1> USE DEF UpdInv
  <1>u. UNCHANGED <<receipt, proof, outcome, files, boot, cycle, cycles, cancelled, claimed,
                    cycleLock, job, armed, exe, startup, migrated, lapsed, guard, coord, manual,
                    work, made, restarts, manuals, faults, sound, marker, installer>>
    BY DEF MigrationRetries, card, bootVars
  <1>t. /\ migrations \in [Attempts -> SUBSET Starts] /\ ThisStart \in Starts
        /\ 1..made \subseteq Attempts /\ tries \in 0..MigrationTries
    BY UpdateAssumption DEF UpdateTypeOK, ThisStart, Starts, Attempts
  <1>r. tries' \in 0..MigrationTries
    BY <1>t DEF MigrationRetries, MigrationTries
  <1>1. CASE startup = "migrating"
    <2>1. receipt.phase = "verifying" /\ receipt.id \in 1..made /\ receipt.id \in Attempts
      BY <1>1, <1>t DEF StartupInv, FreshInv
    <2>2. migrations' = [migrations EXCEPT ![receipt.id] = @ \cup {ThisStart}]
      BY <1>1 DEF MigrationRetries
    <2>3. \A s \in migrations[receipt.id] : s = ThisStart
      BY <1>1 DEF FreshInv
    <2>4. /\ migrations' \in [Attempts -> SUBSET Starts]
          /\ \A s \in migrations'[receipt.id] : s = ThisStart
          /\ \A a \in Attempts : a # receipt.id => migrations'[a] = migrations[a]
      BY <1>t, <2>1, <2>2, <2>3
    <2>5. UpdateTypeOK'
      BY <1>u, <1>r, <2>4 DEF UpdateTypeOK
    <2>6. MigratesOnce'
      BY <2>4 DEF MigratesOnce
    <2>7. FreshInv'
      <3>1. ~(receipt.id > made) /\ ThisStart' = ThisStart
        BY <1>u, <2>1, UpdateAssumption DEF ThisStart, UpdateTypeOK
      <3> QED BY <1>u, <2>1, <2>4, <3>1 DEF FreshInv
    <2> QED BY <1>u, <2>5, <2>6, <2>7, SameParts
  <1>2. CASE startup # "migrating"
    <2>1. UNCHANGED migrations
      BY <1>2 DEF MigrationRetries
    <2>2. UpdateTypeOK'
      BY <1>u, <1>r, <2>1 DEF UpdateTypeOK
    <2> QED BY <1>u, <2>1, <2>2, SameParts
  <1> QED BY <1>1, <1>2

\* The migration ends, and the attempt is judged.
LEMMA StartupEndSteps ==
  ASSUME UpdInv, (\E ok \in BOOLEAN : MigrationEnds(ok)) \/ RecoverAfterStartup
  PROVE  UpdInv'
  <1> USE DEF UpdInv
  <1>u. UNCHANGED <<proof, files, boot, cycle, cycles, cancelled, claimed, cycleLock, job,
                    armed, exe, guard, coord, manual, work, made, restarts, migrations,
                    manuals, installer>>
    BY DEF MigrationEnds, RecoverAfterStartup, bootVars
  <1>t. /\ receipt \in ReceiptType /\ 1..made \subseteq Attempts /\ sound \subseteq Attempts
        /\ outcome \in OutcomeType /\ files["ver"] \in {0, NewRelease}
    BY UpdateAssumption DEF UpdateTypeOK, ReceiptType, Attempts, OutcomeType, Files
  <1>1. ASSUME NEW ok \in BOOLEAN, MigrationEnds(ok) PROVE UpdInv'
    <2>1. /\ UNCHANGED <<receipt, outcome, faults, lapsed>> /\ startup' = "recover"
          /\ startup \in {"migrating", "plain"} /\ tries' \in 0..MigrationTries
      BY <1>1 DEF MigrationEnds, MigrationTries
    <2>2. migrated' \in BOOLEAN
      BY <1>1 DEF MigrationEnds
    <2>3. /\ sound' \subseteq Attempts
          /\ startup = "migrating" /\ migrated' => receipt.id \in sound'
      <3>1. startup = "migrating" => receipt.id \in Attempts
        BY <1>t DEF StartupInv, FreshInv
      <3> QED BY <1>1, <1>t, <3>1 DEF MigrationEnds
    <2>k. marker' \subseteq {0, NewRelease}
      BY <1>1, <1>t DEF MigrationEnds, UpdateTypeOK
    <2>4. UpdateTypeOK'
      BY <1>u, <2>1, <2>2, <2>3, <2>k DEF UpdateTypeOK
    <2>5. GuardInv' /\ FreshInv'
      BY <1>u, <2>1 DEF GuardInv, FreshInv
    <2>6. StartupInv'
      <3>1. Unfinished(receipt)' <=> Unfinished(receipt)
        BY <2>1 DEF Unfinished, Terminal
      <3> QED BY <1>u, <2>1, <2>3, <3>1 DEF StartupInv
    <2> QED BY <1>u, <2>1, <2>4, <2>5, <2>6, SameParts
  <1>2. CASE RecoverAfterStartup
    <2>1. UNCHANGED <<sound, tries, marker>> /\ startup = "recover" /\ startup' = "ready"
      BY <1>2 DEF RecoverAfterStartup
    <2>m. migrated' \in BOOLEAN
      BY <1>2, Zenon DEF RecoverAfterStartup
    <2>2. BootOutcome \in {"interrupted", "failed", "verified"}
      BY DEF BootOutcome
    <2>3. /\ receipt' \in ReceiptType /\ receipt'.id = receipt.id
          /\ \/ receipt' = receipt
             \/ receipt'.phase \in {"interrupted", "failed", "verified"} /\ Unfinished(receipt)
      <3>1. /\ Judged(receipt) \in ReceiptType /\ Judged(receipt).id = receipt.id
            /\ \/ Judged(receipt) = receipt
               \/ /\ Judged(receipt).phase \in {"interrupted", "failed", "verified"}
                  /\ Unfinished(receipt)
        BY <1>t, <2>2 DEF Judged, ReceiptType
      <3> QED BY <1>2, <1>t, <3>1 DEF RecoverAfterStartup
    <2>i. receipt.phase # "none" => receipt.id \in Attempts
      BY <1>t DEF FreshInv
    <2>4. outcome' \in OutcomeType
      <3>1. CASE Terminal(receipt') /\ QueueOutcome(receipt.id, receipt'.phase)
        BY <1>t, <3>1 DEF QueueOutcome, Terminal, OutcomeType
      <3> QED BY <1>2, <1>t, <3>1 DEF RecoverAfterStartup
    <2>w. faults' \in 0..MaxSaveFaults /\ lapsed' \subseteq Attempts
      <3>1. CASE Written
        BY <3>1 DEF Written, UpdateTypeOK
      <3>2. CASE receipt.phase # "none" /\ Unwritten(receipt.id)
        BY <2>i, <3>2, WriteFacts
      <3> QED BY <1>2, <3>1, <3>2 DEF RecoverAfterStartup
    <2>5. UpdateTypeOK'
      BY <1>u, <2>1, <2>m, <2>3, <2>4, <2>w DEF UpdateTypeOK, ReceiptType, OutcomeType
    <2>6. coord.pc = "idle"
      BY <2>1 DEF GuardInv
    <2>7. GuardInv' /\ ReceiptInv'
      BY <1>u, <2>1, <2>3, <2>6 DEF GuardInv, ReceiptInv, Unfinished, Terminal
    <2>8. FreshInv'
      BY <1>u, <2>1, <2>3 DEF FreshInv, Unfinished, Terminal
    <2>9. StartupInv'
      BY <2>1 DEF StartupInv
    <2> QED BY <1>u, <2>5, <2>7, <2>8, <2>9, SameParts
  <1> QED BY <1>1, <1>2

\* The evidence of the shutdown is written.
LEMMA WriteShutdownReceiptStep ==
  ASSUME UpdInv, WriteShutdownReceipt
  PROVE  UpdInv'
  <1> USE DEF UpdInv
  <1>u. /\ UNCHANGED <<receipt, outcome, files, boot, cycle, cycles, cancelled, claimed,
                       cycleLock, job, exe, startup, migrated, guard, coord, manual, work, made,
                       restarts, migrations, sound, marker, tries, lapsed, manuals, faults,
                       installer>>
        /\ receipt.phase = "awaiting_reboot"
    BY DEF WriteShutdownReceipt, serverVars, startVars, ghost
  <1>1. receipt.id \in Attempts
    BY <1>u, UpdateAssumption DEF FreshInv, UpdateTypeOK, Attempts
  <1>2. proof' \subseteq Attempts /\ proof \subseteq proof'
    BY <1>1 DEF WriteShutdownReceipt, UpdateTypeOK
  <1>3. armed' \in BOOLEAN
    BY Zenon DEF WriteShutdownReceipt
  <1>4. UpdateTypeOK'
    BY <1>u, <1>2, <1>3 DEF UpdateTypeOK
  <1>5. StartupInv'
    BY <1>u, <1>2 DEF StartupInv
  <1> QED BY <1>u, <1>4, <1>5, SameParts

\* The server starts anew, with the Pi or alone.
LEMMA ServerStartSteps ==
  ASSUME UpdInv, PowerGoes \/ ServerRestarts
  PROVE  UpdInv'
  <1> USE DEF UpdInv
  <1>u. /\ UNCHANGED <<receipt, proof, outcome, files, cycles, made, migrations, sound, marker,
                       manuals, faults, installer>>
        /\ ServerStarts
    BY DEF PowerGoes, ServerRestarts, card, ghost
  <1>t. /\ boot \in Boots /\ cycle \in 0..MaxCycles /\ cancelled \subseteq Cycles
        /\ claimed \subseteq Cycles /\ cycleLock \in {"nobody", "coord"}
        /\ job \in {"none", "asked", "stopping"} /\ armed \in BOOLEAN
        /\ restarts \in 0..MaxRestarts /\ files["bin"] \in {0, NewRelease}
        /\ MaxBoots \in Nat /\ MaxRestarts \in Nat
    BY UpdateAssumption DEF UpdateTypeOK, Files
  <1>1. /\ exe' = files["bin"] /\ startup' = "start" /\ guard' = "nobody" /\ coord' = NoCoord
        /\ manual' = "idle" /\ work' = [count |-> 0, exclusive |-> FALSE]
        /\ tries' \in 0..MigrationTries /\ lapsed' \subseteq Attempts
    BY <1>u DEF ServerStarts, MigrationTries
  <1>2. migrated' \in BOOLEAN /\ armed' \in BOOLEAN
    <2>1. migrated' \in BOOLEAN
      BY <1>u, Zenon DEF ServerStarts
    <2>2. CASE PowerGoes
      <3>1. armed' \in BOOLEAN
        BY <2>2, Zenon DEF PowerGoes
      <3> QED BY <2>1, <3>1
    <2>3. CASE ServerRestarts
      BY <1>t, <2>1, <2>3 DEF ServerRestarts
    <2> QED BY <2>2, <2>3
  <1>3. boot' \in Boots /\ restarts' \in 0..MaxRestarts /\ cycle' \in 0..MaxCycles
    <2>1. CASE PowerGoes
      BY <1>t, <2>1, UpdateFacts DEF PowerGoes, Boots, ghost
    <2>2. CASE ServerRestarts
      BY <1>t, <2>2 DEF ServerRestarts
    <2> QED BY <2>1, <2>2
  <1>4. /\ cancelled' \subseteq Cycles /\ claimed' \subseteq Cycles
        /\ cycleLock' \in {"nobody", "coord"} /\ job' \in {"none", "asked", "stopping"}
    BY <1>t DEF PowerGoes, ServerRestarts
  <1>5. coord' \in CoordType /\ coord'.pc = "idle" /\ work' \in WorkType
    BY <1>1, UpdateFacts
  <1>6. UpdateTypeOK'
    BY <1>u, <1>t, <1>1, <1>2, <1>3, <1>4, <1>5 DEF UpdateTypeOK, WorkType
  <1>7. GuardInv' /\ ReceiptInv' /\ AloneInv'
    BY <1>1, <1>5 DEF GuardInv, ReceiptInv, AloneInv
  <1>8. StartupInv' /\ FreshInv'
    BY <1>u, <1>1 DEF StartupInv, FreshInv
  <1> QED BY <1>u, <1>5, <1>6, <1>7, <1>8, SameParts

LEMMA UpdNextInv == UpdInv /\ [UpdateNext]_updVars => UpdInv'
  <1> SUFFICES ASSUME UpdInv, [UpdateNext]_updVars PROVE UpdInv'
    OBVIOUS
  <1>1. CASE UNCHANGED updVars
    <2>1. UNCHANGED <<receipt, proof, outcome, files, marker, boot, cycle, cycles, cancelled,
                      claimed, cycleLock, job, armed, exe, startup, migrated, tries, lapsed,
                      guard, coord, manual, work, made, restarts, manuals, faults, migrations,
                      sound, installer>>
      BY <1>1 DEF updVars, card, bootVars, serverVars, startVars, ghost
    <2> QED BY <2>1, SameParts DEF UpdInv, UpdateTypeOK
  <1>2. CASE CoordStep
    BY <1>2, CoordQuietSteps, CoordinateSteps, CoordBeginSteps, CoordReceiptSteps,
       CoordFileSteps, CoordFailedSteps DEF CoordStep
  <1>3. CASE StartupStep
    BY <1>3, StartupMigrationStep, MigrationRetriesStep, StartupEndSteps DEF StartupStep
  <1> QED BY <1>1, <1>2, <1>3, CycleSteps, WorkSteps, ManualSteps, WriteShutdownReceiptStep,
             ServerStartSteps DEF UpdateNext

-----------------------------------------------------------------------------
(* The theorems.                                                           *)

\* The receipt, the files, the coordinator and the rest keep their types.
THEOREM UpdateTypes == UpdateSpec => []UpdateTypeOK
  <1>1. UpdInv => UpdateTypeOK
    BY DEF UpdInv
  <1> QED BY <1>1, UpdInitInv, UpdNextInv, PTL DEF UpdateSpec

\* The verification of an attempt runs the migration in one start only, three
\* times at most, however often the Pi or the server starts again, whichever
\* receipts are overwritten and whatever cannot be written (migrate.rs,
\* begin_verification).
THEOREM MigrationRunsOnce == UpdateSpec => []MigratesOnce
  <1>1. UpdInv => MigratesOnce
    BY DEF UpdInv
  <1> QED BY <1>1, UpdInitInv, UpdNextInv, PTL DEF UpdateSpec

\* Files are replaced with no worker, no manual update and no accepted
\* cancellation beside (auto_update_install.rs).
THEOREM FilesAreReplacedAlone == UpdateSpec => []ReplacementIsAlone
  <1>1. UpdInv => ReplacementIsAlone
    BY DEF UpdInv, GuardInv, AloneInv, ReplacementIsAlone
  <1> QED BY <1>1, UpdInitInv, UpdNextInv, PTL DEF UpdateSpec

\* Only recover_after_startup writes "verified".
LEMMA OnlyRecoveryVerifies ==
  ASSUME UpdInv, UpdateNext, receipt.phase # "verified", receipt'.phase = "verified"
  PROVE  RecoverAfterStartup
  <1>t. receipt \in ReceiptType
    BY DEF UpdInv, UpdateTypeOK, ReceiptType
  <1>n. receipt' # receipt
    OBVIOUS
  <1>1. ~CoordStep
    <2>a. ~Commit
      BY <1>t DEF Commit, ReceiptType
    <2>b. ~AskReboot
      BY <1>t DEF AskReboot, ReceiptType
    <2>c. ~SaveFailed
      BY <1>n DEF SaveFailed, FailedReceipt
    <2>d. ~BeginAttempt
      BY <1>n DEF BeginAttempt, Preparing
    <2>2. /\ ~Coordinate /\ ~CoordEnds /\ ~CheckFails /\ ~StageDone /\ ~ReserveWork /\ ~FinalGate /\ ~LockCycle
          /\ ~ArmShutdownReceipt /\ ~CoordFails
      BY <1>n DEF Coordinate, CoordEnds, CheckFails, StageDone, ReserveWork, FinalGate, LockCycle,
         ArmShutdownReceipt, CoordFails, card
    <2>3. ~ReplaceFiles /\ ~TellFailed /\ \A F \in SUBSET Files : ~ReplaceFails(F)
      BY <1>n DEF ReplaceFiles, OnlyFilesChange, TellFailed, ReplaceFails
    <2> QED BY <2>a, <2>b, <2>c, <2>d, <2>2, <2>3 DEF CoordStep
  <1>2. ~StartupMigration /\ ~MigrationRetries /\ \A ok \in BOOLEAN : ~MigrationEnds(ok)
    <2>1. ~BeginVerification
      BY <1>t DEF BeginVerification, ReceiptType
    <2> QED BY <1>n, <2>1 DEF StartupMigration, MigrationRetries, MigrationEnds, card
  <1>3. /\ ~CycleBegin /\ ~CycleEnd /\ ~LoopDies /\ ~RequestCancel /\ ~TryBeginWork /\ ~EndWork
        /\ ~BeginShutdown /\ ~WriteShutdownReceipt /\ ~PowerGoes /\ ~ServerRestarts
    BY <1>n DEF CycleBegin, CycleEnd, LoopDies, RequestCancel, TryBeginWork, EndWork,
       BeginShutdown, WriteShutdownReceipt, PowerGoes, ServerRestarts, card
  <1>4. /\ ~ManualStart /\ ~ManualFails /\ ~ManualReboot /\ ~ClearAfterManualRepair
        /\ \A v \in {0, NewRelease} : ~ManualInstall(v)
    BY <1>n, UpdateFacts DEF ManualStart, ManualFails, ManualReboot, ManualInstall,
       ClearAfterManualRepair, card
  <1> QED BY <1>1, <1>2, <1>3, <1>4 DEF UpdateNext, StartupStep

\* An attempt is reported as verified only when the complete release is
\* installed and runs, after the shutdown it asked for, and its migration ended
\* well: for any number of power cuts and restarts (boot_outcome).
THEOREM VerifiedOnlyWhenEarned == UpdateSpec => VerifiedIsEarned
  <1>1. ASSUME UpdInv, [UpdateNext]_updVars, receipt.phase # "verified",
               receipt'.phase = "verified"
        PROVE  /\ files["bin"] = NewRelease /\ files["ver"] = NewRelease /\ exe = NewRelease
               /\ receipt.id \in sound /\ receipt.id \in proof
               /\ boot # receipt.boot
    <2>t. receipt \in ReceiptType
      BY <1>1 DEF UpdInv, UpdateTypeOK, ReceiptType
    <2>1. RecoverAfterStartup
      <3>1. UpdateNext
        BY <1>1 DEF updVars, card
      <3> QED BY <1>1, <3>1, OnlyRecoveryVerifies
    <2>2. Unfinished(receipt) /\ startup = "recover"
      BY <1>1, <2>1 DEF RecoverAfterStartup, Judged
    <2>3. BootOutcome = "verified"
      BY <1>1, <2>t, <2>1, <2>2 DEF RecoverAfterStartup, Judged, ReceiptType
    <2>4. migrated /\ receipt.boot # boot
      BY <2>3 DEF BootOutcome
    <2> QED BY <1>1, <2>2, <2>4 DEF UpdInv, StartupInv
  <1>2. UpdInv /\ [UpdateNext]_updVars =>
          [receipt.phase # "verified" /\ receipt'.phase = "verified" =>
             /\ files["bin"] = NewRelease /\ files["ver"] = NewRelease /\ exe = NewRelease
             /\ receipt.id \in sound /\ receipt.id \in proof
             /\ boot # receipt.boot]_updVars
    BY <1>1
  <1> QED BY <1>2, UpdInitInv, UpdNextInv, PTL DEF UpdateSpec, VerifiedIsEarned
=============================================================================
