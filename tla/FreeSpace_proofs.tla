-------------------------- MODULE FreeSpace_proofs --------------------------
(***************************************************************************)
(* The safety of the free-space manager, for every number of snapshots,    *)
(* every size of the file systems and every clock.                         *)
(*                                                                         *)
(* A property of a release rests on what the manager knew when it chose    *)
(* to release, some steps earlier: the inductive invariant carries that    *)
(* knowledge (what is queued, which target was missed, whether a verdict   *)
(* stands) across the steps of everybody else in between.                  *)
(***************************************************************************)
EXTENDS FreeSpace, TLAPS

\* The snapshot taken last has the highest slot and is never up for release.
NewestIsSafe ==
    newest # Nothing =>
      newest \in snaps /\ newest \notin queue /\ \A s \in snaps : s <= newest

\* Nothing is up for release outside the loop over the queue.
IdleIsClean == pc \in {"idle", "begin"} => queue = {} /\ policy = 0

\* Between a measurement and the release it leads to, the target that was
\* missed is still missed unless somebody made room.
MissedIsStillMissed == pc \in {"next", "release"} => Missed \/ eased

\* A verdict not yet exceeded is latched, and keeps the inode policy off.
VerdictStands ==
    verdict # Nothing => latch = verdict /\ ifree <= verdict /\ policy = 0

Inductive ==
    TypeOK /\ NewestIsSafe /\ IdleIsClean /\ MissedIsStillMissed /\ VerdictStands

-----------------------------------------------------------------------------
\* A quotient by more than one lies strictly between 0 and the dividend.
LEMMA QuotientBound ==
    ASSUME NEW t \in Nat, NEW c \in Nat, c > 1, t >= c
    PROVE  t \div c \in Nat /\ t \div c > 0 /\ t \div c < t
  OBVIOUS

\* A quotient of natural numbers is one.
LEMMA QuotientNat ==
    ASSUME NEW t \in Nat, NEW c \in Nat \ {0}
    PROVE  t \div c \in Nat
  OBVIOUS

\* inode_reserve asks for something, and for less than the table has: the
\* cap, not the floor, decides on a small table.
LEMMA ReserveBound ==
    ASSUME NEW t \in InodeTables
    PROVE  /\ t \in Nat /\ InodeReserve(t) \in Nat
           /\ InodeReserve(t) > 0 /\ InodeReserve(t) < t
  <1>1. t \in Nat /\ CapDivisor \in Nat /\ CapDivisor > 1 /\ t >= CapDivisor
        /\ ReserveDivisor \in Nat \ {0} /\ ReserveFloor \in Nat \ {0}
    BY SpaceAssumption
  <1>2. t \div CapDivisor \in Nat /\ t \div CapDivisor > 0 /\ t \div CapDivisor < t
    BY <1>1, QuotientBound
  <1>3. t \div ReserveDivisor \in Nat
    BY <1>1, QuotientNat
  <1> DEFINE q == t \div CapDivisor
             d == t \div ReserveDivisor
  <1>4. q \in Nat /\ q > 0 /\ q < t /\ d \in Nat
    BY <1>2, <1>3
  <1>5. InodeReserve(t) = Smaller(Greater(d, ReserveFloor), q)
    BY DEF InodeReserve
  <1> HIDE DEF q, d
  <1>6. QED
    BY <1>1, <1>4, <1>5 DEF Smaller, Greater

\* Every count fits the table, and the table is a number.
LEMMA TypeFacts ==
    ASSUME TypeOK
    PROVE  /\ table \in Nat /\ reserve \in Nat /\ TotalBytes \in Nat
           /\ free \in Nat /\ ifree \in Nat /\ policy \in Nat /\ stale \in Nat
           /\ Slots \subseteq Nat /\ MaxStale \in Nat \ {0} /\ MaxTrouble \in Nat
           /\ trouble \in Nat
  BY SpaceAssumption DEF TypeOK, Slots

\* The count of troubles stays within its bound.
LEMMA TroubleFacts ==
    ASSUME TypeOK, Troubled \/ UNCHANGED trouble
    PROVE  trouble' \in 0..MaxTrouble
  <1>1. trouble \in 0..MaxTrouble /\ MaxTrouble \in Nat
    BY TypeFacts DEF TypeOK
  <1>2. CASE Troubled
    BY <1>1, <1>2 DEF Troubled
  <1>3. CASE UNCHANGED trouble
    BY <1>1, <1>3
  <1>4. QED
    BY <1>2, <1>3

\* What is read is the count or nothing.
LEMMA ReadsFacts ==
    ASSUME TypeOK, NEW count, Reads(count)
    PROVE  /\ count \in 0..table \cup {Nothing} /\ trouble' \in 0..MaxTrouble
           /\ count # Nothing => count = ifree
  BY TroubleFacts DEF Reads, TypeOK

-----------------------------------------------------------------------------
\* Initially nothing is queued, missed or latched.
LEMMA InitInductive == Init => Inductive
  <1> SUFFICES ASSUME Init PROVE Inductive
    OBVIOUS
  <1>1. table \in Nat /\ TotalBytes \in Nat /\ MaxStale \in Nat \ {0} /\ MaxTrouble \in Nat
    BY SpaceAssumption DEF Init
  <1>2. snaps = {} /\ mtime \in [snaps -> Clock]
    BY DEF Init, snaps
  <1>3. /\ rw \in BOOLEAN /\ eased \in BOOLEAN /\ queue \subseteq snaps
        /\ pc = "idle" /\ status = "none" /\ newest \in snaps \cup {Nothing}
    BY <1>2 DEF Init
  <1>4. /\ free \in 0..TotalBytes /\ ifree \in 0..table /\ policy \in 0..table
        /\ stale \in 0..(MaxStale - 1) /\ trouble \in 0..MaxTrouble
    BY <1>1 DEF Init
  <1>5. TypeOK
    BY <1>2, <1>3, <1>4 DEF Init, TypeOK
  <1>6. QED
    BY <1>5 DEF Init, Inductive, NewestIsSafe, IdleIsClean, MissedIsStillMissed,
                VerdictStands

-----------------------------------------------------------------------------
\* A return of the manager, wherever it comes from, leaves the type intact
\* and nothing in the queue.
LEMMA ReturnType ==
    ASSUME TypeOK, NEW ok \in BOOLEAN, Return(ok)
    PROVE  /\ pc' = "idle" /\ queue' = {} /\ policy' = 0 /\ eased' = FALSE
           /\ stale' \in 0..(MaxStale - 1) /\ before' = Nothing
           /\ policy' \in 0..table
           /\ status' \in {"recovered", "failed"}
  BY TypeFacts DEF Return

\* A step outside the manager's own that moves the counts only downwards, or
\* reports only, disturbs nothing.
LEMMA QuietSteps ==
    ASSUME Inductive,
           LoopHealthy \/ LoopStalled \/ LoopCall \/ OthersWrite \/ Remount
    PROVE  Inductive'
  <1> USE DEF Inductive, sizes, counts, run
  <1>1. ASSUME LoopHealthy \/ LoopStalled \/ LoopCall PROVE Inductive'
    <2>1. /\ UNCHANGED <<sizes, counts, mtime, latch, queue, policy, before, stale,
                         newest, verdict, eased, trouble>>
          /\ pc = "idle" /\ pc' \in {"idle", "begin"}
          /\ status' \in {"healthy", "failed", "recovering"}
      BY <1>1 DEF LoopHealthy, LoopStalled, LoopCall
    <2>2. TypeOK'
      BY <2>1 DEF TypeOK, snaps
    <2>3. QED
      BY <2>1, <2>2 DEF NewestIsSafe, IdleIsClean, MissedIsStillMissed, VerdictStands, snaps
  <1>2. CASE OthersWrite
    <2>1. free' \in 0..free /\ ifree' \in 0..ifree
      BY <1>2, TypeFacts DEF OthersWrite
    <2>2. UNCHANGED <<sizes, rw, mtime, latch, run, status, newest, verdict, eased, trouble>>
      BY <1>2 DEF OthersWrite
    <2>3. /\ free' \in 0..TotalBytes /\ ifree' \in 0..table
          /\ free' <= free /\ ifree' <= ifree
      BY <2>1, TypeFacts DEF TypeOK
    <2>4. TypeOK'
      BY <2>2, <2>3 DEF TypeOK, snaps
    <2>5. MissedIsStillMissed'
      BY <2>2, <2>3, TypeFacts DEF MissedIsStillMissed, Missed, TypeOK
    <2>6. VerdictStands'
      BY <2>2, <2>3, TypeFacts DEF VerdictStands, TypeOK, Nothing
    <2>7. QED
      BY <2>2, <2>4, <2>5, <2>6 DEF NewestIsSafe, IdleIsClean, snaps
  <1>3. CASE Remount
    <2>1. /\ UNCHANGED <<sizes, free, ifree, mtime, latch, run, status, newest, verdict, eased>>
          /\ rw' \in BOOLEAN /\ trouble' \in 0..MaxTrouble
      BY <1>3, TroubleFacts DEF Remount
    <2>2. TypeOK'
      BY <2>1 DEF TypeOK, snaps
    <2>3. QED
      BY <2>1, <2>2 DEF NewestIsSafe, IdleIsClean, MissedIsStillMissed, Missed,
                       VerdictStands, snaps
  <1>4. QED
    BY <1>1, <1>2, <1>3

\* Whatever is given back stays within the file systems, and lifts the verdict
\* it exceeds.
LEMMA GainsFacts ==
    ASSUME TypeOK, VerdictStands, Gains, UNCHANGED <<latch, policy>>
    PROVE  /\ free' \in 0..TotalBytes /\ ifree' \in 0..table
           /\ verdict' \in 0..table \cup {Nothing}
           /\ VerdictStands'
  <1>1. free' \in 0..TotalBytes /\ ifree' \in 0..table
    BY TypeFacts DEF Gains, TypeOK
  <1>2. verdict' = IF verdict # Nothing /\ ifree' > verdict THEN Nothing ELSE verdict
    BY DEF Gains
  <1>3. VerdictStands'
    BY <1>1, <1>2, TypeFacts DEF VerdictStands, TypeOK, Nothing
  <1>4. QED
    BY <1>1, <1>2, <1>3 DEF TypeOK

\* The store without the snapshot s.
LEMMA GoneFacts ==
    ASSUME TypeOK, NewestIsSafe, NEW s \in snaps, Gone(s)
    PROVE  /\ snaps' = snaps \ {s} /\ mtime' \in [snaps' -> Clock]
           /\ newest' \in snaps' \cup {Nothing}
           /\ newest' # Nothing => newest' = newest /\ \A u \in snaps' : u <= newest'
           /\ newest # s => newest' = newest
  <1>1. mtime' = [u \in snaps \ {s} |-> mtime[u]]
    BY DEF Gone
  <1>2. snaps' = snaps \ {s}
    BY <1>1 DEF snaps
  <1>3. mtime' \in [snaps' -> Clock]
    BY <1>1, <1>2 DEF TypeOK
  <1>4. newest' = IF newest = s THEN Nothing ELSE newest
    BY DEF Gone
  <1>5. QED
    BY <1>2, <1>3, <1>4 DEF TypeOK, NewestIsSafe

\* Room made by others is remembered as such.
LEMMA OthersDeleteStep ==
    ASSUME Inductive, OthersDelete
    PROVE  Inductive'
  <1> USE DEF Inductive, sizes, run
  <1>1. /\ UNCHANGED <<sizes, rw, mtime, latch, run, status, newest, trouble>>
        /\ Gains /\ eased' = (pc # "idle")
    BY DEF OthersDelete
  <1>2. /\ free' \in 0..TotalBytes /\ ifree' \in 0..table
        /\ verdict' \in 0..table \cup {Nothing} /\ VerdictStands'
    BY <1>1, GainsFacts
  <1>3. TypeOK'
    BY <1>1, <1>2 DEF TypeOK, snaps
  <1>4. QED
    BY <1>1, <1>2, <1>3 DEF NewestIsSafe, IdleIsClean, MissedIsStillMissed, snaps

\* A new snapshot has the highest slot.
LEMMA TakeStep ==
    ASSUME Inductive, NEW n \in Slots, TakeSnapshot(n)
    PROVE  Inductive'
  <1> USE DEF Inductive, sizes, counts, run
  <1>1. /\ pc = "idle" /\ \A s \in snaps : s < n
        /\ newest' = n
        /\ UNCHANGED <<sizes, counts, latch, run, status, verdict, eased, trouble>>
    BY DEF TakeSnapshot
  <1>2. PICK now \in Clock :
          mtime' = [s \in snaps \cup {n} |-> IF s = n THEN now ELSE mtime[s]]
    BY DEF TakeSnapshot
  <1>3. snaps' = snaps \cup {n}
    BY <1>2 DEF snaps
  <1>4. mtime' \in [snaps' -> Clock]
    BY <1>2, <1>3 DEF TypeOK
  <1>5. TypeOK'
    BY <1>1, <1>3, <1>4 DEF TypeOK
  <1>6. n \in Nat /\ snaps \subseteq Nat
    BY TypeFacts DEF TypeOK
  <1>7. NewestIsSafe'
    BY <1>1, <1>3, <1>6 DEF NewestIsSafe, IdleIsClean
  <1>8. QED
    BY <1>1, <1>5, <1>7 DEF IdleIsClean, MissedIsStillMissed, VerdictStands

\* A deletion by the user comes while nothing is queued.
LEMMA UserDeletesStep ==
    ASSUME Inductive, NEW s \in Slots, UserDeletes(s)
    PROVE  Inductive'
  <1> USE DEF Inductive, sizes, counts, run
  <1>1. /\ pc = "idle" /\ s \in snaps /\ Gone(s)
        /\ UNCHANGED <<sizes, counts, latch, run, status, verdict, eased, trouble>>
    BY DEF UserDeletes
  <1>2. /\ snaps' = snaps \ {s} /\ mtime' \in [snaps' -> Clock]
        /\ newest' \in snaps' \cup {Nothing}
        /\ newest' # Nothing => newest' = newest /\ \A u \in snaps' : u <= newest'
    BY <1>1, GoneFacts
  <1>3. queue = {}
    BY <1>1 DEF IdleIsClean
  <1>4. TypeOK'
    BY <1>1, <1>2, <1>3 DEF TypeOK
  <1>5. QED
    BY <1>1, <1>2, <1>3, <1>4 DEF NewestIsSafe, IdleIsClean, MissedIsStillMissed, VerdictStands

\* A run that ends early, and a reboot, leave the queue empty.
LEMMA StopSteps ==
    ASSUME Inductive, ManageFails \/ ManageDies \/ Reboot
    PROVE  Inductive'
  <1> USE DEF Inductive, sizes, counts
  <1>0. trouble' \in 0..MaxTrouble
    BY TroubleFacts DEF ManageFails, ManageDies, Reboot
  <1>1. ASSUME ManageFails \/ ManageDies PROVE Inductive'
    <2>1. /\ UNCHANGED <<sizes, counts, mtime, newest, verdict, latch>> /\ Return(FALSE)
      BY <1>1 DEF ManageFails, ManageDies
    <2>2. /\ pc' = "idle" /\ queue' = {} /\ policy' = 0 /\ eased' = FALSE
          /\ stale' \in 0..(MaxStale - 1) /\ before' = Nothing
          /\ policy' \in 0..table /\ status' \in {"recovered", "failed"}
      BY <2>1, ReturnType
    <2>3. TypeOK'
      BY <1>0, <2>1, <2>2 DEF TypeOK, snaps
    <2>4. QED
      BY <2>1, <2>2, <2>3 DEF NewestIsSafe, IdleIsClean, MissedIsStillMissed,
                             VerdictStands, snaps
  <1>2. CASE Reboot
    <2>1. /\ UNCHANGED <<sizes, free, ifree, mtime, newest>>
          /\ rw' \in BOOLEAN /\ latch' = Nothing /\ verdict' = Nothing /\ eased' = FALSE
          /\ pc' = "idle" /\ queue' = {} /\ policy' = 0 /\ before' = Nothing
          /\ stale' = 0 /\ status' = "none"
      BY <1>2 DEF Reboot
    <2>2. policy' \in 0..table /\ stale' \in 0..(MaxStale - 1)
      BY <2>1, TypeFacts
    <2>3. TypeOK'
      BY <1>0, <2>1, <2>2 DEF TypeOK, snaps
    <2>4. QED
      BY <2>1, <2>3 DEF NewestIsSafe, IdleIsClean, MissedIsStillMissed, VerdictStands, snaps
  <1>3. QED
    BY <1>1, <1>2

\* Between the releases the counts are only read.
LEMMA NextStep ==
    ASSUME Inductive, ManageNext
    PROVE  Inductive'
  <1> USE DEF Inductive, sizes, counts
  <1>1. UNCHANGED <<sizes, counts, mtime, newest, verdict, latch>> /\ pc = "next"
    BY DEF ManageNext
  <1>2. CASE queue = {}
    <2>1. UNCHANGED trouble /\ Return(FALSE)
      BY <1>2 DEF ManageNext
    <2>2. /\ pc' = "idle" /\ queue' = {} /\ policy' = 0 /\ eased' = FALSE
          /\ stale' \in 0..(MaxStale - 1) /\ before' = Nothing
          /\ policy' \in 0..table /\ status' \in {"recovered", "failed"}
      BY <2>1, ReturnType
    <2>3. TypeOK'
      BY <1>1, <2>1, <2>2 DEF TypeOK, snaps
    <2>4. QED
      BY <1>1, <2>2, <2>3 DEF NewestIsSafe, IdleIsClean, MissedIsStillMissed,
                             VerdictStands, snaps
  <1>3. CASE queue # {}
    <2>1. /\ pc' = "release" /\ UNCHANGED <<queue, policy, stale, status, eased>>
          /\ IF policy > 0 THEN Reads(before') ELSE before' = Nothing /\ UNCHANGED trouble
      BY <1>3 DEF ManageNext
    <2>2. before' \in 0..table \cup {Nothing} /\ trouble' \in 0..MaxTrouble
      BY <2>1, ReadsFacts, TroubleFacts
    <2>3. TypeOK'
      BY <1>1, <1>3, <2>1, <2>2 DEF TypeOK, snaps
    <2>4. QED
      BY <1>1, <2>1, <2>3 DEF NewestIsSafe, IdleIsClean, MissedIsStillMissed, Missed,
                             VerdictStands, snaps
  <1>4. QED
    BY <1>2, <1>3

\* What is released was queued, so it is not the snapshot taken last.
LEMMA ReleaseStep ==
    ASSUME Inductive, ManageRelease
    PROVE  Inductive'
  <1> USE DEF Inductive, sizes
  <1>1. /\ UNCHANGED <<sizes, rw, latch, policy, before, stale, status, eased, trouble>>
        /\ pc' = "measure" /\ Gains
    BY DEF ManageRelease
  <1>2. PICK s \in queue : Gone(s) /\ queue' = queue \ {s}
    BY DEF ManageRelease, Oldest
  <1>3. s \in snaps
    BY DEF TypeOK
  <1>4. /\ snaps' = snaps \ {s} /\ mtime' \in [snaps' -> Clock]
        /\ newest' \in snaps' \cup {Nothing}
        /\ newest' # Nothing => newest' = newest /\ \A u \in snaps' : u <= newest'
    BY <1>2, <1>3, GoneFacts
  <1>5. /\ free' \in 0..TotalBytes /\ ifree' \in 0..table
        /\ verdict' \in 0..table \cup {Nothing} /\ VerdictStands'
    BY <1>1, GainsFacts
  <1>6. TypeOK'
    BY <1>1, <1>2, <1>4, <1>5 DEF TypeOK
  <1>7. NewestIsSafe'
    BY <1>2, <1>4 DEF NewestIsSafe
  <1>8. QED
    BY <1>1, <1>5, <1>6, <1>7 DEF IdleIsClean, MissedIsStillMissed

\* A failed release that made room counts as room made.
LEMMA SkipStep ==
    ASSUME Inductive, ManageSkip
    PROVE  Inductive'
  <1> USE DEF Inductive, sizes
  <1>1. /\ UNCHANGED <<sizes, rw, latch, policy, before, stale, status>>
        /\ pc = "release" /\ pc' = "next" /\ Troubled
    BY DEF ManageSkip
  <1>2. PICK s \in queue :
          /\ queue' = queue \ {s}
          /\ \/ UNCHANGED <<mtime, newest, free, ifree, verdict, eased>>
             \/ Gone(s) /\ Gains /\ eased' = TRUE
    BY DEF ManageSkip, Oldest
  <1>3. s \in snaps /\ trouble' \in 0..MaxTrouble
    BY <1>1, TroubleFacts DEF TypeOK
  <1>4. CASE UNCHANGED <<mtime, newest, free, ifree, verdict, eased>>
    <2>1. TypeOK'
      BY <1>1, <1>2, <1>3, <1>4 DEF TypeOK, snaps
    <2>2. QED
      BY <1>1, <1>2, <1>4, <2>1 DEF NewestIsSafe, IdleIsClean, MissedIsStillMissed,
                                   Missed, VerdictStands, snaps
  <1>5. CASE Gone(s) /\ Gains /\ eased' = TRUE
    <2>1. /\ snaps' = snaps \ {s} /\ mtime' \in [snaps' -> Clock]
          /\ newest' \in snaps' \cup {Nothing}
          /\ newest' # Nothing => newest' = newest /\ \A u \in snaps' : u <= newest'
      BY <1>3, <1>5, GoneFacts
    <2>2. /\ free' \in 0..TotalBytes /\ ifree' \in 0..table
          /\ verdict' \in 0..table \cup {Nothing} /\ VerdictStands'
      BY <1>1, <1>5, GainsFacts
    <2>3. TypeOK'
      BY <1>1, <1>2, <1>3, <1>5, <2>1, <2>2 DEF TypeOK
    <2>4. NewestIsSafe'
      BY <1>2, <2>1 DEF NewestIsSafe
    <2>5. QED
      BY <1>1, <1>5, <2>2, <2>3, <2>4 DEF IdleIsClean, MissedIsStillMissed
  <1>6. QED
    BY <1>2, <1>4, <1>5

\* After a measurement the run ends, or a target is missed.
LEMMA MeasureStep ==
    ASSUME Inductive, ManageMeasure
    PROVE  Inductive'
  <1> USE DEF Inductive, sizes, counts
  <1>1. UNCHANGED <<sizes, counts, mtime, newest>> /\ eased' = FALSE
    BY DEF ManageMeasure
  <1>2. PICK count \in 0..table \cup {Nothing} :
         /\ IF policy > 0 THEN Reads(count)
            ELSE count = Nothing /\ UNCHANGED trouble
         /\ \/ TargetsMet(count, policy) /\ UNCHANGED <<latch, verdict>> /\ Return(TRUE)
            \/ /\ ~TargetsMet(count, policy) /\ Trips(count)
               /\ latch' = count /\ verdict' = count /\ Return(FALSE)
            \/ /\ ~TargetsMet(count, policy) /\ ~Trips(count)
               /\ stale' = IF Useless(count) THEN stale + 1 ELSE 0
               /\ pc' = "next"
               /\ UNCHANGED <<latch, verdict, queue, policy, before, status>>
    BY DEF ManageMeasure
  <1>3. /\ trouble' \in 0..MaxTrouble
        /\ count # Nothing => count = ifree /\ policy > 0
    BY <1>2, ReadsFacts, TroubleFacts
  <1>4. CASE TargetsMet(count, policy) /\ UNCHANGED <<latch, verdict>> /\ Return(TRUE)
    <2>1. /\ pc' = "idle" /\ queue' = {} /\ policy' = 0
          /\ stale' \in 0..(MaxStale - 1) /\ before' = Nothing
          /\ policy' \in 0..table /\ status' \in {"recovered", "failed"}
      BY <1>4, ReturnType
    <2>2. TypeOK'
      BY <1>1, <1>3, <1>4, <2>1 DEF TypeOK, snaps
    <2>3. QED
      BY <1>1, <1>4, <2>1, <2>2 DEF NewestIsSafe, IdleIsClean, MissedIsStillMissed,
                                   VerdictStands, snaps
  <1>5. CASE /\ ~TargetsMet(count, policy) /\ Trips(count)
             /\ latch' = count /\ verdict' = count /\ Return(FALSE)
    <2>1. /\ pc' = "idle" /\ queue' = {} /\ policy' = 0
          /\ stale' \in 0..(MaxStale - 1) /\ before' = Nothing
          /\ policy' \in 0..table /\ status' \in {"recovered", "failed"}
      BY <1>5, ReturnType
    <2>2. TypeOK'
      BY <1>1, <1>3, <1>5, <2>1 DEF TypeOK, snaps
    <2>3. VerdictStands'
      BY <1>1, <1>3, <1>5, <2>1, TypeFacts DEF VerdictStands
    <2>4. QED
      BY <1>1, <2>1, <2>2, <2>3 DEF NewestIsSafe, IdleIsClean, MissedIsStillMissed, snaps
  <1>6. CASE /\ ~TargetsMet(count, policy) /\ ~Trips(count)
             /\ stale' = IF Useless(count) THEN stale + 1 ELSE 0
             /\ pc' = "next"
             /\ UNCHANGED <<latch, verdict, queue, policy, before, status>>
    <2>1. stale' \in 0..(MaxStale - 1)
      BY <1>6, TypeFacts DEF Trips, TypeOK
    <2>2. TypeOK'
      BY <1>1, <1>3, <1>6, <2>1 DEF TypeOK, snaps
    <2>3. Missed'
      BY <1>1, <1>3, <1>6, TypeFacts DEF TargetsMet, Missed
    <2>4. QED
      BY <1>1, <1>6, <2>2, <2>3 DEF NewestIsSafe, IdleIsClean, MissedIsStillMissed,
                                   VerdictStands, snaps
  <1>7. QED
    BY <1>2, <1>4, <1>5, <1>6

\* What may be released is in the store and is not its highest slot.
LEMMA ReleasableFacts ==
    ASSUME TypeOK, NewestIsSafe
    PROVE  Releasable \subseteq snaps /\ (newest # Nothing => newest \notin Releasable)
  <1>1. snaps \subseteq Nat
    BY TypeFacts DEF TypeOK
  <1>2. Releasable \subseteq snaps
    BY DEF Releasable
  <1>3. \A s \in Releasable : \E u \in snaps : u > s
    BY DEF Releasable
  <1>4. ASSUME newest # Nothing, newest \in Releasable PROVE FALSE
    <2>1. PICK u \in snaps : u > newest
      BY <1>3, <1>4
    <2>2. newest \in snaps /\ u <= newest
      BY <1>4 DEF NewestIsSafe
    <2>3. QED
      BY <1>1, <2>1, <2>2
  <1>5. QED
    BY <1>2, <1>4

\* A run begins by measuring: what it queues is missed, and a verdict that
\* still stands keeps the inode policy off.
LEMMA BeginStep ==
    ASSUME Inductive, ManageBegin
    PROVE  Inductive'
  <1> USE DEF Inductive, sizes, counts
  <1>1. /\ UNCHANGED <<sizes, counts, mtime, newest>> /\ eased' = FALSE
        /\ pc = "begin" /\ policy = 0
    BY DEF ManageBegin, IdleIsClean
  <1> DEFINE inodes(c)   == IF Trusted(c) THEN c ELSE Nothing
             ireserve(c) == IF Trusted(c) THEN InodeReserve(table) ELSE 0
             cleared(c)  == IF Trusted(c) THEN Nothing ELSE latch
  <1>2. PICK count \in 0..table \cup {Nothing} :
          /\ IF rw THEN Reads(count) ELSE count = Nothing /\ UNCHANGED trouble
          /\ \/ latch' = latch /\ verdict' = verdict /\ Return(FALSE)
             \/ latch' = cleared(count) /\ verdict' = verdict /\ Return(TRUE)
             \/ /\ ~TargetsMet(inodes(count), ireserve(count))
                /\ latch' = IF free >= reserve THEN inodes(count) ELSE cleared(count)
                /\ verdict' = IF free >= reserve THEN inodes(count) ELSE verdict
                /\ Return(FALSE)
             \/ /\ ~TargetsMet(inodes(count), ireserve(count))
                /\ latch' = cleared(count) /\ verdict' = verdict
                /\ queue' = Releasable /\ policy' = ireserve(count) /\ stale' = 0
                /\ pc' = "next" /\ UNCHANGED <<before, status>>
    BY DEF ManageBegin
  <1>3. /\ trouble' \in 0..MaxTrouble
        /\ count # Nothing => count = ifree
    BY <1>2, ReadsFacts, TroubleFacts
  <1>4. verdict # Nothing => ~Trusted(count)
    BY <1>3, TypeFacts DEF Trusted, VerdictStands, TypeOK, Nothing
  <1>5. InodeReserve(table) \in 0..table /\ InodeReserve(table) > 0 /\ table \in Nat
    BY ReserveBound DEF TypeOK
  <1>6. /\ inodes(count) \in 0..table \cup {Nothing}
        /\ inodes(count) # Nothing => inodes(count) = ifree /\ Trusted(count)
        /\ ireserve(count) \in 0..table
        /\ Trusted(count) => ireserve(count) > 0
        /\ cleared(count) \in 0..table \cup {Nothing}
        /\ verdict # Nothing => cleared(count) = latch /\ ireserve(count) = 0
    BY <1>2, <1>3, <1>4, <1>5 DEF TypeOK
  <1> HIDE DEF inodes, ireserve, cleared
  <1>7. ASSUME NEW ok \in BOOLEAN, Return(ok),
               latch' \in 0..table \cup {Nothing}, verdict' \in 0..table \cup {Nothing},
               verdict' # Nothing => latch' = verdict' /\ ifree <= verdict'
        PROVE  Inductive'
    <2>1. /\ pc' = "idle" /\ queue' = {} /\ policy' = 0
          /\ stale' \in 0..(MaxStale - 1) /\ before' = Nothing
          /\ policy' \in 0..table /\ status' \in {"recovered", "failed"}
      BY <1>7, ReturnType
    <2>2. TypeOK'
      BY <1>1, <1>3, <1>7, <2>1 DEF TypeOK, snaps
    <2>3. QED
      BY <1>1, <1>7, <2>1, <2>2 DEF NewestIsSafe, IdleIsClean, MissedIsStillMissed,
                                   VerdictStands, snaps
  <1>8. CASE \/ latch' = latch /\ verdict' = verdict /\ Return(FALSE)
             \/ latch' = cleared(count) /\ verdict' = verdict /\ Return(TRUE)
    BY <1>6, <1>7, <1>8 DEF VerdictStands, TypeOK
  <1>9. CASE /\ ~TargetsMet(inodes(count), ireserve(count))
             /\ latch' = IF free >= reserve THEN inodes(count) ELSE cleared(count)
             /\ verdict' = IF free >= reserve THEN inodes(count) ELSE verdict
             /\ Return(FALSE)
    <2>1. CASE free >= reserve
      <3>1. inodes(count) = ifree
        BY <1>6, <1>9, <2>1 DEF TargetsMet
      <3>2. latch' = ifree /\ verdict' = ifree
        BY <1>9, <2>1, <3>1
      <3>3. Return(FALSE)
        BY <1>9
      <3>4. ifree \in 0..table /\ ifree <= ifree
        BY TypeFacts DEF TypeOK
      <3>5. QED
        BY <1>7, <3>2, <3>3, <3>4
    <2>2. CASE ~(free >= reserve)
      BY <1>6, <1>7, <1>9, <2>2 DEF VerdictStands, TypeOK
    <2>3. QED
      BY <2>1, <2>2
  <1>10. CASE /\ ~TargetsMet(inodes(count), ireserve(count))
              /\ latch' = cleared(count) /\ verdict' = verdict
              /\ queue' = Releasable /\ policy' = ireserve(count) /\ stale' = 0
              /\ pc' = "next" /\ UNCHANGED <<before, status>>
    <2>1. stale' \in 0..(MaxStale - 1)
      BY <1>10, TypeFacts
    <2>2. Releasable \subseteq snaps /\ (newest # Nothing => newest \notin Releasable)
      BY ReleasableFacts
    <2>3. snaps' = snaps
      BY <1>1 DEF snaps
    <2>4. TypeOK'
      BY <1>1, <1>3, <1>6, <1>10, <2>1, <2>2, <2>3 DEF TypeOK
    <2>5. Missed'
      BY <1>1, <1>6, <1>10, TypeFacts DEF TargetsMet, Missed
    <2>6. VerdictStands'
      BY <1>1, <1>6, <1>10 DEF VerdictStands
    <2>7. NewestIsSafe'
      BY <1>1, <1>10, <2>2, <2>3 DEF NewestIsSafe
    <2>8. QED
      BY <1>1, <1>10, <2>4, <2>5, <2>6, <2>7 DEF IdleIsClean, MissedIsStillMissed
  <1>11. QED
    BY <1>2, <1>8, <1>9, <1>10

-----------------------------------------------------------------------------
\* Every step preserves the invariant.
LEMMA NextInductive == Inductive /\ [Next]_vars => Inductive'
  <1> SUFFICES ASSUME Inductive, [Next]_vars PROVE Inductive'
    OBVIOUS
  <1>1. CASE UNCHANGED vars
    BY <1>1 DEF vars, sizes, counts, run, Inductive, TypeOK, NewestIsSafe, IdleIsClean,
                MissedIsStillMissed, Missed, VerdictStands, snaps
  <1>2. CASE Next
    BY <1>2, QuietSteps, OthersDeleteStep, TakeStep, UserDeletesStep, StopSteps, NextStep,
       ReleaseStep, SkipStep, MeasureStep, BeginStep DEF Next, ManagerStep
  <1>3. QED
    BY <1>1, <1>2

\* The inductive invariant holds throughout.
THEOREM InductiveInvariant == Spec => []Inductive
  BY InitInductive, NextInductive, PTL DEF Spec

\* Type correctness: every count stays within its file system, the guard
\* within its limit, and only snapshots that exist are up for release.
THEOREM TypeCorrect == Spec => []TypeOK
  <1>1. Inductive => TypeOK
    BY DEF Inductive
  <1>2. QED
    BY <1>1, InductiveInvariant, PTL

\* The inode target is below the size of the table on every /mutable.
THEOREM Reachable == Spec => []TargetIsReachable
  <1>1. TypeOK => TargetIsReachable
    BY ReserveBound DEF TypeOK, TargetIsReachable
  <1>2. QED
    BY <1>1, TypeCorrect, PTL

\* The manager never evicts the footage recorded last, whatever the clock.
THEOREM NewestStays == Spec => NewestFootageStays
  <1>1. Inductive /\ [Next]_vars
          => [pc # "idle" /\ newest # Nothing => newest' \in snaps']_vars
    <2> SUFFICES ASSUME Inductive, Next, pc # "idle", newest # Nothing
                 PROVE  newest' \in snaps'
      OBVIOUS
    <2> USE DEF Inductive
    <2>1. newest \in snaps /\ newest \notin queue
      BY DEF NewestIsSafe
    <2>2. CASE mtime' = mtime /\ newest' = newest
      BY <2>1, <2>2 DEF snaps
    <2>3. CASE \E s \in queue : Gone(s)
      <3>1. PICK s \in queue : Gone(s)
        BY <2>3
      <3>2. s \in snaps
        BY DEF TypeOK
      <3>3. QED
        BY <2>1, <3>1, <3>2, GoneFacts
    <2>4. QED
      BY <2>2, <2>3 DEF Next, ManagerStep, LoopHealthy, LoopStalled, LoopCall, ManageBegin,
           ManageNext, ManageRelease, ManageMeasure, ManageFails, ManageSkip, ManageDies,
           TakeSnapshot, UserDeletes, OthersWrite, OthersDelete, Remount, Reboot, Oldest
  <1>2. QED
    BY <1>1, InductiveInvariant, PTL DEF Spec, NewestFootageStays

\* A snapshot is released only while a target is missed, or after room was
\* made behind the manager's back.
THEOREM EvictsUnderPressure == Spec => EvictsOnlyUnderPressure
  <1>1. Inductive => (ManageRelease => Missed \/ eased)
    BY DEF Inductive, MissedIsStillMissed, ManageRelease
  <1>2. QED
    BY <1>1, InductiveInvariant, PTL DEF EvictsOnlyUnderPressure

\* A stall verdict keeps every later run from releasing for inodes until it
\* is exceeded.
THEOREM VerdictFinal == Spec => VerdictIsFinal
  <1>1. Inductive => (ManageRelease /\ verdict # Nothing => free < reserve \/ eased)
    BY DEF Inductive, MissedIsStillMissed, Missed, VerdictStands, ManageRelease
  <1>2. QED
    BY <1>1, InductiveInvariant, PTL DEF VerdictIsFinal
=============================================================================
