------------------------ MODULE SnapshotStore_proofs ------------------------
(***************************************************************************)
(* What TLAPS proves about SnapshotStore, for any clips, slots and bounds: *)
(* type correctness, LinksLeadToClips, ImagesOutliveReuse,                 *)
(* NewerTargetsStay and NothingForgotten.  None of them is inductive as it *)
(* stands.  The first three follow from Inductive, which says what each    *)
(* step of an operation may rely on; the last one also needs OwedInv,      *)
(* which says who owes the links there are and the links on disk.          *)
(***************************************************************************)
EXTENDS SnapshotStore, WellFoundedInduction, TLAPS

-----------------------------------------------------------------------------
(* The inductive invariant. *)

\* Image s has clip c.
Has(s, c) == snap[s].bin /\ snap[s].img[c] > 0

\* Steps of make_snapshot before and after its TOC commits.
BeforeCommit == pc \in {"copy", "mark", "relink", "settle", "scan", "commit",
                        "discard", "discardDir"}
Making == BeforeCommit \/ pc \in {"link", "finish", "rebuild"}

\* A directory with an image or a TOC exists, a whole image is an image, and a
\* TOC never lists a clip in another size than the image has.
Sound(r) ==
    /\ r.bin => r.dir
    /\ r.hasToc => r.dir
    /\ r.whole => r.bin
    /\ r.bin => \A c \in Clips : r.toc[c] \in {0, r.img[c]}

DirsAreSound == \A s \in Slots : Sound(snap[s])

\* The slot being filled is the highest one, and the older slot its TOC will be
\* compared with has a TOC.
CurIsTop ==
    Making =>
       /\ \A s \in Slots : snap[s].dir => s <= cur
       /\ snap[cur].dir
       /\ base # None => base < cur /\ snap[base].hasToc

\* Until its TOC commits, nothing points into the slot being filled.
CurIsPrivate ==
    BeforeCommit =>
       /\ ~snap[cur].hasToc
       /\ \A c \in Clips : snap[cur].toc[c] = 0
       /\ \A c \in Clips : cur \in {links[c], durable[c]} => c \in torn

\* Whether the slot worked on has its image.
CurImage ==
    /\ pc \in {"copy", "discardDir", "rmdir", "prune", "repoint"}
         => ~snap[cur].bin
    /\ Making /\ pc \notin {"copy", "discardDir"} => snap[cur].bin
    /\ pc = "recoverCommit" => snap[cur].bin

\* A copy is discarded only if the baseline lists all it has.
DiscardIsCovered ==
    pc = "discard" =>
       /\ base # None
       /\ \A c \in Clips :
            snap[cur].img[c] > 0 => snap[base].toc[c] = snap[cur].img[c]

\* Only committed snapshots are relinked or rebuilt.
TodoIsCommitted ==
    pc \in {"relink", "settle", "rebuild"} => \A s \in todo : Committed(s)

\* A release re-points links at images that have the clip, and knows every
\* link into the snapshot it takes away; the links it could not prune are torn.
ReleaseIsPlanned ==
    Releasing =>
       /\ \A c \in Clips : plan[c] # None => plan[c] # cur /\ Has(plan[c], c)
       /\ \A c \in Clips : cur \in {links[c], durable[c]} => c \in moved
       /\ pc = "repoint" => \A c \in Clips : links[c] # cur \/ c \in torn

\* Links, and the links a power cut would bring back, lead to their clip.
LinksAreGood ==
    \A c \in Clips :
       /\ \/ links[c] = None \/ Has(links[c], c) \/ c \in torn
          \/ Releasing /\ links[c] = cur
       /\ durable[c] = None \/ Has(durable[c], c) \/ c \in torn \cup moved

CurInv ==
    /\ CurIsTop /\ CurIsPrivate /\ CurImage
    /\ DiscardIsCovered /\ TodoIsCommitted /\ ReleaseIsPlanned

Inductive == TypeOK /\ DirsAreSound /\ CurInv /\ LinksAreGood

-----------------------------------------------------------------------------
(* Facts about the snapshot records. *)

\* None is no slot; slots are positive integers.
LEMMA SlotsAreNumbers ==
    /\ None \notin Slots
    /\ \A s \in Slots : s \in Int /\ s > 0
  BY BoundsAssumption DEF None, Slots

\* What the operations make of a snapshot record is a snapshot record.
LEMMA RecordTypes ==
    /\ Empty \in Content
    /\ NoSnapshot \in Snapshot
    /\ Created \in Snapshot
    /\ \A r \in Snapshot :
         /\ \A k \in Content : Copied(r, k) \in Snapshot
         /\ Imageless(r) \in Snapshot
         /\ Owing(r) \in Snapshot
         /\ Settled(r) \in Snapshot
         /\ Indexed(r) \in Snapshot
  <1>1. Empty \in Content
    BY DEF Empty, Content
  <1>2. NoSnapshot \in Snapshot
    BY <1>1 DEF NoSnapshot, Snapshot
  <1>3. Created \in Snapshot
    BY <1>2 DEF Created, Snapshot
  <1>4. ASSUME NEW r \in Snapshot
        PROVE  /\ \A k \in Content : Copied(r, k) \in Snapshot
               /\ Imageless(r) \in Snapshot
               /\ Owing(r) \in Snapshot
               /\ Settled(r) \in Snapshot
               /\ Indexed(r) \in Snapshot
    BY <1>1 DEF Copied, Imageless, Owing, Settled, Indexed, Snapshot
  <1> QED
    BY <1>1, <1>2, <1>3, <1>4

\* The same for single markers and counters.
LEMMA MarkerTypes ==
    ASSUME NEW r \in Snapshot, NEW a \in BOOLEAN, NEW b \in BOOLEAN
    PROVE  /\ [r EXCEPT !.verify = a] \in Snapshot
           /\ [r EXCEPT !.verify = a, !.pending = b] \in Snapshot
           /\ [r EXCEPT !.gaveUp = a] \in Snapshot
           /\ [r EXCEPT !.checked = a] \in Snapshot
           /\ [r EXCEPT !.bin = a] \in Snapshot
           /\ [r EXCEPT !.fails = @ + 1] \in Snapshot
           /\ [r EXCEPT !.recFails = @ + 1] \in Snapshot
  <1>1. [r EXCEPT !.verify = a] \in Snapshot
    BY DEF Snapshot
  <1>2. [r EXCEPT !.verify = a, !.pending = b] \in Snapshot
    BY DEF Snapshot
  <1>3. [r EXCEPT !.gaveUp = a] \in Snapshot
    BY DEF Snapshot
  <1>4. [r EXCEPT !.checked = a] \in Snapshot
    BY DEF Snapshot
  <1>5. [r EXCEPT !.bin = a] \in Snapshot
    BY DEF Snapshot
  <1>6. [r EXCEPT !.fails = @ + 1] \in Snapshot
    BY DEF Snapshot
  <1>7. [r EXCEPT !.recFails = @ + 1] \in Snapshot
    BY DEF Snapshot
  <1> QED
    BY <1>1, <1>2, <1>3, <1>4, <1>5, <1>6, <1>7

\* The same for what a power cut leaves.
LEMMA AfterCutType ==
    ASSUME NEW r \in Snapshot, NEW missing \in BOOLEAN, NEW blank \in BOOLEAN,
           NEW half \in BOOLEAN
    PROVE  AfterCut(r, missing, blank, half) \in Snapshot
  <1> DEFINE bin == r.bin \/ half
             hasToc == r.hasToc /\ ~missing
             toc == IF missing \/ blank THEN Empty ELSE r.toc
  <1>1. bin \in BOOLEAN /\ hasToc \in BOOLEAN
    OBVIOUS
  <1>2. toc \in Content
    BY RecordTypes DEF Snapshot
  <1> HIDE DEF bin, hasToc, toc
  <1>3. [r EXCEPT !.bin = bin, !.hasToc = hasToc, !.toc = toc] \in Snapshot
    BY <1>1, <1>2 DEF Snapshot
  <1> QED
    BY <1>3 DEF AfterCut, bin, hasToc, toc

\* Changing one directory keeps the store well typed.
LEMMA BecomesType ==
    ASSUME snap \in [Slots -> Snapshot], NEW s \in Slots, NEW r \in Snapshot,
           Becomes(s, r)
    PROVE  /\ snap' \in [Slots -> Snapshot]
           /\ snap'[s] = r
           /\ \A t \in Slots \ {s} : snap'[t] = snap[t]
  BY DEF Becomes

-----------------------------------------------------------------------------
(* Type correctness. *)

\* The initial state is well typed.
LEMMA InitType == Init => TypeOK
  <1> SUFFICES ASSUME Init PROVE TypeOK
    OBVIOUS
  <1>1. live \in Content /\ snap \in [Slots -> Snapshot]
    BY RecordTypes DEF Init
  <1>2. trouble \in 0..MaxTrouble
    BY BoundsAssumption DEF Init
  <1> QED
    BY <1>1, <1>2 DEF Init, TypeOK, NoPlan, PCs

\* The steps that leave the snapshot directories alone.
LeavesStore ==
    \/ \E c \in Clips : CarWrites(c) \/ CarDeletes(c)
    \/ RelinkPlace \/ RelinkDone \/ MakeScanFails \/ MakeDuplicate \/ MakeLink
    \/ Rebuild \/ RebuildDone \/ SetupRerun
    \/ (\E s \in Slots : ReleaseBegin(s)) \/ ReleasePrune \/ ReleaseRepoint
    \/ Sweep \/ RecoverPick \/ RecoverSkip \/ RecoverLock \/ Writeback

\* They do.
LEMMA StoreLeft == LeavesStore => snap' = snap
  BY DEF LeavesStore, diskVars, CarWrites, CarDeletes, RelinkPlace, RelinkDone,
         MakeScanFails, MakeDuplicate, MakeLink, Rebuild, RebuildDone, SetupRerun,
         ReleaseBegin, ReleasePrune, ReleaseRepoint, Sweep, RecoverPick,
         RecoverSkip, RecoverLock, Writeback

\* Every step leaves the store well typed.
LEMMA StoreType == TypeOK /\ [Next]_vars => snap' \in [Slots -> Snapshot]
  <1> SUFFICES ASSUME TypeOK, [Next]_vars PROVE snap' \in [Slots -> Snapshot]
    OBVIOUS
  <1> USE RecordTypes DEF TypeOK
  <1>1. CASE LeavesStore \/ UNCHANGED vars
    BY <1>1, StoreLeft DEF vars, diskVars
  <1>2. CASE MakeBegin
    BY <1>2, BecomesType DEF MakeBegin
  <1>3. CASE MakeCopy \/ MakeCopyFails
    BY <1>3, BecomesType DEF MakeCopy, MakeCopyFails
  <1>4. CASE MakeMark
    <2>1. \A s \in Slots, ok \in BOOLEAN : MarkedForBoot(s, ok) \in Snapshot
      BY MarkerTypes DEF MarkedForBoot
    <2> QED
      BY <1>4, <2>1 DEF MakeMark
  <1>5. CASE SettleOk
    <2>1. PICK s \in todo : SettleOk!2!(s)
      BY <1>5 DEF SettleOk
    <2>2. [Settled(snap[s]) EXCEPT !.verify = @ \/ outcome = "made"] \in Snapshot
      BY MarkerTypes
    <2> QED
      BY <2>1, <2>2, BecomesType
  <1>6. CASE SettleBad
    <2>1. PICK s \in todo : SettleBad!2!(s)
      BY <1>6 DEF SettleBad
    <2>2. /\ [Settled(snap[s]) EXCEPT !.gaveUp = TRUE] \in Snapshot
          /\ [snap[s] EXCEPT !.fails = @ + 1] \in Snapshot
      BY MarkerTypes
    <2> QED
      BY <2>1, <2>2, BecomesType
  <1>7. CASE MakeDiscardImage \/ MakeDiscardDir \/ ReleaseImage \/ ReleaseDir
    BY <1>7, BecomesType
    DEF MakeDiscardImage, MakeDiscardDir, ReleaseImage, ReleaseDir
  <1>8. CASE MakeOwe \/ MakeCommit \/ MakeFinish
    BY <1>8, BecomesType DEF MakeOwe, MakeCommit, MakeFinish
  <1>9. CASE RecoverScan
    BY <1>9, BecomesType DEF RecoverScan
  <1>10. CASE RecoverCommit
    <2>1. [Indexed(snap[cur]) EXCEPT !.checked = @ \/ snap[cur].img = Empty]
            \in Snapshot
      BY <1>10, MarkerTypes DEF RecoverCommit
    <2> QED
      BY <1>10, <2>1, BecomesType DEF RecoverCommit
  <1>11. CASE RecoverFails
    <2>1. [snap[cur] EXCEPT !.recFails = @ + 1] \in Snapshot
      BY <1>11, MarkerTypes DEF RecoverFails
    <2> QED
      BY <1>11, <2>1, BecomesType DEF RecoverFails
  <1>12. CASE ProcessDies
    <2>1. PICK half \in CutShort : Becomes(cur, [snap[cur] EXCEPT !.bin = @ \/ half])
      BY <1>12 DEF ProcessDies
    <2>2. [snap[cur] EXCEPT !.bin = @ \/ half] \in Snapshot
      BY <1>12, MarkerTypes DEF ProcessDies
    <2> QED
      BY <1>12, <2>1, <2>2, BecomesType DEF ProcessDies
  <1>13. CASE PowerCut
    <2>1. PICK missing \in SUBSET youngTocs, blank \in SUBSET youngTocs,
               half \in CutShort :
            snap' = [s \in Slots |-> AfterCut(snap[s], s \in missing, s \in blank,
                                             half /\ s = cur)]
      BY <1>13 DEF PowerCut
    <2>2. ASSUME NEW s \in Slots
          PROVE  AfterCut(snap[s], s \in missing, s \in blank, half /\ s = cur)
                   \in Snapshot
      <3>1. /\ (s \in missing) \in BOOLEAN /\ (s \in blank) \in BOOLEAN
            /\ (half /\ s = cur) \in BOOLEAN
        OBVIOUS
      <3>2. snap[s] \in Snapshot
        OBVIOUS
      <3> QED
        BY ONLY <3>1, <3>2, AfterCutType, Zenon
    <2> QED
      BY <2>1, <2>2
  <1> QED
    BY <1>1, <1>2, <1>3, <1>4, <1>5, <1>6, <1>7, <1>8, <1>9, <1>10, <1>11,
       <1>12, <1>13
    DEF Next, MakeStep, ReleaseStep, RecoverStep, LeavesStore

\* Every step leaves every variable well typed.
LEMMA NextType == TypeOK /\ [Next]_vars => TypeOK'
  <1> SUFFICES ASSUME TypeOK, [Next]_vars PROVE TypeOK'
    OBVIOUS
  <1>s. snap' \in [Slots -> Snapshot]
    BY StoreType
  <1> USE <1>s, BoundsAssumption
      DEF TypeOK, PCs, camVars, diskVars, farmVars, tmpVars, runVars, history
  <1>1. CASE UNCHANGED vars
    BY <1>1 DEF vars
  <1>2. ASSUME NEW c \in Clips, CarWrites(c) \/ CarDeletes(c)
        PROVE  TypeOK'
    BY <1>2 DEF CarWrites, CarDeletes, Content
  <1>3. ASSUME NEW s \in Slots, ReleaseBegin(s)
        PROVE  TypeOK'
    <2>1. \A c \in Clips : Repoint(s, c) \in Slots \cup {None}
      BY DEF Repoint, Best, Survivors
    <2> QED
      BY <1>3, <2>1 DEF ReleaseBegin, Troubled, Holds
  <1>4. CASE MakeBegin
    BY <1>4 DEF MakeBegin
  <1>5. CASE MakeCopy
    BY <1>5 DEF MakeCopy, Goto
  <1>6. CASE MakeCopyFails
    BY <1>6 DEF MakeCopyFails, Idle, NoPlan, Troubled
  <1>7. CASE MakeMark
    BY <1>7 DEF MakeMark, Picks, Troubled, CommittedSlots
  <1>8. CASE RelinkPlace
    BY <1>8 DEF RelinkPlace, Place, ToPlace, Holds, PlaceFails, Troubled
  <1>9. CASE SettleOk
    BY <1>9 DEF SettleOk, Troubled
  <1>10. CASE SettleBad
    BY <1>10 DEF SettleBad
  <1>11. CASE RelinkDone
    BY <1>11 DEF RelinkDone, Goto
  <1>12. CASE MakeScanFails
    BY <1>12 DEF MakeScanFails, Idle, NoPlan, Troubled
  <1>13. CASE MakeDuplicate
    BY <1>13 DEF MakeDuplicate, Goto
  <1>14. CASE MakeDiscardImage
    BY <1>14 DEF MakeDiscardImage, Goto
  <1>15. CASE MakeDiscardDir
    BY <1>15 DEF MakeDiscardDir, Idle, NoPlan
  <1>16. CASE MakeOwe
    BY <1>16 DEF MakeOwe, Goto, Idle, NoPlan, Troubled
  <1>17. CASE MakeCommit
    BY <1>17 DEF MakeCommit, Goto, Idle, NoPlan, Troubled
  <1>18. CASE MakeLink
    BY <1>18 DEF MakeLink, Place, ToPlace, Holds, PlaceFails, Troubled
  <1>19. CASE MakeFinish
    BY <1>19 DEF MakeFinish, Idle, NoPlan
  <1>20. CASE Rebuild
    BY <1>20 DEF Rebuild, Place, ToPlace, Holds, PlaceFails, Troubled
  <1>21. CASE RebuildDone
    BY <1>21 DEF RebuildDone, Idle, NoPlan
  <1>22. CASE SetupRerun
    BY <1>22 DEF SetupRerun, Troubled
  <1>23. CASE ReleaseImage
    BY <1>23 DEF ReleaseImage, Goto
  <1>24. CASE ReleaseDir
    BY <1>24 DEF ReleaseDir, Goto
  <1>25. CASE ReleasePrune
    BY <1>25 DEF ReleasePrune, LeavesBehind, Troubled, Goto, Idle, NoPlan
  <1>26. CASE ReleaseRepoint
    BY <1>26 DEF ReleaseRepoint, LeavesBehind, Troubled, Idle, NoPlan
  <1>27. CASE Sweep
    BY <1>27 DEF Sweep
  <1>28. CASE RecoverPick
    BY <1>28 DEF RecoverPick, Recoverable
  <1>29. CASE RecoverSkip
    BY <1>29 DEF RecoverSkip
  <1>30. CASE RecoverLock
    BY <1>30 DEF RecoverLock
  <1>31. CASE RecoverScan
    BY <1>31 DEF RecoverScan, Goto
  <1>32. CASE RecoverCommit
    BY <1>32 DEF RecoverCommit, Idle, NoPlan
  <1>33. CASE RecoverFails
    BY <1>33 DEF RecoverFails, Idle, NoPlan, Troubled
  <1>34. CASE Writeback
    BY <1>34 DEF Writeback
  <1>35. CASE ProcessDies
    BY <1>35 DEF ProcessDies, Idle, NoPlan, Troubled
  <1>36. CASE PowerCut
    <2>1. links' \in [Clips -> Slots \cup {None}]
      BY <1>36 DEF PowerCut
    <2>2. /\ youngTocs' = {} /\ marked' = FALSE /\ failed' = {}
          /\ recovered' = FALSE /\ candidate' = None
          /\ torn' = torn \cup moved /\ moved' = {}
          /\ Idle /\ Troubled /\ durable' = links'
          /\ UNCHANGED <<camVars, rebuildFlag, slipped>>
      BY <1>36 DEF PowerCut
    <2>3. trouble' \in 0..MaxTrouble /\ torn' \subseteq Clips
      BY <2>2 DEF Troubled
    <2>4. plan' \in [Clips -> Slots \cup {None}]
      BY <2>2 DEF Idle, NoPlan
    <2>5. durable' \in [Clips -> Slots \cup {None}]
      BY <2>1, <2>2
    <2> QED
      BY <2>1, <2>2, <2>3, <2>4, <2>5 DEF Idle
  <1> HIDE <1>s, BoundsAssumption
      DEF TypeOK, PCs, camVars, diskVars, farmVars, tmpVars, runVars, history
  <1> QED
    BY <1>1, <1>2, <1>3, <1>4, <1>5, <1>6, <1>7, <1>8, <1>9, <1>10, <1>11,
       <1>12, <1>13, <1>14, <1>15, <1>16, <1>17, <1>18, <1>19, <1>20, <1>21,
       <1>22, <1>23, <1>24, <1>25, <1>26, <1>27, <1>28, <1>29, <1>30, <1>31,
       <1>32, <1>33, <1>34, <1>35, <1>36
    DEF Next, MakeStep, ReleaseStep, RecoverStep
-----------------------------------------------------------------------------
(* What each step does to the files of the snapshots. *)

\* The same directory but for its markers and counters.
SameFiles(q, r) ==
    /\ q.dir = r.dir /\ q.bin = r.bin /\ q.whole = r.whole /\ q.img = r.img
    /\ q.hasToc = r.hasToc /\ q.toc = r.toc

KeepsFiles == \A s \in Slots : SameFiles(snap'[s], snap[s])
OnlyCur == \A s \in Slots \ {cur} : SameFiles(snap'[s], snap[s])

\* The steps that only write markers.
WritesMarkers ==
    \/ MakeMark \/ SettleOk \/ SettleBad \/ MakeOwe \/ MakeFinish
    \/ RecoverScan \/ RecoverFails

\* Markers and counters are not files.
LEMMA MarkersAreNoFiles ==
    ASSUME NEW r \in Snapshot, NEW a \in BOOLEAN, NEW b \in BOOLEAN
    PROVE  /\ SameFiles(Owing(r), r)
           /\ SameFiles(Settled(r), r)
           /\ SameFiles([r EXCEPT !.verify = a], r)
           /\ SameFiles([r EXCEPT !.verify = a, !.pending = b], r)
           /\ SameFiles([r EXCEPT !.gaveUp = a], r)
           /\ SameFiles([r EXCEPT !.checked = a], r)
           /\ SameFiles([r EXCEPT !.fails = @ + 1], r)
           /\ SameFiles([r EXCEPT !.recFails = @ + 1], r)
  BY DEF SameFiles, Owing, Settled, Snapshot

\* The steps that leave the store alone and the ones that write markers keep
\* the files.
LEMMA FilesKept ==
    TypeOK /\ (LeavesStore \/ WritesMarkers \/ UNCHANGED vars) => KeepsFiles
  <1> SUFFICES ASSUME TypeOK, LeavesStore \/ WritesMarkers \/ UNCHANGED vars
               PROVE  KeepsFiles
    OBVIOUS
  <1>t. snap \in [Slots -> Snapshot] /\ cur \in Slots \cup {None} /\ todo \subseteq Slots
        /\ (pc # "idle" => cur \in Slots)
    BY DEF TypeOK
  <1>m. ASSUME NEW s \in Slots, NEW r \in Snapshot, SameFiles(r, snap[s]),
               Becomes(s, r)
        PROVE  KeepsFiles
    BY <1>t, <1>m, BecomesType DEF KeepsFiles, SameFiles
  <1>1. CASE snap' = snap
    BY <1>1 DEF KeepsFiles, SameFiles
  <1>2. CASE MakeMark
    <2>1. \A s \in Slots, ok \in BOOLEAN : SameFiles(MarkedForBoot(s, ok), snap[s])
      BY <1>t, MarkersAreNoFiles DEF MarkedForBoot
    <2> QED
      BY <1>1, <1>2, <2>1 DEF MakeMark, KeepsFiles
  <1>3. CASE SettleOk
    <2>1. PICK s \in todo : SettleOk!2!(s)
      BY <1>3 DEF SettleOk
    <2> DEFINE r == [Settled(snap[s]) EXCEPT !.verify = @ \/ outcome = "made"]
    <2>2. snap[s] \in Snapshot /\ Settled(snap[s]) \in Snapshot /\ s \in Slots
      BY <1>t, RecordTypes
    <2>3. r \in Snapshot /\ SameFiles(r, Settled(snap[s]))
      BY <2>2, MarkerTypes, MarkersAreNoFiles
    <2>4. SameFiles(Settled(snap[s]), snap[s])
      BY <2>2, MarkersAreNoFiles
    <2>5. SameFiles(r, snap[s])
      BY <2>3, <2>4 DEF SameFiles
    <2> HIDE DEF r
    <2> QED
      BY <1>1, <1>m, <2>1, <2>2, <2>3, <2>5 DEF r
  <1>4. CASE SettleBad
    <2>1. PICK s \in todo : SettleBad!2!(s)
      BY <1>4 DEF SettleBad
    <2> DEFINE r == [Settled(snap[s]) EXCEPT !.gaveUp = TRUE]
               q == [snap[s] EXCEPT !.fails = @ + 1]
    <2>2. snap[s] \in Snapshot /\ Settled(snap[s]) \in Snapshot /\ s \in Slots
      BY <1>t, RecordTypes
    <2>3. r \in Snapshot /\ SameFiles(r, Settled(snap[s]))
      BY <2>2, MarkerTypes, MarkersAreNoFiles
    <2>4. SameFiles(Settled(snap[s]), snap[s])
      BY <2>2, MarkersAreNoFiles
    <2>5. SameFiles(r, snap[s])
      BY <2>3, <2>4 DEF SameFiles
    <2>6. q \in Snapshot /\ SameFiles(q, snap[s])
      BY <2>2, MarkerTypes, MarkersAreNoFiles
    <2>7. Becomes(s, r) \/ Becomes(s, q)
      BY <2>1
    <2> HIDE DEF r, q
    <2> QED
      BY <1>m, <2>2, <2>3, <2>5, <2>6, <2>7
  <1>5. CASE MakeOwe \/ MakeFinish
    <2>1. cur \in Slots /\ snap[cur] \in Snapshot
      BY <1>t, <1>5 DEF MakeOwe, MakeFinish
    <2>2. /\ Owing(snap[cur]) \in Snapshot /\ SameFiles(Owing(snap[cur]), snap[cur])
          /\ Settled(snap[cur]) \in Snapshot /\ SameFiles(Settled(snap[cur]), snap[cur])
          /\ SameFiles(snap[cur], snap[cur])
      BY <2>1, RecordTypes, MarkersAreNoFiles DEF SameFiles
    <2> QED
      BY <1>1, <1>5, <1>m, <2>1, <2>2 DEF MakeOwe, MakeFinish
  <1>6. CASE RecoverScan \/ RecoverFails
    <2>1. cur \in Slots /\ snap[cur] \in Snapshot
      BY <1>t, <1>6 DEF RecoverScan, RecoverFails
    <2> DEFINE q == [snap[cur] EXCEPT !.recFails = @ + 1]
    <2>2. /\ Owing(snap[cur]) \in Snapshot /\ SameFiles(Owing(snap[cur]), snap[cur])
          /\ q \in Snapshot /\ SameFiles(q, snap[cur])
          /\ SameFiles(snap[cur], snap[cur])
      BY <2>1, RecordTypes, MarkerTypes, MarkersAreNoFiles DEF SameFiles
    <2>3. Becomes(cur, Owing(snap[cur])) \/ Becomes(cur, snap[cur]) \/ Becomes(cur, q)
      BY <1>6 DEF RecoverScan, RecoverFails
    <2> HIDE DEF q
    <2> QED
      BY <1>m, <2>1, <2>2, <2>3
  <1> QED
    BY <1>1, <1>2, <1>3, <1>4, <1>5, <1>6, StoreLeft
    DEF WritesMarkers, vars, diskVars

\* The files after a step that changes those of one snapshot.
CopyEffect ==
    /\ OnlyCur
    /\ snap'[cur].bin = TRUE /\ snap'[cur].whole = TRUE
    /\ snap'[cur].dir = snap[cur].dir /\ snap'[cur].hasToc = snap[cur].hasToc
    /\ snap'[cur].toc = snap[cur].toc

GoneEffect == OnlyCur /\ snap'[cur] = NoSnapshot

ImagelessEffect ==
    /\ OnlyCur
    /\ snap'[cur].bin = FALSE /\ snap'[cur].whole = FALSE
    /\ snap'[cur].dir = snap[cur].dir /\ snap'[cur].hasToc = snap[cur].hasToc
    /\ snap'[cur].toc = snap[cur].toc

IndexedEffect ==
    /\ OnlyCur
    /\ snap'[cur].hasToc = TRUE /\ snap'[cur].toc = snap[cur].img
    /\ snap'[cur].dir = snap[cur].dir /\ snap'[cur].bin = snap[cur].bin
    /\ snap'[cur].whole = snap[cur].whole /\ snap'[cur].img = snap[cur].img

\* After a stop: an image may have been begun, a TOC lost or blanked.
StopEffect ==
    \A s \in Slots :
       /\ snap'[s].dir = snap[s].dir /\ snap'[s].whole = snap[s].whole
       /\ snap'[s].img = snap[s].img
       /\ snap[s].bin => snap'[s].bin
       /\ snap'[s].bin => snap[s].bin \/ (pc = "copy" /\ s = cur)
       /\ snap'[s].hasToc => snap[s].hasToc
       /\ snap'[s].toc = snap[s].toc \/ snap'[s].toc = Empty

\* These are the effects of the steps on the files.
LEMMA FileEffects ==
    ASSUME TypeOK
    PROVE  /\ MakeCopy => CopyEffect
           /\ MakeCopyFails \/ MakeDiscardDir \/ ReleaseDir => GoneEffect
           /\ MakeDiscardImage \/ ReleaseImage => ImagelessEffect
           /\ MakeCommit => KeepsFiles \/ (IndexedEffect /\ pc' = "link")
           /\ RecoverCommit => IndexedEffect
           /\ ProcessDies \/ PowerCut => StopEffect
  <1>t. /\ snap \in [Slots -> Snapshot] /\ live \in Content
        /\ pc # "idle" => cur \in Slots
    BY DEF TypeOK
  <1>b. ASSUME NEW r \in Snapshot, cur \in Slots, Becomes(cur, r)
        PROVE  OnlyCur /\ snap'[cur] = r
    BY <1>t, <1>b, BecomesType DEF OnlyCur, SameFiles
  <1>r1. ASSUME NEW r \in Snapshot, NEW k \in Content
         PROVE  /\ Copied(r, k).bin = TRUE /\ Copied(r, k).whole = TRUE
                /\ Copied(r, k).dir = r.dir /\ Copied(r, k).hasToc = r.hasToc
                /\ Copied(r, k).toc = r.toc
    BY DEF Copied, Snapshot
  <1>r2. ASSUME NEW r \in Snapshot
         PROVE  /\ Imageless(r).bin = FALSE /\ Imageless(r).whole = FALSE
                /\ Imageless(r).dir = r.dir /\ Imageless(r).hasToc = r.hasToc
                /\ Imageless(r).toc = r.toc
    BY DEF Imageless, Snapshot
  <1>r3. ASSUME NEW r \in Snapshot
         PROVE  /\ Indexed(r).hasToc = TRUE /\ Indexed(r).toc = r.img
                /\ Indexed(r).dir = r.dir /\ Indexed(r).bin = r.bin
                /\ Indexed(r).whole = r.whole /\ Indexed(r).img = r.img
    BY DEF Indexed, Snapshot
  <1>1. ASSUME MakeCopy PROVE CopyEffect
    <2>1. cur \in Slots /\ Becomes(cur, Copied(snap[cur], live))
      BY <1>t, <1>1 DEF MakeCopy
    <2>2. OnlyCur /\ snap'[cur] = Copied(snap[cur], live)
      BY <1>t, <1>b, <2>1, RecordTypes
    <2>3. snap[cur] \in Snapshot /\ live \in Content
      BY <1>t, <2>1
    <2>4. Copied(snap[cur], live).bin = TRUE /\ Copied(snap[cur], live).whole = TRUE
      BY <1>r1, <2>3
    <2>5. /\ Copied(snap[cur], live).dir = snap[cur].dir
          /\ Copied(snap[cur], live).hasToc = snap[cur].hasToc
          /\ Copied(snap[cur], live).toc = snap[cur].toc
      BY <1>r1, <2>3
    <2> QED
      BY <2>2, <2>4, <2>5 DEF CopyEffect
  <1>2. ASSUME MakeCopyFails \/ MakeDiscardDir \/ ReleaseDir PROVE GoneEffect
    BY <1>t, <1>b, <1>2, RecordTypes
    DEF MakeCopyFails, MakeDiscardDir, ReleaseDir, GoneEffect
  <1>3. ASSUME MakeDiscardImage \/ ReleaseImage PROVE ImagelessEffect
    <2>1. cur \in Slots /\ Becomes(cur, Imageless(snap[cur]))
      BY <1>t, <1>3 DEF MakeDiscardImage, ReleaseImage
    <2>2. OnlyCur /\ snap'[cur] = Imageless(snap[cur])
      BY <1>t, <1>b, <2>1, RecordTypes
    <2>3. snap[cur] \in Snapshot
      BY <1>t, <2>1
    <2>4. Imageless(snap[cur]).bin = FALSE /\ Imageless(snap[cur]).whole = FALSE
      BY <1>r2, <2>3
    <2>5. /\ Imageless(snap[cur]).dir = snap[cur].dir
          /\ Imageless(snap[cur]).hasToc = snap[cur].hasToc
          /\ Imageless(snap[cur]).toc = snap[cur].toc
      BY <1>r2, <2>3
    <2> QED
      BY <2>2, <2>4, <2>5 DEF ImagelessEffect
  <1>4. ASSUME MakeCommit
        PROVE  KeepsFiles \/ (IndexedEffect /\ pc' = "link")
    <2>1. CASE snap' = snap
      BY <2>1 DEF KeepsFiles, SameFiles
    <2>2. CASE Becomes(cur, Indexed(snap[cur])) /\ pc' = "link"
      <3>1. cur \in Slots
        BY <1>t, <1>4 DEF MakeCommit
      <3>2. OnlyCur /\ snap'[cur] = Indexed(snap[cur])
        BY <1>t, <1>b, <2>2, <3>1, RecordTypes
      <3> QED
        BY <1>t, <1>r3, <2>2, <3>1, <3>2 DEF IndexedEffect
    <2> QED
      BY <1>4, <2>1, <2>2 DEF MakeCommit, Goto
  <1>5. ASSUME RecoverCommit PROVE IndexedEffect
    <2> DEFINE r == [Indexed(snap[cur]) EXCEPT !.checked = @ \/ snap[cur].img = Empty]
    <2>1. cur \in Slots /\ Becomes(cur, r) /\ Indexed(snap[cur]) \in Snapshot
      BY <1>t, <1>5, RecordTypes DEF RecoverCommit
    <2>2. r \in Snapshot /\ SameFiles(r, Indexed(snap[cur]))
      BY <2>1, MarkerTypes, MarkersAreNoFiles
    <2> HIDE DEF r
    <2>3. OnlyCur /\ snap'[cur] = r
      BY <1>b, <2>1, <2>2
    <2> QED
      BY <1>t, <1>r3, <2>1, <2>2, <2>3 DEF IndexedEffect, SameFiles
  <1>6. ASSUME ProcessDies PROVE StopEffect
    <2>1. PICK half \in CutShort : Becomes(cur, [snap[cur] EXCEPT !.bin = @ \/ half])
      BY <1>6 DEF ProcessDies
    <2> DEFINE r == [snap[cur] EXCEPT !.bin = @ \/ half]
    <2>2. cur \in Slots /\ snap[cur] \in Snapshot
      BY <1>t, <1>6 DEF ProcessDies
    <2>3. r \in Snapshot
      BY <2>2, MarkerTypes
    <2>4. /\ r.dir = snap[cur].dir /\ r.whole = snap[cur].whole /\ r.img = snap[cur].img
          /\ r.hasToc = snap[cur].hasToc /\ r.toc = snap[cur].toc
          /\ r.bin = (snap[cur].bin \/ half)
      BY <2>2 DEF Snapshot
    <2>5. half => pc = "copy"
      BY DEF CutShort
    <2>6. Becomes(cur, r)
      BY <2>1
    <2> HIDE DEF r
    <2>7. OnlyCur /\ snap'[cur] = r
      BY <1>b, <2>2, <2>3, <2>6
    <2> QED
      BY <2>4, <2>5, <2>7 DEF StopEffect, OnlyCur, SameFiles
  <1>7. ASSUME PowerCut PROVE StopEffect
    <2>1. PICK missing \in SUBSET youngTocs, blank \in SUBSET youngTocs,
               half \in CutShort :
            snap' = [s \in Slots |-> AfterCut(snap[s], s \in missing, s \in blank,
                                             half /\ s = cur)]
      BY <1>7 DEF PowerCut
    <2>2. half => pc = "copy"
      BY DEF CutShort
    <2>3. SUFFICES ASSUME NEW s \in Slots
                   PROVE  StopEffect!(s)
      BY DEF StopEffect
    <2>4. snap[s] \in Snapshot
      BY <1>t
    <2>5. snap'[s] = [snap[s] EXCEPT !.bin = @ \/ (half /\ s = cur),
                                     !.hasToc = @ /\ ~(s \in missing),
                                     !.toc = IF (s \in missing) \/ (s \in blank)
                                             THEN Empty ELSE @]
      BY <2>1 DEF AfterCut
    <2>6. /\ snap'[s].dir = snap[s].dir /\ snap'[s].whole = snap[s].whole
          /\ snap'[s].img = snap[s].img
          /\ snap'[s].bin = (snap[s].bin \/ (half /\ s = cur))
          /\ snap'[s].hasToc = (snap[s].hasToc /\ ~(s \in missing))
          /\ snap'[s].toc = IF (s \in missing) \/ (s \in blank) THEN Empty
                            ELSE snap[s].toc
      BY <2>4, <2>5 DEF Snapshot
    <2> QED
      BY <2>2, <2>6
  <1> QED
    BY <1>1, <1>2, <1>3, <1>4, <1>5, <1>6, <1>7

\* A directory just made and one that is gone hold no files.
LEMMA EmptyDirs ==
    /\ Created.dir = TRUE /\ Created.bin = FALSE /\ Created.whole = FALSE
    /\ Created.hasToc = FALSE /\ Created.toc = Empty
    /\ NoSnapshot.dir = FALSE /\ NoSnapshot.bin = FALSE
    /\ NoSnapshot.whole = FALSE /\ NoSnapshot.hasToc = FALSE
    /\ \A c \in Clips : Empty[c] = 0
  BY DEF Created, NoSnapshot, Empty

\* make_snapshot starts on the highest slot, which has no image.
BeginEffect ==
    /\ cur' \in Slots /\ pc' = "copy"
    /\ snap'[cur'] = Created
    /\ \A s \in Slots \ {cur'} : snap'[s] = snap[s]
    /\ \A s \in Slots : snap[s].dir => s <= cur'
    /\ ~snap[cur'].bin
    /\ base' # None => base' \in Slots /\ base' < cur' /\ snap[base'].hasToc

\* Pick never hands out a slot that has an image, or one below another.
LEMMA MakeBegins == TypeOK /\ DirsAreSound /\ MakeBegin => BeginEffect
  <1> SUFFICES ASSUME TypeOK, DirsAreSound, MakeBegin PROVE BeginEffect
    OBVIOUS
  <1>1. PICK n \in Slots, p \in Slots \cup {None} :
           Pick(n, p) /\ Becomes(n, Created) /\ cur' = n /\ base' = p
    BY DEF MakeBegin
  <1>2. snap'[n] = Created /\ \A s \in Slots \ {n} : snap'[s] = snap[s]
    BY <1>1, RecordTypes, BecomesType DEF TypeOK
  <1> DEFINE Picked == /\ \A s \in Slots : snap[s].dir => s <= n
                       /\ ~snap[n].bin
                       /\ p # None => p \in Slots /\ p < n /\ snap[p].hasToc
  <1>3. Picked
    <2> DEFINE dirs == {s \in Slots : snap[s].dir}
    <2>1. CASE dirs = {} /\ n = 1 /\ p = None
      BY <2>1 DEF DirsAreSound, Sound
    <2>2. ASSUME NEW top \in dirs, IsMax(top, dirs),
                 \/ Committed(top) /\ n = top + 1 /\ p = top
                 \/ n = top + 1 /\ p = TocOr(top - 1)
          PROVE  Picked
      <3>1. top \in Int /\ n \in Int /\ \A s \in Slots : s \in Int
        BY SlotsAreNumbers
      <3>2. \A s \in Slots : snap[s].dir => s <= top
        BY <2>2 DEF IsMax
      <3>3. \A s \in Slots : snap[s].dir => s <= n
        BY <2>2, <3>1, <3>2
      <3>4. ~snap[n].dir
        BY <2>2, <3>1, <3>2
      <3>5. p # None => p \in Slots /\ p < n /\ snap[p].hasToc
        BY <2>2, <3>1, SlotsAreNumbers DEF TocOr, Committed
      <3> QED
        BY <3>3, <3>4, <3>5 DEF DirsAreSound, Sound
    <2>3. ASSUME NEW top \in dirs, IsMax(top, dirs), ~snap[top].bin,
                 n = top /\ p = TocOr(top - 1)
          PROVE  Picked
      <3>1. top \in Int /\ \A s \in Slots : s \in Int
        BY SlotsAreNumbers
      <3>2. \A s \in Slots : snap[s].dir => s <= n
        BY <2>3 DEF IsMax
      <3>3. p # None => p \in Slots /\ p < n /\ snap[p].hasToc
        BY <2>3, <3>1, SlotsAreNumbers DEF TocOr
      <3> QED
        BY <2>3, <3>2, <3>3
    <2> QED
      BY <1>1, <2>1, <2>2, <2>3 DEF Pick
  <1> QED
    BY <1>1, <1>2, <1>3 DEF BeginEffect, MakeBegin

-----------------------------------------------------------------------------
(* Every step preserves each part of the inductive invariant. *)

\* The files stay sound.
LEMMA SoundKept == Inductive /\ [Next]_vars => DirsAreSound'
  <1> SUFFICES ASSUME Inductive, [Next]_vars PROVE DirsAreSound'
    OBVIOUS
  <1> USE DEF Inductive
  <1>k. ASSUME NEW s \in Slots, SameFiles(snap'[s], snap[s])
        PROVE  Sound(snap'[s])
    BY <1>k DEF DirsAreSound, Sound, SameFiles
  <1>c. pc # "idle" => cur \in Slots
    BY DEF TypeOK
  <1>1. CASE KeepsFiles
    BY <1>1, <1>k DEF KeepsFiles, DirsAreSound
  <1>2. CASE MakeBegin
    <2>1. BeginEffect
      BY <1>2, MakeBegins
    <2>2. Sound(Created)
      BY EmptyDirs DEF Sound
    <2> QED
      BY <2>1, <2>2 DEF BeginEffect, DirsAreSound
  <1>3. CASE MakeCopy
    <2>1. CopyEffect /\ cur \in Slots /\ BeforeCommit /\ Making
      BY <1>3, <1>c, FileEffects DEF MakeCopy, BeforeCommit, Making
    <2>2. snap[cur].dir /\ \A c \in Clips : snap[cur].toc[c] = 0
      BY <2>1 DEF CurInv, CurIsTop, CurIsPrivate
    <2>3. Sound(snap'[cur])
      BY <2>1, <2>2 DEF Sound, CopyEffect
    <2> QED
      BY <1>k, <2>1, <2>3 DEF CopyEffect, OnlyCur, DirsAreSound
  <1>4. CASE MakeCopyFails \/ MakeDiscardDir \/ ReleaseDir
    <2>1. GoneEffect /\ cur \in Slots
      BY <1>4, <1>c, FileEffects DEF MakeCopyFails, MakeDiscardDir, ReleaseDir
    <2>2. Sound(NoSnapshot)
      BY EmptyDirs DEF Sound
    <2> QED
      BY <1>k, <2>1, <2>2 DEF GoneEffect, OnlyCur, DirsAreSound
  <1>5. CASE MakeDiscardImage \/ ReleaseImage
    <2>1. ImagelessEffect /\ cur \in Slots
      BY <1>5, <1>c, FileEffects DEF MakeDiscardImage, ReleaseImage
    <2>2. Sound(snap'[cur])
      BY <2>1 DEF Sound, ImagelessEffect, DirsAreSound
    <2> QED
      BY <1>k, <2>1, <2>2 DEF ImagelessEffect, OnlyCur, DirsAreSound
  <1>6. CASE MakeCommit \/ RecoverCommit
    <2>1. cur \in Slots /\ snap[cur].bin
      BY <1>6, <1>c DEF MakeCommit, RecoverCommit, CurInv, CurImage, Making, BeforeCommit
    <2>2. CASE IndexedEffect
      <3>1. Sound(snap'[cur])
        BY <2>1, <2>2 DEF Sound, IndexedEffect, DirsAreSound
      <3> QED
        BY <1>k, <2>2, <3>1 DEF IndexedEffect, OnlyCur, DirsAreSound
    <2> QED
      BY <1>1, <1>6, <2>2, FileEffects
  <1>7. CASE ProcessDies \/ PowerCut
    <2>1. StopEffect
      BY <1>7, FileEffects
    <2>2. SUFFICES ASSUME NEW s \in Slots
                   PROVE  Sound(snap'[s])
      BY DEF DirsAreSound
    <2>3. pc = "copy" => snap[cur].dir /\ \A c \in Clips : snap[cur].toc[c] = 0
      BY DEF CurInv, CurIsTop, CurIsPrivate, Making, BeforeCommit
    <2>4. Sound(snap[s])
      BY DEF DirsAreSound
    <2>5. \A c \in Clips : Empty[c] = 0
      BY EmptyDirs
    <2> QED
      BY <2>1, <2>3, <2>4, <2>5 DEF StopEffect, Sound
  <1> QED
    BY <1>1, <1>2, <1>3, <1>4, <1>5, <1>6, <1>7, FilesKept
    DEF Next, MakeStep, ReleaseStep, RecoverStep, LeavesStore, WritesMarkers

\* The prune leaves a link alone, unlinks it, or fails to: then it is torn.
LEMMA PruneEffects ==
    ASSUME TypeOK, ReleasePrune
    PROVE  /\ UNCHANGED <<snap, durable, moved, slipped, marked>>
           /\ torn \subseteq torn' /\ pc = "prune" /\ cur \in Slots
           /\ \A c \in Clips :
                /\ links[c] # cur => links'[c] = links[c]
                /\ links[c] = cur => links'[c] = None \/ (links'[c] = cur /\ c \in torn')
           /\ IF links' # links THEN pc' = "repoint" /\ UNCHANGED <<cur, plan>>
              ELSE pc' = "idle"
  <1>1. /\ UNCHANGED <<snap, durable, moved, slipped, marked>>
        /\ pc = "prune" /\ cur \in Slots
        /\ IF links' # links THEN pc' = "repoint" /\ UNCHANGED <<cur, plan>>
           ELSE pc' = "idle"
    BY DEF TypeOK, ReleasePrune, diskVars, tmpVars, Goto, Idle
  <1>2. PICK failing \in SUBSET {c \in Clips : links[c] = cur} :
          /\ links' = [c \in Clips |->
                         IF links[c] = cur /\ c \notin failing THEN None
                         ELSE links[c]]
          /\ torn' = torn \cup failing
    BY DEF ReleasePrune, LeavesBehind
  <1> QED
    BY <1>1, <1>2

\* The re-point leaves a link alone, makes the planned one, or fails to: then
\* it is torn.
LEMMA RepointEffects ==
    ASSUME TypeOK, ReleaseRepoint
    PROVE  /\ UNCHANGED <<snap, durable, moved, slipped, marked>>
           /\ torn \subseteq torn' /\ pc = "repoint" /\ pc' = "idle" /\ cur \in Slots
           /\ \A c \in Clips :
                /\ links[c] # None => links'[c] = links[c]
                /\ links[c] = None => links'[c] = plan[c] \/ (links'[c] = None /\ c \in torn')
  <1>1. /\ UNCHANGED <<snap, durable, moved, slipped, marked>>
        /\ pc = "repoint" /\ pc' = "idle" /\ cur \in Slots
    BY DEF TypeOK, ReleaseRepoint, diskVars, tmpVars, Idle
  <1>2. PICK failing \in SUBSET {c \in Clips : links[c] = None /\ plan[c] # None} :
          /\ links' = [c \in Clips |->
                         IF links[c] = None /\ c \notin failing THEN plan[c]
                         ELSE links[c]]
          /\ torn' = torn \cup failing
    BY DEF ReleaseRepoint, LeavesBehind
  <1> QED
    BY <1>1, <1>2

\* What holds of the slot worked on keeps holding as the operation moves on.
LEMMA CurKept == Inductive /\ [Next]_vars => CurInv'
  <1> SUFFICES ASSUME Inductive, [Next]_vars PROVE CurInv'
    OBVIOUS
  <1>c. /\ pc # "idle" => cur \in Slots
        /\ base \in Slots \cup {None} /\ todo \subseteq Slots
        /\ links \in [Clips -> Slots \cup {None}] /\ torn \subseteq Clips
    BY DEF Inductive, TypeOK
  <1> USE SlotsAreNumbers
      DEF CurInv, CurIsTop, CurIsPrivate, CurImage, DiscardIsCovered,
          TodoIsCommitted, ReleaseIsPlanned, Making, BeforeCommit, Releasing,
          Has, Committed
  <1>1. CASE pc' = "idle"
    BY <1>1
  <1>2. CASE /\ UNCHANGED <<snap, links, durable, torn, moved>>
             /\ UNCHANGED <<pc, cur, base, todo, plan>>
    BY <1>2 DEF Inductive
  <1>3. CASE Writeback
    BY <1>3 DEF Writeback, Inductive, runVars
  <1>4. CASE MakeBegin
    <2>1. BeginEffect /\ UNCHANGED <<links, durable, torn>> /\ links = durable /\ pc = "idle"
      BY <1>4, MakeBegins DEF Inductive, MakeBegin, farmVars
    <2>2. \A c \in Clips : links[c] = cur' => c \in torn
      BY <1>4, <2>1 DEF LinksAreGood, BeginEffect, Inductive
    <2> QED
      BY <2>1, <2>2, EmptyDirs DEF BeginEffect
  <1>5. CASE MakeCopy
    <2>1. CopyEffect /\ UNCHANGED <<links, durable, torn, cur, base>> /\ pc' = "mark"
      BY <1>5, FileEffects DEF Inductive, MakeCopy, farmVars, history, Goto
    <2> QED
      BY <1>5, <1>c, <2>1 DEF CopyEffect, OnlyCur, SameFiles, Inductive, MakeCopy
  <1>6. CASE MakeMark
    <2>1. /\ KeepsFiles /\ UNCHANGED <<links, durable, torn, cur, base>>
          /\ pc' = "relink" /\ pc = "mark"
      BY <1>6, FilesKept DEF Inductive, MakeMark, farmVars, WritesMarkers
    <2>2. \A s \in todo' : s \in Slots /\ Committed(s)'
      BY <1>6 DEF MakeMark, Picks
    <2> QED
      BY <1>c, <2>1, <2>2 DEF KeepsFiles, SameFiles, Inductive
  <1>7. CASE RelinkPlace
    <2>1. /\ UNCHANGED <<snap, durable, torn, cur, base, todo>> /\ pc' = "settle"
          /\ pc = "relink"
      BY <1>7 DEF RelinkPlace, Place, PlaceFails, diskVars
    <2>2. \A c \in Clips : links'[c] \in todo \cup {links[c], None}
      BY <1>7 DEF RelinkPlace, Place, PlaceFails
    <2> QED
      BY <1>c, <2>1, <2>2 DEF Inductive
  <1>8. CASE SettleOk \/ SettleBad
    <2>1. /\ KeepsFiles /\ UNCHANGED <<links, durable, torn, cur, base>>
          /\ pc' = "relink" /\ todo' \subseteq todo /\ pc = "settle"
      BY <1>8, FilesKept DEF Inductive, SettleOk, SettleBad, farmVars, history, WritesMarkers
    <2> QED
      BY <1>c, <2>1 DEF KeepsFiles, SameFiles, Inductive
  <1>9. CASE RelinkDone
    BY <1>9, <1>c DEF RelinkDone, Goto, Inductive, diskVars, farmVars, history
  <1>10. CASE MakeDuplicate
    BY <1>10, <1>c
    DEF MakeDuplicate, Goto, Inductive, diskVars, farmVars, history, IsNew, HasAdditions
  <1>11. CASE MakeDiscardImage
    <2>1. /\ ImagelessEffect /\ UNCHANGED <<links, durable, torn, cur, base>>
          /\ pc' = "discardDir" /\ pc = "discard"
      BY <1>11, FileEffects DEF Inductive, MakeDiscardImage, farmVars, history, Goto
    <2> QED
      BY <1>c, <2>1 DEF ImagelessEffect, OnlyCur, SameFiles, Inductive
  <1>12. CASE MakeOwe /\ pc' # "idle"
    <2>1. /\ KeepsFiles /\ UNCHANGED <<links, durable, torn, cur, base>>
          /\ pc' = "commit" /\ pc = "scan"
      BY <1>12, FilesKept
      DEF Inductive, MakeOwe, farmVars, history, Goto, Idle, WritesMarkers
    <2> QED
      BY <1>c, <2>1 DEF KeepsFiles, SameFiles, Inductive
  <1>13. CASE MakeCommit /\ pc' # "idle"
    <2>1. /\ KeepsFiles \/ IndexedEffect
          /\ UNCHANGED <<links, durable, torn, cur, base>>
          /\ pc' = "link" /\ pc = "commit"
      BY <1>13, FileEffects DEF Inductive, MakeCommit, farmVars, history, Goto, Idle
    <2> QED
      BY <1>c, <2>1 DEF KeepsFiles, IndexedEffect, OnlyCur, SameFiles, Inductive
  <1>14. CASE MakeLink
    <2>1. UNCHANGED <<snap, cur, base>> /\ pc' = "finish" /\ pc = "link"
      BY <1>14 DEF MakeLink, diskVars
    <2> QED
      BY <1>c, <2>1 DEF Inductive
  <1>15. CASE MakeFinish /\ pc' # "idle"
    <2>1. KeepsFiles /\ UNCHANGED <<cur, base>> /\ pc' = "rebuild" /\ pc = "finish"
      BY <1>15, FilesKept DEF Inductive, MakeFinish, Idle, WritesMarkers
    <2>2. \A s \in todo' : s \in Slots /\ Committed(s)'
      BY <1>15 DEF MakeFinish, Idle
    <2> QED
      BY <1>c, <2>1, <2>2 DEF KeepsFiles, SameFiles, Inductive
  <1>16. CASE Rebuild
    <2>1. UNCHANGED <<snap, cur, base, pc>> /\ pc = "rebuild" /\ todo' \subseteq todo
      BY <1>16 DEF Rebuild, diskVars
    <2> QED
      BY <1>c, <2>1 DEF Inductive
  <1>17. ASSUME NEW s \in Slots, ReleaseBegin(s)
         PROVE  CurInv'
    <2>1. /\ UNCHANGED <<snap, links, durable>> /\ pc' = "unlink" /\ cur' = s
          /\ plan' = [c \in Clips |-> Repoint(s, c)]
          /\ \A c \in Clips : s \in {links[c], durable[c]} => c \in moved'
      BY <1>17 DEF ReleaseBegin, diskVars, farmVars
    <2>2. ASSUME NEW c \in Clips, Repoint(s, c) # None
          PROVE  Repoint(s, c) # s /\ Has(Repoint(s, c), c)
      <3>1. Repoint(s, c) \in Survivors(s, c)
        BY <2>2 DEF Repoint, Best
      <3>2. PICK t \in Slots : /\ t = Repoint(s, c) /\ t # s /\ snap[t].bin
                               /\ snap[t].toc[c] > 0
        BY <3>1 DEF Survivors, InToc
      <3>3. snap[t].toc[c] \in {0, snap[t].img[c]}
        BY <3>2 DEF Inductive, DirsAreSound, Sound
      <3> QED
        BY <3>2, <3>3
    <2> QED
      BY <2>1, <2>2
  <1>18. CASE ReleaseImage
    <2>1. /\ ImagelessEffect /\ UNCHANGED <<links, durable, moved, plan, cur>>
          /\ pc' = "rmdir" /\ pc = "unlink"
      BY <1>18, FileEffects DEF Inductive, ReleaseImage, farmVars, history, Goto
    <2>2. plan \in [Clips -> Slots \cup {None}]
      BY DEF Inductive, TypeOK
    <2> QED
      BY <1>c, <2>1, <2>2 DEF ImagelessEffect, OnlyCur, SameFiles, Inductive
  <1>19. CASE ReleaseDir
    <2>1. /\ GoneEffect /\ UNCHANGED <<links, durable, moved, plan, cur>>
          /\ pc' = "prune" /\ pc = "rmdir"
      BY <1>19, FileEffects DEF Inductive, ReleaseDir, farmVars, history, Goto
    <2>2. plan \in [Clips -> Slots \cup {None}]
      BY DEF Inductive, TypeOK
    <2> QED
      BY <1>c, <2>1, <2>2, EmptyDirs DEF GoneEffect, OnlyCur, SameFiles, Inductive
  <1>20. CASE ReleasePrune /\ pc' # "idle"
    <2>1. /\ UNCHANGED <<snap, durable, moved, plan, cur>> /\ torn \subseteq torn'
          /\ pc' = "repoint" /\ pc = "prune" /\ cur \in Slots
          /\ \A c \in Clips :
               /\ links'[c] \in {links[c], None}
               /\ links'[c] = cur => c \in torn'
      BY <1>20, PruneEffects, SlotsAreNumbers DEF Inductive
    <2> QED
      BY <1>c, <2>1 DEF Inductive
  <1>21. CASE RecoverLock
    BY <1>21 DEF RecoverLock
  <1>22. CASE RecoverScan
    <2>1. KeepsFiles /\ UNCHANGED cur /\ pc' = "recoverCommit" /\ cur \in Slots
          /\ snap[cur].whole
      BY <1>22, <1>c, FilesKept DEF Inductive, RecoverScan, Goto, WritesMarkers
    <2> QED
      BY <2>1 DEF KeepsFiles, SameFiles, Inductive, DirsAreSound, Sound
  <1> HIDE SlotsAreNumbers
      DEF CurInv, CurIsTop, CurIsPrivate, CurImage, DiscardIsCovered,
          TodoIsCommitted, ReleaseIsPlanned, Making, BeforeCommit, Releasing,
          Has, Committed
  <1>23. ASSUME \/ MakeCopyFails \/ MakeScanFails \/ MakeDiscardDir \/ RebuildDone
                \/ ReleaseRepoint \/ Sweep \/ RecoverCommit \/ RecoverFails
                \/ ProcessDies \/ PowerCut
         PROVE  pc' = "idle"
    BY <1>23 DEF MakeCopyFails, MakeScanFails, MakeDiscardDir, RebuildDone,
       ReleaseRepoint, Sweep, RecoverCommit, RecoverFails, ProcessDies, PowerCut,
       Idle, runVars
  <1>24. ASSUME \/ \E c \in Clips : CarWrites(c) \/ CarDeletes(c)
                \/ SetupRerun \/ RecoverPick \/ RecoverSkip \/ UNCHANGED vars
         PROVE  /\ UNCHANGED <<snap, links, durable, torn, moved>>
                /\ UNCHANGED <<pc, cur, base, todo, plan>>
    BY <1>24 DEF CarWrites, CarDeletes, SetupRerun, RecoverPick, RecoverSkip,
       vars, diskVars, farmVars, runVars, history
  <1> QED
    BY <1>1, <1>2, <1>3, <1>4, <1>5, <1>6, <1>7, <1>8, <1>9, <1>10, <1>11,
       <1>12, <1>13, <1>14, <1>15, <1>16, <1>17, <1>18, <1>19, <1>20, <1>21,
       <1>22, <1>23, <1>24
    DEF Next, MakeStep, ReleaseStep, RecoverStep

\* Links keep leading to their clips.
LEMMA LinksKept == Inductive /\ [Next]_vars => LinksAreGood'
  <1> SUFFICES ASSUME Inductive, [Next]_vars PROVE LinksAreGood'
    OBVIOUS
  <1>c. /\ pc # "idle" => cur \in Slots
        /\ todo \subseteq Slots
        /\ links \in [Clips -> Slots \cup {None}]
        /\ durable \in [Clips -> Slots \cup {None}]
        /\ plan \in [Clips -> Slots \cup {None}]
    BY DEF Inductive, TypeOK
  <1>g. LinksAreGood /\ CurInv
    BY DEF Inductive
  <1> DEFINE KeepsClips == \A s \in Slots, c \in Clips : Has(s, c) => Has(s, c)'
  <1>k. KeepsFiles => KeepsClips
    BY DEF KeepsFiles, SameFiles, Has
  \* Nothing happens to the links, and no image loses a clip.
  <1>f. ASSUME UNCHANGED <<links, durable>>, torn \subseteq torn',
               moved \subseteq moved', KeepsClips,
               ~Releasing \/ (Releasing' /\ cur' = cur)
        PROVE  LinksAreGood'
    BY <1>c, <1>g, <1>f DEF LinksAreGood
  <1> HIDE DEF KeepsClips
  <1>1. ASSUME \/ \E c \in Clips : CarWrites(c) \/ CarDeletes(c)
               \/ SetupRerun \/ RecoverPick \/ RecoverSkip \/ UNCHANGED vars
        PROVE  LinksAreGood'
    <2>1. UNCHANGED <<snap, links, durable, torn, moved, pc, cur>>
      BY <1>1 DEF CarWrites, CarDeletes, SetupRerun, RecoverPick, RecoverSkip,
         vars, diskVars, farmVars, runVars, history
    <2> QED
      BY <2>1, <1>g DEF LinksAreGood, Has, Releasing
  <1>2. CASE MakeBegin
    <2>1. BeginEffect
      BY <1>2, MakeBegins DEF Inductive
    <2>2. KeepsClips
      BY <2>1 DEF KeepsClips, BeginEffect, Has
    <2> QED
      BY <1>2, <1>f, <2>2 DEF MakeBegin, farmVars, Releasing
  <1>3. CASE MakeCopy \/ MakeCopyFails \/ MakeDiscardDir
    <2>1. OnlyCur /\ ~snap[cur].bin
      BY <1>3, <1>g, FileEffects
      DEF Inductive, MakeCopy, MakeCopyFails, MakeDiscardDir, CopyEffect,
          GoneEffect, CurInv, CurImage
    <2>2. KeepsClips
      BY <2>1 DEF KeepsClips, OnlyCur, SameFiles, Has
    <2> QED
      BY <1>3, <1>f, <2>2
      DEF MakeCopy, MakeCopyFails, MakeDiscardDir, farmVars, history, Releasing
  <1>4. CASE \/ MakeMark \/ SettleOk \/ SettleBad \/ RelinkDone \/ MakeScanFails
             \/ MakeDuplicate \/ MakeOwe \/ MakeFinish \/ RebuildDone
             \/ RecoverLock \/ RecoverScan \/ RecoverFails
    <2>1. KeepsClips
      BY <1>4, <1>k, FilesKept DEF Inductive, LeavesStore, WritesMarkers
    <2>2. UNCHANGED <<links, durable, torn, moved>> /\ ~Releasing
      BY <1>4
      DEF MakeMark, SettleOk, SettleBad, RelinkDone, MakeScanFails, MakeDuplicate,
          MakeOwe, MakeFinish, RebuildDone, RecoverLock, RecoverScan, RecoverFails,
          farmVars, history, Releasing
    <2> QED
      BY <1>f, <2>1, <2>2
  <1>5. CASE MakeCommit \/ RecoverCommit
    <2>1. KeepsFiles \/ IndexedEffect
      BY <1>5, FileEffects DEF Inductive
    <2>2. KeepsClips
      BY <1>k, <2>1 DEF KeepsClips, IndexedEffect, OnlyCur, SameFiles, Has
    <2> QED
      BY <1>5, <1>f, <2>2
      DEF MakeCommit, RecoverCommit, farmVars, history, Releasing
  <1>6. CASE MakeDiscardImage
    <2>1. /\ OnlyCur /\ UNCHANGED <<links, durable, torn, moved>>
          /\ pc = "discard"
      BY <1>6, FileEffects
      DEF Inductive, MakeDiscardImage, ImagelessEffect, farmVars, history
    <2>2. \A c \in Clips : cur \in {links[c], durable[c]} => c \in torn
      BY <1>g, <2>1 DEF CurInv, CurIsPrivate, BeforeCommit
    <2> QED
      BY <1>c, <1>g, <2>1, <2>2 DEF LinksAreGood, OnlyCur, SameFiles, Has, Releasing
  <1>7. ASSUME NEW s \in Slots, ReleaseBegin(s)
        PROVE  LinksAreGood'
    <2>1. /\ UNCHANGED <<snap, links, durable>> /\ pc = "idle"
          /\ torn \subseteq torn' /\ moved \subseteq moved'
      BY <1>7 DEF ReleaseBegin, diskVars, farmVars
    <2>2. KeepsClips
      BY <2>1 DEF KeepsClips, Has
    <2> QED
      BY <1>f, <2>1, <2>2 DEF Releasing
  <1>8. CASE ReleaseImage \/ ReleaseDir
    <2>1. /\ OnlyCur /\ UNCHANGED <<links, durable, torn, moved, cur>>
          /\ Releasing /\ Releasing'
      BY <1>8, FileEffects
      DEF Inductive, ReleaseImage, ReleaseDir, ImagelessEffect, GoneEffect,
          farmVars, history, Goto, Releasing
    <2>2. \A c \in Clips : cur \in {links[c], durable[c]} => c \in moved
      BY <1>g, <2>1 DEF CurInv, ReleaseIsPlanned
    <2> QED
      BY <1>c, <1>g, <2>1, <2>2 DEF LinksAreGood, OnlyCur, SameFiles, Has
  <1>9. CASE ReleasePrune
    <2>1. /\ UNCHANGED <<snap, durable, moved>> /\ Releasing /\ torn \subseteq torn'
          /\ \A c \in Clips :
               /\ links[c] # cur => links'[c] = links[c]
               /\ links[c] = cur => links'[c] = None \/ (links'[c] = cur /\ c \in torn')
      BY <1>9, PruneEffects DEF Inductive, Releasing
    <2> QED
      BY <1>c, <1>g, <2>1 DEF LinksAreGood, Has
  <1>10. CASE ReleaseRepoint
    <2>1. /\ UNCHANGED <<snap, durable, moved>> /\ torn \subseteq torn' /\ pc = "repoint"
          /\ \A c \in Clips :
               /\ links[c] # None => links'[c] = links[c]
               /\ links[c] = None => links'[c] \in {plan[c], None}
      BY <1>10, RepointEffects DEF Inductive
    <2>2. \A c \in Clips : /\ links[c] # cur \/ c \in torn
                           /\ plan[c] # None => Has(plan[c], c)
      BY <1>g, <2>1 DEF CurInv, ReleaseIsPlanned, Releasing
    <2> QED
      BY <1>c, <1>g, <2>1, <2>2 DEF LinksAreGood, Has
  <1>11. CASE Sweep
    <2>1. UNCHANGED <<snap, durable, torn, moved, pc, cur>> /\ pc = "idle"
      BY <1>11 DEF Sweep, diskVars, history, runVars
    <2>2. \A c \in Clips : links'[c] \in {None, links[c]}
      BY <1>11 DEF Sweep
    <2> QED
      BY <1>g, <2>1, <2>2 DEF LinksAreGood, Has, Releasing
  <1>12. CASE Writeback
    <2>1. /\ UNCHANGED <<snap, links, torn, pc, cur>> /\ durable' = links
          /\ Releasing => moved' = moved
      BY <1>12 DEF Writeback, runVars
    <2>2. Releasing => \A c \in Clips : links[c] = cur => c \in moved
      BY <1>g DEF CurInv, ReleaseIsPlanned
    <2> QED
      BY <1>g, <2>1, <2>2 DEF LinksAreGood, Has, Releasing
  <1>13. CASE ProcessDies
    <2>1. /\ StopEffect /\ UNCHANGED <<links, durable, moved>>
          /\ torn \subseteq torn' /\ (Releasing => moved \subseteq torn')
          /\ pc' = "idle"
      BY <1>13, FileEffects DEF Inductive, ProcessDies, farmVars, Idle
    <2>2. KeepsClips
      BY <2>1 DEF KeepsClips, StopEffect, Has
    <2>3. Releasing => \A c \in Clips : links[c] = cur => c \in moved
      BY <1>g DEF CurInv, ReleaseIsPlanned
    <2> QED
      BY <1>c, <1>g, <2>1, <2>2, <2>3 DEF LinksAreGood, KeepsClips
  <1>14. CASE PowerCut
    <2>1. /\ StopEffect /\ torn' = torn \cup moved /\ durable' = links'
          /\ pc' = "idle"
      BY <1>14, FileEffects DEF Inductive, PowerCut, Idle
    <2>2. \A c \in Clips : links'[c] \in {links[c], durable[c]}
      BY <1>14 DEF PowerCut
    <2>3. KeepsClips
      BY <2>1 DEF KeepsClips, StopEffect, Has
    <2>4. Releasing => \A c \in Clips : links[c] = cur => c \in moved
      BY <1>g DEF CurInv, ReleaseIsPlanned
    <2> QED
      BY <1>c, <1>g, <2>1, <2>2, <2>3, <2>4 DEF LinksAreGood, KeepsClips
  \* Placing links only makes good ones.
  <1>p. ASSUME NEW s \in Slots, snap[s].bin, ~Releasing,
               UNCHANGED <<snap, durable, moved>>,
               torn \subseteq torn',
               \A c \in Clips : \/ links'[c] \in {None, links[c]}
                                \/ c \in Holds(s) /\ links'[c] = s
        PROVE  LinksAreGood'
    BY <1>c, <1>g, <1>p DEF LinksAreGood, Has, Holds
  <1>q. ASSUME NEW s \in Slots, NEW fill \in BOOLEAN, Place(s, fill) \/ PlaceFails
        PROVE  /\ torn \subseteq torn'
               /\ \A c \in Clips : \/ links'[c] \in {None, links[c]}
                                   \/ c \in Holds(s) /\ links'[c] = s
    BY <1>c, <1>q DEF Place, PlaceFails, ToPlace
  <1>15. CASE RelinkPlace
    <2>1. PICK s \in todo : Place(s, ~Newest(s)) \/ PlaceFails
      BY <1>15 DEF RelinkPlace
    <2>2. s \in Slots /\ (~Newest(s)) \in BOOLEAN
      BY <1>c
    <2>3. snap[s].bin /\ ~Releasing /\ UNCHANGED <<snap, durable, moved>>
      BY <1>15, <1>g
      DEF RelinkPlace, CurInv, TodoIsCommitted, Committed, Releasing, diskVars
    <2> QED
      BY <1>p, <1>q, <2>1, <2>2, <2>3
  <1>16. CASE MakeLink
    <2>1. /\ cur \in Slots /\ snap[cur].bin /\ ~Releasing
          /\ UNCHANGED <<snap, durable, moved>>
      BY <1>16, <1>c, <1>g
      DEF MakeLink, CurInv, CurImage, Making, BeforeCommit, Releasing, diskVars
    <2> QED
      BY <1>16, <1>p, <1>q, <2>1 DEF MakeLink
  <1>17. CASE Rebuild
    <2>1. PICK s \in todo : UNCHANGED <<links, torn>> \/ Place(s, FALSE) \/ PlaceFails
      BY <1>17 DEF Rebuild
    <2>2. s \in Slots /\ snap[s].bin /\ ~Releasing /\ UNCHANGED <<snap, durable, moved>>
      BY <1>17, <1>c, <1>g
      DEF Rebuild, CurInv, TodoIsCommitted, Committed, Releasing, diskVars
    <2> QED
      BY <1>p, <1>q, <2>1, <2>2
  <1> QED
    BY <1>1, <1>2, <1>3, <1>4, <1>5, <1>6, <1>7, <1>8, <1>9, <1>10, <1>11,
       <1>12, <1>13, <1>14, <1>15, <1>16, <1>17
    DEF Next, MakeStep, ReleaseStep, RecoverStep

-----------------------------------------------------------------------------
(* The theorems. *)

\* The invariant holds at first.
LEMMA InductiveInit == Init => Inductive
  <1> SUFFICES ASSUME Init PROVE Inductive
    OBVIOUS
  <1>1. TypeOK
    BY InitType
  <1>2. \A s \in Slots : Sound(snap[s])
    <2>1. Sound(NoSnapshot)
      BY EmptyDirs DEF Sound
    <2> QED
      BY <2>1 DEF Init
  <1>3. CurInv
    BY DEF Init, CurInv, CurIsTop, CurIsPrivate, CurImage, DiscardIsCovered,
           TodoIsCommitted, ReleaseIsPlanned, Making, BeforeCommit, Releasing
  <1>4. LinksAreGood
    BY DEF Init, LinksAreGood
  <1> QED
    BY <1>1, <1>2, <1>3, <1>4 DEF Inductive, DirsAreSound

\* Every step preserves it.
LEMMA InductiveStep == Inductive /\ [Next]_vars => Inductive'
  BY NextType, SoundKept, CurKept, LinksKept DEF Inductive

\* So it always holds.
THEOREM InductiveInvariant == Spec => []Inductive
  BY InductiveInit, InductiveStep, PTL DEF Spec

\* Type correctness: every variable of the store keeps its type.
THEOREM TypeCorrect == Spec => []TypeOK
  <1>1. Inductive => TypeOK
    BY DEF Inductive
  <1> QED
    BY <1>1, InductiveInvariant, PTL

\* Every link leads to a snapshot image that holds its clip, unless a release
\* is about to unlink it or was stopped before it did (pick_next_snapshot_slot
\* and the duplicate discard never take an image that something points into).
THEOREM LinksLead == Spec => []LinksLeadToClips
  <1>1. Inductive => LinksLeadToClips
    <2> SUFFICES ASSUME Inductive, NEW c \in Clips, links[c] # None
                 PROVE  Linked(c) \/ c \in torn \/ (Releasing /\ links[c] = cur)
      BY DEF LinksLeadToClips
    <2>1. Has(links[c], c) => Linked(c)
      BY DEF Has, Linked, Holds
    <2> QED
      BY <2>1 DEF Inductive, LinksAreGood
  <1> QED
    BY <1>1, InductiveInvariant, PTL

\* Outside a release no step takes away the last copy of a clip: a discarded
\* duplicate is covered by its baseline, and no slot with an image is reused.
THEOREM ImagesOutlive == Spec => ImagesOutliveReuse
  <1> DEFINE Kept(s) ==
        snap[s].bin /\ ~snap'[s].bin /\ ~Releasing
          => \/ base # None /\ ~snap[base].bin
             \/ \A c \in Holds(s) : \E t \in Slots \ {s} :
                  snap'[t].bin /\ snap'[t].img[c] = snap[s].img[c]
  <1>1. ASSUME Inductive, [Next]_vars, NEW s \in Slots
        PROVE  Kept(s)
    <2>1. CASE KeepsFiles
      BY <2>1 DEF KeepsFiles, SameFiles
    <2>2. CASE MakeBegin
      BY <1>1, <2>2, MakeBegins DEF BeginEffect, Inductive
    <2>3. CASE MakeCopy \/ MakeCopyFails \/ MakeDiscardDir
      BY <1>1, <2>3, FileEffects
      DEF Inductive, MakeCopy, MakeCopyFails, MakeDiscardDir, CopyEffect,
          GoneEffect, CurInv, CurImage, OnlyCur, SameFiles
    <2>4. CASE ReleaseImage \/ ReleaseDir
      BY <2>4 DEF ReleaseImage, ReleaseDir, Releasing
    <2>5. CASE MakeCommit \/ RecoverCommit
      BY <1>1, <2>1, <2>5, FileEffects
      DEF Inductive, IndexedEffect, OnlyCur, SameFiles
    <2>6. CASE ProcessDies \/ PowerCut
      BY <1>1, <2>6, FileEffects DEF Inductive, StopEffect
    <2>7. CASE MakeDiscardImage
      <3>1. ImagelessEffect /\ pc = "discard" /\ cur \in Slots
        BY <1>1, <2>7, FileEffects DEF Inductive, TypeOK, MakeDiscardImage
      <3>2. /\ base \in Slots \ {cur}
            /\ \A c \in Clips :
                 snap[cur].img[c] > 0 => snap[base].toc[c] = snap[cur].img[c]
        BY <1>1, <3>1, SlotsAreNumbers
        DEF Inductive, TypeOK, CurInv, CurIsTop, DiscardIsCovered, Making,
            BeforeCommit
      <3>3. snap[base].bin =>
              \A c \in Holds(cur) : /\ snap'[base].bin
                                    /\ snap'[base].img[c] = snap[cur].img[c]
        <4>1. Sound(snap[base]) /\ SameFiles(snap'[base], snap[base])
          BY <1>1, <3>1, <3>2
          DEF Inductive, DirsAreSound, ImagelessEffect, OnlyCur
        <4> QED
          BY <3>2, <4>1 DEF Sound, SameFiles, Holds
      <3>4. s # cur => SameFiles(snap'[s], snap[s])
        BY <3>1 DEF ImagelessEffect, OnlyCur
      <3> QED
        BY <3>1, <3>2, <3>3, <3>4, SlotsAreNumbers DEF SameFiles
    <2> QED
      BY <1>1, <2>1, <2>2, <2>3, <2>4, <2>5, <2>6, <2>7, FilesKept
      DEF Inductive, Next, MakeStep, ReleaseStep, RecoverStep, LeavesStore,
          WritesMarkers
  <1>2. Inductive /\ [Next]_vars => [\A s \in Slots : Kept(s)]_vars
    BY <1>1
  <1> QED
    BY <1>2, InductiveInvariant, PTL DEF Spec, ImagesOutliveReuse

\* No re-linking moves a clip's link from a committed snapshot to an older one:
\* only a power cut and the rebuild after a setup re-run do.
THEOREM NewerTargets == Spec => NewerTargetsStay
  <1> DEFINE Stays(c) ==
        links'[c] # None /\ links'[c] < links[c] /\ Committed(links[c])
          => pc = "rebuild" \/ PowerCut
  <1>1. ASSUME Inductive, [Next]_vars, NEW c \in Clips
        PROVE  Stays(c)
    <2>t. links[c] \in Slots \cup {None} /\ todo \subseteq Slots
          /\ plan[c] \in Slots \cup {None} /\ \A s \in Slots \cup {None} : s \in Int
      BY <1>1, SlotsAreNumbers DEF Inductive, TypeOK, None
    <2>1. CASE links'[c] \in {None, links[c]}
      BY <2>1, <2>t
    <2>2. CASE RelinkPlace
      <3>1. PICK s \in todo : Place(s, ~Newest(s)) \/ PlaceFails
        BY <2>2 DEF RelinkPlace
      <3>2. CASE links'[c] = s /\ Newest(s)
        BY <2>t, <3>2, SlotsAreNumbers DEF Newest, IsMax, CommittedSlots, None
      <3>3. CASE links[c] = None /\ links'[c] = s
        <4>1. ~(s < None)
          BY <2>t, SlotsAreNumbers DEF None
        <4> QED
          BY <3>3, <4>1
      <3>4. \/ links'[c] \in {None, links[c]}
            \/ links'[c] = s /\ (Newest(s) \/ links[c] = None)
        BY <2>t, <3>1 DEF Place, PlaceFails, ToPlace
      <3> QED
        BY <2>1, <3>2, <3>3, <3>4
    <2>3. CASE MakeLink
      <3>1. links'[c] \in {None, cur, links[c]} /\ pc = "link" /\ cur \in Slots
        BY <1>1, <2>3, <2>t DEF MakeLink, Place, PlaceFails, Inductive, TypeOK
      <3>2. \A s \in Slots : Committed(s) => s <= cur
        BY <1>1, <3>1
        DEF Inductive, CurInv, CurIsTop, Making, Committed, DirsAreSound, Sound
      <3> QED
        BY <2>1, <2>t, <3>1, <3>2, SlotsAreNumbers DEF None
    <2>4. CASE Rebuild
      BY <2>4 DEF Rebuild
    <2>5. CASE ReleasePrune \/ ReleaseRepoint \/ Sweep
      <3>1. CASE ReleaseRepoint
        BY <2>1, <2>t, <3>1, SlotsAreNumbers DEF ReleaseRepoint, None
      <3> QED
        BY <2>1, <2>5, <3>1 DEF ReleasePrune, Sweep
    <2>6. CASE PowerCut
      BY <2>6
    <2>7. CASE UNCHANGED links
      BY <2>1, <2>7
    <2> HIDE DEF Stays
    <2> QED
      BY <1>1, <2>2, <2>3, <2>4, <2>5, <2>6, <2>7
      DEF Next, MakeStep, ReleaseStep, RecoverStep, vars, farmVars,
          CarWrites, CarDeletes, MakeBegin, MakeCopy, MakeCopyFails, MakeMark,
          SettleOk, SettleBad, RelinkDone, MakeScanFails, MakeDuplicate,
          MakeDiscardImage, MakeDiscardDir, MakeOwe, MakeCommit, MakeFinish,
          RebuildDone, SetupRerun, ReleaseBegin, ReleaseImage, ReleaseDir,
          RecoverPick, RecoverSkip, RecoverLock, RecoverScan, RecoverCommit,
          RecoverFails, Writeback, ProcessDies
  <1>2. Inductive /\ [Next]_vars => [\A c \in Clips : Stays(c)]_vars
    BY <1>1
  <1> QED
    BY <1>2, InductiveInvariant, PTL DEF Spec, NewerTargetsStay
-----------------------------------------------------------------------------
(* Nothing is forgotten.  A clip without a link is owed one by a snapshot     *)
(* that keeps it.  That is not inductive: a power cut takes links away, so    *)
(* the invariant also says who owes the links that are not on disk.  They     *)
(* are owed by a debt on disk, or by the newest snapshot, which every boot    *)
(* marks, as long as nothing above it can become the newest one unmarked.     *)

\* A debt that outlives a power cut.
Debt(s) == snap[s].pending \/ snap[s].verify \/ snap[s].gaveUp \/ TocLost(s)

\* The slot being filled or taken away answers for no clip.
Exempt(s) == (BeforeCommit \/ Releasing) /\ s = cur
Keeps(s, c) == Has(s, c) /\ ~Exempt(s)
Kept(c) == \E s \in Slots : Keeps(s, c)

Excused(c) == c \in torn \/ \E s \in slipped : Keeps(s, c)

\* The link, and the one a power cut would bring back, leads to the clip.
Reaches(c) == links[c] # None /\ Keeps(links[c], c)
OnDisk(c) == durable[c] # None /\ Keeps(durable[c], c)

IsTop(s) == \A t \in Slots : snap[t].dir => t <= s
Due(s) == Debt(s) \/ (Newest(s) /\ ~marked)
DueAfterCut(s) == Due(s) \/ (Newest(s) /\ IsTop(s))
LinkDue(c) == \E s \in Slots : Keeps(s, c) /\ Due(s)
LossDue(c) == \E s \in Slots : Keeps(s, c) /\ DueAfterCut(s)

\* The release under way will re-point the link, or every copy left is owed.
Planned(c) ==
    /\ Releasing /\ c \in moved
    /\ links[c] = cur \/ (pc = "repoint" /\ links[c] = None)
    /\ plan[c] # None \/ \A s \in Slots : Keeps(s, c) => Debt(s)

LinkIsOwed(c) == Kept(c) /\ ~Excused(c) => Reaches(c) \/ Planned(c) \/ LinkDue(c)
LossIsOwed(c) == Kept(c) /\ ~Excused(c) /\ c \notin moved => OnDisk(c) \/ LossDue(c)

\* A TOC lists all of its image or nothing, and only an empty image was found
\* to be empty.
Tidy(r) ==
    /\ ~r.bin \/ r.checked => \A c \in Clips : r.img[c] = 0
    /\ r.bin => \/ \A c \in Clips : r.toc[c] = 0
                \/ \A c \in Clips : r.toc[c] = r.img[c]

TidyInv ==
    /\ \A s \in Slots : Tidy(snap[s])
    /\ pc = "copy" => ~snap[cur].checked

\* While debts are served, a link that is not on disk leads to a snapshot with
\* a debt; one that is served now has its debt unless nothing was placed.
UnwrittenInv ==
    /\ pc \in {"copy", "mark"} => \A c \in Clips : links[c] = durable[c]
    /\ pc \in {"relink", "settle"} =>
         \A c \in Clips : links[c] \notin {None, durable[c]} /\ c \notin torn =>
           /\ Debt(links[c])
           /\ links[c] \in todo => /\ pc = "settle" /\ outcome # "nothing"
                                   /\ IsMax(links[c], todo)
    /\ pc = "settle" /\ outcome = "nothing" =>
         \A s \in todo : IsMax(s, todo) => \A c \in Holds(s) : links[c] # None

\* The debts each step relies on.
PendingInv ==
    /\ Making /\ pc \notin {"copy", "mark"} => marked
    /\ pc \in {"relink", "settle"} => \A s \in todo : snap[s].pending
    /\ pc \in {"commit", "link", "finish"} => snap[cur].pending
    /\ pc = "recoverCommit" /\ Holds(cur) # {} => snap[cur].pending

\* What a finished snapshot and a release may rely on.
PlacedInv ==
    /\ pc = "finish" /\ outcome # "bad" => \A c \in Holds(cur) : links[c] = cur
    /\ pc = "unlink" => \A c \in Clips : Has(cur, c) => Linked(c) \/ c \in torn

OwedInv ==
    /\ TidyInv /\ UnwrittenInv /\ PendingInv /\ PlacedInv
    /\ \A c \in Clips : LinkIsOwed(c) /\ LossIsOwed(c)

-----------------------------------------------------------------------------
(* What the steps do to markers and images. *)

SameMarks(q, r) ==
    /\ q.pending = r.pending /\ q.verify = r.verify /\ q.gaveUp = r.gaveUp
    /\ q.checked = r.checked

\* What the operations make of a record, but for its files.
LEMMA MarkFields ==
    ASSUME NEW r \in Snapshot
    PROVE  /\ Owing(r).pending = TRUE /\ Owing(r).verify = r.verify
           /\ Owing(r).gaveUp = r.gaveUp /\ Owing(r).checked = r.checked
           /\ Settled(r).pending = FALSE /\ Settled(r).verify = r.verify
           /\ Settled(r).gaveUp = r.gaveUp /\ Settled(r).checked = r.checked
           /\ SameMarks(Imageless(r), r) /\ Imageless(r).img = Empty
           /\ SameMarks(Indexed(r), r)
           /\ \A k \in Content : Copied(r, k).img = k /\ Copied(r, k).checked = r.checked
  BY DEF Owing, Settled, Imageless, Indexed, Copied, SameMarks, Snapshot

\* Directories just made or gone have no marks.
LEMMA NoMarks ==
    /\ Created.img = Empty /\ Created.checked = FALSE
    /\ NoSnapshot.img = Empty /\ NoSnapshot.checked = FALSE
    /\ \A c \in Clips : Empty[c] = 0
  BY DEF Created, NoSnapshot, Empty

\* A stop leaves the markers alone.
LEMMA StopMarks ==
    ASSUME TypeOK, ProcessDies \/ PowerCut
    PROVE  \A s \in Slots : SameMarks(snap'[s], snap[s])
  <1>t. snap \in [Slots -> Snapshot] /\ (pc # "idle" => cur \in Slots)
    BY DEF TypeOK
  <1>1. CASE ProcessDies
    <2>1. PICK half \in CutShort : Becomes(cur, [snap[cur] EXCEPT !.bin = @ \/ half])
      BY <1>1 DEF ProcessDies
    <2>2. cur \in Slots /\ snap[cur] \in Snapshot
      BY <1>t, <1>1 DEF ProcessDies
    <2> DEFINE r == [snap[cur] EXCEPT !.bin = @ \/ half]
    <2>3. r \in Snapshot
      BY <2>2, MarkerTypes
    <2>6. SameMarks(r, snap[cur])
      BY <2>2 DEF SameMarks, Snapshot
    <2>4. Becomes(cur, r)
      BY <2>1
    <2> HIDE DEF r
    <2>5. snap'[cur] = r /\ \A t \in Slots \ {cur} : snap'[t] = snap[t]
      BY <1>t, <2>2, <2>3, <2>4, BecomesType
    <2> QED
      BY <2>5, <2>6 DEF SameMarks
  <1>2. CASE PowerCut
    <2>1. PICK missing \in SUBSET youngTocs, blank \in SUBSET youngTocs,
               half \in CutShort :
            snap' = [s \in Slots |-> AfterCut(snap[s], s \in missing, s \in blank,
                                             half /\ s = cur)]
      BY <1>2 DEF PowerCut
    <2>2. SUFFICES ASSUME NEW s \in Slots
                   PROVE  SameMarks(snap'[s], snap[s])
      OBVIOUS
    <2>3. snap[s] \in Snapshot
      BY <1>t
    <2>4. snap'[s] = [snap[s] EXCEPT !.bin = @ \/ (half /\ s = cur),
                                     !.hasToc = @ /\ ~(s \in missing),
                                     !.toc = IF (s \in missing) \/ (s \in blank)
                                             THEN Empty ELSE @]
      BY <2>1 DEF AfterCut
    <2> QED
      BY <2>3, <2>4 DEF SameMarks, Snapshot
  <1> QED
    BY <1>1, <1>2

\* The marks may change, but a debt stays one.
MarksStay(q, r) ==
    /\ q.checked = r.checked
    /\ r.pending \/ r.verify \/ r.gaveUp => q.pending \/ q.verify \/ q.gaveUp

\* A served snapshot leaves the queue; the others are as before.
Serves(s) ==
    /\ s \in Slots /\ s \in todo /\ IsMax(s, todo) /\ todo' = todo \ {s}
    /\ \A t \in Slots \ {s} : snap'[t] = snap[t]
    /\ snap'[s].checked = snap[s].checked

\* What the steps that write markers do.
LEMMA MarkerSteps ==
    ASSUME TypeOK
    PROVE  /\ MakeMark \/ SettleBad \/ MakeOwe \/ RecoverScan \/ RecoverFails
                => \A s \in Slots : MarksStay(snap'[s], snap[s])
           /\ SettleOk => \E s \in todo :
                             /\ Serves(s)
                             /\ outcome = "made" => MarksStay(snap'[s], snap[s])
           /\ SettleBad => \E s \in todo : Serves(s)
           /\ MakeFinish => /\ cur \in Slots
                            /\ \A t \in Slots \ {cur} : snap'[t] = snap[t]
                            /\ snap'[cur].checked = snap[cur].checked
                            /\ outcome = "bad" => snap'[cur] = snap[cur]
  <1>t. /\ snap \in [Slots -> Snapshot] /\ todo \subseteq Slots
        /\ pc # "idle" => cur \in Slots
    BY DEF TypeOK
  <1>b. ASSUME NEW x \in Slots, NEW r \in Snapshot, Becomes(x, r), MarksStay(r, snap[x])
        PROVE  \A s \in Slots : MarksStay(snap'[s], snap[s])
    BY <1>b, <1>t, BecomesType DEF MarksStay
  <1>s. \A s \in Slots : MarksStay(snap[s], snap[s])
    BY DEF MarksStay
  <1>1. ASSUME MakeMark PROVE \A s \in Slots : MarksStay(snap'[s], snap[s])
    <2>1. ASSUME NEW s \in Slots, NEW ok \in BOOLEAN
          PROVE  MarksStay(MarkedForBoot(s, ok), snap[s])
      <3> DEFINE due == Committed(s) /\ snap[s].verify /\ (snap[s].pending \/ ok)
                 new == Newest(s) /\ ~snap[s].gaveUp /\ ok
                 v == snap[s].verify /\ ~due
                 p == snap[s].pending \/ due \/ new
      <3>1. snap[s] \in Snapshot
        BY <1>t
      <3>2. MarkedForBoot(s, ok) = [snap[s] EXCEPT !.verify = v, !.pending = p]
        BY DEF MarkedForBoot
      <3>3. snap[s].verify => v \/ p
        OBVIOUS
      <3>4. snap[s].pending => p
        OBVIOUS
      <3> HIDE DEF v, p
      <3>5. [snap[s] EXCEPT !.verify = v, !.pending = p].checked = snap[s].checked
            /\ [snap[s] EXCEPT !.verify = v, !.pending = p].gaveUp = snap[s].gaveUp
            /\ [snap[s] EXCEPT !.verify = v, !.pending = p].verify = v
            /\ [snap[s] EXCEPT !.verify = v, !.pending = p].pending = p
        BY <3>1 DEF Snapshot
      <3> QED
        BY <3>2, <3>3, <3>4, <3>5 DEF MarksStay
    <2> QED
      BY <1>1, <1>s, <2>1 DEF MakeMark
  <1>2. ASSUME SettleOk
        PROVE  \E s \in todo : Serves(s) /\ (outcome = "made" => MarksStay(snap'[s], snap[s]))
    <2>1. PICK s \in todo : SettleOk!2!(s)
      BY <1>2 DEF SettleOk
    <2>2. s \in Slots /\ snap[s] \in Snapshot /\ Settled(snap[s]) \in Snapshot
      BY <1>t, RecordTypes
    <2> DEFINE r == [Settled(snap[s]) EXCEPT !.verify = @ \/ outcome = "made"]
    <2>3. r \in Snapshot
      BY <2>2, MarkerTypes
    <2>4. r.checked = Settled(snap[s]).checked /\ (outcome = "made" => r.verify)
      BY <2>2 DEF Snapshot
    <2>5. Settled(snap[s]).checked = snap[s].checked
      BY <2>2, MarkFields
    <2>6. Becomes(s, r) \/ snap' = snap
      BY <2>1
    <2> HIDE DEF r
    <2>7. CASE Becomes(s, r)
      <3>1. snap'[s] = r /\ \A t \in Slots \ {s} : snap'[t] = snap[t]
        BY <1>t, <2>2, <2>3, <2>7, BecomesType
      <3>2. Serves(s) /\ (outcome = "made" => MarksStay(snap'[s], snap[s]))
        BY <2>1, <2>2, <2>4, <2>5, <3>1 DEF Serves, MarksStay
      <3> QED
        BY <3>2
    <2>8. CASE snap' = snap
      <3>1. Serves(s) /\ MarksStay(snap'[s], snap[s])
        BY <1>s, <2>1, <2>2, <2>8 DEF Serves
      <3> QED
        BY <3>1
    <2> QED
      BY <2>6, <2>7, <2>8
  <1>3. ASSUME SettleBad
        PROVE  /\ \A s \in Slots : MarksStay(snap'[s], snap[s])
               /\ \E s \in todo : Serves(s)
    <2>1. PICK s \in todo : SettleBad!2!(s)
      BY <1>3 DEF SettleBad
    <2>2. s \in Slots /\ snap[s] \in Snapshot /\ Settled(snap[s]) \in Snapshot
      BY <1>t, RecordTypes
    <2> DEFINE r == [Settled(snap[s]) EXCEPT !.gaveUp = TRUE]
               q == [snap[s] EXCEPT !.fails = @ + 1]
    <2>3. r \in Snapshot /\ q \in Snapshot
      BY <2>2, MarkerTypes
    <2>4. /\ r.checked = Settled(snap[s]).checked /\ r.gaveUp
          /\ q.checked = snap[s].checked /\ q.pending = snap[s].pending
          /\ q.verify = snap[s].verify /\ q.gaveUp = snap[s].gaveUp
      BY <2>2 DEF Snapshot
    <2>5. Settled(snap[s]).checked = snap[s].checked
      BY <2>2, MarkFields
    <2>6. Becomes(s, r) \/ Becomes(s, q)
      BY <2>1
    <2> HIDE DEF r, q
    <2>7. MarksStay(r, snap[s]) /\ MarksStay(q, snap[s])
      BY <2>4, <2>5 DEF MarksStay
    <2>8. \A x \in Slots : MarksStay(snap'[x], snap[x])
      BY <1>b, <2>2, <2>3, <2>6, <2>7
    <2>9. \A t \in Slots \ {s} : snap'[t] = snap[t]
      BY <1>t, <2>2, <2>3, <2>6, BecomesType
    <2>10. Serves(s)
      BY <2>1, <2>2, <2>8, <2>9 DEF Serves, MarksStay
    <2> QED
      BY <2>8, <2>10
  <1>4. ASSUME MakeOwe \/ RecoverScan \/ RecoverFails
        PROVE  \A s \in Slots : MarksStay(snap'[s], snap[s])
    <2>1. cur \in Slots /\ snap[cur] \in Snapshot
      BY <1>t, <1>4 DEF MakeOwe, RecoverScan, RecoverFails
    <2> DEFINE q == [snap[cur] EXCEPT !.recFails = @ + 1]
    <2>2. Owing(snap[cur]) \in Snapshot /\ MarksStay(Owing(snap[cur]), snap[cur])
      BY <2>1, RecordTypes, MarkFields DEF MarksStay
    <2>3. q \in Snapshot
      BY <2>1, MarkerTypes
    <2>4. MarksStay(q, snap[cur])
      BY <2>1 DEF MarksStay, Snapshot
    <2>5. \/ snap' = snap \/ Becomes(cur, Owing(snap[cur])) \/ Becomes(cur, snap[cur])
          \/ Becomes(cur, q)
      BY <1>4 DEF MakeOwe, RecoverScan, RecoverFails
    <2> HIDE DEF q
    <2> QED
      BY <1>b, <1>s, <2>1, <2>2, <2>3, <2>4, <2>5
  <1>5. ASSUME MakeFinish
        PROVE  /\ cur \in Slots
               /\ \A t \in Slots \ {cur} : snap'[t] = snap[t]
               /\ snap'[cur].checked = snap[cur].checked
               /\ outcome = "bad" => snap'[cur] = snap[cur]
    <2>1. cur \in Slots /\ snap[cur] \in Snapshot
      BY <1>t, <1>5 DEF MakeFinish
    <2>2. Settled(snap[cur]) \in Snapshot /\ Settled(snap[cur]).checked = snap[cur].checked
      BY <2>1, RecordTypes, MarkFields
    <2>3. IF outcome = "bad" THEN Becomes(cur, snap[cur]) ELSE Becomes(cur, Settled(snap[cur]))
      BY <1>5 DEF MakeFinish
    <2> QED
      BY <1>t, <2>1, <2>2, <2>3, BecomesType
  <1> QED
    BY <1>1, <1>2, <1>3, <1>4, <1>5

\* The records stay tidy.
LEMMA TidyKept == Inductive /\ TidyInv /\ [Next]_vars => TidyInv'
  <1> SUFFICES ASSUME Inductive, TidyInv, [Next]_vars PROVE TidyInv'
    OBVIOUS
  <1>t. /\ TypeOK /\ snap \in [Slots -> Snapshot] /\ live \in Content
        /\ pc # "idle" => cur \in Slots
    BY DEF Inductive, TypeOK
  <1>z. \A c \in Clips : Empty[c] = 0
    BY NoMarks
  \* One directory changes, and the step is not the beginning of a copy.
  <1>b. ASSUME NEW x \in Slots, \A t \in Slots \ {x} : snap'[t] = snap[t],
               Tidy(snap'[x]), pc' # "copy"
        PROVE  TidyInv'
    BY <1>b DEF TidyInv
  \* Only markers change.
  <1>m. ASSUME KeepsFiles, \A s \in Slots : snap'[s].checked = snap[s].checked,
               pc' = "copy" => pc = "copy" /\ cur' = cur
        PROVE  TidyInv'
    BY <1>t, <1>m DEF TidyInv, Tidy, KeepsFiles, SameFiles
  <1>1. CASE LeavesStore \/ UNCHANGED vars
    <2>1. snap' = snap
      BY <1>1, StoreLeft DEF vars, diskVars
    <2>2. pc' = "copy" => pc = "copy" /\ cur' = cur
      BY <1>1
      DEF LeavesStore, CarWrites, CarDeletes, RelinkPlace, RelinkDone, MakeScanFails,
          MakeDuplicate, MakeLink, Rebuild, RebuildDone, SetupRerun, ReleaseBegin,
          ReleasePrune, ReleaseRepoint, Sweep, RecoverPick, RecoverSkip, RecoverLock,
          Writeback, vars, runVars, Goto, Idle
    <2> QED
      BY <2>1, <2>2 DEF TidyInv
  <1>2. CASE MakeBegin
    <2>1. BeginEffect
      BY <1>2, MakeBegins DEF Inductive
    <2>2. Tidy(Created) /\ ~Created.checked
      BY <1>z, NoMarks, EmptyDirs DEF Tidy
    <2> QED
      BY <2>1, <2>2 DEF BeginEffect, TidyInv
  <1>3. CASE MakeCopy
    <2>1. cur \in Slots /\ Becomes(cur, Copied(snap[cur], live)) /\ pc' = "mark" /\ pc = "copy"
      BY <1>t, <1>3 DEF MakeCopy, Goto
    <2>2. snap[cur] \in Snapshot
      BY <1>t, <2>1
    <2>3. /\ snap'[cur] = Copied(snap[cur], live)
          /\ \A s \in Slots \ {cur} : snap'[s] = snap[s]
      BY <1>t, <2>1, <2>2, RecordTypes, BecomesType
    <2>4. ~snap'[cur].checked
      BY <1>t, <2>1, <2>2, <2>3, MarkFields DEF TidyInv
    <2>5. CopyEffect
      BY <1>t, <1>3, FileEffects
    <2>6. \A c \in Clips : snap[cur].toc[c] = 0
      BY <2>1 DEF Inductive, CurInv, CurIsPrivate, BeforeCommit
    <2> QED
      BY <1>b, <2>1, <2>3, <2>4, <2>5, <2>6 DEF Tidy, CopyEffect
  <1>4. CASE MakeCopyFails \/ MakeDiscardDir \/ ReleaseDir
    <2>1. cur \in Slots /\ Becomes(cur, NoSnapshot) /\ pc' # "copy"
      BY <1>t, <1>4 DEF MakeCopyFails, MakeDiscardDir, ReleaseDir, Goto, Idle
    <2>2. Tidy(NoSnapshot)
      BY <1>z, NoMarks, EmptyDirs DEF Tidy
    <2> QED
      BY <1>b, <1>t, <2>1, <2>2, RecordTypes, BecomesType
  <1>5. CASE MakeDiscardImage \/ ReleaseImage
    <2>1. cur \in Slots /\ Becomes(cur, Imageless(snap[cur])) /\ pc' # "copy"
      BY <1>t, <1>5 DEF MakeDiscardImage, ReleaseImage, Goto
    <2>2. snap[cur] \in Snapshot
      BY <1>t, <2>1
    <2>3. /\ snap'[cur] = Imageless(snap[cur])
          /\ \A s \in Slots \ {cur} : snap'[s] = snap[s]
      BY <1>t, <2>1, <2>2, RecordTypes, BecomesType
    <2>4. Imageless(snap[cur]).img = Empty /\ ~snap'[cur].bin
      BY <1>t, <1>5, <2>2, MarkFields, FileEffects DEF ImagelessEffect
    <2> QED
      BY <1>b, <1>z, <2>1, <2>3, <2>4 DEF Tidy
  <1>6. CASE MakeCommit
    <2>1. CASE snap' = snap /\ pc' # "copy"
      BY <2>1 DEF TidyInv
    <2>2. CASE Becomes(cur, Indexed(snap[cur])) /\ pc' # "copy"
      <3>1. cur \in Slots /\ snap[cur] \in Snapshot
        BY <1>t, <1>6 DEF MakeCommit
      <3>2. /\ snap'[cur] = Indexed(snap[cur])
            /\ \A s \in Slots \ {cur} : snap'[s] = snap[s]
        BY <1>t, <2>2, <3>1, RecordTypes, BecomesType
      <3>3. /\ Indexed(snap[cur]).checked = snap[cur].checked
            /\ Indexed(snap[cur]).toc = snap[cur].img
            /\ Indexed(snap[cur]).img = snap[cur].img
            /\ Indexed(snap[cur]).bin = snap[cur].bin
        BY <3>1 DEF Indexed, Snapshot
      <3>4. Tidy(snap'[cur])
        BY <3>1, <3>2, <3>3 DEF TidyInv, Tidy
      <3> QED
        BY <1>b, <2>2, <3>1, <3>2, <3>4
    <2> QED
      BY <1>6, <2>1, <2>2 DEF MakeCommit, Goto, Idle
  <1>7. CASE RecoverCommit
    <2> DEFINE r == [Indexed(snap[cur]) EXCEPT !.checked = @ \/ snap[cur].img = Empty]
    <2>1. /\ cur \in Slots /\ Becomes(cur, r) /\ Indexed(snap[cur]) \in Snapshot
          /\ snap[cur] \in Snapshot /\ pc' = "idle"
      BY <1>t, <1>7, RecordTypes DEF RecoverCommit, Idle
    <2>2. r \in Snapshot
      BY <2>1, MarkerTypes
    <2>3. /\ r.checked = (Indexed(snap[cur]).checked \/ snap[cur].img = Empty)
          /\ r.toc = Indexed(snap[cur]).toc /\ r.img = Indexed(snap[cur]).img
          /\ r.bin = Indexed(snap[cur]).bin
      BY <2>1 DEF Snapshot
    <2>4. /\ Indexed(snap[cur]).checked = snap[cur].checked
          /\ Indexed(snap[cur]).toc = snap[cur].img
          /\ Indexed(snap[cur]).img = snap[cur].img
          /\ Indexed(snap[cur]).bin = snap[cur].bin
      BY <2>1 DEF Indexed, Snapshot
    <2> HIDE DEF r
    <2>5. Tidy(r)
      BY <1>z, <2>1, <2>3, <2>4 DEF Tidy, TidyInv
    <2> QED
      BY <1>b, <1>t, <2>1, <2>2, <2>5, BecomesType
  <1>8. CASE ProcessDies \/ PowerCut
    <2>1. StopEffect /\ \A s \in Slots : SameMarks(snap'[s], snap[s])
      BY <1>t, <1>8, FileEffects, StopMarks
    <2>2. pc' = "idle"
      BY <1>8 DEF ProcessDies, PowerCut, Idle
    <2>3. ASSUME NEW s \in Slots PROVE Tidy(snap'[s])
      <3>1. Tidy(snap[s])
        BY DEF TidyInv
      <3>2. pc = "copy" /\ s = cur => \A c \in Clips : snap[s].toc[c] = 0
        BY DEF Inductive, CurInv, CurIsPrivate, BeforeCommit
      <3> QED
        BY <1>z, <2>1, <3>1, <3>2 DEF Tidy, StopEffect, SameMarks
    <2> QED
      BY <2>2, <2>3 DEF TidyInv
  <1>9. CASE WritesMarkers
    <2>1. KeepsFiles
      BY <1>t, <1>9, FilesKept
    <2>2. \A s \in Slots : snap'[s].checked = snap[s].checked
      <3>1. CASE SettleOk
        <4>1. PICK s \in todo : Serves(s)
          BY <1>t, <3>1, MarkerSteps
        <4> QED
          BY <4>1 DEF Serves
      <3>2. CASE MakeFinish
        BY <1>t, <3>2, MarkerSteps
      <3>3. CASE MakeMark \/ SettleBad \/ MakeOwe \/ RecoverScan \/ RecoverFails
        BY <1>t, <3>3, MarkerSteps DEF MarksStay
      <3> QED
        BY <1>9, <3>1, <3>2, <3>3 DEF WritesMarkers
    <2>3. pc' # "copy"
      BY <1>9
      DEF WritesMarkers, MakeMark, SettleOk, SettleBad, MakeOwe, MakeFinish,
          RecoverScan, RecoverFails, Goto, Idle
    <2> QED
      BY <1>m, <2>1, <2>2, <2>3
  <1> QED
    BY <1>1, <1>2, <1>3, <1>4, <1>5, <1>6, <1>7, <1>8, <1>9
    DEF Next, MakeStep, ReleaseStep, RecoverStep, LeavesStore, WritesMarkers
-----------------------------------------------------------------------------
(* What the steps of an operation may rely on. *)

StepInv == UnwrittenInv /\ PendingInv /\ PlacedInv

\* Placing links: every link is as before, leads to the snapshot at hand, or
\* was lost and the outcome is bad.
LEMMA PlaceEffects ==
    ASSUME NEW s \in Slots, NEW fill \in BOOLEAN, Place(s, fill) \/ PlaceFails,
           links \in [Clips -> Slots \cup {None}]
    PROVE  /\ outcome' = "nothing" => links' = links /\ ToPlace(s, fill) = {}
           /\ outcome' # "bad" => \A c \in ToPlace(s, fill) : links'[c] = s
           /\ \A c \in Clips :
                \/ links'[c] = links[c]
                \/ links'[c] = s /\ c \in Holds(s) /\ outcome' # "nothing"
                \/ links'[c] = None /\ c \in Holds(s) /\ (pc = "rebuild" => c \in torn')
           /\ torn \subseteq torn' /\ (pc # "rebuild" => torn' = torn)
  <1>1. CASE PlaceFails
    BY <1>1 DEF PlaceFails
  <1>2. CASE Place(s, fill)
    <2>1. PICK bad \in SUBSET ToPlace(s, fill) : \E lost \in SUBSET bad : Place(s, fill)!(bad)!(lost)
      BY <1>2 DEF Place
    <2>2. PICK lost \in SUBSET bad : Place(s, fill)!(bad)!(lost)
      BY <2>1
    <2>3. /\ links' = [c \in Clips |-> IF c \in ToPlace(s, fill) \ bad THEN s
                                       ELSE IF c \in lost THEN None ELSE links[c]]
          /\ torn' = IF pc = "rebuild" THEN torn \cup lost ELSE torn
          /\ outcome' = "nothing" => bad = {} /\ ToPlace(s, fill) = {}
          /\ outcome' # "bad" => bad = {}
          /\ ToPlace(s, fill) # {} => outcome' # "nothing"
      BY <2>2
    <2>4. ToPlace(s, fill) \subseteq Holds(s) /\ Holds(s) \subseteq Clips
      BY DEF ToPlace, Holds
    <2>5. outcome' = "nothing" => links' = links /\ ToPlace(s, fill) = {}
      BY <2>3
    <2>6. outcome' # "bad" => \A c \in ToPlace(s, fill) : links'[c] = s
      BY <2>3, <2>4
    <2>7. ASSUME NEW c \in Clips
          PROVE  \/ links'[c] = links[c]
                 \/ links'[c] = s /\ c \in Holds(s) /\ outcome' # "nothing"
                 \/ links'[c] = None /\ c \in Holds(s) /\ (pc = "rebuild" => c \in torn')
      BY <2>3, <2>4
    <2>8. torn \subseteq torn' /\ (pc # "rebuild" => torn' = torn)
      BY <2>3
    <2> QED
      BY <2>5, <2>6, <2>7, <2>8
  <1> QED
    BY <1>1, <1>2

\* There is one highest slot.
LEMMA OneMax ==
    ASSUME NEW S \in SUBSET Slots, NEW s, NEW t, IsMax(s, S), IsMax(t, S)
    PROVE  s = t
  <1>1. s \in Slots /\ t \in Slots /\ s <= t /\ t <= s
    BY DEF IsMax
  <1>2. s \in Int /\ t \in Int
    BY <1>1, SlotsAreNumbers
  <1> QED
    BY <1>1, <1>2

\* A debt stays when the marks do and the TOC is as it was.
LEMMA DebtStays ==
    ASSUME NEW s \in Slots, SameFiles(snap'[s], snap[s]), MarksStay(snap'[s], snap[s]), Debt(s)
    PROVE  Debt(s)'
  BY DEF Debt, TocLost, SameFiles, MarksStay

\* What the steps rely on keeps holding.
LEMMA StepKept == Inductive /\ StepInv /\ [Next]_vars => StepInv'
  <1> SUFFICES ASSUME Inductive, StepInv, [Next]_vars PROVE StepInv'
    OBVIOUS
  <1>t. /\ TypeOK /\ snap \in [Slots -> Snapshot]
        /\ pc # "idle" => cur \in Slots
        /\ todo \in SUBSET Slots /\ links \in [Clips -> Slots \cup {None}]
        /\ marked \in BOOLEAN
    BY DEF Inductive, TypeOK
  <1>1. CASE pc' = "idle"
    BY <1>1 DEF StepInv, UnwrittenInv, PendingInv, PlacedInv, Making, BeforeCommit
  <1>2. CASE /\ UNCHANGED <<snap, links, durable, torn, marked>>
             /\ UNCHANGED <<pc, cur, todo, outcome>>
    BY <1>2
    DEF StepInv, UnwrittenInv, PendingInv, PlacedInv, Making, BeforeCommit, Debt,
        TocLost, Holds, Has, Linked
  <1>3. CASE Writeback
    <2>1. /\ UNCHANGED <<snap, links, torn, marked, pc, cur, todo, outcome>>
          /\ durable' = links
      BY <1>3 DEF Writeback, tmpVars, runVars
    <2> QED
      BY <2>1
      DEF StepInv, UnwrittenInv, PendingInv, PlacedInv, Making, BeforeCommit,
          Holds, Has, Linked
  <1>4. CASE MakeBegin
    <2>1. pc' = "copy" /\ UNCHANGED <<links, durable>> /\ links = durable
      BY <1>4 DEF MakeBegin, farmVars
    <2> QED
      BY <2>1 DEF StepInv, UnwrittenInv, PendingInv, PlacedInv, Making, BeforeCommit
  <1>5. CASE MakeCopy
    <2>1. pc = "copy" /\ pc' = "mark" /\ UNCHANGED <<links, durable>>
      BY <1>5 DEF MakeCopy, Goto, farmVars
    <2> QED
      BY <2>1 DEF StepInv, UnwrittenInv, PendingInv, PlacedInv, Making, BeforeCommit
  <1>6. CASE MakeMark
    <2>1. /\ pc = "mark" /\ pc' = "relink" /\ marked' = TRUE
          /\ UNCHANGED <<links, durable>> /\ todo' = Picks(snap')
      BY <1>6 DEF MakeMark, farmVars
    <2>2. \A s \in todo' : snap'[s].pending
      BY <2>1 DEF Picks
    <2>3. \A c \in Clips : links'[c] = durable'[c]
      BY <2>1 DEF StepInv, UnwrittenInv
    <2> QED
      BY <2>1, <2>2, <2>3 DEF StepInv, UnwrittenInv, PendingInv, PlacedInv
  <1>7. CASE RelinkPlace
    <2>1. PICK s \in todo : IsMax(s, todo) /\ (Place(s, ~Newest(s)) \/ PlaceFails)
      BY <1>7 DEF RelinkPlace
    <2>2. /\ pc = "relink" /\ pc' = "settle"
          /\ UNCHANGED <<snap, durable, marked, todo, cur>>
      BY <1>7 DEF RelinkPlace, diskVars, tmpVars
    <2>3. s \in Slots /\ (~Newest(s)) \in BOOLEAN
      BY <1>t
    <2>4. /\ outcome' = "nothing" => links' = links /\ ToPlace(s, ~Newest(s)) = {}
          /\ \A c \in Clips :
               \/ links'[c] = links[c]
               \/ links'[c] = s /\ c \in Holds(s) /\ outcome' # "nothing"
               \/ links'[c] = None
          /\ torn' = torn
      BY <1>t, <2>1, <2>2, <2>3, PlaceEffects
    <2>5. \A x \in todo : snap[x].pending
      BY <2>2 DEF StepInv, PendingInv
    <2>6. ASSUME NEW c \in Clips, links'[c] \notin {None, durable'[c]}, c \notin torn'
          PROVE  /\ Debt(links[c])'
                 /\ (links[c] \in todo)' => outcome' # "nothing" /\ IsMax(links[c], todo)'
      <3>1. CASE links'[c] = links[c]
        <4>1. Debt(links[c]) /\ links[c] \notin todo
          BY <2>2, <2>4, <2>6, <3>1 DEF StepInv, UnwrittenInv
        <4>2. Debt(links[c])'
          BY <4>1, <2>2, <3>1 DEF Debt, TocLost
        <4> QED
          BY <2>2, <3>1, <4>1, <4>2
      <3>2. CASE links'[c] = s /\ outcome' # "nothing"
        <4>1. snap'[links'[c]].pending
          BY <2>2, <2>5, <3>2
        <4> QED
          BY <2>1, <2>2, <3>2, <4>1 DEF Debt, IsMax
      <3> QED
        BY <2>4, <2>6, <3>1, <3>2
    <2>7. ASSUME outcome' = "nothing", NEW x \in todo', IsMax(x, todo')
          PROVE  \A c \in Holds(x)' : links'[c] # None
      <3>1. x = s
        BY <1>t, <2>1, <2>2, <2>7, OneMax
      <3>2. Holds(x)' = Holds(s)
        BY <2>2, <3>1 DEF Holds
      <3>3. \A c \in Holds(s) : links[c] # None
        BY <2>4, <2>7 DEF ToPlace
      <3> QED
        BY <2>4, <2>7, <3>2, <3>3
    <2> QED
      BY <2>2, <2>5, <2>6, <2>7
      DEF StepInv, UnwrittenInv, PendingInv, PlacedInv, Making, BeforeCommit
  <1>8. CASE SettleOk \/ SettleBad
    <2>1. /\ pc = "settle" /\ pc' = "relink" /\ KeepsFiles
          /\ UNCHANGED <<links, durable, torn, marked>>
      BY <1>8, <1>t, FilesKept
      DEF SettleOk, SettleBad, farmVars, tmpVars, history, WritesMarkers
    <2>2. PICK s \in todo : /\ Serves(s)
                            /\ outcome # "nothing" => MarksStay(snap'[s], snap[s])
      <3>1. CASE SettleOk
        <4>1. outcome \in {"made", "nothing"}
          BY <1>t, <3>1 DEF SettleOk, TypeOK
        <4> QED
          BY <1>t, <3>1, <4>1, MarkerSteps
      <3>2. CASE SettleBad
        BY <1>t, <3>2, MarkerSteps
      <3> QED
        BY <1>8, <3>1, <3>2
    <2>3. \A x \in todo' : x \in todo /\ x # s /\ x \in Slots /\ snap'[x] = snap[x]
      BY <1>t, <2>2 DEF Serves
    <2>4. \A x \in todo' : snap'[x].pending
      BY <2>1, <2>3 DEF StepInv, PendingInv
    <2>5. ASSUME NEW c \in Clips, links[c] \notin {None, durable[c]}, c \notin torn
          PROVE  Debt(links[c])' /\ links[c] \notin todo'
      <3>1. /\ Debt(links[c])
            /\ links[c] \in todo => outcome # "nothing" /\ IsMax(links[c], todo)
        BY <2>1, <2>5 DEF StepInv, UnwrittenInv
      <3>2. links[c] \in Slots
        BY <1>t, <2>5
      <3>3. links[c] \in todo => links[c] = s
        BY <1>t, <2>2, <3>1, OneMax DEF Serves
      <3>4. CASE links[c] = s
        <4>1. MarksStay(snap'[s], snap[s]) /\ s \in Slots /\ SameFiles(snap'[s], snap[s])
          BY <2>1, <2>2, <3>1, <3>4, <3>2 DEF KeepsFiles
        <4>2. Debt(s)'
          BY <3>1, <3>4, <4>1, DebtStays
        <4> QED
          BY <2>1, <2>3, <3>4, <4>2 DEF Debt, TocLost
      <3>5. CASE links[c] # s
        <4>1. snap'[links[c]] = snap[links[c]]
          BY <2>2, <3>2, <3>5 DEF Serves
        <4> QED
          BY <2>1, <2>3, <3>1, <3>3, <3>5, <4>1 DEF Debt, TocLost
      <3> QED
        BY <3>4, <3>5
    <2>6. marked'
      BY <2>1 DEF StepInv, PendingInv, Making, BeforeCommit
    <2> QED
      BY <2>1, <2>4, <2>5, <2>6 DEF StepInv, UnwrittenInv, PendingInv, PlacedInv, Debt, TocLost
  <1>9. CASE RelinkDone \/ MakeDuplicate \/ MakeDiscardImage
    <2>1. /\ pc \in {"relink", "scan", "discard"} /\ pc' \in {"scan", "discard", "discardDir"}
          /\ UNCHANGED marked
      BY <1>9 DEF RelinkDone, MakeDuplicate, MakeDiscardImage, Goto, tmpVars
    <2> QED
      BY <2>1 DEF StepInv, UnwrittenInv, PendingInv, PlacedInv, Making, BeforeCommit
  <1>10. CASE MakeOwe /\ pc' # "idle"
    <2>1. /\ pc = "scan" /\ pc' = "commit" /\ cur' = cur /\ UNCHANGED marked
          /\ Becomes(cur, Owing(snap[cur])) /\ cur \in Slots
      BY <1>10, <1>t DEF MakeOwe, Goto, Idle, tmpVars
    <2>2. snap[cur] \in Snapshot
      BY <1>t, <2>1
    <2>3. snap'[cur].pending
      <3>1. snap'[cur] = Owing(snap[cur])
        BY <1>t, <2>1, <2>2, BecomesType, RecordTypes
      <3>2. Owing(snap[cur]).pending = TRUE
        BY <2>2, MarkFields
      <3> QED
        BY <3>1, <3>2
    <2> QED
      BY <2>1, <2>3 DEF StepInv, UnwrittenInv, PendingInv, PlacedInv, Making, BeforeCommit
  <1>11. CASE MakeCommit /\ pc' # "idle"
    <2>1. /\ pc = "commit" /\ pc' = "link" /\ cur' = cur /\ UNCHANGED marked
          /\ Becomes(cur, Indexed(snap[cur])) /\ cur \in Slots
      BY <1>11, <1>t DEF MakeCommit, Goto, Idle, tmpVars
    <2>2. snap[cur] \in Snapshot
      BY <1>t, <2>1
    <2>3. snap'[cur].pending
      <3>1. snap'[cur] = Indexed(snap[cur])
        BY <1>t, <2>1, <2>2, BecomesType, RecordTypes
      <3>2. Indexed(snap[cur]).pending = snap[cur].pending
        BY <2>2, MarkFields DEF SameMarks
      <3> QED
        BY <2>1, <3>1, <3>2 DEF StepInv, PendingInv
    <2> QED
      BY <2>1, <2>3 DEF StepInv, UnwrittenInv, PendingInv, PlacedInv, Making, BeforeCommit
  <1>12. CASE MakeLink
    <2>1. /\ pc = "link" /\ pc' = "finish" /\ UNCHANGED <<snap, cur, marked>> /\ cur \in Slots
          /\ Place(cur, FALSE) \/ PlaceFails
      BY <1>12, <1>t DEF MakeLink, diskVars, tmpVars
    <2>2. outcome' # "bad" => \A c \in Holds(cur) : links'[c] = cur
      BY <1>t, <2>1, PlaceEffects DEF ToPlace
    <2>3. Holds(cur)' = Holds(cur) /\ snap'[cur].pending /\ marked'
      BY <2>1 DEF Holds, StepInv, PendingInv, Making, BeforeCommit
    <2> QED
      BY <2>1, <2>2, <2>3 DEF StepInv, UnwrittenInv, PendingInv, PlacedInv
  <1>13. CASE (MakeFinish \/ Rebuild) /\ pc' # "idle"
    <2>1. pc \in {"finish", "rebuild"} /\ pc' = "rebuild" /\ UNCHANGED marked
      BY <1>13 DEF MakeFinish, Rebuild, Idle, tmpVars
    <2> QED
      BY <2>1 DEF StepInv, UnwrittenInv, PendingInv, PlacedInv, Making, BeforeCommit
  <1>14. ASSUME NEW s \in Slots, ReleaseBegin(s)
         PROVE  StepInv'
    <2>1. /\ pc' = "unlink" /\ cur' = s /\ UNCHANGED <<snap, links>>
          /\ torn' = torn \cup {c \in Holds(s) : ~Linked(c)}
      BY <1>14 DEF ReleaseBegin, diskVars, farmVars
    <2>2. ASSUME NEW c \in Clips, Has(s, c)'
          PROVE  Linked(c)' \/ c \in torn'
      BY <2>1, <2>2 DEF Has, Holds, Linked
    <2> QED
      BY <2>1, <2>2
      DEF StepInv, UnwrittenInv, PendingInv, PlacedInv, Making, BeforeCommit, Has
  <1>15. CASE \/ ReleaseImage \/ ReleaseDir \/ ReleasePrune \/ RecoverLock
    <2>1. pc' \in {"idle", "rmdir", "prune", "repoint", "recoverScan"}
      BY <1>15 DEF ReleaseImage, ReleaseDir, ReleasePrune, RecoverLock, Goto, Idle
    <2> QED
      BY <2>1 DEF StepInv, UnwrittenInv, PendingInv, PlacedInv, Making, BeforeCommit
  <1>16. CASE RecoverScan
    <2>1. /\ pc' = "recoverCommit" /\ cur' = cur /\ cur \in Slots
          /\ Becomes(cur, IF snap[cur].img = Empty THEN snap[cur] ELSE Owing(snap[cur]))
      BY <1>16, <1>t DEF RecoverScan, Goto
    <2>2. snap[cur] \in Snapshot
      BY <1>t, <2>1
    <2>3. Holds(cur)' # {} => snap'[cur].pending
      <3>1. CASE snap[cur].img = Empty
        <4>1. snap'[cur].img = Empty
          BY <1>t, <2>1, <2>2, <3>1, BecomesType
        <4> QED
          BY <2>1, <4>1, NoMarks DEF Holds
      <3>2. CASE snap[cur].img # Empty
        <4>1. snap'[cur] = Owing(snap[cur])
          BY <1>t, <2>1, <2>2, <3>2, BecomesType, RecordTypes
        <4>2. Owing(snap[cur]).pending = TRUE
          BY <2>2, MarkFields
        <4> QED
          BY <4>1, <4>2
      <3> QED
        BY <3>1, <3>2
    <2> QED
      BY <2>1, <2>3 DEF StepInv, UnwrittenInv, PendingInv, PlacedInv, Making, BeforeCommit
  <1>23. ASSUME \/ MakeCopyFails \/ MakeScanFails \/ MakeDiscardDir \/ RebuildDone
                \/ ReleaseRepoint \/ Sweep \/ RecoverCommit \/ RecoverFails
                \/ ProcessDies \/ PowerCut
         PROVE  pc' = "idle"
    BY <1>23 DEF MakeCopyFails, MakeScanFails, MakeDiscardDir, RebuildDone,
       ReleaseRepoint, Sweep, RecoverCommit, RecoverFails, ProcessDies, PowerCut,
       Idle, runVars
  <1>24. ASSUME \/ \E c \in Clips : CarWrites(c) \/ CarDeletes(c)
                \/ SetupRerun \/ RecoverPick \/ RecoverSkip \/ UNCHANGED vars
         PROVE  /\ UNCHANGED <<snap, links, durable, torn, marked>>
                /\ UNCHANGED <<pc, cur, todo, outcome>>
    BY <1>24 DEF CarWrites, CarDeletes, SetupRerun, RecoverPick, RecoverSkip,
       vars, diskVars, farmVars, tmpVars, runVars, history
  <1> QED
    BY <1>1, <1>2, <1>3, <1>4, <1>5, <1>6, <1>7, <1>8, <1>9, <1>10, <1>11,
       <1>12, <1>13, <1>14, <1>15, <1>16, <1>23, <1>24
    DEF Next, MakeStep, ReleaseStep, RecoverStep
-----------------------------------------------------------------------------
(* How the debts are carried over a step. *)

\* No copy of the clip is lost, and a new one comes with a debt.
Carries(c) ==
    /\ c \in torn => c \in torn'
    /\ \A s \in Slots : Keeps(s, c)' => Kept(c) \/ Debt(s)' \/ c \in torn'
    /\ \A s \in Slots : Keeps(s, c) => Keeps(s, c)' /\ (s \in slipped => s \in slipped')

\* A link is owed after a step that carries the clip if whatever led to it or
\* was due before still is.
LEMMA LinkCarried ==
    ASSUME NEW c \in Clips, TypeOK, LinkIsOwed(c), Carries(c),
           Reaches(c) => LinkIsOwed(c)',
           Planned(c) => LinkIsOwed(c)',
           \A s \in Slots : Keeps(s, c) /\ Due(s)
              => Due(s)' \/ s \in slipped' \/ LinkIsOwed(c)'
    PROVE  LinkIsOwed(c)'
  <1> SUFFICES ASSUME Kept(c)', ~Excused(c)', ~LinkIsOwed(c)'
               PROVE  Reaches(c)' \/ Planned(c)' \/ LinkDue(c)'
    BY DEF LinkIsOwed
  <1>1. c \notin torn' /\ c \notin torn
    BY DEF Excused, Carries
  <1>2. PICK s \in Slots : Keeps(s, c)'
    BY DEF Kept
  <1>3. CASE Debt(s)'
    BY <1>2, <1>3 DEF LinkDue, Due
  <1>4. CASE Kept(c)
    <2>1. ~Excused(c)
      <3> SUFFICES ASSUME NEW x \in slipped, Keeps(x, c) PROVE FALSE
        BY <1>1 DEF Excused
      <3>1. x \in Slots
        BY DEF TypeOK
      <3>2. x \in slipped' /\ Keeps(x, c)'
        BY <3>1 DEF Carries
      <3> QED
        BY <3>2 DEF Excused
    <2>2. PICK x \in Slots : Keeps(x, c) /\ Due(x)
      BY <1>4, <2>1 DEF LinkIsOwed, LinkDue
    <2>3. Keeps(x, c)'
      BY <2>2 DEF Carries
    <2>4. x \notin slipped'
      BY <2>3 DEF Excused
    <2> QED
      BY <2>2, <2>3, <2>4 DEF LinkDue
  <1> QED
    BY <1>1, <1>2, <1>3, <1>4 DEF Carries

\* The same for the link that a power cut would bring back.
LEMMA LossCarried ==
    ASSUME NEW c \in Clips, TypeOK, LossIsOwed(c), Carries(c),
           c \in moved => c \in moved' \/ c \in torn',
           OnDisk(c) => LossIsOwed(c)',
           \A s \in Slots : Keeps(s, c) /\ DueAfterCut(s)
              => DueAfterCut(s)' \/ s \in slipped' \/ LossIsOwed(c)'
    PROVE  LossIsOwed(c)'
  <1> SUFFICES ASSUME Kept(c)', ~Excused(c)', c \notin moved', ~LossIsOwed(c)'
               PROVE  OnDisk(c)' \/ LossDue(c)'
    BY DEF LossIsOwed
  <1>1. c \notin torn' /\ c \notin torn /\ c \notin moved
    BY DEF Excused, Carries
  <1>2. PICK s \in Slots : Keeps(s, c)'
    BY DEF Kept
  <1>3. CASE Debt(s)'
    BY <1>2, <1>3 DEF LossDue, DueAfterCut, Due
  <1>4. CASE Kept(c)
    <2>1. ~Excused(c)
      <3> SUFFICES ASSUME NEW x \in slipped, Keeps(x, c) PROVE FALSE
        BY <1>1 DEF Excused
      <3>1. x \in Slots
        BY DEF TypeOK
      <3>2. x \in slipped' /\ Keeps(x, c)'
        BY <3>1 DEF Carries
      <3> QED
        BY <3>2 DEF Excused
    <2>2. PICK x \in Slots : Keeps(x, c) /\ DueAfterCut(x)
      BY <1>1, <1>4, <2>1 DEF LossIsOwed, LossDue
    <2>3. Keeps(x, c)'
      BY <2>2 DEF Carries
    <2>4. x \notin slipped'
      BY <2>3 DEF Excused
    <2> QED
      BY <2>2, <2>3, <2>4 DEF LossDue
  <1> QED
    BY <1>1, <1>2, <1>3, <1>4 DEF Carries

\* What holds of the link holds of the one on disk if they are the same.
LEMMA LossFromLink ==
    ASSUME NEW c \in Clips, links'[c] = durable'[c], LinkIsOwed(c)'
    PROVE  LossIsOwed(c)'
  BY DEF LinkIsOwed, LossIsOwed, Planned, Reaches, OnDisk, LinkDue, LossDue, DueAfterCut

\* The newest committed snapshot stays the newest unless a newer one commits.
LEMMA NewestStays ==
    ASSUME NEW s \in Slots, Committed(s)',
           \A t \in Slots : Committed(t)' => Committed(t) \/ t <= s,
           Newest(s)
    PROVE  Newest(s)'
  BY DEF Newest, IsMax, CommittedSlots

\* The top slot stays the top one unless a higher directory is made.
LEMMA TopStays ==
    ASSUME NEW s \in Slots, IsTop(s),
           \A t \in Slots : snap'[t].dir => snap[t].dir \/ t <= s
    PROVE  IsTop(s)'
  BY DEF IsTop

Owed(c) == LinkIsOwed(c) /\ LossIsOwed(c)

\* A step that leaves the farm alone carries both.
LEMMA FarmLeft ==
    ASSUME NEW c \in Clips, TypeOK, Owed(c), Carries(c), UNCHANGED <<links, durable>>,
           c \in moved => c \in moved' \/ c \in torn',
           Planned(c) => LinkIsOwed(c)',
           \A s \in Slots : Keeps(s, c) /\ Debt(s) => Debt(s)' \/ s \in slipped',
           \A s \in Slots : Keeps(s, c) /\ Newest(s) /\ ~marked => Due(s)' \/ s \in slipped',
           \A s \in Slots : Keeps(s, c) /\ Newest(s) /\ IsTop(s)
              => DueAfterCut(s)' \/ s \in slipped'
    PROVE  Owed(c)'
  <1>t. /\ links \in [Clips -> Slots \cup {None}]
        /\ durable \in [Clips -> Slots \cup {None}]
    BY DEF TypeOK
  <1>1. Reaches(c) => Reaches(c)'
    <2> SUFFICES ASSUME Reaches(c) PROVE Reaches(c)'
      OBVIOUS
    <2>1. links[c] \in Slots /\ Keeps(links[c], c)
      BY <1>t DEF Reaches
    <2>2. PICK s \in Slots : s = links[c]
      BY <2>1
    <2>3. Keeps(s, c)'
      BY <2>1, <2>2 DEF Carries
    <2>4. s = links'[c] /\ s # None
      BY <2>2, SlotsAreNumbers
    <2> QED
      BY <2>3, <2>4 DEF Reaches
  <1>2. OnDisk(c) => OnDisk(c)'
    <2> SUFFICES ASSUME OnDisk(c) PROVE OnDisk(c)'
      OBVIOUS
    <2>1. durable[c] \in Slots /\ Keeps(durable[c], c)
      BY <1>t DEF OnDisk
    <2>2. PICK s \in Slots : s = durable[c]
      BY <2>1
    <2>3. Keeps(s, c)'
      BY <2>1, <2>2 DEF Carries
    <2>4. s = durable'[c] /\ s # None
      BY <2>2, SlotsAreNumbers
    <2> QED
      BY <2>3, <2>4 DEF OnDisk
  <1>3. LinkIsOwed(c)'
    BY <1>1, LinkCarried DEF Owed, Due, LinkIsOwed
  <1>4. LossIsOwed(c)'
    BY <1>2, LossCarried DEF Owed, Due, DueAfterCut, LossIsOwed
  <1> QED
    BY <1>3, <1>4 DEF Owed
\* Outside a release, a step that keeps the files and the debts carries both if
\* the slot that starts to answer for its clips has a debt.
LEMMA FilesStay ==
    ASSUME NEW c \in Clips, TypeOK, Owed(c), KeepsFiles,
           UNCHANGED <<links, durable, torn, moved, slipped, marked>>, ~Releasing,
           \A s \in Slots : Debt(s) => Debt(s)',
           \A s \in Slots : Exempt(s)' => Exempt(s),
           \A s \in Slots : Exempt(s) => Exempt(s)' \/ Debt(s)'
    PROVE  Owed(c)'
  <1>1. \A s \in Slots : Has(s, c)' = Has(s, c)
    BY DEF KeepsFiles, SameFiles, Has
  <1>2. Carries(c)
    BY <1>1 DEF Carries, Keeps, Kept
  <1>3. \A s \in Slots : Committed(s)' = Committed(s) /\ snap'[s].dir = snap[s].dir
    BY DEF KeepsFiles, SameFiles, Committed
  <1>4. \A s \in Slots : Newest(s) => Newest(s)'
    BY <1>3, NewestStays DEF Newest, IsMax, CommittedSlots
  <1>5. \A s \in Slots : IsTop(s) => IsTop(s)'
    BY <1>3, TopStays
  <1>6. ~Planned(c)
    BY DEF Planned
  <1>7. \A s \in Slots : Newest(s) /\ ~marked => Due(s)'
    BY <1>4 DEF Due
  <1>8. \A s \in Slots : Newest(s) /\ IsTop(s) => DueAfterCut(s)'
    BY <1>4, <1>5 DEF DueAfterCut
  <1> QED
    BY <1>2, <1>6, <1>7, <1>8, FarmLeft

\* The slot being filled has no TOC yet.
LEMMA FilledSlotOwes ==
    ASSUME Inductive, NEW s \in Slots, BeforeCommit, s = cur,
           snap'[s].hasToc => snap[s].hasToc
    PROVE  Debt(s)'
  BY DEF Inductive, CurInv, CurIsPrivate, Debt, TocLost

\* Steps that write or strike no debt but one that is kept in another way.
LEMMA MarkersOwed ==
    ASSUME NEW c \in Clips, Inductive, Owed(c),
           \/ SettleBad \/ MakeOwe \/ MakeScanFails \/ RecoverScan \/ RecoverFails
           \/ RelinkDone \/ MakeDuplicate \/ RecoverLock \/ RebuildDone
           \/ (MakeCommit /\ pc' = "idle")
    PROVE  Owed(c)'
  <1>t. TypeOK
    BY DEF Inductive
  <1>1. UNCHANGED <<links, durable, torn, moved, slipped, marked>>
    BY DEF SettleBad, MakeOwe, MakeScanFails, RecoverScan, RecoverFails, RelinkDone,
       MakeDuplicate, RecoverLock, RebuildDone, MakeCommit, farmVars, history, tmpVars
  <1>2. KeepsFiles /\ \A s \in Slots : MarksStay(snap'[s], snap[s])
    <2>1. CASE SettleBad \/ MakeOwe \/ RecoverScan \/ RecoverFails
      BY <1>t, <2>1, FilesKept, MarkerSteps DEF WritesMarkers
    <2>2. CASE snap' = snap
      BY <2>2 DEF KeepsFiles, SameFiles, MarksStay
    <2> QED
      BY <2>1, <2>2 DEF MakeScanFails, RelinkDone, MakeDuplicate, RecoverLock, RebuildDone,
         MakeCommit, Goto, diskVars
  <1>3. \A s \in Slots : Debt(s) => Debt(s)'
    BY <1>2, DebtStays DEF KeepsFiles
  <1>4. /\ ~Releasing
        /\ BeforeCommit' => BeforeCommit /\ cur' = cur
        /\ ~Releasing'
    BY DEF SettleBad, MakeOwe, MakeScanFails, RecoverScan, RecoverFails, RelinkDone,
       MakeDuplicate, RecoverLock, RebuildDone, MakeCommit, Goto, Idle, BeforeCommit,
       Releasing
  <1>5. \A s \in Slots : Exempt(s)' => Exempt(s)
    BY <1>4 DEF Exempt
  <1>6. ASSUME NEW s \in Slots, Exempt(s)
        PROVE  Debt(s)'
    BY <1>2, <1>4, <1>6, FilledSlotOwes DEF Exempt, KeepsFiles, SameFiles
  <1> QED
    BY <1>t, <1>1, <1>2, <1>3, <1>4, <1>5, <1>6, FilesStay

\* Steps that touch neither the store nor the farm.
LEMMA QuietOwed ==
    ASSUME NEW c \in Clips, Owed(c),
           UNCHANGED <<snap, links, durable, torn, moved, slipped, marked>>,
           UNCHANGED <<pc, cur, plan>>
    PROVE  Owed(c)'
  <1>1. \A s : /\ Keeps(s, c)' = Keeps(s, c) /\ Debt(s)' = Debt(s)
               /\ Newest(s)' = Newest(s) /\ IsTop(s)' = IsTop(s)
    BY DEF Keeps, Has, Exempt, BeforeCommit, Releasing, Debt, TocLost, Newest, IsMax,
       CommittedSlots, Committed, IsTop
  <1> QED
    BY <1>1 DEF Owed, LinkIsOwed, LossIsOwed, Kept, Excused, Reaches, OnDisk, Planned,
       Releasing, LinkDue, LossDue, DueAfterCut, Due
\* A step on the slot being filled or taken away, which answers for no clip.
LEMMA ExemptOwed ==
    ASSUME NEW c \in Clips, TypeOK, Owed(c), NEW x \in Slots, Exempt(x),
           UNCHANGED <<links, durable, torn, moved, slipped, marked>>,
           \A t \in Slots \ {x} : snap'[t] = snap[t],
           snap'[x].bin /\ snap'[x].hasToc => Committed(x),
           snap'[x].dir => snap[x].dir,
           Exempt(x)' \/ ~snap'[x].bin,
           \A s \in Slots : Exempt(s)' => s = x,
           Releasing => Releasing' /\ pc # "repoint" /\ UNCHANGED <<cur, plan>>
    PROVE  Owed(c)'
  <1>1. ~Keeps(x, c) /\ ~Keeps(x, c)'
    BY DEF Keeps, Has
  <1>2. \A s \in Slots \ {x} : Keeps(s, c)' = Keeps(s, c)
    <2>1. \A s \in Slots \ {x} : ~Exempt(s) /\ ~Exempt(s)'
      BY DEF Exempt
    <2> QED
      BY <2>1 DEF Keeps, Has
  <1>3. Carries(c)
    BY <1>1, <1>2 DEF Carries, Kept
  <1>4. \A s \in Slots \ {x} : Debt(s) = Debt(s)'
    BY DEF Debt, TocLost
  <1>5. \A s \in Slots : Committed(s)' => Committed(s)
    BY DEF Committed
  <1>6. ASSUME NEW s \in Slots \ {x}, Newest(s) PROVE Newest(s)'
    <2>1. Committed(s)'
      BY <1>6 DEF Newest, IsMax, CommittedSlots, Committed
    <2> QED
      BY <1>5, <1>6, <2>1, NewestStays
  <1>7. \A s \in Slots : IsTop(s) => IsTop(s)'
    BY TopStays
  <1>8. Planned(c) => Planned(c)'
    BY <1>1, <1>2, <1>4 DEF Planned
  <1>9. \A s \in Slots : Keeps(s, c) /\ Debt(s) => Debt(s)'
    BY <1>1, <1>4
  <1>10. \A s \in Slots : Keeps(s, c) /\ Newest(s) /\ ~marked => Due(s)'
    BY <1>1, <1>6 DEF Due
  <1>11. \A s \in Slots : Keeps(s, c) /\ Newest(s) /\ IsTop(s) => DueAfterCut(s)'
    BY <1>1, <1>6, <1>7 DEF DueAfterCut
  <1>12. Planned(c) => LinkIsOwed(c)'
    BY <1>8 DEF LinkIsOwed
  <1> QED
    BY <1>3, <1>9, <1>10, <1>11, <1>12, FarmLeft

\* These are such steps.
LEMMA SlotStepsOwed ==
    ASSUME NEW c \in Clips, Inductive, Owed(c),
           \/ MakeCopy \/ MakeCopyFails \/ MakeDiscardImage \/ MakeDiscardDir
           \/ ReleaseImage \/ ReleaseDir
    PROVE  Owed(c)'
  <1>t. TypeOK /\ snap \in [Slots -> Snapshot] /\ live \in Content
    BY DEF Inductive, TypeOK
  <1>1. /\ UNCHANGED <<links, durable, torn, moved, slipped, marked>>
        /\ cur \in Slots
    BY <1>t DEF MakeCopy, MakeCopyFails, MakeDiscardImage, MakeDiscardDir, ReleaseImage,
       ReleaseDir, farmVars, history, tmpVars, TypeOK
  <1>2. PICK x \in Slots : x = cur
    BY <1>1
  <1>3. /\ BeforeCommit \/ Releasing
        /\ Releasing => Releasing' /\ pc # "repoint" /\ UNCHANGED <<cur, plan>>
        /\ cur' = cur \/ (~BeforeCommit' /\ ~Releasing')
        /\ MakeCopy \/ MakeDiscardImage \/ ReleaseImage =>
             cur' = cur /\ (BeforeCommit' \/ Releasing')
    BY DEF MakeCopy, MakeCopyFails, MakeDiscardImage, MakeDiscardDir, ReleaseImage,
       ReleaseDir, Goto, Idle, BeforeCommit, Releasing
  <1>4. Exempt(x) /\ \A s \in Slots : Exempt(s)' => s = x
    BY <1>2, <1>3 DEF Exempt
  <1>5. PICK r \in Snapshot : Becomes(x, r)
    BY <1>t, <1>2, RecordTypes DEF MakeCopy, MakeCopyFails, MakeDiscardImage,
       MakeDiscardDir, ReleaseImage, ReleaseDir
  <1>6. \A t \in Slots \ {x} : snap'[t] = snap[t]
    BY <1>t, <1>5, BecomesType
  <1>7. /\ snap'[x].bin /\ snap'[x].hasToc => Committed(x)
        /\ snap'[x].dir => snap[x].dir
        /\ Exempt(x)' \/ ~snap'[x].bin
    <2>1. CASE MakeCopy
      <3>1. CopyEffect /\ ~snap[x].hasToc
        BY <1>t, <1>2, <2>1, FileEffects
        DEF Inductive, CurInv, CurIsPrivate, MakeCopy, BeforeCommit
      <3>2. Exempt(x)'
        BY <1>2, <1>3, <2>1 DEF Exempt
      <3> QED
        BY <1>2, <3>1, <3>2 DEF CopyEffect
    <2>2. CASE MakeCopyFails \/ MakeDiscardDir \/ ReleaseDir
      <3>1. GoneEffect
        BY <1>t, <2>2, FileEffects
      <3> QED
        BY <1>2, <3>1, EmptyDirs DEF GoneEffect
    <2>3. CASE MakeDiscardImage \/ ReleaseImage
      <3>1. ImagelessEffect
        BY <1>t, <2>3, FileEffects
      <3> QED
        BY <1>2, <3>1 DEF ImagelessEffect
    <2> QED
      BY <2>1, <2>2, <2>3
  <1> QED
    BY <1>t, <1>1, <1>3, <1>4, <1>6, <1>7, ExemptOwed

\* make_snapshot begins with the links on disk, in a slot without an image.
LEMMA BeginOwed ==
    ASSUME NEW c \in Clips, Inductive, Owed(c), MakeBegin
    PROVE  Owed(c)'
  <1>t. TypeOK /\ DirsAreSound
    BY DEF Inductive
  <1>1. BeginEffect
    BY <1>t, MakeBegins
  <1>2. /\ links = durable /\ UNCHANGED <<links, durable, torn, marked>>
        /\ pc = "idle" /\ pc' = "copy" /\ slipped' = slipped \ {cur'}
    BY DEF MakeBegin, farmVars, tmpVars
  <1>3. PICK n \in Slots : n = cur'
    BY <1>1 DEF BeginEffect
  <1>4. /\ ~snap[n].bin /\ ~snap'[n].bin
        /\ \A s \in Slots \ {n} : snap'[s] = snap[s]
    BY <1>1, <1>3, EmptyDirs DEF BeginEffect
  <1>5. \A s \in Slots : ~Exempt(s) /\ (Exempt(s)' => s = n)
    BY <1>2, <1>3 DEF Exempt, BeforeCommit, Releasing
  <1>6. \A s \in Slots : Keeps(s, c)' <=> Keeps(s, c)
    <2>1. ~Keeps(n, c) /\ ~Keeps(n, c)'
      BY <1>4 DEF Keeps, Has
    <2>2. \A s \in Slots \ {n} : Keeps(s, c)' <=> Keeps(s, c)
      BY <1>4, <1>5 DEF Keeps, Has
    <2> QED
      BY <2>1, <2>2
  <1>7. \A s \in Slots : Keeps(s, c) => s # n
    BY <1>4 DEF Keeps, Has
  <1>8. Carries(c)
    BY <1>2, <1>3, <1>6, <1>7 DEF Carries, Kept
  <1>9. ASSUME NEW s \in Slots, Keeps(s, c), Due(s) PROVE Due(s)'
    <2>1. s # n /\ snap'[s] = snap[s]
      BY <1>4, <1>7, <1>9
    <2>2. Debt(s) => Debt(s)'
      BY <2>1 DEF Debt, TocLost
    <2>3. Newest(s) => Newest(s)'
      <3> SUFFICES ASSUME Newest(s) PROVE Newest(s)'
        OBVIOUS
      <3>1. Committed(s)'
        BY <2>1 DEF Newest, IsMax, CommittedSlots, Committed
      <3>2. \A t \in Slots : Committed(t)' => Committed(t)
        BY <1>4 DEF Committed
      <3> QED
        BY <3>1, <3>2, NewestStays
    <2> QED
      BY <1>2, <1>9, <2>2, <2>3 DEF Due
  <1>10. Reaches(c) => Reaches(c)'
    <2> SUFFICES ASSUME Reaches(c) PROVE Reaches(c)'
      OBVIOUS
    <2>1. PICK s \in Slots : s = links[c] /\ Keeps(s, c)
      BY <1>t DEF Reaches, TypeOK
    <2>2. s = links'[c] /\ s # None
      BY <1>2, <2>1, SlotsAreNumbers
    <2> QED
      BY <1>6, <2>1, <2>2 DEF Reaches
  <1>11. ~Planned(c)
    BY <1>2 DEF Planned, Releasing
  <1>12. LinkIsOwed(c)'
    BY <1>t, <1>8, <1>9, <1>10, <1>11, LinkCarried DEF Owed, LinkIsOwed
  <1> QED
    BY <1>2, <1>12, LossFromLink DEF Owed
\* The boot-time marks turn what the newest snapshot owes into a debt, or are
\* remembered as missed.
LEMMA MarkOwed ==
    ASSUME NEW c \in Clips, Inductive, Owed(c), MakeMark
    PROVE  Owed(c)'
  <1>t. TypeOK /\ snap \in [Slots -> Snapshot]
    BY DEF Inductive, TypeOK
  <1>1. /\ pc = "mark" /\ pc' = "relink" /\ cur' = cur
        /\ UNCHANGED <<links, durable, moved, torn>> /\ slipped \subseteq slipped'
    BY DEF MakeMark, farmVars
  <1>2. KeepsFiles /\ \A s \in Slots : MarksStay(snap'[s], snap[s])
    BY <1>t, FilesKept, MarkerSteps DEF WritesMarkers
  <1>3. \A s \in Slots : Exempt(s)' <=> Exempt(s)
    BY <1>1 DEF Exempt, BeforeCommit, Releasing
  <1>4. \A s \in Slots : Keeps(s, c)' <=> Keeps(s, c)
    BY <1>2, <1>3 DEF Keeps, Has, KeepsFiles, SameFiles
  <1>5. Carries(c)
    BY <1>1, <1>4 DEF Carries, Kept
  <1>6. \A s \in Slots : Debt(s) => Debt(s)'
    BY <1>2, DebtStays DEF KeepsFiles
  <1>7. ASSUME NEW s \in Slots, Newest(s), ~marked PROVE Debt(s)' \/ s \in slipped'
    <2>1. PICK bad \in SUBSET CommittedSlots :
             /\ snap' = [x \in Slots |-> MarkedForBoot(x, x \notin bad)]
             /\ slipped' = slipped \cup {x \in bad : /\ Newest(x) /\ ~snap[x].gaveUp
                                                   /\ ~snap'[x].pending}
      BY <1>7 DEF MakeMark
    <2>2. CASE s \in bad
      BY <1>2, <1>7, <2>1, <2>2 DEF Debt, MarksStay
    <2>3. CASE s \notin bad
      <3> DEFINE due == Committed(s) /\ snap[s].verify /\ (snap[s].pending \/ s \notin bad)
                 new == Newest(s) /\ ~snap[s].gaveUp /\ s \notin bad
                 v == snap[s].verify /\ ~due
                 p == snap[s].pending \/ due \/ new
      <3>1. snap'[s] = [snap[s] EXCEPT !.verify = v, !.pending = p]
        BY <2>1 DEF MarkedForBoot
      <3>2. snap[s].gaveUp \/ p
        BY <1>7, <2>3
      <3>3. snap[s] \in Snapshot
        BY <1>t
      <3> HIDE DEF v, p
      <3>4. snap'[s].gaveUp = snap[s].gaveUp /\ snap'[s].pending = p
        BY <3>1, <3>3 DEF Snapshot
      <3> QED
        BY <3>2, <3>4 DEF Debt
    <2> QED
      BY <2>2, <2>3
  <1>8. ASSUME NEW s \in Slots, Newest(s), IsTop(s) PROVE Newest(s)' /\ IsTop(s)'
    <2>1. \A x \in Slots : Committed(x)' <=> Committed(x)
      BY <1>2 DEF KeepsFiles, SameFiles, Committed
    <2>2. Committed(s)
      BY <1>8 DEF Newest, IsMax, CommittedSlots
    <2> QED
      BY <1>2, <1>8, <2>1, <2>2, NewestStays, TopStays DEF KeepsFiles, SameFiles
  <1>9. ~Planned(c)
    BY <1>1 DEF Planned, Releasing
  <1>10. \A s \in Slots : Newest(s) /\ ~marked => Due(s)' \/ s \in slipped'
    BY <1>7 DEF Due
  <1>11. \A s \in Slots : Newest(s) /\ IsTop(s) => DueAfterCut(s)'
    BY <1>8 DEF DueAfterCut
  <1> QED
    BY <1>t, <1>1, <1>5, <1>6, <1>9, <1>10, <1>11, FarmLeft

\* A debt is struck out only when the links it stands for are on disk, or lead
\* to a snapshot that has a debt of its own.
LEMMA SettleOwed ==
    ASSUME NEW c \in Clips, Inductive, StepInv, Owed(c), SettleOk
    PROVE  Owed(c)'
  <1>t. /\ TypeOK /\ snap \in [Slots -> Snapshot] /\ todo \in SUBSET Slots
        /\ links \in [Clips -> Slots \cup {None}]
        /\ durable \in [Clips -> Slots \cup {None}]
    BY DEF Inductive, TypeOK
  <1>1. /\ pc = "settle" /\ pc' = "relink" /\ cur' = cur /\ KeepsFiles
        /\ UNCHANGED <<links, durable, torn, moved, slipped, marked>>
        /\ outcome \in {"made", "nothing"}
    BY <1>t, FilesKept DEF SettleOk, farmVars, tmpVars, history, WritesMarkers, TypeOK
  <1>2. PICK s \in todo : Serves(s) /\ (outcome = "made" => MarksStay(snap'[s], snap[s]))
    BY <1>t, MarkerSteps
  <1>3. /\ s \in Slots /\ IsMax(s, todo)
        /\ \A t \in Slots \ {s} : snap'[t] = snap[t]
    BY <1>2 DEF Serves
  <1>4. \A x \in Slots : (Exempt(x)' <=> Exempt(x)) /\ (Keeps(x, c)' <=> Keeps(x, c))
    <2>1. \A x \in Slots : Exempt(x)' <=> Exempt(x)
      BY <1>1 DEF Exempt, BeforeCommit, Releasing
    <2> QED
      BY <1>1, <2>1 DEF Keeps, Has, KeepsFiles, SameFiles
  <1>5. CASE \A x \in Slots : Debt(x) => Debt(x)'
    <2>1. ~Releasing
      BY <1>1 DEF Releasing
    <2> QED
      BY <1>t, <1>1, <1>4, <1>5, <2>1, FilesStay
  <1>6. CASE \E x \in Slots : Debt(x) /\ ~Debt(x)'
    <2>1. \A x \in Slots \ {s} : Debt(x)' <=> Debt(x)
      BY <1>3 DEF Debt, TocLost
    <2>2. outcome = "nothing"
      <3> SUFFICES ASSUME outcome = "made" PROVE FALSE
        BY <1>1
      <3>1. Debt(s) => Debt(s)'
        BY <1>1, <1>2, <1>3, DebtStays DEF KeepsFiles
      <3> QED
        BY <1>6, <2>1, <3>1
    <2>3. \A d \in Holds(s) : links[d] # None
      BY <1>1, <1>2, <1>3, <2>2 DEF StepInv, UnwrittenInv
    <2>4. ASSUME c \notin torn, Keeps(s, c)
          PROVE  (Reaches(c)' /\ OnDisk(c)') \/ (LinkDue(c)' /\ LossDue(c)')
      <3>1. links[c] # None
        BY <2>3, <2>4 DEF Keeps, Has, Holds
      <3>2. PICK l \in Slots : l = links[c]
        BY <1>t, <3>1
      <3>3. Has(l, c)
        BY <1>1, <2>4, <3>1, <3>2 DEF Inductive, LinksAreGood, Releasing
      <3>4. l # cur
        BY <1>1, <2>4, <3>2 DEF Inductive, CurInv, CurIsPrivate, BeforeCommit
      <3>5. Keeps(l, c) /\ Keeps(l, c)'
        BY <1>4, <3>3, <3>4 DEF Keeps, Exempt
      <3>6. CASE durable[c] = l
        <4>1. links'[c] = l /\ durable'[c] = l /\ l # None
          BY <1>1, <3>2, <3>6, SlotsAreNumbers
        <4> QED
          BY <3>5, <4>1 DEF Reaches, OnDisk
      <3>7. CASE durable[c] # l
        <4>1. Debt(l) /\ l \notin todo
          BY <1>1, <2>2, <2>4, <3>1, <3>2, <3>7 DEF StepInv, UnwrittenInv
        <4>2. Debt(l)'
          BY <1>2, <2>1, <4>1
        <4> QED
          BY <3>5, <4>2 DEF LinkDue, LossDue, DueAfterCut, Due
      <3> QED
        BY <3>6, <3>7
    <2>5. Keeps(s, c) => Owed(c)'
      BY <1>1, <2>4 DEF Owed, LinkIsOwed, LossIsOwed, Excused
    <2>6. CASE ~Keeps(s, c)
      <3>1. Carries(c)
        BY <1>1, <1>4 DEF Carries, Kept
      <3>2. \A x \in Slots : Committed(x)' = Committed(x) /\ snap'[x].dir = snap[x].dir
        BY <1>1 DEF KeepsFiles, SameFiles, Committed
      <3>3. \A x \in Slots : Newest(x) => Newest(x)'
        BY <3>2, NewestStays DEF Newest, IsMax, CommittedSlots
      <3>4. \A x \in Slots : IsTop(x) => IsTop(x)'
        BY <3>2, TopStays
      <3>5. ~Planned(c)
        BY <1>1 DEF Planned, Releasing
      <3>6. \A x \in Slots : Keeps(x, c) /\ Debt(x) => Debt(x)'
        BY <2>1, <2>6
      <3>7. \A x \in Slots : Newest(x) /\ ~marked => Due(x)'
        BY <1>1, <3>3 DEF Due
      <3>8. \A x \in Slots : Newest(x) /\ IsTop(x) => DueAfterCut(x)'
        BY <3>3, <3>4 DEF DueAfterCut
      <3> QED
        BY <1>t, <1>1, <3>1, <3>5, <3>6, <3>7, <3>8, FarmLeft
    <2> QED
      BY <2>5, <2>6
  <1> QED
    BY <1>5, <1>6
\* The new snapshot commits with a debt.
LEMMA CommitOwed ==
    ASSUME NEW c \in Clips, Inductive, StepInv, Owed(c), MakeCommit, pc' # "idle"
    PROVE  Owed(c)'
  <1>t. TypeOK /\ snap \in [Slots -> Snapshot] /\ DirsAreSound
    BY DEF Inductive, TypeOK
  <1>1. /\ pc = "commit" /\ pc' = "link" /\ cur' = cur /\ cur \in Slots
        /\ Becomes(cur, Indexed(snap[cur]))
        /\ UNCHANGED <<links, durable, torn, moved, slipped, marked>>
    BY <1>t DEF MakeCommit, Goto, Idle, farmVars, history, tmpVars, TypeOK
  <1>2. PICK n \in Slots : n = cur
    BY <1>1
  <1>3. /\ \A t \in Slots \ {n} : snap'[t] = snap[t]
        /\ snap'[n] = Indexed(snap[n])
    BY <1>t, <1>1, <1>2, BecomesType, RecordTypes
  <1>4. /\ Indexed(snap[n]).pending = snap[n].pending
        /\ Indexed(snap[n]).dir = snap[n].dir
    <2>1. snap[n] \in Snapshot
      BY <1>t
    <2> QED
      BY <2>1 DEF Indexed, Snapshot
  <1>5. snap[n].pending /\ marked
    BY <1>1, <1>2 DEF StepInv, PendingInv, Making, BeforeCommit
  <1>6. Debt(n)'
    BY <1>3, <1>4, <1>5 DEF Debt
  <1>7. /\ \A s \in Slots : ~Exempt(s)'
        /\ \A s \in Slots : Exempt(s) <=> s = n
    BY <1>1, <1>2 DEF Exempt, BeforeCommit, Releasing
  <1>8. ~Keeps(n, c) /\ \A s \in Slots \ {n} : Keeps(s, c)' <=> Keeps(s, c)
    BY <1>3, <1>7 DEF Keeps, Has
  <1>9. Carries(c)
    BY <1>1, <1>6, <1>8 DEF Carries, Kept
  <1>10. \A s \in Slots : Keeps(s, c) /\ Debt(s) => Debt(s)'
    <2>1. \A s \in Slots \ {n} : Debt(s)' <=> Debt(s)
      BY <1>3 DEF Debt, TocLost
    <2> QED
      BY <1>6, <2>1
  <1>11. ASSUME NEW s \in Slots, Keeps(s, c), IsTop(s) PROVE FALSE
    <2>1. snap[s].dir /\ snap[n].dir /\ s # n
      BY <1>t, <1>1, <1>2, <1>8, <1>11
      DEF Keeps, Has, DirsAreSound, Sound, Inductive, CurInv, CurIsTop, Making, BeforeCommit
    <2>2. s <= n
      BY <1>1, <1>2, <2>1 DEF Inductive, CurInv, CurIsTop, Making, BeforeCommit
    <2>3. n <= s
      BY <1>11, <2>1 DEF IsTop
    <2> QED
      BY <2>1, <2>2, <2>3, SlotsAreNumbers
  <1>12. ~Planned(c)
    BY <1>1 DEF Planned, Releasing
  <1> QED
    BY <1>t, <1>1, <1>5, <1>9, <1>10, <1>11, <1>12, FarmLeft

\* The debt of a new snapshot is struck out when its links are there; until
\* they are on disk, it is the newest snapshot and the top slot.
LEMMA FinishOwed ==
    ASSUME NEW c \in Clips, Inductive, StepInv, Owed(c), MakeFinish
    PROVE  Owed(c)'
  <1>t. TypeOK /\ snap \in [Slots -> Snapshot] /\ DirsAreSound
    BY DEF Inductive, TypeOK
  <1>1. /\ pc = "finish" /\ pc' \in {"rebuild", "idle"} /\ cur \in Slots /\ KeepsFiles
        /\ UNCHANGED <<links, durable, torn, moved, slipped, marked>>
    BY <1>t, FilesKept DEF MakeFinish, Idle, farmVars, history, tmpVars, TypeOK, WritesMarkers
  <1>2. PICK n \in Slots : n = cur
    BY <1>1
  <1>3. /\ \A t \in Slots \ {n} : snap'[t] = snap[t]
        /\ outcome = "bad" => snap'[n] = snap[n]
    BY <1>t, <1>2, MarkerSteps
  <1>4. \A s \in Slots : ~Exempt(s)' /\ ~Exempt(s)
    BY <1>1 DEF Exempt, BeforeCommit, Releasing
  <1>5. \A s \in Slots : Keeps(s, c)' <=> Keeps(s, c)
    BY <1>1, <1>4 DEF Keeps, Has, KeepsFiles, SameFiles
  <1>6. \A s \in Slots \ {n} : Debt(s)' <=> Debt(s)
    BY <1>3 DEF Debt, TocLost
  <1>7. CASE outcome = "bad" \/ ~Keeps(n, c)
    <2>1. Carries(c)
      BY <1>1, <1>5 DEF Carries, Kept
    <2>2. \A x \in Slots : Committed(x)' = Committed(x) /\ snap'[x].dir = snap[x].dir
      BY <1>1 DEF KeepsFiles, SameFiles, Committed
    <2>3. \A x \in Slots : Newest(x) => Newest(x)'
      BY <2>2, NewestStays DEF Newest, IsMax, CommittedSlots
    <2>4. \A x \in Slots : IsTop(x) => IsTop(x)'
      BY <2>2, TopStays
    <2>5. ~Planned(c)
      BY <1>1 DEF Planned, Releasing
    <2>6. \A x \in Slots : Keeps(x, c) /\ Debt(x) => Debt(x)'
      <3>1. outcome = "bad" => (Debt(n)' <=> Debt(n))
        BY <1>3 DEF Debt, TocLost
      <3> QED
        BY <1>6, <1>7, <3>1
    <2>7. \A x \in Slots : Newest(x) /\ ~marked => Due(x)'
      BY <1>1, <2>3 DEF Due
    <2>8. \A x \in Slots : Newest(x) /\ IsTop(x) => DueAfterCut(x)'
      BY <2>3, <2>4 DEF DueAfterCut
    <2> QED
      BY <1>t, <1>1, <2>1, <2>5, <2>6, <2>7, <2>8, FarmLeft
  <1>8. CASE outcome # "bad" /\ Keeps(n, c)
    <2>1. links[c] = n
      BY <1>1, <1>2, <1>8 DEF StepInv, PlacedInv, Keeps, Has, Holds
    <2>2. Reaches(c)'
      BY <1>1, <1>5, <1>8, <2>1, SlotsAreNumbers DEF Reaches
    <2>3. snap[n].bin /\ \A t \in Slots : snap[t].dir => t <= n
      BY <1>1, <1>2, <1>8 DEF Keeps, Has, Inductive, CurInv, CurIsTop, Making, BeforeCommit
    <2>4. \A t \in Slots : snap'[t].dir => t <= n
      BY <1>1, <2>3 DEF KeepsFiles, SameFiles
    <2>5. CASE snap'[n].hasToc
      <3>1. \A t \in Slots : Committed(t)' => t <= n
        BY <1>1, <1>t, <2>3 DEF KeepsFiles, SameFiles, Committed, DirsAreSound, Sound
      <3>2. Committed(n)'
        BY <1>1, <2>3, <2>5 DEF KeepsFiles, SameFiles, Committed
      <3>3. Newest(n)' /\ IsTop(n)'
        BY <2>4, <3>1, <3>2 DEF Newest, IsMax, CommittedSlots, IsTop
      <3> QED
        BY <1>5, <1>8, <2>2, <3>3 DEF Owed, LinkIsOwed, LossIsOwed, LossDue, DueAfterCut
    <2>6. CASE ~snap'[n].hasToc
      <3>1. Debt(n)'
        BY <2>6 DEF Debt, TocLost
      <3> QED
        BY <1>5, <1>8, <2>2, <3>1 DEF Owed, LinkIsOwed, LossIsOwed, LossDue, DueAfterCut, Due
    <2> QED
      BY <2>5, <2>6
  <1> QED
    BY <1>7, <1>8

\* A rebuilt TOC commits with a debt; a snapshot that it keeps from being the
\* newest one at the next marking is remembered as missed.
LEMMA RecoverOwed ==
    ASSUME NEW c \in Clips, Inductive, StepInv, Owed(c), RecoverCommit
    PROVE  Owed(c)'
  <1>t. TypeOK /\ snap \in [Slots -> Snapshot] /\ DirsAreSound
    BY DEF Inductive, TypeOK
  <1> DEFINE r == [Indexed(snap[cur]) EXCEPT !.checked = @ \/ snap[cur].img = Empty]
  <1>1. /\ pc = "recoverCommit" /\ pc' = "idle" /\ cur \in Slots
        /\ Becomes(cur, r)
        /\ UNCHANGED <<links, durable, torn, moved, marked>>
        /\ slipped' = IF marked THEN slipped
                      ELSE slipped \cup {s \in Slots : Newest(s) /\ s < cur}
    BY <1>t DEF RecoverCommit, Idle, farmVars, tmpVars, TypeOK
  <1>2. PICK n \in Slots : n = cur
    BY <1>1
  <1>3. Indexed(snap[n]) \in Snapshot /\ snap[n] \in Snapshot
    BY <1>t, RecordTypes
  <1>4. r \in Snapshot /\ r.pending = Indexed(snap[n]).pending /\ IndexedEffect
    <2>1. Indexed(snap[cur]) \in Snapshot /\ n = cur
      BY <1>2, <1>3
    <2>2. r \in Snapshot
      BY <2>1, MarkerTypes
    <2>3. r.pending = Indexed(snap[cur]).pending
      BY <2>1 DEF Snapshot
    <2>4. IndexedEffect
      BY <1>t, FileEffects
    <2> QED
      BY <2>1, <2>2, <2>3, <2>4
  <1>5. Indexed(snap[n]).pending = snap[n].pending
    BY <1>3, MarkFields DEF SameMarks
  <1> HIDE DEF r
  <1>6. \A t \in Slots \ {n} : snap'[t] = snap[t]
    BY <1>t, <1>1, <1>2, <1>4, BecomesType
  <1>7. /\ snap'[n].pending = snap[n].pending /\ snap'[n].bin = snap[n].bin
        /\ snap'[n].img = snap[n].img /\ snap'[n].dir = snap[n].dir
    <2>1. snap'[n] = r
      BY <1>t, <1>1, <1>2, <1>4, BecomesType
    <2> QED
      BY <1>2, <1>4, <1>5, <2>1 DEF IndexedEffect
  <1>8. \A s \in Slots : ~Exempt(s)' /\ ~Exempt(s)
    BY <1>1 DEF Exempt, BeforeCommit, Releasing
  <1>9. \A s \in Slots : Keeps(s, c)' <=> Keeps(s, c)
    BY <1>6, <1>7, <1>8 DEF Keeps, Has
  <1>10. Keeps(n, c) => Debt(n)'
    BY <1>1, <1>2, <1>7 DEF Keeps, Has, Holds, StepInv, PendingInv, Debt
  <1>11. \A s \in Slots : Keeps(s, c) /\ Debt(s) => Debt(s)'
    <2>1. \A s \in Slots \ {n} : Debt(s)' <=> Debt(s)
      BY <1>6 DEF Debt, TocLost
    <2> QED
      BY <1>10, <2>1
  <1>12. slipped \subseteq slipped'
    BY <1>1
  <1>13. Carries(c)
    BY <1>1, <1>9, <1>12 DEF Carries, Kept
  <1>14. ASSUME NEW s \in Slots \ {n}, Newest(s), n <= s PROVE Newest(s)'
    <2>1. \A t \in Slots : Committed(t)' => Committed(t) \/ t <= s
      BY <1>6, <1>14 DEF Committed
    <2>2. Committed(s)'
      BY <1>6, <1>14 DEF Newest, IsMax, CommittedSlots, Committed
    <2> QED
      BY <1>14, <2>1, <2>2, NewestStays
  <1>15. ASSUME NEW s \in Slots, Keeps(s, c), Newest(s), ~marked
         PROVE  Due(s)' \/ s \in slipped'
    <2>1. CASE s = n
      BY <1>10, <1>15, <2>1 DEF Due
    <2>2. CASE s # n /\ n <= s
      BY <1>1, <1>14, <1>15, <2>2 DEF Due
    <2>3. CASE s < n
      BY <1>1, <1>2, <1>15, <2>3
    <2> QED
      BY <2>1, <2>2, <2>3, SlotsAreNumbers
  <1>16. ASSUME NEW s \in Slots, Keeps(s, c), Newest(s), IsTop(s)
         PROVE  DueAfterCut(s)'
    <2>1. n <= s
      BY <1>t, <1>1, <1>2, <1>16 DEF IsTop, Inductive, CurInv, CurImage, DirsAreSound, Sound
    <2>2. IsTop(s)'
      BY <1>6, <1>7, <1>16, TopStays
    <2>3. CASE s = n
      BY <1>10, <1>16, <2>3 DEF Due, DueAfterCut
    <2>4. CASE s # n
      BY <1>14, <1>16, <2>1, <2>2, <2>4 DEF DueAfterCut
    <2> QED
      BY <2>3, <2>4
  <1>17. ~Planned(c)
    BY <1>1 DEF Planned, Releasing
  <1> QED
    BY <1>t, <1>1, <1>11, <1>13, <1>15, <1>16, <1>17, FarmLeft
\* A step that changes links only, and not yet on disk.
LEMMA StoreLeftOwed ==
    ASSUME NEW c \in Clips, TypeOK, Owed(c),
           UNCHANGED <<snap, durable, moved, slipped, marked>>, torn \subseteq torn',
           \A s \in Slots : Keeps(s, c)' <=> Keeps(s, c),
           Reaches(c) => LinkIsOwed(c)',
           Planned(c) => LinkIsOwed(c)'
    PROVE  Owed(c)'
  <1>1. Carries(c)
    BY DEF Carries, Kept
  <1>2. \A s \in Slots : /\ Debt(s)' <=> Debt(s)
                         /\ Newest(s)' <=> Newest(s)
                         /\ IsTop(s)' <=> IsTop(s)
    BY DEF Debt, TocLost, Newest, IsMax, CommittedSlots, Committed, IsTop
  <1>3. \A s \in Slots : (Due(s)' <=> Due(s)) /\ (DueAfterCut(s)' <=> DueAfterCut(s))
    BY <1>2 DEF Due, DueAfterCut
  <1>4. LinkIsOwed(c)'
    BY <1>1, <1>3, LinkCarried DEF Owed
  <1>5. OnDisk(c) => OnDisk(c)'
    <2> SUFFICES ASSUME OnDisk(c) PROVE OnDisk(c)'
      OBVIOUS
    <2>1. PICK s \in Slots : s = durable[c] /\ Keeps(s, c)
      BY DEF OnDisk, TypeOK
    <2>2. s = durable'[c] /\ s # None
      BY <2>1, SlotsAreNumbers
    <2> QED
      BY <2>1, <2>2 DEF OnDisk
  <1>6. LossIsOwed(c)'
    BY <1>1, <1>3, <1>5, LossCarried DEF Owed, LossIsOwed
  <1> QED
    BY <1>4, <1>6 DEF Owed

\* A link that is placed leads to its clip; one that is lost on the way is owed
\* by the snapshot it should lead to, or torn by a rebuild.
LEMMA PlaceOwed ==
    ASSUME NEW c \in Clips, Inductive, StepInv, Owed(c), RelinkPlace \/ MakeLink \/ Rebuild
    PROVE  Owed(c)'
  <1>t. /\ TypeOK /\ links \in [Clips -> Slots \cup {None}] /\ todo \subseteq Slots
        /\ pc # "idle" => cur \in Slots
    BY DEF Inductive, TypeOK
  <1>1. /\ UNCHANGED <<snap, durable, moved, slipped, marked, cur>>
        /\ \/ pc = "relink" /\ pc' = "settle"
           \/ pc = "link" /\ pc' = "finish"
           \/ pc = "rebuild" /\ pc' = "rebuild"
    BY DEF RelinkPlace, MakeLink, Rebuild, diskVars, tmpVars
  <1>2. \A s \in Slots : Exempt(s)' <=> Exempt(s)
    BY <1>1 DEF Exempt, BeforeCommit, Releasing
  <1>3. \A s \in Slots : Keeps(s, c)' <=> Keeps(s, c)
    BY <1>1, <1>2 DEF Keeps, Has
  <1>4. ~Planned(c)
    BY <1>1 DEF Planned, Releasing
  <1>5. CASE UNCHANGED <<links, torn>>
    <2>1. Reaches(c) => Reaches(c)'
      <3> SUFFICES ASSUME Reaches(c) PROVE Reaches(c)'
        OBVIOUS
      <3>1. PICK l \in Slots : l = links[c] /\ Keeps(l, c)
        BY <1>t DEF Reaches
      <3>2. l = links'[c] /\ l # None
        BY <1>5, <3>1, SlotsAreNumbers
      <3> QED
        BY <1>3, <3>1, <3>2 DEF Reaches
    <2> QED
      BY <1>t, <1>1, <1>3, <1>4, <1>5, <2>1, StoreLeftOwed DEF LinkIsOwed
  <1>6. ASSUME NEW s \in Slots, NEW fill \in BOOLEAN, Place(s, fill) \/ PlaceFails,
               snap[s].bin, ~Exempt(s), pc = "rebuild" \/ snap[s].pending
        PROVE  Owed(c)'
    <2>1. /\ \/ links'[c] = links[c]
             \/ links'[c] = s /\ c \in Holds(s)
             \/ links'[c] = None /\ c \in Holds(s) /\ (pc = "rebuild" => c \in torn')
          /\ torn \subseteq torn'
      BY <1>t, <1>6, PlaceEffects
    <2>2. c \in Holds(s) => Keeps(s, c)'
      BY <1>3, <1>6 DEF Keeps, Has, Holds
    <2>3. Reaches(c) => LinkIsOwed(c)'
      <3> SUFFICES ASSUME Reaches(c), c \notin torn'
                   PROVE  Reaches(c)' \/ LinkDue(c)'
        BY DEF LinkIsOwed, Excused
      <3>1. CASE links'[c] = links[c]
        <4>1. PICK l \in Slots : l = links[c] /\ Keeps(l, c)
          BY <1>t DEF Reaches
        <4>2. l = links'[c] /\ l # None
          BY <3>1, <4>1, SlotsAreNumbers
        <4> QED
          BY <1>3, <4>1, <4>2 DEF Reaches
      <3>2. CASE links'[c] = s /\ c \in Holds(s)
        BY <2>2, <3>2, SlotsAreNumbers DEF Reaches
      <3>3. CASE c \in Holds(s) /\ pc # "rebuild"
        <4>1. Debt(s)'
          BY <1>1, <1>6, <3>3 DEF Debt
        <4> QED
          BY <2>2, <3>3, <4>1 DEF LinkDue, Due
      <3> QED
        BY <2>1, <3>1, <3>2, <3>3
    <2> QED
      BY <1>t, <1>1, <1>3, <1>4, <2>1, <2>3, StoreLeftOwed
  <1>7. CASE RelinkPlace
    <2>1. PICK s \in todo : IsMax(s, todo) /\ (Place(s, ~Newest(s)) \/ PlaceFails)
      BY <1>7 DEF RelinkPlace
    <2>2. pc = "relink" /\ s \in Slots /\ (~Newest(s)) \in BOOLEAN
      BY <1>7, <1>t DEF RelinkPlace
    <2>3. Committed(s) /\ snap[s].pending
      BY <2>2 DEF Inductive, CurInv, TodoIsCommitted, StepInv, PendingInv
    <2>4. ~snap[cur].hasToc
      BY <2>2 DEF Inductive, CurInv, CurIsPrivate, BeforeCommit
    <2> QED
      BY <1>6, <2>1, <2>2, <2>3, <2>4 DEF Committed, Exempt
  <1>8. CASE MakeLink
    <2>1. pc = "link" /\ cur \in Slots /\ (Place(cur, FALSE) \/ PlaceFails)
      BY <1>8, <1>t DEF MakeLink
    <2>2. snap[cur].pending /\ snap[cur].bin /\ ~Exempt(cur)
      BY <2>1 DEF StepInv, PendingInv, Inductive, CurInv, CurImage, Making, BeforeCommit,
         Exempt, Releasing
    <2> QED
      BY <1>6, <2>1, <2>2
  <1>9. CASE Rebuild
    <2>1. PICK s \in todo : UNCHANGED <<links, torn>> \/ Place(s, FALSE) \/ PlaceFails
      BY <1>9 DEF Rebuild
    <2>2. pc = "rebuild" /\ s \in Slots
      BY <1>9, <1>t DEF Rebuild
    <2>3. snap[s].bin /\ ~Exempt(s)
      BY <2>2 DEF Inductive, CurInv, TodoIsCommitted, Committed, Exempt, BeforeCommit, Releasing
    <2> QED
      BY <1>5, <1>6, <2>1, <2>2, <2>3
  <1> QED
    BY <1>7, <1>8, <1>9

\* A swept link led nowhere.
LEMMA SweepOwed ==
    ASSUME NEW c \in Clips, Inductive, Owed(c), Sweep
    PROVE  Owed(c)'
  <1>t. TypeOK /\ links \in [Clips -> Slots \cup {None}] /\ DirsAreSound
    BY DEF Inductive, TypeOK
  <1>1. /\ UNCHANGED <<snap, durable, moved, slipped, marked, torn, cur>>
        /\ pc = "idle" /\ pc' = "idle"
        /\ links[c] # None /\ snap[links[c]].dir => links'[c] = links[c]
    BY DEF Sweep, diskVars, tmpVars, history, runVars
  <1>2. \A s \in Slots : Keeps(s, c)' <=> Keeps(s, c)
    BY <1>1 DEF Keeps, Has, Exempt, BeforeCommit, Releasing
  <1>3. ~Planned(c)
    BY <1>1 DEF Planned, Releasing
  <1>4. Reaches(c) => Reaches(c)'
    <2> SUFFICES ASSUME Reaches(c) PROVE Reaches(c)'
      OBVIOUS
    <2>1. PICK l \in Slots : l = links[c] /\ Keeps(l, c)
      BY <1>t DEF Reaches
    <2>2. snap[l].dir
      BY <1>t, <2>1 DEF Keeps, Has, DirsAreSound, Sound
    <2>3. l = links'[c] /\ l # None
      BY <1>1, <2>1, <2>2, SlotsAreNumbers
    <2> QED
      BY <1>2, <2>1, <2>3 DEF Reaches
  <1> QED
    BY <1>t, <1>1, <1>2, <1>3, <1>4, StoreLeftOwed DEF LinkIsOwed


\* A release ends with the planned re-points, but for those that fail.
LEMMA ReleaseEndOwed ==
    ASSUME NEW c \in Clips, Inductive, Owed(c), ReleasePrune \/ ReleaseRepoint
    PROVE  Owed(c)'
  <1>t. /\ TypeOK /\ links \in [Clips -> Slots \cup {None}] /\ cur \in Slots
        /\ plan \in [Clips -> Slots \cup {None}]
    BY DEF Inductive, TypeOK, ReleasePrune, ReleaseRepoint
  <1>1. /\ UNCHANGED <<snap, durable, moved, slipped, marked>> /\ torn \subseteq torn'
        /\ pc \in {"prune", "repoint"} /\ pc' \in {"idle", "repoint"}
        /\ pc' = "repoint" => pc = "prune" /\ UNCHANGED <<cur, plan>>
    BY <1>t, PruneEffects, RepointEffects
  <1>2. \A s \in Slots : Keeps(s, c)' <=> Keeps(s, c)
    <2>1. PICK n \in Slots : n = cur
      BY <1>t
    <2>2. ~Has(n, c) /\ ~Has(n, c)'
      BY <1>1, <2>1 DEF Inductive, CurInv, CurImage, Has
    <2>3. \A s \in Slots \ {n} : ~Exempt(s) /\ ~Exempt(s)'
      BY <1>1, <2>1 DEF Exempt, BeforeCommit, Releasing
    <2>4. \A s \in Slots : Has(s, c)' <=> Has(s, c)
      BY <1>1 DEF Has
    <2> QED
      BY <2>2, <2>3, <2>4 DEF Keeps
  <1>3. links[c] \notin {None, cur} => links'[c] = links[c]
    BY <1>t, PruneEffects, RepointEffects
  <1>x. c \in torn' => LinkIsOwed(c)'
    BY DEF LinkIsOwed, Excused
  <1>4. Reaches(c) => Reaches(c)'
    <2> SUFFICES ASSUME Reaches(c) PROVE Reaches(c)'
      OBVIOUS
    <2>1. PICK l \in Slots : l = links[c] /\ Keeps(l, c)
      BY <1>t DEF Reaches
    <2>2. l # cur /\ l # None
      BY <1>1, <2>1, SlotsAreNumbers DEF Keeps, Exempt, Releasing
    <2>3. l = links'[c]
      BY <1>3, <2>1, <2>2
    <2> QED
      BY <1>2, <2>1, <2>2, <2>3 DEF Reaches
  <1>5. ASSUME Planned(c), ReleasePrune, c \notin torn' PROVE Planned(c)'
    <2>1. pc = "prune" /\ links[c] = cur
      BY <1>5 DEF ReleasePrune, Planned
    <2>2. links'[c] = None
      BY <1>t, <1>5, <2>1, PruneEffects
    <2>3. links' # links
      BY <1>t, <2>1, <2>2, SlotsAreNumbers
    <2>4. pc' = "repoint" /\ UNCHANGED <<cur, plan>>
      BY <1>t, <1>5, <2>3, PruneEffects
    <2>5. \A s \in Slots : Debt(s) => Debt(s)'
      BY <1>1 DEF Debt, TocLost
    <2> QED
      BY <1>1, <1>2, <1>5, <2>2, <2>4, <2>5 DEF Planned, Releasing
  <1>6. ASSUME Planned(c), ReleaseRepoint, c \notin torn' PROVE LinkIsOwed(c)'
    <2>1. pc = "repoint" /\ links[c] = None
      BY <1>1, <1>6 DEF ReleaseRepoint, Planned, Releasing, Inductive, CurInv, ReleaseIsPlanned
    <2>2. links'[c] = plan[c]
      BY <1>t, <1>6, <2>1, RepointEffects
    <2>3. CASE plan[c] # None
      <3>1. PICK l \in Slots : l = plan[c]
        BY <1>t, <2>3
      <3>2. Has(l, c) /\ l # cur
        BY <2>1, <2>3, <3>1 DEF Inductive, CurInv, ReleaseIsPlanned, Releasing
      <3>3. Keeps(l, c)
        BY <3>2 DEF Keeps, Exempt
      <3> QED
        BY <1>2, <2>2, <2>3, <3>1, <3>3 DEF LinkIsOwed, Reaches
    <2>4. CASE \A s \in Slots : Keeps(s, c) => Debt(s)
      <3>1. \A s \in Slots : Debt(s) => Debt(s)'
        BY <1>1 DEF Debt, TocLost
      <3> QED
        BY <1>2, <2>4, <3>1 DEF LinkIsOwed, LinkDue, Due, Kept
    <2> QED
      BY <1>6, <2>3, <2>4 DEF Planned
  <1> QED
    BY <1>t, <1>x, <1>1, <1>2, <1>4, <1>5, <1>6, StoreLeftOwed DEF LinkIsOwed

\* Once the links are written back, what is owed is as before.
LEMMA WritebackOwed ==
    ASSUME NEW c \in Clips, Inductive, Owed(c), Writeback
    PROVE  Owed(c)'
  <1>1. /\ UNCHANGED <<snap, links, torn, slipped, marked, pc, cur, plan>>
        /\ durable' = links /\ (Releasing => moved' = moved)
    BY DEF Writeback, tmpVars, runVars
  <1>2. \A s : /\ Keeps(s, c)' = Keeps(s, c) /\ Debt(s)' = Debt(s)
               /\ Newest(s)' = Newest(s)
    BY <1>1 DEF Keeps, Has, Exempt, BeforeCommit, Releasing, Debt, TocLost, Newest,
       IsMax, CommittedSlots, Committed
  <1>3. LinkIsOwed(c)'
    BY <1>1, <1>2 DEF Owed, LinkIsOwed, Kept, Excused, Reaches, Planned, Releasing,
       LinkDue, Due
  <1> QED
    BY <1>1, <1>3, LossFromLink DEF Owed

\* A stop carries every clip.
LEMMA StopCarries ==
    ASSUME NEW c \in Clips, Inductive, StepInv, ProcessDies \/ PowerCut
    PROVE  /\ Carries(c)
           /\ \A s \in Slots : Debt(s) => Debt(s)'
           /\ \A s \in Slots : Newest(s) => Newest(s)' \/ Debt(s)'
           /\ \A s \in Slots : IsTop(s) => IsTop(s)'
  <1>t. TypeOK /\ links \in [Clips -> Slots \cup {None}] /\ (pc # "idle" => cur \in Slots)
    BY DEF Inductive, TypeOK
  <1>1. /\ StopEffect /\ \A s \in Slots : SameMarks(snap'[s], snap[s])
        /\ pc' = "idle" /\ slipped' = slipped /\ torn \subseteq torn'
        /\ Releasing => moved \subseteq torn'
    BY <1>t, FileEffects, StopMarks DEF ProcessDies, PowerCut, Idle
  <1>2. \A s \in Slots : ~Exempt(s)'
    BY <1>1 DEF Exempt, BeforeCommit, Releasing
  <1>3. ASSUME NEW s \in Slots, Keeps(s, c) PROVE Keeps(s, c)'
    BY <1>1, <1>2, <1>3 DEF Keeps, Has, StopEffect
  <1>4. ASSUME NEW s \in Slots, Keeps(s, c)', c \notin torn' PROVE Kept(c) \/ Debt(s)'
    <2>1. snap'[s].bin /\ snap'[s].img[c] > 0
      BY <1>4 DEF Keeps, Has
    <2>2. snap[s].img[c] > 0 /\ (snap[s].bin \/ (pc = "copy" /\ s = cur))
      BY <1>1, <2>1 DEF StopEffect
    <2>3. CASE BeforeCommit /\ s = cur
      BY <1>1, <2>3, FilledSlotOwes DEF StopEffect
    <2>4. CASE ~Exempt(s)
      <3>1. snap[s].bin
        BY <2>2, <2>4 DEF Exempt, BeforeCommit
      <3> QED
        BY <2>2, <2>4, <3>1 DEF Keeps, Has, Kept
    <2>5. CASE Releasing /\ s = cur
      <3>1. pc = "unlink" /\ Has(s, c)
        BY <2>2, <2>5 DEF Releasing, Inductive, CurInv, CurImage, Has
      <3>2. Linked(c) /\ c \notin torn
        BY <1>1, <1>4, <2>5, <3>1 DEF StepInv, PlacedInv
      <3>3. links[c] # cur
        BY <1>1, <1>4, <2>5 DEF Inductive, CurInv, ReleaseIsPlanned
      <3>4. PICK l \in Slots : l = links[c]
        BY <1>t, <3>2 DEF Linked
      <3>5. Keeps(l, c)
        BY <3>2, <3>3, <3>4 DEF Keeps, Has, Exempt, Linked, Holds
      <3> QED
        BY <3>5 DEF Kept
    <2> QED
      BY <2>3, <2>4, <2>5 DEF Exempt
  <1>5. Carries(c)
    BY <1>1, <1>3, <1>4 DEF Carries
  <1>6. ASSUME NEW s \in Slots, Debt(s) PROVE Debt(s)'
    BY <1>1, <1>6 DEF Debt, TocLost, StopEffect, SameMarks
  <1>7. ASSUME NEW s \in Slots, Newest(s) PROVE Newest(s)' \/ Debt(s)'
    <2>1. CASE ~snap'[s].hasToc
      BY <2>1 DEF Debt, TocLost
    <2>2. CASE snap'[s].hasToc
      <3>1. Committed(s)'
        BY <1>1, <1>7, <2>2 DEF Newest, IsMax, CommittedSlots, Committed, StopEffect
      <3>2. ASSUME NEW t \in Slots, Committed(t)' PROVE Committed(t)
        <4>1. snap'[t].bin /\ snap[t].hasToc
          BY <1>1, <3>2 DEF Committed, StopEffect
        <4>2. pc = "copy" => ~snap[cur].hasToc
          BY DEF Inductive, CurInv, CurIsPrivate, BeforeCommit
        <4> QED
          BY <1>1, <4>1, <4>2 DEF Committed, StopEffect
      <3> QED
        BY <1>7, <3>1, <3>2, NewestStays
    <2> QED
      BY <2>1, <2>2
  <1>8. \A s \in Slots : IsTop(s) => IsTop(s)'
    BY <1>1, TopStays DEF StopEffect
  <1> QED
    BY <1>5, <1>6, <1>7, <1>8

\* The death of the process drops no link.
LEMMA DeathOwed ==
    ASSUME NEW c \in Clips, Inductive, StepInv, Owed(c), ProcessDies
    PROVE  Owed(c)'
  <1>1. TypeOK /\ UNCHANGED <<links, durable, moved, marked>>
        /\ (Releasing => moved \subseteq torn')
    BY DEF Inductive, ProcessDies, farmVars, tmpVars
  <1>2. Planned(c) => LinkIsOwed(c)'
    BY <1>1 DEF Planned, LinkIsOwed, Excused
  <1>3. /\ Carries(c)
        /\ \A s \in Slots : Debt(s) => Debt(s)'
        /\ \A s \in Slots : Newest(s) => Newest(s)' \/ Debt(s)'
        /\ \A s \in Slots : IsTop(s) => IsTop(s)'
    BY StopCarries
  <1>4. \A s \in Slots : Newest(s) /\ ~marked => Due(s)'
    BY <1>1, <1>3 DEF Due
  <1>5. \A s \in Slots : Newest(s) /\ IsTop(s) => DueAfterCut(s)'
    BY <1>3 DEF Due, DueAfterCut
  <1> QED
    BY <1>1, <1>2, <1>3, <1>4, <1>5, FarmLeft

\* A power cut keeps the link or brings the one on disk back; the marks are due
\* again.
LEMMA CutOwed ==
    ASSUME NEW c \in Clips, Inductive, StepInv, Owed(c), PowerCut
    PROVE  Owed(c)'
  <1>t. /\ TypeOK /\ links \in [Clips -> Slots \cup {None}]
        /\ durable \in [Clips -> Slots \cup {None}]
    BY DEF Inductive, TypeOK
  <1>1. /\ links'[c] \in {links[c], durable[c]} /\ durable' = links' /\ ~marked'
        /\ moved \subseteq torn' /\ moved' = {}
    BY DEF PowerCut
  <1>2. /\ Carries(c)
        /\ \A s \in Slots : Debt(s) => Debt(s)'
        /\ \A s \in Slots : Newest(s) => Newest(s)' \/ Debt(s)'
    BY StopCarries
  <1>3. \A s \in Slots : DueAfterCut(s) => Due(s)'
    BY <1>1, <1>2 DEF Due, DueAfterCut
  <1>4. ASSUME NEW s \in Slots, s = links'[c], Keeps(s, c) PROVE Reaches(c)'
    <2>1. Keeps(s, c)' /\ s # None
      BY <1>2, <1>4, SlotsAreNumbers DEF Carries
    <2> QED
      BY <1>4, <2>1 DEF Reaches
  <1>5. CASE links'[c] = links[c]
    <2>1. Reaches(c) => LinkIsOwed(c)'
      BY <1>t, <1>4, <1>5 DEF Reaches, LinkIsOwed
    <2>2. Planned(c) => LinkIsOwed(c)'
      BY <1>1 DEF Planned, LinkIsOwed, Excused
    <2>3. LinkIsOwed(c)'
      BY <1>t, <1>2, <1>3, <2>1, <2>2, LinkCarried DEF Owed, DueAfterCut
    <2> QED
      BY <1>1, <2>3, LossFromLink DEF Owed
  <1>6. CASE links'[c] = durable[c]
    <2>1. OnDisk(c) => OnDisk(c)'
      BY <1>t, <1>1, <1>4, <1>6 DEF OnDisk, Reaches
    <2>2. LossIsOwed(c)'
      BY <1>t, <1>1, <1>2, <1>3, <2>1, LossCarried DEF Owed, DueAfterCut, LossIsOwed
    <2>3. OnDisk(c)' => Reaches(c)'
      BY <1>1 DEF OnDisk, Reaches
    <2>4. \A s \in Slots : DueAfterCut(s)' => Due(s)'
      BY <1>1 DEF DueAfterCut, Due
    <2>5. LossDue(c)' => LinkDue(c)'
      BY <2>4 DEF LossDue, LinkDue
    <2> QED
      BY <1>1, <2>2, <2>3, <2>5 DEF Owed, LossIsOwed, LinkIsOwed
  <1> QED
    BY <1>1, <1>5, <1>6
\* Among some slots there is one of the largest copy, the highest among equals:
\* no least bound below which there is none.
LEMMA LargestSlot ==
    ASSUME NEW f \in [Slots -> Nat], NEW T \in SUBSET Slots, T # {}
    PROVE  \E s \in T : \A t \in T : f[t] < f[s] \/ (f[t] = f[s] /\ t <= s)
  <1> DEFINE R == {p \in Nat \X Nat : p[1] < p[2]}
             Wins(n, s) == /\ s \in T /\ s <= n
                           /\ \A t \in T : t <= n => f[t] < f[s] \/ (f[t] = f[s] /\ t <= s)
             B == {n \in Nat : (\E t \in T : t <= n) /\ ~\E s \in T : Wins(n, s)}
  <1>1. IsWellFoundedOn(R, Nat)
    BY NatLessThanWellFounded DEF OpToRel
  <1>2. \A t \in T : t \in Nat /\ t > 0 /\ t <= MaxSlot /\ f[t] \in Nat
    BY BoundsAssumption DEF Slots
  <1>3. B = {}
    <2> SUFFICES ASSUME B # {} PROVE FALSE
      OBVIOUS
    <2>1. PICK n \in B : \A k \in B : ~(<<k, n>> \in R)
      <3>1. B \in SUBSET Nat
        OBVIOUS
      <3> HIDE DEF R, B
      <3> QED
        BY <1>1, <3>1, WFMin
    <2>2. PICK u \in T : u <= n
      BY <2>1
    <2>3. n \in Nat /\ n - 1 \in Nat /\ n >= 1
      BY <1>2, <2>1, <2>2
    <2>4. n - 1 \notin B
      <3>1. <<n - 1, n>> \in R
        BY <2>3
      <3> HIDE DEF R, B
      <3> QED
        BY <2>1, <3>1
    <2>5. CASE ~\E t \in T : t <= n - 1
      <3>1. \A t \in T : t <= n => t = n
        BY <1>2, <2>3, <2>5
      <3>2. n \in T /\ Wins(n, n)
        BY <1>2, <2>2, <2>3, <3>1
      <3> QED
        BY <2>1, <3>2
    <2>6. CASE \E t \in T : t <= n - 1
      <3>1. PICK s \in T : Wins(n - 1, s)
        BY <2>3, <2>4, <2>6
      <3>2. \A t \in T : t <= n => t = n \/ t <= n - 1
        BY <1>2, <2>3
      <3>3. s <= n /\ s # n
        BY <1>2, <2>3, <3>1
      <3>4. CASE n \in T => f[n] < f[s]
        <4>1. Wins(n, s)
          BY <1>2, <2>3, <3>1, <3>2, <3>3, <3>4
        <4> QED
          BY <2>1, <4>1
      <3>5. CASE n \in T /\ f[s] <= f[n]
        <4>1. \A t \in T : t <= n - 1 => f[t] <= f[s] /\ t <= n
          BY <1>2, <2>3, <3>1
        <4>2. \A t \in T : t <= n => f[t] < f[n] \/ (f[t] = f[n] /\ t <= n)
          BY <1>2, <2>3, <3>1, <3>2, <3>5, <4>1
        <4>3. Wins(n, n)
          BY <2>3, <3>5, <4>2
        <4> QED
          BY <2>1, <3>5, <4>3
      <3>6. n \in T => (f[n] < f[s] \/ f[s] <= f[n])
        BY <1>2, <3>1
      <3> QED
        BY <3>4, <3>5, <3>6
    <2> QED
      BY <2>5, <2>6
  <1>4. PICK s \in T : Wins(MaxSlot, s)
    <2>1. MaxSlot \in Nat /\ \E t \in T : t <= MaxSlot
      BY <1>2, BoundsAssumption
    <2> QED
      BY <1>3, <2>1
  <1> QED
    BY <1>2, <1>4

\* A clip without a planned re-point has no copy that a TOC lists, so whoever
\* keeps it has lost its TOC.
LEMMA UnplannedIsLost ==
    ASSUME NEW c \in Clips, NEW r \in Slots, TypeOK, TidyInv, links[c] = r,
           Repoint(r, c) = None, NEW s \in Slots \ {r}, Has(s, c)
    PROVE  TocLost(s)
  <1>t. snap \in [Slots -> Snapshot] /\ snap[s] \in Snapshot
    BY DEF TypeOK
  <1>1. Survivors(r, c) = {}
    <2> SUFFICES ASSUME Survivors(r, c) # {} PROVE FALSE
      OBVIOUS
    <2> DEFINE f == [x \in Slots |-> snap[x].toc[c]]
    <2>1. f \in [Slots -> Nat]
      BY <1>t DEF Snapshot, Content
    <2>2. Survivors(r, c) \in SUBSET Slots
      BY DEF Survivors
    <2>3. \A x \in Slots : f[x] = snap[x].toc[c]
      OBVIOUS
    <2> HIDE DEF f
    <2>4. PICK b \in Survivors(r, c) : \A t \in Survivors(r, c) :
             f[t] < f[b] \/ (f[t] = f[b] /\ t <= b)
      BY <2>1, <2>2, LargestSlot
    <2>5. b \in Best(r, c)
      BY <2>2, <2>3, <2>4 DEF Best
    <2>6. Repoint(r, c) \in Best(r, c)
      BY <2>5 DEF Repoint
    <2>7. Repoint(r, c) \in Slots
      BY <2>6 DEF Best, Survivors
    <2> QED
      BY <2>7, SlotsAreNumbers
  <1>2. CASE ~snap[s].hasToc
    BY <1>2 DEF TocLost
  <1>3. CASE snap[s].hasToc
    <2>1. snap[s].bin /\ snap[s].img[c] > 0 /\ snap[s].img \in [Clips -> Nat]
          /\ snap[s].toc \in [Clips -> Nat] /\ Tidy(snap[s])
      BY <1>t DEF Has, Snapshot, Content, TidyInv
    <2>2. ~(snap[s].toc[c] > 0)
      BY <1>1, <1>3, <2>1 DEF Survivors, InToc
    <2>3. /\ ~snap[s].checked
          /\ \A d \in Clips : snap[s].toc[d] = 0
      BY <2>1, <2>2 DEF Tidy
    <2>4. snap[s].toc = Empty
      BY <2>1, <2>3 DEF Empty
    <2> QED
      BY <2>3, <2>4 DEF TocLost
  <1> QED
    BY <1>2, <1>3

\* A release starts by planning for the links into its snapshot; a clip of its
\* snapshot that no link leads to is torn, one whose link is not on disk moved.
LEMMA ReleaseOwed ==
    ASSUME NEW c \in Clips, Inductive, TidyInv, Owed(c), NEW r \in Slots, ReleaseBegin(r)
    PROVE  Owed(c)'
  <1>t. /\ TypeOK /\ links \in [Clips -> Slots \cup {None}]
        /\ durable \in [Clips -> Slots \cup {None}]
    BY DEF Inductive, TypeOK
  <1>1. /\ pc = "idle" /\ pc' = "unlink" /\ cur' = r
        /\ UNCHANGED <<snap, links, durable, marked, slipped>>
        /\ plan'[c] = Repoint(r, c)
        /\ moved' = moved \cup {d \in Clips : r \in {links[d], durable[d]}}
                          \cup {d \in Holds(r) : links[d] # durable[d]}
        /\ torn' = torn \cup {d \in Holds(r) : ~Linked(d)}
    BY DEF ReleaseBegin, diskVars, farmVars, tmpVars
  <1>2. \A s \in Slots : ~Exempt(s) /\ (Exempt(s)' <=> s = r)
    BY <1>1 DEF Exempt, BeforeCommit, Releasing
  <1>3. /\ ~Keeps(r, c)'
        /\ \A s \in Slots \ {r} : (Keeps(s, c)' <=> Has(s, c)) /\ (Keeps(s, c) <=> Has(s, c))
    BY <1>1, <1>2 DEF Keeps, Has
  <1>4. CASE ~Has(r, c)
    <2>1. \A s \in Slots : Keeps(s, c)' <=> Keeps(s, c)
      BY <1>3, <1>4 DEF Keeps
    <2>2. Carries(c)
      BY <1>1, <2>1 DEF Carries, Kept
    <2>3. \A s \in Slots : /\ Debt(s)' <=> Debt(s)
                           /\ Newest(s)' <=> Newest(s)
                           /\ IsTop(s)' <=> IsTop(s)
      BY <1>1 DEF Debt, TocLost, Newest, IsMax, CommittedSlots, Committed, IsTop
    <2>4. \A s \in Slots : Newest(s) /\ ~marked => Due(s)'
      BY <1>1, <2>3 DEF Due
    <2>5. \A s \in Slots : Newest(s) /\ IsTop(s) => DueAfterCut(s)'
      BY <2>3 DEF DueAfterCut
    <2>6. ~Planned(c)
      BY <1>1 DEF Planned, Releasing
    <2> QED
      BY <1>t, <1>1, <2>2, <2>3, <2>4, <2>5, <2>6, FarmLeft
  <1>5. CASE Has(r, c) /\ ~Linked(c)
    <2>1. c \in torn'
      BY <1>1, <1>5 DEF Has, Holds
    <2> QED
      BY <2>1 DEF Owed, LinkIsOwed, LossIsOwed, Excused
  <1>6. CASE Has(r, c) /\ Linked(c) /\ links[c] # r
    <2>1. PICK l \in Slots : l = links[c]
      BY <1>t, <1>6 DEF Linked
    <2>2. Keeps(l, c)' /\ l = links'[c] /\ l # None
      BY <1>1, <1>3, <1>6, <2>1, SlotsAreNumbers DEF Linked, Has, Holds
    <2>3. LinkIsOwed(c)'
      BY <2>2 DEF LinkIsOwed, Reaches
    <2>4. links[c] = durable[c] \/ c \in moved'
      BY <1>1, <1>6 DEF Has, Holds
    <2>5. LossIsOwed(c)'
      <3>1. CASE links[c] = durable[c]
        BY <1>1, <2>3, <3>1, LossFromLink
      <3>2. CASE c \in moved'
        BY <3>2 DEF LossIsOwed
      <3> QED
        BY <2>4, <3>1, <3>2
    <2> QED
      BY <2>3, <2>5 DEF Owed
  <1>7. CASE links[c] = r
    <2>1. c \in moved'
      BY <1>1, <1>7
    <2>2. ASSUME plan'[c] = None, NEW s \in Slots, Keeps(s, c)' PROVE Debt(s)'
      <3>1. s # r /\ Has(s, c)
        BY <1>3, <2>2
      <3>2. TocLost(s)
        BY <1>t, <1>1, <1>7, <2>2, <3>1, UnplannedIsLost
      <3> QED
        BY <1>1, <3>2 DEF Debt, TocLost
    <2>3. Planned(c)'
      BY <1>1, <1>7, <2>1, <2>2 DEF Planned, Releasing
    <2> QED
      BY <2>1, <2>3 DEF Owed, LinkIsOwed, LossIsOwed
  <1> QED
    BY <1>4, <1>5, <1>6, <1>7

-----------------------------------------------------------------------------
(* The theorem. *)

\* Nothing is owed at first.
LEMMA OwedInit == Init => OwedInv
  <1> SUFFICES ASSUME Init PROVE OwedInv
    OBVIOUS
  <1>1. /\ snap = [s \in Slots |-> NoSnapshot] /\ pc = "idle"
    BY DEF Init
  <1>2. \A s \in Slots : snap[s] = NoSnapshot
    BY <1>1
  <1>3. NoSnapshot.bin = FALSE /\ NoSnapshot.checked = FALSE /\ NoSnapshot.img = Empty
    BY NoMarks, EmptyDirs
  <1>4. TidyInv
    BY <1>1, <1>2, <1>3, NoMarks DEF TidyInv, Tidy
  <1>5. UnwrittenInv /\ PendingInv /\ PlacedInv
    BY <1>1 DEF UnwrittenInv, PendingInv, PlacedInv, Making, BeforeCommit
  <1>6. \A c \in Clips : ~Kept(c)
    BY <1>2, <1>3 DEF Kept, Keeps, Has
  <1> QED
    BY <1>4, <1>5, <1>6 DEF OwedInv, LinkIsOwed, LossIsOwed

\* Every step keeps what is owed.
LEMMA OwedStep == Inductive /\ OwedInv /\ [Next]_vars => OwedInv'
  <1> SUFFICES ASSUME Inductive, OwedInv, [Next]_vars PROVE OwedInv'
    OBVIOUS
  <1>1. TidyInv /\ StepInv
    BY DEF OwedInv, StepInv
  <1>2. TidyInv' /\ StepInv'
    BY <1>1, TidyKept, StepKept
  <1>3. ASSUME NEW c \in Clips PROVE Owed(c)'
    <2>o. Owed(c)
      BY DEF OwedInv, Owed
    <2>1. CASE \/ \E d \in Clips : CarWrites(d) \/ CarDeletes(d)
               \/ SetupRerun \/ RecoverPick \/ RecoverSkip \/ UNCHANGED vars
      <3>1. /\ UNCHANGED <<snap, links, durable, torn, moved, slipped, marked>>
            /\ UNCHANGED <<pc, cur, plan>>
        BY <2>1 DEF CarWrites, CarDeletes, SetupRerun, RecoverPick, RecoverSkip,
           vars, diskVars, farmVars, tmpVars, runVars, history
      <3> QED
        BY <2>o, <3>1, QuietOwed
    <2>2. CASE \/ SettleBad \/ MakeOwe \/ MakeScanFails \/ RecoverScan \/ RecoverFails
               \/ RelinkDone \/ MakeDuplicate \/ RecoverLock \/ RebuildDone
               \/ (MakeCommit /\ pc' = "idle")
      BY <2>o, <2>2, MarkersOwed
    <2>3. CASE \/ MakeCopy \/ MakeCopyFails \/ MakeDiscardImage \/ MakeDiscardDir
               \/ ReleaseImage \/ ReleaseDir
      BY <2>o, <2>3, SlotStepsOwed
    <2>4. CASE MakeBegin \/ MakeMark
      BY <2>o, <2>4, BeginOwed, MarkOwed
    <2>5. CASE SettleOk \/ (MakeCommit /\ pc' # "idle") \/ MakeFinish \/ RecoverCommit
      BY <1>1, <2>o, <2>5, SettleOwed, CommitOwed, FinishOwed, RecoverOwed
    <2>6. CASE RelinkPlace \/ MakeLink \/ Rebuild
      BY <1>1, <2>o, <2>6, PlaceOwed
    <2>7. CASE Sweep \/ ReleasePrune \/ ReleaseRepoint \/ Writeback
      BY <2>o, <2>7, SweepOwed, ReleaseEndOwed, WritebackOwed
    <2>8. CASE ProcessDies \/ PowerCut
      BY <1>1, <2>o, <2>8, DeathOwed, CutOwed
    <2>9. CASE \E r \in Slots : ReleaseBegin(r)
      BY <1>1, <2>o, <2>9, ReleaseOwed
    <2> QED
      BY <2>1, <2>2, <2>3, <2>4, <2>5, <2>6, <2>7, <2>8, <2>9
      DEF Next, MakeStep, ReleaseStep, RecoverStep
  <1> QED
    BY <1>2, <1>3 DEF OwedInv, StepInv, Owed

\* What the store owes: in every reachable state a kept clip is linked, will be
\* re-pointed by the release under way or is owed a link by a snapshot that has
\* it, and the same goes for the link that a power cut would bring back.
THEOREM DebtsOutliveCuts == Spec => []OwedInv
  <1>1. Init => Inductive /\ OwedInv
    BY InductiveInit, OwedInit
  <1>2. Inductive /\ OwedInv /\ [Next]_vars => (Inductive /\ OwedInv)'
    BY InductiveStep, OwedStep
  <1> QED
    BY <1>1, <1>2, PTL DEF Spec

\* NothingForgotten, for every store: footage on a kept image that no link
\* leads to is owed one, whatever the order of copies, relinks, rebuilds,
\* releases, failures, deaths of the process and power cuts.
THEOREM NothingIsForgotten == Spec => []NothingForgotten
  <1>1. ASSUME Inductive, OwedInv PROVE NothingForgotten
    <2> SUFFICES ASSUME NEW c \in Clips, Unowed(c), c \notin torn,
                        ~(Releasing /\ c \in moved)
                 PROVE  \E s \in slipped : snap[s].bin /\ c \in Holds(s)
      BY DEF NothingForgotten
    <2>t. TypeOK /\ links \in [Clips -> Slots \cup {None}] /\ slipped \subseteq Slots
      BY <1>1 DEF Inductive, TypeOK
    <2>1. \A s \in Slots : Has(s, c) => ~Debt(s) /\ ~(Newest(s) /\ ~marked)
      BY DEF Unowed, Owes, Debt, Has, Holds
    <2>2. PICK s \in Slots : Has(s, c)
      BY DEF Unowed, Has, Holds
    <2>3. ~Linked(c)
      BY DEF Unowed
    <2>4. ~Exempt(s)
      <3>1. CASE BeforeCommit /\ s = cur
        <4>1. ~snap[s].hasToc
          BY <1>1, <3>1 DEF Inductive, CurInv, CurIsPrivate
        <4> QED
          BY <2>1, <2>2, <4>1 DEF Debt, TocLost
      <3>2. CASE Releasing /\ s = cur
        <4>1. pc = "unlink"
          BY <1>1, <2>2, <3>2 DEF Inductive, CurInv, CurImage, Has, Releasing
        <4> QED
          BY <1>1, <2>2, <2>3, <3>2, <4>1 DEF OwedInv, PlacedInv
      <3> QED
        BY <3>1, <3>2 DEF Exempt
    <2>5. Kept(c)
      BY <2>2, <2>4 DEF Kept, Keeps
    <2>6. ~Planned(c)
      BY DEF Planned
    <2>7. ~Reaches(c)
      BY <2>3 DEF Reaches, Keeps, Has, Linked, Holds
    <2>8. ~LinkDue(c)
      BY <2>1 DEF LinkDue, Due, Keeps
    <2>9. Excused(c)
      BY <1>1, <2>5, <2>6, <2>7, <2>8 DEF OwedInv, LinkIsOwed
    <2> QED
      BY <2>9 DEF Excused, Keeps, Has, Holds
  <1> QED
    BY <1>1, InductiveInvariant, DebtsOutliveCuts, PTL
=============================================================================
