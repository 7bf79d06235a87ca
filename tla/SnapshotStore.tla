--------------------------- MODULE SnapshotStore ---------------------------
(***************************************************************************)
(* The snapshot store of the dashcam drive and the link farm that makes it *)
(* readable: crates/usb_gadget/src/snapshot.rs, and the boot-time TOC      *)
(* rebuild of run/archiveloop that shares its files and its lock.          *)
(*                                                                         *)
(* A snapshot is a numbered directory on /backingfiles with a reflink copy *)
(* of the cam image (snap.bin), a table of contents committed by a rename  *)
(* (snap.bin.toc) and marker files that say which links it still owes.     *)
(* The farm on /mutable holds one symlink per clip, into some snapshot.    *)
(* Every operation runs under one flock on the snapshots directory, so at  *)
(* most one of them is under way (pc); what interleaves with it is the car *)
(* writing, the kernel writing back, the death of the process and, above   *)
(* all, the power cut that ends most trips.                                *)
(*                                                                         *)
(* /backingfiles is taken to be durable in order.  Changes to the farm are *)
(* durable only once written back: a power cut undoes any subset of the    *)
(* others, and may leave a young TOC missing or empty.                     *)
(***************************************************************************)
EXTENDS Integers, FiniteSets

CONSTANTS
    Clips,                \* names of clips (and so of farm links)
    MaxSlot,              \* bound: highest slot number ever allocated
    MaxSize,              \* bound: size a clip can grow to
    MaxRelinkFailures,    \* RELINK_MAX_FAILURES
    MaxRecoverFailures,   \* attempts of the TOC rebuild, 3 in archiveloop
    MaxTrouble            \* bound: stops, failures, releases and setup re-runs

ASSUME BoundsAssumption ==
    /\ MaxSlot \in Nat \ {0} /\ MaxSize \in Nat
    /\ MaxRelinkFailures \in Nat \ {0} /\ MaxRecoverFailures \in Nat \ {0}
    /\ MaxTrouble \in Nat

Slots == 1..MaxSlot
None == 0                            \* no slot, no link
Content == [Clips -> Nat]            \* size of each clip, 0 when absent
Empty == [c \in Clips |-> 0]

(***************************************************************************)
(* One snapshot directory.  pending, verify and gaveUp are the relink      *)
(* markers, fails the lines in the pending one; checked and recFails       *)
(* belong to the TOC rebuild.  whole is FALSE for an image whose copy was  *)
(* cut short: nothing can be read from it.                                 *)
(***************************************************************************)
Snapshot == [dir : BOOLEAN, bin : BOOLEAN, whole : BOOLEAN, img : Content,
             hasToc : BOOLEAN, toc : Content,
             pending : BOOLEAN, fails : Nat, verify : BOOLEAN,
             gaveUp : BOOLEAN, checked : BOOLEAN, recFails : Nat]

NoSnapshot == [dir |-> FALSE, bin |-> FALSE, whole |-> FALSE, img |-> Empty,
               hasToc |-> FALSE, toc |-> Empty,
               pending |-> FALSE, fails |-> 0, verify |-> FALSE,
               gaveUp |-> FALSE, checked |-> FALSE, recFails |-> 0]

VARIABLES
    live,       \* contents of cam_disk.bin, written by the car
    rotated,    \* clips the car has deleted; their names never come back
    snap,       \* the snapshot directories, on /backingfiles
    links,      \* the link farm: the slot each clip's link points into
    durable,    \* the farm as it is on disk
    youngTocs,  \* slots whose TOC is not yet on disk
    rebuildFlag,\* /mutable/.rebuild_snapshot_symlinks
    marked,     \* /tmp: debts already marked this boot
    failed,     \* /tmp: snapshots whose relink failed this boot
    recovered,  \* /tmp: the TOC rebuild has had its turn this boot
    candidate,  \* snapshot the TOC rebuild picked before taking the lock
    pc,         \* step of the operation holding the lock, "idle" if none
    cur,        \* slot it works on
    base,       \* slot whose TOC the new snapshot is compared with
    todo,       \* snapshots still to relink or rebuild
    outcome,    \* of the last round of link placement
    plan,       \* re-points planned by a release
    moved,      \* history: clips a release touches whose links are not on disk
    torn,       \* history: clips a release or a rebuild left without a good link
    slipped,    \* history: snapshots that missed their boot-time mark
    trouble     \* how much of MaxTrouble is used up

camVars == <<live, rotated>>
tmpVars == <<marked, failed, recovered, candidate>>
runVars == <<pc, cur, base, todo, outcome, plan>>
history == <<moved, torn, slipped>>
diskVars == <<snap, youngTocs, rebuildFlag>>
farmVars == <<links, durable>>
vars == <<camVars, diskVars, farmVars, tmpVars, runVars, history, trouble>>

PCs == {"idle", "copy", "mark", "relink", "settle", "scan", "commit", "link",
        "finish", "rebuild", "discard", "discardDir",
        "unlink", "rmdir", "prune", "repoint", "recoverScan", "recoverCommit"}

Releasing == pc \in {"unlink", "rmdir", "prune", "repoint"}

TypeOK ==
    /\ live \in Content /\ rotated \subseteq Clips
    /\ snap \in [Slots -> Snapshot]
    /\ links \in [Clips -> Slots \cup {None}]
    /\ durable \in [Clips -> Slots \cup {None}]
    /\ youngTocs \subseteq Slots /\ rebuildFlag \in BOOLEAN
    /\ marked \in BOOLEAN /\ failed \subseteq Slots /\ recovered \in BOOLEAN
    /\ candidate \in Slots \cup {None}
    /\ pc \in PCs /\ cur \in Slots \cup {None} /\ base \in Slots \cup {None}
    /\ pc # "idle" => cur \in Slots
    /\ todo \subseteq Slots
    /\ outcome \in {"made", "nothing", "bad"}
    /\ plan \in [Clips -> Slots \cup {None}]
    /\ moved \subseteq Clips /\ torn \subseteq Clips /\ slipped \subseteq Slots
    /\ trouble \in 0..MaxTrouble

-----------------------------------------------------------------------------
(* What the operations read off the disk. *)

IsMax(s, S) == s \in S /\ \A t \in S : t <= s
IsMin(s, S) == s \in S /\ \A t \in S : s <= t

\* Both the image and a committed TOC exist.
Committed(s) == snap[s].bin /\ snap[s].hasToc
CommittedSlots == {s \in Slots : Committed(s)}
Newest(s) == IsMax(s, CommittedSlots)

Holds(s) == {c \in Clips : snap[s].img[c] > 0}
InToc(s) == {c \in Clips : snap[s].hasToc /\ snap[s].toc[c] > 0}

\* A clip's link leads to an image that has it.
Linked(c) == links[c] # None /\ snap[links[c]].bin /\ c \in Holds(links[c])

\* Slot pick: the TOC of slot s if there is one.
TocOr(s) == IF s \in Slots /\ snap[s].hasToc THEN s ELSE None

NoPlan == [c \in Clips |-> None]

\* What an operation does to the directory of one snapshot.
Created == [NoSnapshot EXCEPT !.dir = TRUE]
Copied(r, content) == [r EXCEPT !.bin = TRUE, !.whole = TRUE, !.img = content]
Imageless(r) == [r EXCEPT !.bin = FALSE, !.whole = FALSE, !.img = Empty]
Owing(r) == [r EXCEPT !.pending = TRUE, !.fails = 0]
Settled(r) == [r EXCEPT !.pending = FALSE, !.fails = 0]
Indexed(r) == [r EXCEPT !.hasToc = TRUE, !.toc = r.img]

Becomes(s, r) == snap' = [snap EXCEPT ![s] = r]

\* The operation ends and the lock is dropped.
Idle ==
    /\ pc' = "idle" /\ cur' = None /\ base' = None
    /\ todo' = {} /\ outcome' = "nothing" /\ plan' = NoPlan

Goto(label) == pc' = label /\ UNCHANGED <<cur, base, todo, outcome, plan>>

\* Stops, failures, releases and setup re-runs are bounded together.
Troubled == trouble < MaxTrouble /\ trouble' = trouble + 1

Init ==
    /\ live = Empty /\ rotated = {}
    /\ snap = [s \in Slots |-> NoSnapshot]
    /\ links = [c \in Clips |-> None] /\ durable = [c \in Clips |-> None]
    /\ youngTocs = {} /\ rebuildFlag = FALSE
    /\ marked = FALSE /\ failed = {} /\ recovered = FALSE /\ candidate = None
    /\ pc = "idle" /\ cur = None /\ base = None /\ todo = {}
    /\ outcome = "nothing" /\ plan = NoPlan
    /\ moved = {} /\ torn = {} /\ slipped = {}
    /\ trouble = 0

-----------------------------------------------------------------------------
(* The car records clips on the live image and rotates old ones away. *)

CarWrites(c) ==
    /\ live[c] < MaxSize /\ c \notin rotated
    /\ live' = [live EXCEPT ![c] = @ + 1]
    /\ UNCHANGED <<rotated, diskVars, farmVars, tmpVars, runVars, history, trouble>>

CarDeletes(c) ==
    /\ live[c] > 0
    /\ live' = [live EXCEPT ![c] = 0]
    /\ rotated' = rotated \cup {c}
    /\ UNCHANGED <<diskVars, farmVars, tmpVars, runVars, history, trouble>>

-----------------------------------------------------------------------------
(* make_snapshot, up to the copy. *)

\* Mutant: a top slot without a TOC is wiped and reused, image and all.
Pick_WipesImage(n, p) ==
    LET dirs == {s \in Slots : snap[s].dir}
    IN  \/ dirs = {} /\ n = 1 /\ p = None
        \/ \E top \in dirs :
             /\ IsMax(top, dirs)
             /\ \/ Committed(top) /\ n = top + 1 /\ p = top
                \/ ~Committed(top) /\ n = top /\ p = TocOr(top - 1)

\* pick_next_snapshot_slot: the slot n to write and the slot p whose TOC the
\* new one is compared with.  Only a top slot with neither image nor anything
\* mounted in it is wiped and reused.
Pick(n, p) ==
    LET dirs == {s \in Slots : snap[s].dir}
    IN  \/ dirs = {} /\ n = 1 /\ p = None
        \/ \E top \in dirs :
             /\ IsMax(top, dirs)
             /\ \/ Committed(top) /\ n = top + 1 /\ p = top
                \/ \* image kept for recovery, or something is still mounted
                   ~Committed(top) /\ n = top + 1 /\ p = TocOr(top - 1)
                \/ ~Committed(top) /\ ~snap[top].bin
                   /\ n = top /\ p = TocOr(top - 1)

\* Take the lock, pick a slot and create its directory (emptied on reuse).
\* Snapshots are minutes apart: the links of the previous one are on disk.
MakeBegin ==
    /\ pc = "idle" /\ links = durable
    /\ \E n \in Slots, p \in Slots \cup {None} :
         /\ Pick(n, p)
         /\ Becomes(n, Created)
         /\ cur' = n /\ base' = p
    /\ youngTocs' = youngTocs \ {cur'}
    /\ slipped' = slipped \ {cur'}
    /\ pc' = "copy"
    /\ UNCHANGED <<camVars, rebuildFlag, farmVars, tmpVars, todo, outcome,
                   plan, moved, torn, trouble>>

MakeCopy ==
    /\ pc = "copy"
    /\ Becomes(cur, Copied(snap[cur], live))
    /\ Goto("mark")
    /\ UNCHANGED <<camVars, youngTocs, rebuildFlag, farmVars, tmpVars,
                   history, trouble>>

\* cp failed or timed out: the directory goes, nothing is kept.
MakeCopyFails ==
    /\ pc = "copy" /\ Troubled
    /\ Becomes(cur, NoSnapshot)
    /\ Idle
    /\ UNCHANGED <<camVars, youngTocs, rebuildFlag, farmVars, tmpVars, history>>

-----------------------------------------------------------------------------
(* relink_pending_snapshot: the links that earlier runs still owe. *)

\* mark_relinks_for_boot_in: re-checks become debts and the newest committed
\* snapshot owes its links, unless the marker cannot be written (ok FALSE).
MarkedForBoot(s, ok) ==
    LET r    == snap[s]
        due  == Committed(s) /\ r.verify /\ (r.pending \/ ok)
        new  == Newest(s) /\ ~r.gaveUp /\ ok
    IN  [r EXCEPT !.verify  = @ /\ ~due,
                  !.pending = @ \/ due \/ new]

\* Mutant: the newest and the oldest snapshot are served, not the newest and
\* the oldest debt.
Picks_EndsOfTheStore(sn) ==
    {s \in Slots \ failed :
       sn[s].pending /\ (Newest(s) \/ IsMin(s, CommittedSlots))}

\* pending_relinks_in: the newest and the oldest debt not failed this boot.
Picks(sn) ==
    LET owing == {s \in Slots \ failed :
                    sn[s].bin /\ sn[s].hasToc /\ sn[s].pending}
    IN  {s \in owing : IsMax(s, owing) \/ IsMin(s, owing)}

MakeMark ==
    /\ pc = "mark"
    /\ \E bad \in SUBSET (IF marked THEN {} ELSE CommittedSlots) :
         /\ IF bad = {} THEN UNCHANGED trouble ELSE Troubled
         /\ snap' = IF marked THEN snap
                    ELSE [s \in Slots |-> MarkedForBoot(s, s \notin bad)]
         /\ slipped' = slipped \cup {s \in bad : /\ Newest(s) /\ ~snap[s].gaveUp
                                               /\ ~snap'[s].pending}
    /\ marked' = TRUE
    /\ todo' = Picks(snap')
    /\ pc' = "relink"
    /\ UNCHANGED <<camVars, youngTocs, rebuildFlag, farmVars, failed, recovered,
                   candidate, cur, base, outcome, plan, moved, torn>>

\* Mutant: filling in replaces existing links too.
ToPlace_AlwaysReplaces(s, fill) == Holds(s)

\* Linker::place over the clips of snapshot s.  fill leaves existing links
\* alone.  The links in bad fail; a failed replacement may have removed the
\* old link already.
ToPlace(s, fill) == {c \in Holds(s) : fill => links[c] = None}

Place(s, fill) ==
    \E bad \in SUBSET ToPlace(s, fill) : \E lost \in SUBSET bad :
      LET placed == ToPlace(s, fill) \ bad
      IN  /\ links' = [c \in Clips |-> IF c \in placed THEN s
                                       ELSE IF c \in lost THEN None
                                       ELSE links[c]]
          /\ torn' = IF pc = "rebuild" THEN torn \cup lost ELSE torn
          /\ IF bad = {}
             THEN outcome' = (IF placed = {} THEN "nothing" ELSE "made")
                  /\ UNCHANGED trouble
             ELSE outcome' = "bad" /\ Troubled

\* The snapshot's mount cannot be read: not a single link is tried.
PlaceFails == UNCHANGED <<links, torn>> /\ outcome' = "bad" /\ Troubled

\* The debts are served newest first; only the newest committed snapshot is
\* re-linked in full.
RelinkPlace ==
    /\ pc = "relink"
    /\ \E s \in todo :
         IsMax(s, todo) /\ (Place(s, ~Newest(s)) \/ PlaceFails)
    /\ pc' = "settle"
    /\ UNCHANGED <<camVars, diskVars, durable, tmpVars, cur, base, todo, plan,
                   moved, slipped>>

\* Mutant: links just made are not checked again after the next boot.
SettleOk_NoRecheck ==
    /\ pc = "settle" /\ outcome # "bad"
    /\ \E s \in todo :
         /\ IsMax(s, todo)
         /\ Becomes(s, Settled(snap[s]))
         /\ todo' = todo \ {s}
    /\ pc' = "relink"
    /\ UNCHANGED <<camVars, youngTocs, rebuildFlag, farmVars, tmpVars, cur, base,
                   outcome, plan, history, trouble>>

\* Every link landed.  Links just made are checked once more after the next
\* boot; a marker that cannot be written keeps the debt.
SettleOk ==
    /\ pc = "settle" /\ outcome # "bad"
    /\ \E s \in todo :
         /\ IsMax(s, todo)
         /\ \/ /\ Becomes(s, [Settled(snap[s]) EXCEPT !.verify = @ \/ outcome = "made"])
               /\ UNCHANGED trouble
            \/ outcome = "made" /\ snap' = snap /\ Troubled
         /\ todo' = todo \ {s}
    /\ pc' = "relink"
    /\ UNCHANGED <<camVars, youngTocs, rebuildFlag, farmVars, tmpVars, cur, base,
                   outcome, plan, history>>

\* A failure is counted, and the snapshot sits out the rest of this boot.
SettleBad ==
    /\ pc = "settle" /\ outcome = "bad"
    /\ \E s \in todo :
         /\ IsMax(s, todo)
         /\ Becomes(s, IF snap[s].fails + 1 >= MaxRelinkFailures
                       THEN [Settled(snap[s]) EXCEPT !.gaveUp = TRUE]
                       ELSE [snap[s] EXCEPT !.fails = @ + 1])
         /\ failed' = failed \cup {s}
         /\ todo' = todo \ {s}
    /\ pc' = "relink"
    /\ UNCHANGED <<camVars, youngTocs, rebuildFlag, farmVars, marked, recovered,
                   candidate, cur, base, outcome, plan, history, trouble>>

RelinkDone ==
    /\ pc = "relink" /\ todo = {}
    /\ Goto("scan")
    /\ UNCHANGED <<camVars, diskVars, farmVars, tmpVars, history, trouble>>

-----------------------------------------------------------------------------
(* make_snapshot, from the scan to the end. *)

\* Mutant: TOCs are compared by their number of lines.
HasAdditions_CountsLines(old, new) ==
    Cardinality({c \in Clips : new[c] > 0}) > Cardinality({c \in Clips : old[c] > 0})

\* toc_has_additions: some line (size and path) is not in the old TOC.
HasAdditions(old, new) == \E c \in Clips : new[c] > 0 /\ new[c] # old[c]

IsNew == base # None => HasAdditions(snap[base].toc, snap[cur].img)

\* The scan failed: the image is kept without a TOC.
MakeScanFails ==
    /\ pc = "scan" /\ Troubled
    /\ Idle
    /\ UNCHANGED <<camVars, diskVars, farmVars, tmpVars, history>>

MakeDuplicate ==
    /\ pc = "scan" /\ ~IsNew
    /\ Goto("discard")
    /\ UNCHANGED <<camVars, diskVars, farmVars, tmpVars, history, trouble>>

MakeDiscardImage ==
    /\ pc = "discard"
    /\ Becomes(cur, Imageless(snap[cur]))
    /\ Goto("discardDir")
    /\ UNCHANGED <<camVars, youngTocs, rebuildFlag, farmVars, tmpVars, history,
                   trouble>>

MakeDiscardDir ==
    /\ pc = "discardDir"
    /\ Becomes(cur, NoSnapshot)
    /\ Idle
    /\ UNCHANGED <<camVars, youngTocs, rebuildFlag, farmVars, tmpVars, history,
                   trouble>>

\* The links are marked as owed before the TOC commits.
MakeOwe ==
    /\ pc = "scan" /\ IsNew
    /\ \/ /\ Becomes(cur, Owing(snap[cur]))
          /\ Goto("commit") /\ UNCHANGED trouble
       \/ /\ snap' = snap /\ Idle /\ Troubled
    /\ UNCHANGED <<camVars, youngTocs, rebuildFlag, farmVars, tmpVars, history>>

\* The rename of the TOC commits the snapshot.
MakeCommit ==
    /\ pc = "commit"
    /\ \/ /\ Becomes(cur, Indexed(snap[cur]))
          /\ youngTocs' = youngTocs \cup {cur}
          /\ Goto("link") /\ UNCHANGED trouble
       \/ /\ UNCHANGED <<snap, youngTocs>> /\ Idle /\ Troubled
    /\ UNCHANGED <<camVars, rebuildFlag, farmVars, tmpVars, history>>

MakeLink ==
    /\ pc = "link"
    /\ Place(cur, FALSE) \/ PlaceFails
    /\ pc' = "finish"
    /\ UNCHANGED <<camVars, diskVars, durable, tmpVars, cur, base, todo, plan,
                   moved, slipped>>

\* The debt is struck out once every link landed; then the rebuild, if a
\* setup re-run asked for one.
MakeFinish ==
    /\ pc = "finish"
    /\ Becomes(cur, IF outcome = "bad" THEN snap[cur] ELSE Settled(snap[cur]))
    /\ IF rebuildFlag
       THEN /\ pc' = "rebuild"
            /\ todo' = {s \in Slots : snap'[s].bin /\ snap'[s].hasToc}
            /\ UNCHANGED <<cur, base, outcome, plan>>
       ELSE Idle
    /\ UNCHANGED <<camVars, youngTocs, rebuildFlag, farmVars, tmpVars, history,
                   trouble>>

\* rebuild_all_snapshot_links: in directory order, every committed snapshot
\* that no link points into is linked in full.
Rebuild ==
    /\ pc = "rebuild"
    /\ \E s \in todo :
         /\ todo' = todo \ {s}
         /\ IF \E c \in Clips : links[c] = s
            THEN UNCHANGED <<links, torn, outcome, trouble>>
            ELSE Place(s, FALSE) \/ PlaceFails
    /\ UNCHANGED <<camVars, diskVars, durable, tmpVars, pc, cur, base, plan,
                   moved, slipped>>

RebuildDone ==
    /\ pc = "rebuild" /\ todo = {}
    /\ rebuildFlag' = FALSE
    /\ Idle
    /\ UNCHANGED <<camVars, snap, youngTocs, farmVars, tmpVars, history, trouble>>

\* configure.sh of a setup re-run on an existing install.
SetupRerun ==
    /\ Troubled
    /\ rebuildFlag' = TRUE
    /\ UNCHANGED <<camVars, snap, youngTocs, farmVars, tmpVars, runVars, history>>

-----------------------------------------------------------------------------
(* release_snapshot. *)

\* plan_relinks: each link into the released snapshot r goes to the largest
\* copy a surviving TOC lists, the highest slot among equals.
Survivors(r, c) == {s \in Slots \ {r} : snap[s].bin /\ c \in InToc(s)}

Best(r, c) ==
    {s \in Survivors(r, c) :
       \A t \in Survivors(r, c) :
          \/ snap[t].toc[c] < snap[s].toc[c]
          \/ snap[t].toc[c] = snap[s].toc[c] /\ t <= s}

Repoint(r, c) ==
    IF links[c] # r \/ Best(r, c) = {} THEN None
    ELSE CHOOSE s \in Best(r, c) : TRUE

ReleaseBegin(s) ==
    /\ pc = "idle" /\ snap[s].dir
    /\ Troubled
    /\ plan' = [c \in Clips |-> Repoint(s, c)]
    /\ moved' = moved \cup {c \in Clips : s \in {links[c], durable[c]}}
                       \cup {c \in Holds(s) : links[c] # durable[c]}
    /\ torn' = torn \cup {c \in Holds(s) : ~Linked(c)}
    /\ pc' = "unlink" /\ cur' = s
    /\ UNCHANGED <<camVars, diskVars, farmVars, tmpVars, base, todo, outcome,
                   slipped>>

\* remove_dir_all is not atomic: the image goes, then the rest.
ReleaseImage ==
    /\ pc = "unlink"
    /\ Becomes(cur, Imageless(snap[cur]))
    /\ Goto("rmdir")
    /\ UNCHANGED <<camVars, youngTocs, rebuildFlag, farmVars, tmpVars, history,
                   trouble>>

ReleaseDir ==
    /\ pc = "rmdir"
    /\ Becomes(cur, NoSnapshot)
    /\ youngTocs' = youngTocs \ {cur}
    /\ Goto("prune")
    /\ UNCHANGED <<camVars, rebuildFlag, farmVars, tmpVars, history, trouble>>

\* Links that fail are left as they are and nothing notes them: the release
\* goes on and ends as if they were not there.
LeavesBehind(failing) ==
    /\ torn' = torn \cup failing
    /\ IF failing = {} THEN UNCHANGED trouble ELSE Troubled

\* prune_links_into: links that cannot be unlinked stay (failing), as do all
\* that are left when /backingfiles is found unmounted half way.
ReleasePrune ==
    /\ pc = "prune"
    /\ \E failing \in SUBSET {c \in Clips : links[c] = cur} :
         /\ links' = [c \in Clips |->
                        IF links[c] = cur /\ c \notin failing THEN None
                        ELSE links[c]]
         /\ LeavesBehind(failing)
    /\ IF links' # links THEN Goto("repoint") ELSE Idle
    /\ UNCHANGED <<camVars, diskVars, durable, tmpVars, moved, slipped>>

\* apply_relinks: a link that exists is left alone and one that cannot be
\* made is skipped; all are when /backingfiles is not mounted any more.
ReleaseRepoint ==
    /\ pc = "repoint"
    /\ \E failing \in SUBSET {c \in Clips : links[c] = None /\ plan[c] # None} :
         /\ links' = [c \in Clips |->
                        IF links[c] = None /\ c \notin failing THEN plan[c]
                        ELSE links[c]]
         /\ LeavesBehind(failing)
    /\ Idle
    /\ UNCHANGED <<camVars, diskVars, durable, tmpVars, moved, slipped>>

\* sweep_dangling_links: links into snapshots that are provably gone, or some
\* of them when an unlink fails or /backingfiles goes away.
Sweep ==
    /\ pc = "idle" /\ \E s \in Slots : snap[s].dir
    /\ \E failing \in SUBSET Clips :
         links' = [c \in Clips |->
                     IF links[c] # None /\ ~snap[links[c]].dir /\ c \notin failing
                     THEN None ELSE links[c]]
    /\ UNCHANGED <<camVars, diskVars, durable, tmpVars, runVars, history, trouble>>

-----------------------------------------------------------------------------
(* recover_one_snapshot_toc, once per boot. *)

\* The TOC is missing, or empty and never rebuilt.
TocLost(s) ==
    \/ ~snap[s].hasToc
    \/ snap[s].toc = Empty /\ ~snap[s].checked

Recoverable ==
    {s \in Slots : /\ snap[s].bin /\ TocLost(s)
                   /\ snap[s].recFails < MaxRecoverFailures}

\* The snapshot is chosen before the lock is tried.
RecoverPick ==
    /\ ~recovered /\ recovered' = TRUE
    /\ candidate' \in IF Recoverable = {} THEN {None}
                      ELSE {s \in Recoverable : IsMax(s, Recoverable)}
    /\ UNCHANGED <<camVars, diskVars, farmVars, marked, failed, runVars, history,
                   trouble>>

\* Mounted, or the lock is busy: it has to wait for the next boot.
RecoverSkip ==
    /\ candidate # None
    /\ candidate' = None
    /\ UNCHANGED <<camVars, diskVars, farmVars, marked, failed, recovered,
                   runVars, history, trouble>>

\* Mutant: the rebuild goes ahead without a snapshot to rebuild.
RecoverLock_NoCandidate ==
    /\ recovered /\ pc = "idle"
    /\ cur' = candidate /\ candidate' = None
    /\ pc' = "recoverScan"
    /\ UNCHANGED <<camVars, diskVars, farmVars, marked, failed, recovered, base,
                   todo, outcome, plan, history, trouble>>

RecoverLock ==
    /\ candidate # None /\ pc = "idle"
    /\ cur' = candidate /\ candidate' = None
    /\ pc' = "recoverScan"
    /\ UNCHANGED <<camVars, diskVars, farmVars, marked, failed, recovered, base,
                   todo, outcome, plan, history, trouble>>

\* The clips found may have no links yet: owed before the TOC commits.
RecoverScan ==
    /\ pc = "recoverScan" /\ snap[cur].whole
    /\ Becomes(cur, IF snap[cur].img = Empty THEN snap[cur]
                    ELSE Owing(snap[cur]))
    /\ Goto("recoverCommit")
    /\ UNCHANGED <<camVars, youngTocs, rebuildFlag, farmVars, tmpVars, history,
                   trouble>>

RecoverCommit ==
    /\ pc = "recoverCommit"
    /\ Becomes(cur, [Indexed(snap[cur]) EXCEPT
                       !.checked = @ \/ snap[cur].img = Empty])
    /\ youngTocs' = youngTocs \cup {cur}
    /\ slipped' = IF marked THEN slipped
                  ELSE slipped \cup {s \in Slots : Newest(s) /\ s < cur}
    /\ Idle
    /\ UNCHANGED <<camVars, rebuildFlag, farmVars, tmpVars, moved, torn, trouble>>

\* The scan, the marker or the rename failed, or took too long: no surprise
\* when the image is not whole.  A snapshot that went away meanwhile leaves
\* nothing to write to.
RecoverFails ==
    /\ pc \in {"recoverScan", "recoverCommit"}
    /\ IF snap[cur].whole THEN Troubled ELSE UNCHANGED trouble
    /\ Becomes(cur, IF snap[cur].dir THEN [snap[cur] EXCEPT !.recFails = @ + 1]
                    ELSE snap[cur])
    /\ Idle
    /\ UNCHANGED <<camVars, youngTocs, rebuildFlag, farmVars, tmpVars, history>>

-----------------------------------------------------------------------------
(* Writeback, and the stops that come before it. *)

Writeback ==
    /\ links # durable \/ youngTocs # {} \/ (moved # {} /\ ~Releasing)
    /\ durable' = links /\ youngTocs' = {}
    /\ moved' = IF Releasing THEN moved ELSE {}
    /\ UNCHANGED <<camVars, snap, rebuildFlag, links, tmpVars, runVars, torn,
                   slipped, trouble>>

\* A copy cut short may leave an image nothing can be read from.
CutShort == {FALSE, pc = "copy"}

\* The process holding the lock dies (update, restart, kill).
ProcessDies ==
    /\ pc # "idle" /\ Troubled
    /\ \E half \in CutShort : Becomes(cur, [snap[cur] EXCEPT !.bin = @ \/ half])
    /\ torn' = IF Releasing THEN torn \cup moved ELSE torn
    /\ Idle
    /\ UNCHANGED <<camVars, youngTocs, rebuildFlag, farmVars, tmpVars, moved,
                   slipped>>

AfterCut(r, missing, blank, half) ==
    [r EXCEPT !.bin = @ \/ half, !.hasToc = @ /\ ~missing,
              !.toc = IF missing \/ blank THEN Empty ELSE @]

\* Any subset of the unwritten links is lost, young TOCs end up missing or
\* empty or survive, and /tmp starts afresh.
PowerCut ==
    /\ Troubled
    /\ \E undone \in SUBSET {c \in Clips : links[c] # durable[c]} :
         links' = [c \in Clips |-> IF c \in undone THEN durable[c] ELSE links[c]]
    /\ durable' = links'
    /\ \E missing, blank \in SUBSET youngTocs, half \in CutShort :
         snap' = [s \in Slots |-> AfterCut(snap[s], s \in missing, s \in blank,
                                          half /\ s = cur)]
    /\ youngTocs' = {} /\ marked' = FALSE /\ failed' = {}
    /\ recovered' = FALSE /\ candidate' = None
    /\ torn' = torn \cup moved /\ moved' = {}
    /\ Idle
    /\ UNCHANGED <<camVars, rebuildFlag, slipped>>

-----------------------------------------------------------------------------
MakeStep ==
    \/ MakeBegin \/ MakeCopy \/ MakeMark \/ RelinkPlace \/ SettleOk \/ SettleBad
    \/ RelinkDone \/ MakeDuplicate \/ MakeDiscardImage \/ MakeDiscardDir
    \/ MakeOwe \/ MakeCommit \/ MakeLink \/ MakeFinish \/ Rebuild \/ RebuildDone

ReleaseStep ==
    \/ ReleaseImage \/ ReleaseDir \/ ReleasePrune \/ ReleaseRepoint

RecoverStep ==
    \/ RecoverScan \/ RecoverCommit \/ RecoverFails

Next ==
    \/ \E c \in Clips : CarWrites(c) \/ CarDeletes(c)
    \/ MakeStep \/ MakeCopyFails \/ MakeScanFails \/ SetupRerun
    \/ (\E s \in Slots : ReleaseBegin(s)) \/ ReleaseStep \/ Sweep
    \/ RecoverPick \/ RecoverSkip \/ RecoverLock \/ RecoverStep
    \/ Writeback \/ ProcessDies \/ PowerCut

Spec == Init /\ [][Next]_vars

\* snapshotloop runs make_snapshot for ever and an operation that holds the
\* lock runs on; the kernel writes back.  Nothing forces a release, a setup
\* re-run or a TOC rebuild to start, and the car owes nobody anything.
Fairness ==
    /\ WF_vars(MakeStep) /\ WF_vars(ReleaseStep) /\ WF_vars(RecoverStep)
    /\ WF_vars(Writeback)

FairSpec == Spec /\ Fairness

-----------------------------------------------------------------------------
(* Properties *)

\* Somebody will still make (or has given up making) the links of s.
Owes(s) ==
    \/ snap[s].pending \/ snap[s].verify \/ snap[s].gaveUp
    \/ TocLost(s)
    \/ Newest(s) /\ ~marked

\* Footage on a kept image is never forgotten: when no link leads to a clip,
\* one of the snapshots holding it owes links (pending, to be re-checked, given
\* up on, waiting for its TOC, or the newest one before this boot's marking).
\* The markers written before a commit and after a relink exist for this
\* ("so a stop in between gets them made by a later run").  The exceptions are
\* the histories: a release that dropped the debt, that is under way or was
\* stopped half way, that could not unlink or re-point the clip (torn, moved),
\* or whose re-points, like links made shortly before it, a power cut undid;
\* and a boot-time mark that was missed.
Unowed(c) ==
    LET holders == {s \in Slots : snap[s].bin /\ c \in Holds(s)}
    IN  holders # {} /\ ~Linked(c) /\ \A s \in holders : ~Owes(s)

NothingForgotten ==
    \A c \in Clips : Unowed(c) =>
       \/ c \in torn \/ (Releasing /\ c \in moved)
       \/ \E s \in slipped : snap[s].bin /\ c \in Holds(s)

\* Every link leads to a snapshot image that holds its clip, unless a release
\* is about to unlink it, failed to or was stopped before it did: slots are wiped, reused
\* and discarded only when nothing points into them.
LinksLeadToClips ==
    \A c \in Clips :
       links[c] # None => Linked(c) \/ c \in torn \/ (Releasing /\ links[c] = cur)

\* A discarded or reused slot never takes the last copy of a clip with it:
\* outside a release, an image disappears only when another kept image has
\* every clip of it in the same size.  (The one exception is a baseline whose
\* own image a stopped release took, leaving its TOC behind.)
ImagesOutliveReuse ==
    [][\A s \in Slots :
         snap[s].bin /\ ~snap'[s].bin /\ ~Releasing
           => \/ base # None /\ ~snap[base].bin
              \/ \A c \in Holds(s) : \E t \in Slots \ {s} :
                   snap'[t].bin /\ snap'[t].img[c] = snap[s].img[c]]_vars

\* Re-linking never moves a clip's link from a committed snapshot to an older
\* one ("so re-linking an older recovered snapshot can't undo newer targets");
\* only a power cut, which loses the newer link, and the rebuild may.
NewerTargetsStay ==
    [][\A c \in Clips :
         links'[c] # None /\ links'[c] < links[c] /\ Committed(links[c])
           => pc = "rebuild" \/ PowerCut]_vars

\* A debt is served: a committed snapshot that owes links gets them, fails and
\* sits out the boot, or goes, however many newer ones keep the loop busy
\* ("so a backlog can't starve").  Slots run out in the model only.
DebtsAreServed ==
    \A s \in Slots :
      Committed(s) /\ snap[s].pending
        ~> \/ ~snap[s].pending \/ ~Committed(s) \/ s \in failed
           \/ pc = "idle" /\ snap[MaxSlot].bin

\* What snapshot.rs says of a release: the re-points are planned beforehand
\* "so clips another snapshot still holds aren't orphaned".  It does not hold
\* when the release is stopped between the removal and the re-point.  (A clip
\* that the newest committed snapshot holds is linked again after a boot.)
ReleaseOrphansNothing ==
    ~Releasing => \A c \in torn :
       Unowed(c) => \E s \in Slots : Newest(s) /\ c \in Holds(s)

\* What make_snapshot.sh says of the boot-time marks: since a power cut can
\* lose the links just made, "once per boot the newest snapshot is marked as
\* owing links".  The snapshot that lost them is not the newest one any more
\* when the TOC rebuild has committed a newer image first.
LostLinksAreOwed ==
    pc = "idle" => \A s \in slipped : \A c \in Holds(s) : snap[s].bin => ~Unowed(c)
=============================================================================
