-------------------------- MODULE MCSnapshotStore --------------------------
(* Small instances of SnapshotStore for TLC. *)
EXTENDS SnapshotStore, TLC

Symmetry == Permutations(Clips)

(***************************************************************************)
(* Steps that commute with the ones around them are tried in one place     *)
(* only.  The live image is read by MakeCopy alone, so the car moves while *)
(* no operation is under way.  A power cut may keep any subset of the      *)
(* unwritten links, which stands for a writeback in the middle of a run;   *)
(* only a release changes the same link twice, between prune and re-point. *)
(* The TOC rebuild picks its snapshot while idle or while a new image has  *)
(* no TOC yet.                                                             *)
(***************************************************************************)
Commuting ==
    /\ live' # live \/ (rebuildFlag' /\ ~rebuildFlag) => pc = "idle"
    /\ (durable' # durable \/ youngTocs' # youngTocs) /\ runVars' = runVars
         => pc \in {"idle", "repoint"}
    /\ recovered' /\ ~recovered => pc \in {"idle", "mark"}

\* No failing call and no setup re-run: only stops, and releases.
StopsOnly ==
    trouble' # trouble =>
      ProcessDies \/ PowerCut \/ \E s \in Slots : ReleaseBegin(s)

(***************************************************************************)
(* A store with a backlog, as some bad trips leave it.  The links of       *)
(* snapshot 1 failed and were made when 2 was taken, those of 2 failed and *)
(* were made when 3 was taken, those of 3 failed; then the power went.     *)
(* Three snapshots owe links at the next boot, so one of them is neither   *)
(* the newest nor the oldest debt.  A clip grew from one to the next.      *)
(***************************************************************************)
BacklogSnapshot(s) ==
    IF s > 3 THEN NoSnapshot
    ELSE LET r == Indexed(Copied(Created, [c \in Clips |-> s]))
         IN  IF s = 3 THEN Owing(r) ELSE [r EXCEPT !.verify = TRUE]

Backlog ==
    /\ live = [c \in Clips |-> 3] /\ rotated = {}
    /\ snap = [s \in Slots |-> BacklogSnapshot(s)]
    /\ links = [c \in Clips |-> 2] /\ durable = links
    /\ youngTocs = {} /\ rebuildFlag = FALSE
    /\ marked = FALSE /\ failed = {} /\ recovered = FALSE /\ candidate = None
    /\ pc = "idle" /\ cur = None /\ base = None /\ todo = {}
    /\ outcome = "nothing" /\ plan = NoPlan
    /\ moved = {} /\ torn = {} /\ slipped = {}
    /\ trouble = 0

BacklogSpec == Backlog /\ [][Next]_vars /\ Fairness
=============================================================================
