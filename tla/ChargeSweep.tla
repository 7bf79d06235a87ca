----------------------------- MODULE ChargeSweep -----------------------------
(***************************************************************************)
(* Charge sessions on their way to the Cloud: the upload sweep with its    *)
(* cursor (crates/cloud_uploader/src/charges.rs), the delete outbox and    *)
(* its sweep (charge_deletes.rs, bulk_delete_charges in api/src/           *)
(* charging.rs), the imports that bring sessions back (drives/src/db.rs)   *)
(* and the loop that runs both sweeps (uploader.rs).                       *)
(*                                                                         *)
(* A session is known by the timestamp of its first row, so a deleted and  *)
(* re-imported session has its old identity, in the Cloud too.             *)
(***************************************************************************)
EXTENDS Naturals, FiniteSets, FiniteSetsExt

CONSTANTS MaxSession,   \* sessions are 1..MaxSession, by their first timestamp
          Large,        \* the sessions the Cloud rejects as too large
          MaxImports,   \* bound: imports
          MaxDeletes,   \* bound: deletions by the user
          MaxTroubles   \* bound: restarts, failed or cancelled sweeps, refusals

Sessions == 1..MaxSession

ASSUME ChargeAssumption ==
  /\ MaxSession \in Nat /\ MaxImports \in Nat /\ MaxDeletes \in Nat /\ MaxTroubles \in Nat
  /\ Large \subseteq Sessions

VARIABLES
  \* in SQLite
  local,      \* local[t]: the samples of session t, "none", "open" or "closed"
  mark,       \* mark[t]: its row in charge_uploads, "none", "sent" or "skip"
  outbox,     \* outbox[t]: its row in charge_delete_outbox
  cursor,     \* where the next sweep may start, 0 when unset
  fullDone,   \* the date of the last full sweep is today's
  \* of the process
  importing,  \* the session of an import that has not reset the cursor yet, or 0
  sweep,      \* the sweep loop
  \* the Cloud
  account,    \* the sessions it has
  late,       \* sessions of uploads that gave no answer and may still commit
  \* counters, and what really happened
  newest,     \* the newest session there has been
  slipped,    \* sessions, not deleted since, that were imported behind a sweep's back
  imports, removals, troubles

chargeVars == <<local, mark, outbox, cursor, fullDone, importing, sweep, account, late,
                newest, slipped, imports, removals, troubles>>
chargeStore == <<local, mark, outbox, cursor, fullDone, importing>>
chargeCount == <<newest, slipped, imports, removals, troubles>>

NoSweep == [pc |-> "idle", token |-> 0, dated |-> FALSE, from |-> 0,
            ups |-> {}, rows |-> [t \in Sessions |-> "none"], todo |-> {}, settled |-> {}]

ChargeTypeOK ==
  /\ local \in [Sessions -> {"none", "open", "closed"}]
  /\ mark \in [Sessions -> {"none", "sent", "skip"}]
  /\ outbox \in [Sessions -> {"none", "pending", "settled"}]
  /\ cursor \in 0..MaxSession
  /\ fullDone \in BOOLEAN /\ importing \in 0..MaxSession
  /\ sweep \in [pc : {"idle", "uploads", "rows", "frontier", "outbox", "post", "ack",
                      "deletes", "delete", "settle"},
                token : 0..MaxSession, dated : BOOLEAN, from : 0..MaxSession,
                ups : SUBSET Sessions, rows : [Sessions -> {"none", "open", "closed"}],
                todo : SUBSET Sessions, settled : SUBSET Sessions]
  /\ account \subseteq Sessions /\ late \subseteq Sessions
  /\ newest \in 0..MaxSession /\ slipped \subseteq Sessions
  /\ imports \in 0..MaxImports /\ removals \in 0..MaxDeletes /\ troubles \in 0..MaxTroubles

ChargeInit ==
  /\ local = [t \in Sessions |-> "none"] /\ mark = [t \in Sessions |-> "none"]
  /\ outbox = [t \in Sessions |-> "none"]
  /\ cursor = 0 /\ fullDone = FALSE
  /\ importing = 0 /\ sweep = NoSweep
  /\ account = {} /\ late = {} /\ newest = 0 /\ slipped = {}
  /\ imports = 0 /\ removals = 0 /\ troubles = 0

SweepTo(pc) == sweep' = [sweep EXCEPT !.pc = pc]

-----------------------------------------------------------------------------
(* The upload sweep.  Every read and every write is a transaction of its   *)
(* own; only writes wait for an import.                                    *)

ReadCursor ==
  /\ sweep.pc = "idle"
  /\ sweep' = [NoSweep EXCEPT !.pc = "uploads", !.token = cursor,
                              !.dated = ~fullDone, !.from = IF fullDone THEN cursor ELSE 0]
  /\ UNCHANGED <<chargeStore, account, late, chargeCount>>

ReadUploads ==
  /\ sweep.pc = "uploads"
  /\ sweep' = [sweep EXCEPT !.pc = "rows",
                 !.ups = {t \in Sessions : t >= sweep.from /\ mark[t] # "none"}]
  /\ UNCHANGED <<chargeStore, account, late, chargeCount>>

ReadRows ==
  /\ sweep.pc = "rows"
  /\ sweep' = [sweep EXCEPT !.pc = "frontier",
                 !.rows = [t \in Sessions |-> IF t >= sweep.from THEN local[t] ELSE "none"]]
  /\ UNCHANGED <<chargeStore, account, late, chargeCount>>

Seen == {t \in Sessions : sweep.rows[t] # "none"}
Handled(t) == sweep.rows[t] = "closed" /\ t \in sweep.ups

(* sweep_frontier: the oldest session that is open or not handled, else    *)
(* the newest one, else the cursor stays.                                  *)
Frontier ==
  LET ahead == {t \in Seen : ~Handled(t)} IN
    IF ahead # {} THEN Min(ahead) ELSE IF Seen # {} THEN Max(Seen) ELSE cursor

(* The frontier is stored whatever happened to the cursor meanwhile.       *)
StoreFrontier_NoToken ==
  /\ sweep.pc = "frontier" /\ importing = 0
  /\ cursor' = Frontier /\ fullDone' = (fullDone \/ sweep.dated)
  /\ sweep' = [sweep EXCEPT !.pc = "outbox", !.token = 0, !.dated = FALSE, !.from = 0]
  /\ UNCHANGED <<local, mark, outbox, importing, account, late, chargeCount>>

(* The raw cursor is the token of a compare-and-set.                       *)
StoreFrontier ==
  /\ sweep.pc = "frontier" /\ importing = 0
  /\ IF cursor = sweep.token
     THEN cursor' = Frontier /\ fullDone' = (fullDone \/ sweep.dated)
     ELSE UNCHANGED <<cursor, fullDone>>
  /\ sweep' = [sweep EXCEPT !.pc = "outbox", !.token = 0, !.dated = FALSE, !.from = 0]
  /\ UNCHANGED <<local, mark, outbox, importing, account, late, chargeCount>>

(* Closed, not handled, and not in the delete outbox: to be posted.        *)
ReadOutbox ==
  /\ sweep.pc = "outbox"
  /\ LET due == {t \in Seen : /\ sweep.rows[t] = "closed" /\ t \notin sweep.ups
                              /\ outbox[t] = "none"}
     IN sweep' = [NoSweep EXCEPT !.pc = IF due = {} THEN "deletes" ELSE "post", !.todo = due]
  /\ UNCHANGED <<chargeStore, account, late, chargeCount>>

(* The Cloud stores the batch, or has it already, and answers.             *)
PostCharges ==
  /\ sweep.pc = "post"
  /\ account' = account \cup (sweep.todo \ Large)
  /\ SweepTo("ack")
  /\ UNCHANGED <<chargeStore, late, chargeCount>>

(* An upload without an answer is taken for stored.                        *)
PostUnanswered_Marked ==
  /\ sweep.pc = "post" /\ troubles < MaxTroubles
  /\ troubles' = troubles + 1
  /\ late' = late \cup (sweep.todo \ Large)
  /\ mark' = [t \in Sessions |-> IF t \in sweep.todo THEN "sent" ELSE mark[t]]
  /\ SweepTo("deletes")
  /\ UNCHANGED <<local, outbox, cursor, fullDone, importing, account, newest, slipped,
                 imports, removals>>

(* No answer: the upload may commit later, or never.                       *)
PostUnanswered ==
  /\ sweep.pc = "post" /\ troubles < MaxTroubles
  /\ troubles' = troubles + 1
  /\ late' = late \cup (sweep.todo \ Large)
  /\ SweepTo("deletes")
  /\ UNCHANGED <<chargeStore, account, newest, slipped, imports, removals>>

LateCommit(t) ==
  /\ t \in late
  /\ account' = account \cup {t} /\ late' = late \ {t}
  /\ UNCHANGED <<chargeStore, sweep, chargeCount>>

(* confirm_charge_upload and charge_upload_mark: not while a deletion of   *)
(* the session is queued.                                                  *)
ConfirmCharge(t) ==
  mark' = IF outbox[t] # "none" THEN mark
          ELSE [mark EXCEPT ![t] = IF t \in Large THEN "skip" ELSE "sent"]

AcknowledgeCharge(t) ==
  /\ sweep.pc = "ack" /\ t \in sweep.todo /\ importing = 0
  /\ ConfirmCharge(t)
  /\ sweep' = [sweep EXCEPT !.todo = @ \ {t},
                            !.pc = IF sweep.todo = {t} THEN "deletes" ELSE "ack"]
  /\ UNCHANGED <<local, outbox, cursor, fullDone, importing, account, late, chargeCount>>

-----------------------------------------------------------------------------
(* The delete sweep, after the uploads of the same round.                  *)

ReadDeletes ==
  /\ sweep.pc = "deletes"
  /\ LET rows == {t \in Sessions : outbox[t] # "none"} IN
       sweep' = IF rows = {} THEN NoSweep
                ELSE [sweep EXCEPT !.pc = "delete", !.todo = rows,
                                   !.settled = {t \in rows : outbox[t] = "settled"}]
  /\ UNCHANGED <<chargeStore, account, late, chargeCount>>

(* The Cloud deletes.  The final delete of a settled row comes a round     *)
(* after the first; by then uploads that gave no answer are taken to have  *)
(* committed or died.                                                      *)
PostDeletes ==
  /\ sweep.pc = "delete"
  /\ account' = account \ sweep.todo
  /\ late' = late \ sweep.settled
  /\ SweepTo("settle")
  /\ UNCHANGED <<chargeStore, chargeCount>>

(* charge_delete_ack, or charge_delete_remove if the row is still settled. *)
SettleRow(t) ==
  outbox' = [outbox EXCEPT ![t] =
               IF t \notin sweep.settled THEN (IF @ = "none" THEN "none" ELSE "settled")
               ELSE IF @ = "settled" THEN "none" ELSE @]

AcknowledgeDelete(t) ==
  /\ sweep.pc = "settle" /\ t \in sweep.todo /\ importing = 0
  /\ SettleRow(t)
  /\ sweep' = IF sweep.todo = {t} THEN NoSweep ELSE [sweep EXCEPT !.todo = @ \ {t}]
  /\ UNCHANGED <<local, mark, cursor, fullDone, importing, account, late, chargeCount>>

(* A refusal, an error, or a lost answer of the delete sweep ends a sweep; *)
(* an error of the upload sweep is followed by the delete sweep, a         *)
(* cancellation is not.                                                    *)
SweepFails(to) ==
  /\ sweep.pc # "idle" /\ troubles < MaxTroubles
  /\ to = "deletes" => sweep.pc \notin {"deletes", "delete", "settle"}
  /\ troubles' = troubles + 1
  /\ sweep' = [NoSweep EXCEPT !.pc = to]
  /\ UNCHANGED <<chargeStore, account, late, newest, slipped, imports, removals>>

-----------------------------------------------------------------------------
(* The user, the sampler, and the clock.                                   *)

(* A new session is newer than every other.                                *)
ChargeBegins(t) ==
  /\ t > newest /\ \A s \in Sessions : local[s] # "open"
  /\ local' = [local EXCEPT ![t] = "open"] /\ newest' = t
  /\ UNCHANGED <<mark, outbox, cursor, fullDone, importing, sweep, account, late, slipped,
                 imports, removals, troubles>>

ChargeEnds(t) ==
  /\ local[t] = "open"
  /\ local' = [local EXCEPT ![t] = "closed"]
  /\ UNCHANGED <<mark, outbox, cursor, fullDone, importing, sweep, account, late, chargeCount>>

BulkDelete(t) ==
  /\ removals < MaxDeletes /\ importing = 0 /\ local[t] # "none"
  /\ removals' = removals + 1
  /\ local' = [local EXCEPT ![t] = "none"]
  /\ outbox' = [outbox EXCEPT ![t] = "pending"]
  /\ mark' = [mark EXCEPT ![t] = "none"]
  /\ slipped' = slipped \ {t}
  /\ UNCHANGED <<cursor, fullDone, importing, sweep, account, late, newest, imports, troubles>>

(* import_json commits the rows; the reset of the cursor is a transaction  *)
(* of its own under the same writer lock.                                  *)
ImportRows(t) ==
  /\ imports < MaxImports /\ importing = 0 /\ local[t] = "none"
  /\ imports' = imports + 1 /\ importing' = t
  /\ local' = [local EXCEPT ![t] = "closed"]
  /\ newest' = Max({newest, t})
  /\ slipped' = IF cursor = 0 /\ sweep.token = 0
                   /\ sweep.pc \in {"uploads", "rows", "frontier"}
                THEN slipped \cup {t} ELSE slipped
  /\ UNCHANGED <<mark, outbox, cursor, fullDone, sweep, account, late, removals, troubles>>

ImportReset ==
  /\ importing # 0 /\ importing' = 0
  /\ cursor' = 0
  /\ UNCHANGED <<local, mark, outbox, fullDone, sweep, account, late, chargeCount>>

NewDay ==
  /\ fullDone' = FALSE
  /\ sweep' = [sweep EXCEPT !.dated = FALSE]
  /\ UNCHANGED <<local, mark, outbox, cursor, importing, account, late, chargeCount>>

(* A request that was under way may still arrive; an import whose rows are *)
(* committed has not reset the cursor.                                     *)
SweeperDies ==
  /\ troubles < MaxTroubles
  /\ troubles' = troubles + 1
  /\ sweep' = NoSweep /\ importing' = 0
  /\ late' = IF sweep.pc = "post" THEN late \cup (sweep.todo \ Large) ELSE late
  /\ slipped' = slipped \cup ({importing} \ {0})
  /\ UNCHANGED <<local, mark, outbox, cursor, fullDone, account, newest, imports, removals>>

SweepStep ==
  \/ ReadCursor \/ ReadUploads \/ ReadRows \/ StoreFrontier \/ ReadOutbox \/ PostCharges
  \/ ReadDeletes \/ PostDeletes
  \/ \E t \in Sessions : AcknowledgeCharge(t) \/ AcknowledgeDelete(t)

ChargeNext ==
  \/ SweepStep \/ PostUnanswered \/ (\E to \in {"deletes", "idle"} : SweepFails(to))
  \/ (\E t \in Sessions : LateCommit(t) \/ ChargeBegins(t) \/ ChargeEnds(t)
                          \/ BulkDelete(t) \/ ImportRows(t))
  \/ ImportReset \/ NewDay \/ SweeperDies

ChargeSpec == ChargeInit /\ [][ChargeNext]_chargeVars

-----------------------------------------------------------------------------
(* The cursor never passes a session that is not in the Cloud yet, however *)
(* imports, deletions and re-imports fall between the reads and the write  *)
(* of a sweep.  An import that has not reset the cursor yet has a session  *)
(* behind it; two imports leave theirs there: one that a restart stops     *)
(* before the reset, and one during a sweep that began without a cursor,   *)
(* where the token cannot tell "unset" from "unset again".                 *)
CursorWaits ==
  \A t \in Sessions :
    local[t] # "none" /\ mark[t] = "none" /\ t < cursor => t \in slipped \cup {importing}

(* When the user rests and the troubles are over, the Cloud has exactly    *)
(* the closed sessions the Pi has, but for the ones it rejects: whatever   *)
(* was deleted while its upload was under way, re-imported while its       *)
(* deletion was, or imported behind a sweep's back.                        *)
ChargesAgree ==
  <>[](\A t \in Sessions \ Large : local[t] = "closed" <=> t \in account)
=============================================================================
