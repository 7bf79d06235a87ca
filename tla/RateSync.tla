------------------------------ MODULE RateSync ------------------------------
(***************************************************************************)
(* Charging rates between the Pi and the Cloud: the journal that carries a *)
(* save across SQLite and the preferences file                             *)
(* (crates/api/src/preferences_journal.rs, preferences.rs), the queued     *)
(* edits (drives/src/mutable_intent.rs, db.rs), their merge                *)
(* (rate_intent.rs), the conditional publication with its durable receipt  *)
(* (cloud_uploader/src/sync/conditional_rate.rs) and the confirmation      *)
(* (rate_confirmation.rs), with the pull that follows (sync.rs).           *)
(* The server stops at any step, requests and answers are lost or late,    *)
(* and another client of the account edits the same document.              *)
(*                                                                         *)
(* A document gives each field a value; 0 is an absent field.  Encryption  *)
(* is randomised, so a ciphertext is known by a number of its own (rev);   *)
(* 0 stands for no Cloud document.                                         *)
(***************************************************************************)
EXTENDS Naturals, FiniteSets

CONSTANTS Fields,      \* rate fields that are merged separately
          MaxEdits,    \* bound: edits staged on the Pi
          MaxOthers,   \* bound: edits by the other client
          MaxFaults    \* bound: stops, failed calls and lost answers

ASSUME RateAssumption == MaxEdits \in Nat /\ MaxOthers \in Nat /\ MaxFaults \in Nat

VARIABLES
  \* on the card
  file,       \* the rates in the preferences file
  journal,    \* the pending file publication
  events,     \* the queued edits, each with its generation
  dirty,      \* generation of the queue row, 0 when there is none
  receipt,    \* the reserved publication
  checked,    \* the initial-upload checkpoint
  \* the service
  cloud,      \* its document and ciphertext
  applied,    \* operations it remembers having applied
  net,        \* requests that may still arrive, again and again
  \* of this server process
  prefs,      \* who holds PREFS_LOCK, and how far it is
  sync,       \* the sync task
  \* counters, and what really happened
  clock,      \* generations given out
  values,     \* values and ciphertexts given out
  others,     \* values the other client wrote
  intended,   \* the document of the last committed save
  shown,      \* shown[f]: values the file has had
  seen,       \* seen[f]: values the Cloud has had
  faults      \* faults so far

disk == <<file, journal, events, dirty, receipt, checked>>
service == <<cloud, applied, net>>
rateGhost == <<others, intended, shown, seen>>
rateVars == <<file, journal, events, dirty, receipt, checked, cloud, applied, net, prefs,
              sync, clock, values, others, intended, shown, seen, faults>>

Empty == [f \in Fields |-> 0]
NoJournal == [kind |-> "none"]
NoProposal == [rev |-> 0]
Free == [by |-> "nobody", pc |-> "free"]
NoSync == [pc |-> "idle"]

RateInit ==
  /\ file \in [Fields -> {0, 1}]
  /\ journal = NoJournal /\ events = {} /\ dirty = 0 /\ receipt = NoProposal
  /\ checked = FALSE
  /\ cloud = [rev |-> 0, doc |-> Empty] /\ applied = {} /\ net = {}
  /\ prefs = Free /\ sync = NoSync
  /\ clock = 0 /\ values = 1 /\ others = {} /\ intended = file
  /\ shown = [f \in Fields |-> {file[f]}] /\ seen = [f \in Fields |-> {0}]
  /\ faults = 0

-----------------------------------------------------------------------------
(* Merging queued edits into a document, field by field.                   *)

Oldest(evs) == CHOOSE e \in evs : \A d \in evs : e.at <= d.at
Newest(evs) == CHOOSE e \in evs : \A d \in evs : d.at <= e.at

Touching(evs, f) == {e \in evs : e.before[f] # e.after[f]}
Newer(evs, through) == {e \in evs : e.at > through}

Desired(evs, f) == Newest(Touching(evs, f)).after[f]

(* The field has a net change to publish.                                  *)
Net(evs, f) ==
  LET t == Touching(evs, f) IN t # {} /\ Oldest(t).before[f] # Desired(evs, f)

ApplyTo(evs, doc) == [f \in Fields |-> IF Net(evs, f) THEN Desired(evs, f) ELSE doc[f]]

(* Nobody looks whether the field still is what was edited.                *)
Mergeable_Always(evs, doc) == TRUE

Mergeable(evs, doc) ==
  \A f \in Fields :
    Net(evs, f) =>
      LET t == Touching(evs, f) IN
        \/ doc[f] = Oldest(t).before[f]
        \/ \E e \in t : doc[f] = e.after[f]

-----------------------------------------------------------------------------
(* Under PREFS_LOCK: a pending publication is completed first, then comes  *)
(* the body of whoever took the lock; a body that saves leaves a journal   *)
(* until the file is durable.                                              *)

TakeLock(who) ==
  /\ prefs = Free
  /\ prefs' = [by |-> who, pc |-> IF journal = NoJournal THEN "body" ELSE "recover"]

SaveRates(doc) ==
  /\ file' = doc
  /\ shown' = [f \in Fields |-> shown[f] \cup {doc[f]}]

(* The journal is retired as if the file had been saved.                   *)
Recover_TrustsFile ==
  /\ prefs.pc = "recover" /\ file \in {journal.before, journal.after}
  /\ prefs' = [prefs EXCEPT !.pc = "refinish"]
  /\ UNCHANGED <<disk, service, sync, clock, values, rateGhost, faults>>

(* recover: the rates are before or after the interrupted save; either way *)
(* the file is saved again before the journal goes.  A file that is        *)
(* neither makes every operation fail: RatesRecoverable excludes that.     *)
Recover ==
  /\ prefs.pc = "recover" /\ file \in {journal.before, journal.after}
  /\ SaveRates(journal.after)
  /\ prefs' = [prefs EXCEPT !.pc = "refinish"]
  /\ UNCHANGED <<journal, events, dirty, receipt, checked, service, sync, clock, values,
                 others, intended, seen, faults>>

(* Where the sync task goes when an operation of it is over: a push that   *)
(* failed or not is followed by the pull, and that by the next sweep.      *)
Afterwards == IF sync.pc \in {"idle", "pull", "store"} THEN NoSync ELSE [pc |-> "pull"]

Save ==
  /\ prefs.pc = "save"
  /\ SaveRates(journal.after)
  /\ prefs' = [prefs EXCEPT !.pc = "finish"]
  /\ UNCHANGED <<journal, events, dirty, receipt, checked, service, sync, clock, values,
                 others, intended, seen, faults>>

(* Everything queued is retired, edits that came later too.                *)
Retire_All(through) ==
  /\ events' = {}
  /\ dirty' = 0

Retire(through) ==
  /\ events' = Newer(events, through)
  /\ dirty' = IF dirty <= through THEN 0 ELSE dirty

FinishJournal ==
  /\ journal' = NoJournal
  /\ IF journal.kind = "edit"
     THEN UNCHANGED <<events, dirty, receipt>>
     ELSE /\ Retire(journal.through)
          /\ receipt' = IF journal.receipt # 0 THEN NoProposal ELSE receipt
  /\ UNCHANGED <<file, checked>>

(* After recovery the body follows; after the body's own save the lock is  *)
(* given back.                                                             *)
Finish ==
  /\ prefs.pc \in {"finish", "refinish"}
  /\ FinishJournal
  /\ IF prefs.pc = "refinish"
     THEN prefs' = [prefs EXCEPT !.pc = "body"] /\ UNCHANGED sync
     ELSE /\ prefs' = Free
          /\ sync' = IF prefs.by = "edit" THEN sync ELSE Afterwards
  /\ UNCHANGED <<service, clock, values, rateGhost, faults>>

-----------------------------------------------------------------------------
(* A user's edit (edit_prefs, save_rates).                                 *)

EditBegin ==
  /\ clock < MaxEdits
  /\ TakeLock("edit")
  /\ UNCHANGED <<disk, service, sync, clock, values, rateGhost, faults>>

(* Only other preferences change, or nothing does.                         *)
EditOther ==
  /\ prefs = [by |-> "edit", pc |-> "body"]
  /\ prefs' = Free
  /\ UNCHANGED <<disk, service, sync, clock, values, rateGhost, faults>>

(* One field gets a new value, the value it had at first, or is removed.   *)
StageEdit(f, v) ==
  /\ prefs = [by |-> "edit", pc |-> "body"]
  /\ clock < MaxEdits
  /\ v # file[f]
  /\ LET after == [file EXCEPT ![f] = v] IN
       /\ events' = events \cup {[at |-> clock + 1, before |-> file, after |-> after]}
       /\ journal' = [kind |-> "edit", before |-> file, after |-> after]
       /\ intended' = after
  /\ dirty' = clock + 1 /\ clock' = clock + 1
  /\ values' = IF v > values THEN v ELSE values
  /\ prefs' = [prefs EXCEPT !.pc = "save"]
  /\ UNCHANGED <<file, receipt, checked, service, sync, others, shown, seen, faults>>

-----------------------------------------------------------------------------
(* The sync task: push, then pull.                                         *)

Keep == UNCHANGED <<disk, service, clock, values, rateGhost, faults>>
Step(from, to) == sync.pc = from /\ sync' = [sync EXCEPT !.pc = to]

SyncBegin ==
  /\ Step("idle", IF dirty = 0 /\ ~checked /\ receipt = NoProposal THEN "initial" ELSE "find")
  /\ UNCHANGED prefs /\ Keep

(* prepare_initial: an absent Cloud document gets the rates there are.     *)
ReadInitial ==
  /\ sync.pc = "initial"
  /\ sync' = [pc |-> IF cloud.rev = 0 THEN "queue" ELSE "mark"]
  /\ UNCHANGED prefs /\ Keep

QueueBegin ==
  /\ sync.pc = "queue"
  /\ TakeLock("queue")
  /\ UNCHANGED sync /\ Keep

QueueInitial ==
  /\ prefs = [by |-> "queue", pc |-> "body"]
  /\ IF file # Empty /\ dirty = 0
     THEN /\ events' = events \cup {[at |-> clock + 1, before |-> Empty, after |-> file]}
          /\ dirty' = clock + 1 /\ clock' = clock + 1
     ELSE UNCHANGED <<events, dirty, clock>>
  /\ prefs' = Free /\ Step("queue", "mark")
  /\ UNCHANGED <<file, journal, receipt, checked, service, values, rateGhost, faults>>

MarkChecked ==
  /\ Step("mark", "find")
  /\ checked' = TRUE
  /\ UNCHANGED <<file, journal, events, dirty, receipt, service, prefs, clock, values,
                 rateGhost, faults>>

(* load_doc completes an interrupted save before the queue is read.        *)
LoadBegin ==
  /\ sync.pc = "find"
  /\ IF dirty = 0
     THEN sync' = [pc |-> "pull"] /\ UNCHANGED prefs
     ELSE TakeLock("load") /\ sync' = [pc |-> "load", through |-> dirty]
  /\ Keep

Load ==
  /\ prefs = [by |-> "load", pc |-> "body"]
  /\ prefs' = Free
  /\ sync' = [pc |-> "snapshot", through |-> sync.through, local |-> file]
  /\ Keep

(* The queue must still be at the generation that was found.               *)
Snapshot ==
  /\ sync.pc = "snapshot"
  /\ sync' = IF dirty # sync.through THEN [pc |-> "pull"]
             ELSE IF receipt # NoProposal THEN [pc |-> "examine"]
             ELSE [pc |-> "read", through |-> dirty, local |-> sync.local, events |-> events]
  /\ UNCHANGED prefs /\ Keep

Proposed(remote) ==
  IF remote.rev = 0 THEN sync.local ELSE ApplyTo(sync.events, remote.doc)

(* Read and merge; a conflict leaves the edits queued.                     *)
ReadAndMerge ==
  /\ sync.pc = "read"
  /\ sync' = IF cloud.rev # 0 /\ ~Mergeable(sync.events, cloud.doc) THEN [pc |-> "pull"]
             ELSE IF Proposed(cloud) = cloud.doc
             THEN [pc |-> "confirm", doc |-> cloud.doc, through |-> sync.through, receipt |-> 0]
             ELSE [pc |-> "reserve", through |-> sync.through, events |-> sync.events,
                   expected |-> cloud.rev, doc |-> Proposed(cloud)]
  /\ UNCHANGED prefs /\ Keep

(* The exact request is made durable before it is sent, if the queue is    *)
(* still what was merged.                                                  *)
Reserve ==
  /\ sync.pc = "reserve"
  /\ IF dirty = sync.through /\ events = sync.events
     THEN /\ receipt' = [rev |-> values + 1, expected |-> sync.expected, doc |-> sync.doc,
                         through |-> sync.through]
          /\ values' = values + 1
          /\ sync' = [pc |-> "post"]
     ELSE sync' = [pc |-> "pull"] /\ UNCHANGED <<receipt, values>>
  /\ UNCHANGED <<file, journal, events, dirty, checked, service, prefs, clock, rateGhost,
                 faults>>

Post ==
  /\ sync.pc \in {"post", "repost"}
  /\ net' = net \cup {receipt}
  /\ sync' = [pc |-> IF sync.pc = "post" THEN "await" ELSE "reawait"]
  /\ UNCHANGED <<disk, cloud, applied, prefs, clock, values, rateGhost, faults>>

(* The service: an operation it knows is applied already, another is only  *)
(* if the ciphertext is the expected one.                                  *)
Accepts(m) == m.rev \in applied \/ m.expected = cloud.rev

Serve(m) ==
  IF m.rev \notin applied /\ m.expected = cloud.rev
  THEN /\ cloud' = [rev |-> m.rev, doc |-> m.doc]
       /\ applied' = applied \cup {m.rev}
       /\ seen' = [f \in Fields |-> seen[f] \cup {m.doc[f]}]
  ELSE UNCHANGED <<cloud, applied, seen>>

(* A request arrives whose answer does not: late, duplicated or timed out. *)
ServeUnheard(m) ==
  /\ m \in net
  /\ Serve(m)
  /\ UNCHANGED <<disk, net, prefs, sync, clock, values, others, intended, shown, faults>>

PostApplied ==
  /\ sync.pc \in {"await", "reawait"} /\ Accepts(receipt)
  /\ Serve(receipt)
  /\ sync' = [pc |-> "adopt"]
  /\ UNCHANGED <<disk, net, prefs, clock, values, others, intended, shown, faults>>

(* The rejected attempt stays reserved.                                    *)
PostRejected_Kept ==
  /\ sync.pc \in {"await", "reawait"} /\ ~Accepts(receipt)
  /\ sync' = [pc |-> "pull"]
  /\ UNCHANGED prefs /\ Keep

(* A definite rejection retires the attempt; a fresh merge follows.        *)
PostRejected ==
  /\ sync.pc \in {"await", "reawait"} /\ ~Accepts(receipt)
  /\ receipt' = NoProposal
  /\ sync' = [pc |-> "pull"]
  /\ UNCHANGED <<file, journal, events, dirty, checked, service, prefs, clock, values,
                 rateGhost, faults>>

(* No answer to the first post: the outcome is examined.  No answer to the *)
(* second: the receipt stays for the next sweep.                           *)
PostUnclear ==
  /\ sync.pc \in {"await", "reawait"} /\ faults < MaxFaults
  /\ faults' = faults + 1
  /\ sync' = [pc |-> IF sync.pc = "await" THEN "examine" ELSE "pull"]
  /\ UNCHANGED <<disk, service, prefs, clock, values, rateGhost>>

(* recover of conditional_rate.rs: the request was applied, and nothing    *)
(* came after it, or it is sent again as it was.                           *)
Examine ==
  /\ sync.pc = "examine"
  /\ sync' = IF cloud.rev = receipt.rev
             THEN [pc |-> "confirm", doc |-> cloud.doc, through |-> receipt.through,
                   receipt |-> receipt.rev]
             ELSE [pc |-> "repost"]
  /\ UNCHANGED prefs /\ Keep

(* confirm_current: what the Cloud has now, never the proposal.            *)
ReadCurrent ==
  /\ sync.pc = "adopt"
  /\ sync' = [pc |-> "confirm", doc |-> cloud.doc, through |-> receipt.through,
              receipt |-> receipt.rev]
  /\ UNCHANGED prefs /\ Keep

ConfirmBegin ==
  /\ sync.pc = "confirm"
  /\ TakeLock("confirm")
  /\ UNCHANGED sync /\ Keep

(* Edits made since are replayed over the confirmed document.              *)
StageConfirmation ==
  /\ prefs = [by |-> "confirm", pc |-> "body"]
  /\ IF dirty # 0 /\ sync.receipt = receipt.rev
     THEN LET after == ApplyTo(Newer(events, sync.through), sync.doc) IN
          /\ journal' = [kind |-> "confirm", before |-> file, after |-> after,
                         through |-> sync.through, receipt |-> sync.receipt]
          /\ intended' = after
          /\ prefs' = [prefs EXCEPT !.pc = "save"]
          /\ UNCHANGED sync
     ELSE prefs' = Free /\ sync' = Afterwards /\ UNCHANGED <<journal, intended>>
  /\ UNCHANGED <<file, events, dirty, receipt, checked, service, clock, values, others,
                 shown, seen, faults>>

(* The pull stores the Cloud's document unless an edit is queued; without  *)
(* one the file is simply saved.                                           *)
PullRead ==
  /\ sync.pc = "pull"
  /\ sync' = IF cloud.rev = 0 THEN NoSync ELSE [pc |-> "store", doc |-> cloud.doc]
  /\ UNCHANGED prefs /\ Keep

PullBegin ==
  /\ sync.pc = "store"
  /\ TakeLock("store")
  /\ UNCHANGED sync /\ Keep

(* The queue is not looked at.                                             *)
StoreDoc_Always ==
  /\ prefs = [by |-> "store", pc |-> "body"]
  /\ SaveRates(sync.doc) /\ intended' = sync.doc
  /\ prefs' = Free /\ sync' = NoSync
  /\ UNCHANGED <<journal, events, dirty, receipt, checked, service, clock, values, others,
                 seen, faults>>

StoreDoc ==
  /\ prefs = [by |-> "store", pc |-> "body"]
  /\ IF dirty = 0 THEN SaveRates(sync.doc) /\ intended' = sync.doc
                  ELSE UNCHANGED <<file, shown, intended>>
  /\ prefs' = Free /\ sync' = NoSync
  /\ UNCHANGED <<journal, events, dirty, receipt, checked, service, clock, values, others,
                 seen, faults>>

-----------------------------------------------------------------------------
(* The other client, and faults.                                           *)

OtherClient(f) ==
  /\ Cardinality(others) < MaxOthers
  /\ cloud' = [rev |-> values + 1, doc |-> [cloud.doc EXCEPT ![f] = values + 1]]
  /\ values' = values + 1
  /\ others' = others \cup {values + 1}
  /\ seen' = [seen EXCEPT ![f] = @ \cup {values + 1}]
  /\ UNCHANGED <<disk, applied, net, prefs, sync, clock, intended, shown, faults>>

(* A database or file error, or a failed read of the Cloud: the operation  *)
(* under way ends where it is, and what it left is found by the next.      *)
OperationFails(edit) ==
  /\ faults < MaxFaults
  /\ faults' = faults + 1
  /\ IF edit
     THEN prefs.by = "edit" /\ prefs' = Free /\ UNCHANGED sync
     ELSE /\ sync # NoSync /\ sync' = Afterwards
          /\ prefs' = IF prefs.by = "edit" THEN prefs ELSE Free
  /\ UNCHANGED <<disk, service, clock, values, rateGhost>>

Stop ==
  /\ faults < MaxFaults
  /\ faults' = faults + 1
  /\ prefs' = Free /\ sync' = NoSync
  /\ UNCHANGED <<disk, service, clock, values, rateGhost>>

PrefsStep == Recover \/ Save \/ Finish

SyncStep ==
  \/ SyncBegin \/ ReadInitial \/ QueueBegin \/ QueueInitial \/ MarkChecked
  \/ LoadBegin \/ Load \/ Snapshot \/ ReadAndMerge \/ Reserve \/ Post
  \/ PostApplied \/ PostRejected \/ Examine \/ ReadCurrent
  \/ ConfirmBegin \/ StageConfirmation \/ PullRead \/ PullBegin \/ StoreDoc

Edit == \E f \in Fields, v \in {0, 1, values + 1} : StageEdit(f, v)

RateNext ==
  \/ PrefsStep \/ SyncStep
  \/ EditBegin \/ EditOther \/ Edit
  \/ PostUnclear \/ (\E m \in net : ServeUnheard(m))
  \/ (\E f \in Fields : OtherClient(f))
  \/ (\E edit \in BOOLEAN : OperationFails(edit)) \/ Stop

RateSpec == RateInit /\ [][RateNext]_rateVars

(* Whoever holds the lock goes on, and the uploader's loop sweeps again    *)
(* and again; an edit is a blocking task that runs to its end.             *)
RateFairness ==
  /\ WF_rateVars(PrefsStep)
  /\ WF_rateVars(EditOther \/ Edit)
  /\ SF_rateVars(SyncStep)

-----------------------------------------------------------------------------
(* A save is atomic across SQLite and the file: without a journal the file *)
(* has the last document that was committed, and with one recover knows    *)
(* what to do, wherever the save or an earlier recovery stopped.           *)
RatesRecoverable ==
  IF journal = NoJournal THEN file = intended
                         ELSE file \in {journal.before, journal.after}

(* What the user saved and the Cloud does not have yet stays in the file:  *)
(* neither a confirmation of earlier edits nor a pull takes it back.       *)
UnsentEditsShow ==
  journal = NoJournal => \A f \in Fields : Net(events, f) => file[f] = Desired(events, f)

(* An edit leaves the queue only when its value has been in the Cloud,     *)
(* although the answer may have been lost, the request sent again, and     *)
(* newer edits made since (finish_rate_confirmation).                      *)
EditsArrive ==
  [][LET gone == events \ events' IN
       \A f \in Fields : Net(gone, f) => Desired(gone, f) \in seen[f]]_rateVars

(* The Pi replaces another client's value in the Cloud only when the Pi    *)
(* had shown that value: a merge, a request sent again or one that arrives *)
(* late never reverts an edit nobody here has seen.                        *)
OthersEditsSurvive ==
  [][\A f \in Fields :
       cloud'.doc[f] # cloud.doc[f] /\ cloud'.rev \in applied' /\ cloud.doc[f] \in others
         => cloud.doc[f] \in shown[f]]_rateVars

(* Once the faults are over the queue empties, unless the Cloud's document *)
(* conflicts with it: no receipt, journal or generation blocks it for ever.*)
QueueDrains ==
  dirty # 0 ~> dirty = 0 \/ (cloud.rev # 0 /\ ~Mergeable(events, cloud.doc))
=============================================================================
