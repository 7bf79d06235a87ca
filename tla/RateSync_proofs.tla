--------------------------- MODULE RateSync_proofs ---------------------------
(***************************************************************************)
(* Charging rates: a save is atomic across SQLite and the file, unsent     *)
(* edits stay in the file, an edit leaves the queue only once the Cloud    *)
(* has had it, and another client's value is replaced only after the Pi    *)
(* has shown it; for any number of fields, edits, stops and lost answers.  *)
(***************************************************************************)
EXTENDS RateSync, WellFoundedInduction, TLAPS

-----------------------------------------------------------------------------
(* Types.                                                                  *)

Doc == [Fields -> Nat]
Event == [at : Nat, before : Doc, after : Doc]
Request == [rev : Nat \ {0}, expected : Nat, doc : Doc, through : Nat]
EditJournal == [kind : {"edit"}, before : Doc, after : Doc]
ConfirmJournal == [kind : {"confirm"}, before : Doc, after : Doc, through : Nat, receipt : Nat]
Holder == [by : {"nobody", "edit", "queue", "load", "confirm", "store"},
           pc : {"free", "body", "recover", "save", "finish", "refinish"}]

(* The pcs at which the sync task has nothing in hand.                     *)
Bare == [pc : {"idle", "initial", "queue", "mark", "find", "pull", "post", "repost", "await",
               "reawait", "examine", "adopt"}]
Loading == [pc : {"load"}, through : Nat]
Loaded == [pc : {"snapshot"}, through : Nat, local : Doc]
Reading == [pc : {"read"}, through : Nat, local : Doc, events : SUBSET Event]
Reserving == [pc : {"reserve"}, through : Nat, events : SUBSET Event, expected : Nat, doc : Doc]
Confirming == [pc : {"confirm"}, doc : Doc, through : Nat, receipt : Nat]
Storing == [pc : {"store"}, doc : Doc]
SyncType == Bare \cup Loading \cup Loaded \cup Reading \cup Reserving \cup Confirming \cup Storing

RateTypeOK ==
  /\ file \in Doc /\ intended \in Doc
  /\ journal \in {NoJournal} \cup EditJournal \cup ConfirmJournal
  /\ events \in SUBSET Event
  /\ dirty \in Nat /\ clock \in Nat /\ values \in Nat
  /\ receipt \in {NoProposal} \cup Request
  /\ cloud \in [rev : Nat, doc : Doc]
  /\ applied \in SUBSET Nat /\ others \in SUBSET Nat
  /\ net \in SUBSET Request
  /\ prefs \in Holder
  /\ sync \in SyncType
  /\ shown \in [Fields -> SUBSET Nat] /\ seen \in [Fields -> SUBSET Nat]

-----------------------------------------------------------------------------
(* What the parts of the invariant are made of.                            *)

Upto(evs, through) == {e \in evs : e.at <= through}

(* The document has the outcome of the edits.                              *)
Carries(evs, doc) == \A f \in Fields : Net(evs, f) => doc[f] = Desired(evs, f)

(* The Cloud has had the outcome of the edits.                             *)
Arrived(evs) == \A f \in Fields : Net(evs, f) => Desired(evs, f) \in seen[f]

(* What is queued once a confirmation under way is over.                   *)
Left == IF journal.kind = "confirm" THEN Newer(events, journal.through) ELSE events

(* Putting the document into the Cloud replaces no value the Pi has not    *)
(* shown.                                                                  *)
Spares(doc) ==
  \A f \in Fields : doc[f] # cloud.doc[f] /\ cloud.doc[f] \in others => cloud.doc[f] \in shown[f]

Small(doc) == \A f \in Fields : doc[f] <= values
Known(doc) == Small(doc) /\ \A f \in Fields : doc[f] \in others => doc[f] \in shown[f]

(* Requests that can still be applied, and ciphertexts the Cloud has had.  *)
Requests == net \cup ({receipt} \ {NoProposal})
Past == {0} \cup applied \cup others

Posting == {"post", "repost", "await", "reawait", "examine", "adopt"}
Publishing == {"snapshot", "read", "reserve", "confirm"} \cup Posting

-----------------------------------------------------------------------------
(* The invariant.                                                          *)

(* Whoever holds the lock is where it took it.                             *)
HolderInv ==
  /\ prefs.pc = "free" <=> prefs.by = "nobody"
  /\ prefs.by \in {"queue", "load", "confirm", "store"} => sync.pc = prefs.by

(* How far a save is, and what the file has then.                          *)
SaveInv ==
  /\ journal = NoJournal => file = intended /\ prefs.pc \in {"free", "body"}
  /\ journal # NoJournal => /\ intended = journal.after
                            /\ file \in {journal.before, journal.after}
                            /\ prefs.pc # "body"
  /\ prefs.pc \in {"finish", "refinish"} => file = journal.after

(* Generations order the queue.                                            *)
QueueInv ==
  /\ dirty <= clock
  /\ \A e \in events : 0 < e.at /\ e.at <= dirty
  /\ \A d, e \in events : d.at = e.at => d = e

(* load_doc completes an interrupted confirmation: from there on the only  *)
(* one is the sync task's own.                                             *)
LoneInv ==
  journal.kind = "confirm" /\ sync.pc \in Publishing =>
    sync.pc = "confirm" /\ prefs.by = "confirm" /\ prefs.pc \in {"save", "finish"}

(* What the file is to have carries the edits that stay queued.            *)
IntentInv == Carries(Left, intended)

(* What a confirmation retires has been in the Cloud.                      *)
RetireInv ==
  journal.kind = "confirm" =>
    /\ journal.receipt = receipt.rev
    /\ journal.through <= clock
    /\ Arrived(Upto(events, journal.through))

(* A reserved request carries the edits it speaks for.                     *)
ReceiptInv ==
  receipt # NoProposal =>
    receipt.through <= clock /\ Carries(Upto(events, receipt.through), receipt.doc)

(* What the sync task has in hand, step by step.                           *)
SnapshotInv ==
  sync.pc = "snapshot" =>
    Small(sync.local) /\ (dirty = sync.through => Carries(events, sync.local))

ReadInv ==
  sync.pc = "read" =>
    /\ receipt = NoProposal /\ Small(sync.local)
    /\ sync.events = Upto(events, sync.through) /\ Carries(sync.events, sync.local)

ReserveInv ==
  sync.pc = "reserve" =>
    /\ receipt = NoProposal /\ Small(sync.doc)
    /\ sync.events = Upto(events, sync.through) /\ Carries(sync.events, sync.doc)
    /\ sync.expected \in Past /\ (sync.expected = cloud.rev => Spares(sync.doc))

PostInv ==
  /\ sync.pc \in Posting => receipt # NoProposal
  /\ sync.pc = "adopt" => receipt.rev \in applied

ConfirmInv ==
  /\ sync.pc = "confirm" => /\ Small(sync.doc) /\ sync.receipt = receipt.rev
                            /\ Arrived(Upto(events, sync.through))
  /\ sync.pc = "store" => Small(sync.doc)

SyncInv ==
  /\ sync.pc \in {"load", "snapshot", "read", "reserve", "confirm"} => sync.through <= clock
  /\ SnapshotInv /\ ReadInv /\ ReserveInv /\ PostInv /\ ConfirmInv

(* A ciphertext number stands for one document, and one that was applied   *)
(* has been seen.                                                          *)
CloudInv ==
  /\ cloud.rev \in Past
  /\ cloud.rev = 0 => cloud.doc = Empty
  /\ \A f \in Fields : cloud.doc[f] \in seen[f]
  /\ applied \in SUBSET (1..values) /\ others \in SUBSET (2..values) /\ values > 0

RequestInv ==
  /\ \A m \in Requests :
       /\ m.rev <= values /\ m.rev \notin others
       /\ m.rev \in applied => \A f \in Fields : m.doc[f] \in seen[f]
       /\ cloud.rev = m.rev => cloud.doc = m.doc
  /\ \A m, n \in Requests : m.rev = n.rev => m = n

(* A request that can still replace the Cloud's document replaces what the *)
(* Pi has shown.                                                           *)
SpareInv ==
  \A m \in Requests : m.expected \in Past /\ (m.expected = cloud.rev => Spares(m.doc))

(* Values given out later are new everywhere.                              *)
ValueInv ==
  /\ Small(file) /\ Small(cloud.doc)
  /\ \A f \in Fields : file[f] \in shown[f]
  /\ journal # NoJournal => Small(journal.after)
  /\ \A m \in Requests : Small(m.doc)
  /\ \A e \in events : Known(e.before) /\ Known(e.after)

RateInv ==
  /\ RateTypeOK /\ HolderInv /\ SaveInv /\ QueueInv /\ LoneInv /\ IntentInv /\ RetireInv
  /\ ReceiptInv /\ SyncInv /\ CloudInv /\ RequestInv /\ SpareInv /\ ValueInv

-----------------------------------------------------------------------------
(* Queued edits.                                                           *)

\* A set of edits that is not empty has an oldest one.
LEMMA OldestFacts ==
  ASSUME NEW T \in SUBSET Event, T # {}
  PROVE  Oldest(T) \in T /\ \A d \in T : Oldest(T).at <= d.at
  <1> DEFINE R == {ss \in Nat \X Nat : ss[1] < ss[2]}
             A == {e.at : e \in T}
  <1>1. IsWellFoundedOn(R, Nat)
    BY NatLessThanWellFounded DEF OpToRel
  <1>2. A \in SUBSET Nat /\ A # {}
    BY DEF Event
  <1> HIDE DEF R
  <1>3. PICK n \in A : \A k \in A : ~(<<k, n>> \in R)
    BY <1>1, <1>2, WFMin
  <1>4. PICK e \in T : e.at = n
    BY <1>3
  <1>5. ASSUME NEW d \in T PROVE e.at <= d.at
    <2>1. d.at \in A /\ d.at \in Nat /\ n \in Nat
      BY <1>2, <1>3 DEF Event
    <2>2. <<d.at, n>> \in R <=> d.at < n
      BY <2>1 DEF R
    <2> QED BY <1>3, <1>4, <2>1, <2>2
  <1> QED BY <1>5 DEF Oldest

\* One of bounded generations has a newest one.
LEMMA NewestFacts ==
  ASSUME NEW N \in Nat, NEW T \in SUBSET Event, T # {}, \A e \in T : e.at <= N
  PROVE  Newest(T) \in T /\ \A d \in T : d.at <= Newest(T).at
  <1> DEFINE R == {ss \in Nat \X Nat : ss[1] < ss[2]}
             A == {N - e.at : e \in T}
  <1>1. IsWellFoundedOn(R, Nat)
    BY NatLessThanWellFounded DEF OpToRel
  <1>2. A \in SUBSET Nat /\ A # {}
    BY DEF Event
  <1> HIDE DEF R
  <1>3. PICK n \in A : \A k \in A : ~(<<k, n>> \in R)
    BY <1>1, <1>2, WFMin
  <1>4. PICK e \in T : N - e.at = n
    BY <1>3
  <1>5. ASSUME NEW d \in T PROVE d.at <= e.at
    <2>1. N - d.at \in A /\ N - d.at \in Nat /\ n \in Nat /\ d.at \in Nat /\ e.at \in Nat
      BY <1>2, <1>3 DEF Event
    <2>2. <<N - d.at, n>> \in R <=> N - d.at < n
      BY <2>1 DEF R
    <2> QED BY <1>3, <1>4, <2>1, <2>2
  <1> QED BY <1>5 DEF Newest

\* Nothing queued, nothing to publish.
LEMMA NothingQueued ==
  ASSUME NEW doc
  PROVE  Carries({}, doc)
  BY DEF Carries, Net, Touching

\* What a field's net change is to be comes from a queued edit of the field.
LEMMA DesiredFacts ==
  ASSUME NEW N \in Nat, NEW evs \in SUBSET Event, \A e \in evs : e.at <= N,
         NEW f \in Fields, Net(evs, f)
  PROVE  /\ \E e \in evs : Desired(evs, f) = e.after[f]
         /\ \E e \in Touching(evs, f) : Oldest(Touching(evs, f)) = e
  <1> DEFINE T == Touching(evs, f)
  <1>1. T \in SUBSET Event /\ T \in SUBSET evs /\ T # {} /\ \A e \in T : e.at <= N
    BY DEF Touching, Net
  <1> HIDE DEF T
  <1>2. Newest(T) \in T /\ Oldest(T) \in T
    BY <1>1, NewestFacts, OldestFacts
  <1> QED BY <1>1, <1>2 DEF T, Desired

\* A newer edit decides for the fields it touches and leaves the others.
LEMMA CarriesAdded ==
  ASSUME NEW evs \in SUBSET Event, NEW e \in Event, NEW doc,
         \A d \in evs : d.at < e.at,
         Carries(evs, doc),
         \A f \in Fields : e.before[f] = e.after[f] => doc[f] = e.after[f]
  PROVE  Carries(evs \cup {e}, e.after)
  <1> SUFFICES ASSUME NEW f \in Fields, Net(evs \cup {e}, f)
               PROVE  e.after[f] = Desired(evs \cup {e}, f)
    BY DEF Carries
  <1> DEFINE T == Touching(evs \cup {e}, f)
  <1>1. CASE e.before[f] = e.after[f]
    <2>1. T = Touching(evs, f)
      BY <1>1 DEF Touching
    <2>2. Net(evs, f) /\ Desired(evs, f) = Desired(evs \cup {e}, f)
      BY <2>1 DEF Net, Desired
    <2> QED BY <1>1, <2>2 DEF Carries
  <1>2. CASE e.before[f] # e.after[f]
    <2>1. e \in T /\ \A d \in T : d = e \/ d.at < e.at
      BY <1>2 DEF Touching
    <2>2. e.at \in Nat /\ \A d \in T : d.at \in Nat
      BY DEF Event, Touching
    <2> HIDE DEF T
    <2>3. /\ \A d \in T : d.at <= e.at
          /\ \A x \in T : (\A d \in T : d.at <= x.at) => x = e
      BY <2>1, <2>2
    <2>4. Newest(T) = e
      BY <2>1, <2>3 DEF Newest
    <2> QED BY <2>4 DEF T, Desired
  <1> QED BY <1>1, <1>2

\* A newer edit does not change the queue up to an earlier generation.
LEMMA UptoAdded ==
  ASSUME NEW evs, NEW e, NEW th \in Nat, e.at \in Nat, e.at > th
  PROVE  Upto(evs \cup {e}, th) = Upto(evs, th)
  BY DEF Upto

\* The merged document is one, has only values given out, and carries the edits.
LEMMA ApplyFacts ==
  ASSUME NEW N \in Nat, NEW evs \in SUBSET Event, \A e \in evs : e.at <= N,
         NEW doc \in Doc
  PROVE  /\ ApplyTo(evs, doc) \in Doc
         /\ Carries(evs, ApplyTo(evs, doc))
         /\ values \in Nat /\ Small(doc) /\ (\A e \in evs : Small(e.after)) =>
              Small(ApplyTo(evs, doc))
  <1>1. \A f \in Fields : Net(evs, f) => \E e \in evs : Desired(evs, f) = e.after[f]
    BY DesiredFacts
  <1>2. ASSUME NEW f \in Fields
        PROVE  (IF Net(evs, f) THEN Desired(evs, f) ELSE doc[f]) \in Nat
    BY <1>1 DEF Event, Doc
  <1>3. ApplyTo(evs, doc) \in Doc
    BY <1>2 DEF ApplyTo, Doc
  <1>4. Carries(evs, ApplyTo(evs, doc))
    BY DEF Carries, ApplyTo
  <1>5. ASSUME values \in Nat, Small(doc), \A e \in evs : Small(e.after)
        PROVE  Small(ApplyTo(evs, doc))
    BY <1>1, <1>5 DEF Small, ApplyTo
  <1> QED BY <1>3, <1>4, <1>5

\* A merge that found no conflict replaces values of queued edits only.
LEMMA MergeSpares ==
  ASSUME NEW N \in Nat, NEW evs \in SUBSET Event, \A e \in evs : e.at <= N,
         \A e \in evs : Known(e.before) /\ Known(e.after),
         Mergeable(evs, cloud.doc)
  PROVE  Spares(ApplyTo(evs, cloud.doc))
  <1> SUFFICES ASSUME NEW f \in Fields, ApplyTo(evs, cloud.doc)[f] # cloud.doc[f],
                      cloud.doc[f] \in others
               PROVE  cloud.doc[f] \in shown[f]
    BY DEF Spares
  <1>1. Net(evs, f)
    BY DEF ApplyTo
  <1>2. Touching(evs, f) \in SUBSET evs
    BY DEF Touching
  <1>3. Oldest(Touching(evs, f)) \in evs
    BY <1>1, <1>2, DesiredFacts
  <1> QED BY <1>1, <1>2, <1>3 DEF Mergeable, Known

-----------------------------------------------------------------------------
(* Shapes of records.                                                      *)

\* What the sync task has in hand has its type.
LEMMA SyncShapes ==
  ASSUME sync \in SyncType
  PROVE  /\ sync.pc \in {"idle", "initial", "queue", "mark", "find", "pull"} \cup Posting => sync \in Bare
         /\ sync.pc \in {"load", "snapshot", "read", "reserve", "confirm"} => sync.through \in Nat
         /\ sync.pc \in {"snapshot", "read"} => sync.local \in Doc
         /\ sync.pc \in {"read", "reserve"} => sync.events \in SUBSET Event
         /\ sync.pc = "reserve" => sync.expected \in Nat
         /\ sync.pc \in {"reserve", "confirm", "store"} => sync.doc \in Doc
         /\ sync.pc = "confirm" => sync.receipt \in Nat
  BY DEF SyncType, Bare, Loading, Loaded, Reading, Reserving, Confirming, Storing, Posting

\* So has the journal, which its kind tells apart.
LEMMA JournalShapes ==
  ASSUME journal \in {NoJournal} \cup EditJournal \cup ConfirmJournal
  PROVE  /\ journal # NoJournal => journal.after \in Doc /\ journal.before \in Doc
         /\ journal = NoJournal <=> journal.kind = "none"
         /\ journal # NoJournal => journal.kind \in {"edit", "confirm"}
         /\ journal.kind = "confirm" => journal.through \in Nat /\ journal.receipt \in Nat
  BY DEF NoJournal, EditJournal, ConfirmJournal

\* And the receipt.
LEMMA ReceiptShapes ==
  ASSUME receipt \in {NoProposal} \cup Request
  PROVE  /\ receipt # NoProposal => /\ receipt \in Request
                                    /\ receipt.rev \in Nat /\ receipt.through \in Nat
                                    /\ receipt.doc \in Doc /\ receipt.expected \in Nat
         /\ receipt = NoProposal <=> receipt.rev = 0
  BY DEF NoProposal, Request

-----------------------------------------------------------------------------
(* Steps that move the lock's holder or the sync task and nothing else.    *)

Frame == UNCHANGED <<file, journal, events, dirty, receipt, cloud, applied, net, clock,
                     values, others, intended, shown, seen>>

\* Such a step keeps every part that mentions neither.
LEMMA QuietMove ==
  ASSUME RateInv, Frame, prefs' \in Holder, sync' \in SyncType, HolderInv', SaveInv',
         LoneInv', SyncInv'
  PROVE  RateInv'
  <1>1. RateTypeOK'
    BY DEF RateInv, RateTypeOK, Frame
  <1>2. QueueInv'
    BY DEF RateInv, QueueInv, Frame
  <1>3. IntentInv'
    BY DEF RateInv, IntentInv, Left, Frame
  <1>4. RetireInv'
    BY DEF RateInv, RetireInv, Arrived, Frame
  <1>5. ReceiptInv'
    BY DEF RateInv, ReceiptInv, Frame
  <1>6. CloudInv'
    BY DEF RateInv, CloudInv, Past, Frame
  <1>7. RequestInv'
    BY DEF RateInv, RequestInv, Requests, Frame
  <1>8. SpareInv'
    BY DEF RateInv, SpareInv, Requests, Past, Spares, Frame
  <1>9. ValueInv'
    BY DEF RateInv, ValueInv, Requests, Small, Known, Frame
  <1> QED BY <1>1, <1>2, <1>3, <1>4, <1>5, <1>6, <1>7, <1>8, <1>9 DEF RateInv

\* With nothing in hand there is nothing to keep.
LEMMA PlainSync ==
  ASSUME sync'.pc \in {"idle", "initial", "queue", "mark", "find", "pull"}
  PROVE  SyncInv' /\ LoneInv'
  BY DEF SyncInv, SnapshotInv, ReadInv, ReserveInv, PostInv, ConfirmInv, LoneInv, Posting,
     Publishing

\* Where the sync task goes after an operation has nothing in hand.
LEMMA AfterwardsFacts ==
  Afterwards \in Bare /\ Afterwards.pc \in {"idle", "pull"}
  BY DEF Afterwards, NoSync, Bare

\* The lock changes hands and the sync task stays.
LEMMA LockMoves ==
  ASSUME RateInv, Frame, sync' = sync, prefs' \in Holder, HolderInv', SaveInv', LoneInv'
  PROVE  RateInv'
  <1>1. SyncInv'
    <2>1. SnapshotInv' /\ ReadInv'
      BY DEF RateInv, SyncInv, SnapshotInv, ReadInv, Small, Frame
    <2>2. ReserveInv'
      BY DEF RateInv, SyncInv, ReserveInv, Small, Past, Spares, Frame
    <2>3. PostInv' /\ ConfirmInv'
      BY DEF RateInv, SyncInv, PostInv, ConfirmInv, Small, Arrived, Frame
    <2> QED BY <2>1, <2>2, <2>3 DEF RateInv, SyncInv, Frame
  <1>2. sync' \in SyncType
    BY DEF RateInv, RateTypeOK
  <1> QED BY <1>1, <1>2, QuietMove

\* The sync task moves, without the lock.
LEMMA SyncMoves ==
  ASSUME RateInv, Frame, prefs' = prefs, sync.pc \notin {"queue", "load", "confirm", "store"},
         sync' \in SyncType, SyncInv',
         sync'.pc \in Publishing => sync.pc \in Publishing
  PROVE  RateInv'
  <1>1. prefs' \in Holder /\ HolderInv' /\ SaveInv'
    BY DEF RateInv, RateTypeOK, HolderInv, SaveInv, Frame
  <1>2. LoneInv'
    BY DEF RateInv, LoneInv, Frame
  <1> QED BY <1>1, <1>2, QuietMove

\* Taking the lock: a pending save comes first.
LEMMA TakeLockFacts ==
  ASSUME RateInv, Frame, NEW who \in {"edit", "queue", "load", "confirm", "store"},
         TakeLock(who), who # "edit" => sync'.pc = who
  PROVE  prefs' \in Holder /\ HolderInv' /\ SaveInv'
  <1>1. prefs' \in Holder /\ prefs'.by = who
        /\ prefs'.pc = IF journal = NoJournal THEN "body" ELSE "recover"
    BY DEF TakeLock, Holder
  <1>2. HolderInv'
    BY <1>1 DEF HolderInv
  <1>3. SaveInv'
    BY <1>1 DEF RateInv, SaveInv, Frame
  <1> QED BY <1>1, <1>2, <1>3

\* Nobody holds the lock.
LEMMA FreeFacts ==
  ASSUME RateInv, Frame, prefs' = Free
  PROVE  prefs' \in Holder /\ HolderInv' /\ SaveInv'
  BY DEF RateInv, HolderInv, SaveInv, Frame, Free, Holder

\* Taking and giving back the lock with the sync task where it is.
LEMMA LockSteps ==
  ASSUME RateInv, EditBegin \/ EditOther \/ QueueBegin \/ ConfirmBegin \/ PullBegin
                  \/ OperationFails(TRUE)
  PROVE  RateInv'
  <1>1. Frame /\ sync' = sync
    BY DEF EditBegin, EditOther, QueueBegin, ConfirmBegin, PullBegin, OperationFails, Keep,
       disk, service, rateGhost, Frame
  <1>2. prefs.by # "confirm"
    <2>1. CASE EditBegin \/ QueueBegin \/ ConfirmBegin \/ PullBegin
      BY <2>1 DEF EditBegin, QueueBegin, ConfirmBegin, PullBegin, TakeLock, Free
    <2>2. CASE EditOther \/ OperationFails(TRUE)
      BY <2>2 DEF EditOther, OperationFails
    <2> QED BY <2>1, <2>2
  <1>3. LoneInv'
    BY <1>1, <1>2 DEF RateInv, LoneInv, Frame
  <1>4. prefs' \in Holder /\ HolderInv' /\ SaveInv'
    <2>1. CASE EditBegin
      BY <1>1, <2>1, TakeLockFacts DEF EditBegin
    <2>2. CASE QueueBegin
      BY <1>1, <2>2, TakeLockFacts DEF QueueBegin
    <2>3. CASE ConfirmBegin
      BY <1>1, <2>3, TakeLockFacts DEF ConfirmBegin
    <2>4. CASE PullBegin
      BY <1>1, <2>4, TakeLockFacts DEF PullBegin
    <2>5. CASE EditOther \/ OperationFails(TRUE)
      BY <1>1, <2>5, FreeFacts DEF EditOther, OperationFails
    <2> QED BY <2>1, <2>2, <2>3, <2>4, <2>5
  <1> QED BY <1>1, <1>3, <1>4, LockMoves

\* The sync task goes on, or gives up, with nothing in hand.
LEMMA PlainSteps ==
  ASSUME RateInv, SyncBegin \/ ReadInitial \/ MarkChecked \/ OperationFails(FALSE) \/ Stop
  PROVE  RateInv'
  <1>s. sync.pc \in {"idle", "initial", "mark"} => sync \in Bare
    BY SyncShapes DEF RateInv, RateTypeOK
  <1>1. Frame
    BY DEF SyncBegin, ReadInitial, MarkChecked, OperationFails, Stop, Keep, disk, service,
       rateGhost, Frame
  <1>2. CASE SyncBegin \/ ReadInitial \/ MarkChecked
    <2>1. prefs' = prefs /\ sync.pc \in {"idle", "initial", "mark"}
      BY <1>2 DEF SyncBegin, ReadInitial, MarkChecked, Step
    <2>2. sync' \in Bare /\ sync'.pc \in {"initial", "queue", "mark", "find"}
      BY <1>2, <1>s DEF SyncBegin, ReadInitial, MarkChecked, Step, Bare
    <2>3. SyncInv' /\ sync'.pc \notin Publishing /\ sync' \in SyncType
      BY <2>2, PlainSync DEF Publishing, Posting, SyncType
    <2> QED BY <1>1, <2>1, <2>3, SyncMoves
  <1>3. CASE OperationFails(FALSE) \/ Stop
    <2>1. sync' \in Bare /\ sync'.pc \in {"idle", "pull"}
      BY <1>3, AfterwardsFacts DEF OperationFails, Stop, NoSync, Bare
    <2>2. sync' \in SyncType /\ SyncInv' /\ LoneInv'
      BY <2>1, PlainSync DEF SyncType
    <2>3. prefs' = Free \/ (prefs' = prefs /\ prefs.by = "edit")
      BY <1>3 DEF OperationFails, Stop
    <2>4. CASE prefs' = Free
      BY <1>1, <2>2, <2>4, FreeFacts, QuietMove
    <2>5. CASE prefs' = prefs /\ prefs.by = "edit"
      <3>1. prefs' \in Holder /\ HolderInv' /\ SaveInv'
        BY <1>1, <2>5 DEF RateInv, RateTypeOK, HolderInv, SaveInv, Frame
      <3> QED BY <1>1, <2>2, <3>1, QuietMove
    <2> QED BY <2>3, <2>4, <2>5
  <1> QED BY <1>2, <1>3

\* A pull that finds a document, a post without an answer.
LEMMA ReadSteps ==
  ASSUME RateInv, PullRead \/ PostUnclear
  PROVE  RateInv'
  <1>1. Frame /\ prefs' = prefs
    BY DEF PullRead, PostUnclear, Keep, disk, service, rateGhost, Frame
  <1>t. cloud \in [rev : Nat, doc : Doc] /\ Small(cloud.doc) /\ cloud.doc \in Doc
    BY DEF RateInv, RateTypeOK, ValueInv
  <1>2. CASE PullRead
    <2>1. CASE cloud.rev = 0
      <3>1. sync' \in Bare /\ sync'.pc = "idle" /\ sync.pc = "pull"
        BY <1>2, <2>1 DEF PullRead, NoSync, Bare
      <3>2. SyncInv' /\ sync' \in SyncType /\ sync'.pc \notin Publishing
        BY <3>1, PlainSync DEF SyncType, Publishing, Posting
      <3> QED BY <1>1, <3>1, <3>2, SyncMoves
    <2>2. CASE cloud.rev # 0
      <3>1. sync' \in Storing /\ sync'.pc = "store" /\ sync'.doc = cloud.doc /\ sync.pc = "pull"
        BY <1>2, <1>t, <2>2 DEF PullRead, Storing
      <3>2. SyncInv'
        BY <1>1, <1>t, <3>1 DEF SyncInv, SnapshotInv, ReadInv, ReserveInv, PostInv, ConfirmInv,
           Posting, Small, Frame
      <3>3. sync' \in SyncType /\ sync'.pc \notin Publishing
        BY <3>1 DEF SyncType, Publishing, Posting
      <3> QED BY <1>1, <3>1, <3>2, <3>3, SyncMoves
    <2> QED BY <2>1, <2>2
  <1>3. CASE PostUnclear
    <2>1. sync.pc \in {"await", "reawait"} /\ sync' \in Bare /\ sync'.pc \in {"examine", "pull"}
      BY <1>3 DEF PostUnclear, Bare
    <2>2. SyncInv'
      BY <1>1, <2>1 DEF RateInv, SyncInv, SnapshotInv, ReadInv, ReserveInv, PostInv, ConfirmInv,
         Posting, Frame
    <2>3. sync' \in SyncType /\ sync.pc \in Publishing
      BY <2>1 DEF SyncType, Publishing, Posting
    <2> QED BY <1>1, <2>1, <2>2, <2>3, SyncMoves
  <1> QED BY <1>2, <1>3

-----------------------------------------------------------------------------
(* From the local document to the request.                                 *)

\* load_doc: the file is read after any interrupted save, under the lock.
LEMMA LoadSteps ==
  ASSUME RateInv, LoadBegin \/ Load
  PROVE  RateInv'
  <1>1. Frame
    BY DEF LoadBegin, Load, Keep, disk, service, rateGhost, Frame
  <1>t. dirty \in Nat /\ clock \in Nat /\ file \in Doc /\ dirty <= clock /\ Small(file)
    BY DEF RateInv, RateTypeOK, QueueInv, ValueInv
  <1>2. CASE LoadBegin /\ dirty = 0
    <2>1. sync' \in Bare /\ sync'.pc = "pull" /\ sync.pc = "find" /\ prefs' = prefs
      BY <1>2 DEF LoadBegin, Bare
    <2>2. SyncInv' /\ sync' \in SyncType /\ sync'.pc \notin Publishing
      BY <2>1, PlainSync DEF SyncType, Publishing, Posting
    <2> QED BY <1>1, <2>1, <2>2, SyncMoves
  <1>3. CASE LoadBegin /\ dirty # 0
    <2>1. sync' \in Loading /\ sync'.pc = "load" /\ sync'.through = dirty /\ TakeLock("load")
      BY <1>3, <1>t DEF LoadBegin, Loading
    <2>2. SyncInv' /\ LoneInv'
      BY <1>1, <1>t, <2>1 DEF SyncInv, SnapshotInv, ReadInv, ReserveInv, PostInv, ConfirmInv,
         LoneInv, Posting, Publishing, Frame
    <2>3. sync' \in SyncType
      BY <2>1 DEF SyncType
    <2>4. prefs' \in Holder /\ HolderInv' /\ SaveInv'
      BY <1>1, <2>1, TakeLockFacts
    <2> QED BY <1>1, <2>2, <2>3, <2>4, QuietMove
  <1>4. CASE Load
    <2>1. sync.pc = "load" /\ prefs.pc = "body" /\ prefs' = Free
      BY <1>4 DEF Load, RateInv, HolderInv
    <2>2. journal = NoJournal /\ file = intended /\ journal.kind = "none"
      BY <2>1, JournalShapes DEF RateInv, RateTypeOK, SaveInv
    <2>3. Carries(events, file)
      BY <2>2 DEF RateInv, IntentInv, Left
    <2>4. sync.through \in Nat /\ sync.through <= clock
      BY <2>1, SyncShapes DEF RateInv, RateTypeOK, SyncInv
    <2>5. sync' \in Loaded /\ sync'.pc = "snapshot" /\ sync'.through = sync.through
          /\ sync'.local = file
      BY <1>4, <1>t, <2>4 DEF Load, Loaded
    <2>6. SnapshotInv'
      BY <1>1, <1>t, <2>3, <2>5 DEF SnapshotInv, Small, Frame
    <2>7. SyncInv'
      BY <1>1, <2>4, <2>5, <2>6 DEF SyncInv, ReadInv, ReserveInv, PostInv, ConfirmInv, Posting,
         Frame
    <2>8. LoneInv'
      BY <1>1, <2>2 DEF LoneInv, Frame
    <2>9. sync' \in SyncType
      BY <2>5 DEF SyncType
    <2> QED BY <1>1, <2>1, <2>7, <2>8, <2>9, FreeFacts, QuietMove
  <1> QED BY <1>2, <1>3, <1>4

\* The snapshot holds the queue the local document was read with.
LEMMA SnapshotStep ==
  ASSUME RateInv, Snapshot
  PROVE  RateInv'
  <1>1. Frame /\ prefs' = prefs /\ sync.pc = "snapshot"
    BY DEF Snapshot, Keep, disk, service, rateGhost, Frame
  <1>t. /\ dirty \in Nat /\ clock \in Nat /\ events \in SUBSET Event /\ dirty <= clock
        /\ sync.local \in Doc /\ sync.through \in Nat
    BY <1>1, SyncShapes DEF RateInv, RateTypeOK, QueueInv
  <1>p. sync.pc \in Publishing
    BY <1>1 DEF Publishing
  <1>2. CASE dirty # sync.through
    <2>1. sync' \in Bare /\ sync'.pc = "pull"
      BY <1>2 DEF Snapshot, Bare
    <2>2. sync' \in SyncType /\ SyncInv'
      BY <2>1, PlainSync DEF SyncType
    <2> QED BY <1>1, <1>p, <2>2, SyncMoves
  <1>3. CASE dirty = sync.through /\ receipt # NoProposal
    <2>1. sync' \in Bare /\ sync'.pc = "examine"
      BY <1>3 DEF Snapshot, Bare
    <2>2. SyncInv'
      BY <1>1, <1>3, <2>1 DEF SyncInv, SnapshotInv, ReadInv, ReserveInv, PostInv, ConfirmInv,
         Frame
    <2>3. sync' \in SyncType
      BY <2>1 DEF SyncType
    <2> QED BY <1>1, <1>p, <2>2, <2>3, SyncMoves
  <1>4. CASE dirty = sync.through /\ receipt = NoProposal
    <2>1. /\ sync' \in Reading /\ sync'.pc = "read" /\ sync'.through = dirty
          /\ sync'.local = sync.local /\ sync'.events = events
      BY <1>4, <1>t DEF Snapshot, Reading
    <2>2. Upto(events, dirty) = events
      BY DEF RateInv, QueueInv, Upto
    <2>3. Small(sync.local) /\ Carries(events, sync.local)
      BY <1>1, <1>4 DEF RateInv, SyncInv, SnapshotInv
    <2>4. ReadInv'
      BY <1>1, <1>4, <2>1, <2>2, <2>3 DEF ReadInv, Small, Frame
    <2>5. SyncInv'
      BY <1>1, <1>t, <2>1, <2>4 DEF SyncInv, SnapshotInv, ReserveInv, PostInv, ConfirmInv,
         Posting, Frame
    <2>6. sync' \in SyncType
      BY <2>1 DEF SyncType
    <2> QED BY <1>1, <1>p, <2>5, <2>6, SyncMoves
  <1> QED BY <1>2, <1>3, <1>4

\* The proposal carries the edits and spares what the Pi has not shown.
LEMMA ProposedFacts ==
  ASSUME RateInv, sync.pc = "read", cloud.rev = 0 \/ Mergeable(sync.events, cloud.doc)
  PROVE  /\ Proposed(cloud) \in Doc /\ Small(Proposed(cloud))
         /\ Carries(sync.events, Proposed(cloud))
         /\ Spares(Proposed(cloud))
  <1>t. /\ sync.local \in Doc /\ sync.through \in Nat /\ sync.events \in SUBSET Event
        /\ cloud.doc \in Doc /\ values \in Nat /\ Small(cloud.doc)
    BY SyncShapes DEF RateInv, RateTypeOK, ValueInv
  <1>1. /\ Small(sync.local) /\ Carries(sync.events, sync.local)
        /\ sync.events = Upto(events, sync.through)
    BY DEF RateInv, SyncInv, ReadInv
  <1>2. CASE cloud.rev = 0
    <2>1. Proposed(cloud) = sync.local
      BY <1>2 DEF Proposed
    <2>2. \A f \in Fields : cloud.doc[f] \notin others
      BY <1>2 DEF RateInv, CloudInv, Empty
    <2> QED BY <1>t, <1>1, <2>1, <2>2 DEF Spares
  <1>3. CASE cloud.rev # 0
    <2>1. Proposed(cloud) = ApplyTo(sync.events, cloud.doc)
      BY <1>3 DEF Proposed
    <2>2. \A e \in sync.events : e.at <= sync.through /\ Known(e.before) /\ Known(e.after)
      BY <1>1 DEF RateInv, ValueInv, Upto
    <2>3. \A e \in sync.events : Small(e.after)
      BY <2>2 DEF Known
    <2>4. Spares(ApplyTo(sync.events, cloud.doc))
      BY <1>3, <1>t, <2>2, MergeSpares
    <2> QED BY <1>t, <2>1, <2>2, <2>3, <2>4, ApplyFacts
  <1> QED BY <1>2, <1>3

\* Read and merge.
LEMMA ReadAndMergeStep ==
  ASSUME RateInv, ReadAndMerge
  PROVE  RateInv'
  <1> DEFINE doc == Proposed(cloud)
             conflict == cloud.rev # 0 /\ ~Mergeable(sync.events, cloud.doc)
  <1>1. Frame /\ prefs' = prefs /\ sync.pc = "read" /\ sync.pc \in Publishing
    BY DEF ReadAndMerge, Keep, disk, service, rateGhost, Frame, Publishing
  <1>t. /\ sync.through \in Nat /\ sync.through <= clock /\ sync.events \in SUBSET Event
        /\ cloud.doc \in Doc /\ Small(cloud.doc) /\ cloud.rev \in Nat
        /\ receipt = NoProposal /\ sync.events = Upto(events, sync.through)
    BY <1>1, SyncShapes DEF RateInv, RateTypeOK, ValueInv, SyncInv, ReadInv
  <1>2. CASE conflict
    <2>1. sync' \in Bare /\ sync'.pc = "pull"
      BY <1>2 DEF ReadAndMerge, Bare
    <2>2. sync' \in SyncType /\ SyncInv'
      BY <2>1, PlainSync DEF SyncType
    <2> QED BY <1>1, <2>2, SyncMoves
  <1>3. CASE ~conflict /\ doc = cloud.doc
    <2>1. Carries(sync.events, cloud.doc)
      BY <1>1, <1>3, ProposedFacts
    <2>2. Arrived(Upto(events, sync.through))
      BY <1>t, <2>1 DEF Carries, Arrived, RateInv, CloudInv
    <2>3. /\ sync' \in Confirming /\ sync'.pc = "confirm" /\ sync'.doc = cloud.doc
          /\ sync'.through = sync.through /\ sync'.receipt = 0
      BY <1>3, <1>t DEF ReadAndMerge, Confirming
    <2>4. ConfirmInv'
      BY <1>1, <1>t, <2>2, <2>3 DEF ConfirmInv, Small, Arrived, Frame, NoProposal
    <2>5. SyncInv'
      BY <1>1, <1>t, <2>3, <2>4 DEF SyncInv, SnapshotInv, ReadInv, ReserveInv, PostInv, Posting,
         Frame
    <2>6. sync' \in SyncType
      BY <2>3 DEF SyncType
    <2> QED BY <1>1, <2>5, <2>6, SyncMoves
  <1>4. CASE ~conflict /\ doc # cloud.doc
    <2>1. doc \in Doc /\ Small(doc) /\ Carries(sync.events, doc) /\ Spares(doc)
      BY <1>1, <1>4, ProposedFacts
    <2>2. sync' = [pc |-> "reserve", through |-> sync.through, events |-> sync.events,
                   expected |-> cloud.rev, doc |-> doc]
      BY <1>4 DEF ReadAndMerge
    <2> HIDE DEF doc
    <2>3. /\ sync' \in Reserving /\ sync'.pc = "reserve" /\ sync'.doc = doc
          /\ sync'.through = sync.through /\ sync'.events = sync.events
          /\ sync'.expected = cloud.rev
      BY <1>t, <2>1, <2>2 DEF Reserving
    <2>4. ReserveInv'
      BY <1>1, <1>t, <2>1, <2>3 DEF ReserveInv, Small, Spares, Past, Frame, RateInv, CloudInv
    <2>5. SyncInv'
      BY <1>1, <1>t, <2>3, <2>4 DEF SyncInv, SnapshotInv, ReadInv, PostInv, ConfirmInv, Posting,
         Frame
    <2>6. sync' \in SyncType
      BY <2>3 DEF SyncType
    <2> QED BY <1>1, <2>5, <2>6, SyncMoves
  <1> QED BY <1>2, <1>3, <1>4

\* The outcome of the request is examined; what the Cloud has is confirmed.
LEMMA ExamineSteps ==
  ASSUME RateInv, Examine \/ ReadCurrent
  PROVE  RateInv'
  <1>1. Frame /\ prefs' = prefs /\ sync.pc \in {"examine", "adopt"}
    BY DEF Examine, ReadCurrent, Keep, disk, service, rateGhost, Frame
  <1>p. sync.pc \in Publishing /\ sync.pc \in Posting
    BY <1>1 DEF Publishing, Posting
  <1>t. /\ receipt # NoProposal /\ receipt.rev \in Nat /\ receipt.through \in Nat
        /\ receipt.through <= clock /\ receipt \in Requests
        /\ Carries(Upto(events, receipt.through), receipt.doc)
        /\ cloud.doc \in Doc /\ Small(cloud.doc)
    BY <1>p, ReceiptShapes DEF RateInv, RateTypeOK, SyncInv, PostInv, ReceiptInv, Requests,
       ValueInv
  <1>2. CASE Examine /\ cloud.rev # receipt.rev
    <2>1. sync' \in Bare /\ sync'.pc = "repost"
      BY <1>2 DEF Examine, Bare
    <2>2. SyncInv'
      BY <1>1, <1>t, <2>1 DEF SyncInv, SnapshotInv, ReadInv, ReserveInv, PostInv, ConfirmInv,
         Frame
    <2>3. sync' \in SyncType
      BY <2>1 DEF SyncType
    <2> QED BY <1>1, <1>p, <2>2, <2>3, SyncMoves
  <1>3. CASE ReadCurrent \/ (Examine /\ cloud.rev = receipt.rev)
    <2>1. \A f \in Fields : receipt.doc[f] \in seen[f]
      <3>1. CASE Examine /\ cloud.rev = receipt.rev
        BY <1>t, <3>1 DEF RateInv, CloudInv, RequestInv
      <3>2. CASE ReadCurrent
        BY <1>t, <3>2 DEF ReadCurrent, RateInv, SyncInv, PostInv, RequestInv
      <3> QED BY <1>3, <3>1, <3>2
    <2>2. Arrived(Upto(events, receipt.through))
      BY <1>t, <2>1 DEF Carries, Arrived
    <2>3. /\ sync' \in Confirming /\ sync'.pc = "confirm" /\ sync'.doc = cloud.doc
          /\ sync'.through = receipt.through /\ sync'.receipt = receipt.rev
      BY <1>3, <1>t DEF Examine, ReadCurrent, Confirming
    <2>4. ConfirmInv'
      BY <1>1, <1>t, <2>2, <2>3 DEF ConfirmInv, Small, Arrived, Frame
    <2>5. SyncInv'
      BY <1>1, <1>t, <2>3, <2>4 DEF SyncInv, SnapshotInv, ReadInv, ReserveInv, PostInv, Posting,
         Frame
    <2>6. sync' \in SyncType
      BY <2>3 DEF SyncType
    <2> QED BY <1>1, <1>p, <2>5, <2>6, SyncMoves
  <1> QED BY <1>2, <1>3

-----------------------------------------------------------------------------
(* What other actors do while the sync task has something in hand: what    *)
(* was given out, applied, seen and shown only grows, the Cloud's document *)
(* stays or gets a ciphertext it never had, and the queue gets newer edits *)
(* only.                                                                   *)

Growth ==
  /\ values' \in Nat /\ values <= values' /\ clock' \in Nat /\ clock <= clock'
  /\ applied \subseteq applied' /\ others \subseteq others'
  /\ \A f \in Fields : seen[f] \subseteq seen'[f] /\ shown[f] \subseteq shown'[f]
  /\ (cloud' = cloud /\ others' = others) \/ cloud'.rev \notin Past

QueueGrows ==
  \/ events' = events /\ dirty' = dirty
  \/ dirty' \in Nat /\ dirty' > clock
     /\ \A th \in Nat : th <= clock => Upto(events', th) = Upto(events, th)

\* Values given out stay so.
LEMMA SmallGrows ==
  ASSUME RateTypeOK, Growth, NEW doc \in Doc, Small(doc)
  PROVE  \A f \in Fields : doc[f] <= values'
  BY DEF RateTypeOK, Growth, Doc, Small

\* What can replace the Cloud's document still spares what it must.
LEMMA SparesGrows ==
  ASSUME RateTypeOK, Growth, NEW doc, NEW r \in Past, r = cloud.rev => Spares(doc)
  PROVE  /\ r \in Past'
         /\ r = cloud'.rev =>
              \A f \in Fields : doc[f] # cloud'.doc[f] /\ cloud'.doc[f] \in others'
                                  => cloud'.doc[f] \in shown'[f]
  BY DEF Growth, Past, Spares

\* The sync task's part survives.
LEMMA SyncKept ==
  ASSUME RateInv, Growth, QueueGrows, sync' = sync, receipt' = receipt
  PROVE  SyncInv'
  <1>t. /\ RateTypeOK /\ sync \in SyncType /\ clock \in Nat /\ dirty \in Nat
        /\ values \in Nat /\ SyncInv
    BY DEF RateInv, RateTypeOK
  <1>s. /\ sync.pc \in {"load", "snapshot", "read", "reserve", "confirm"} => sync.through \in Nat
        /\ sync.pc \in {"snapshot", "read"} => sync.local \in Doc
        /\ sync.pc \in {"reserve", "confirm", "store"} => sync.doc \in Doc
    BY <1>t, SyncShapes
  <1>1. sync.pc \in {"load", "snapshot", "read", "reserve", "confirm"} =>
          /\ sync.through <= clock /\ sync.through <= clock'
          /\ Upto(events', sync.through) = Upto(events, sync.through)
    BY <1>t, <1>s DEF SyncInv, Growth, QueueGrows
  <1>2. SnapshotInv'
    <2> SUFFICES ASSUME sync.pc = "snapshot"
                 PROVE  /\ \A f \in Fields : sync.local[f] <= values'
                        /\ dirty' = sync.through => Carries(events', sync.local)
      BY DEF SnapshotInv, Small
    <2>1. Small(sync.local) /\ (dirty = sync.through => Carries(events, sync.local))
      BY <1>t DEF SyncInv, SnapshotInv
    <2>2. dirty' = sync.through => events' = events /\ dirty' = dirty
      BY <1>t, <1>s, <1>1 DEF QueueGrows
    <2> QED BY <1>t, <1>s, <2>1, <2>2, SmallGrows
  <1>3. ReadInv'
    <2> SUFFICES ASSUME sync.pc = "read" PROVE ReadInv'
      BY DEF ReadInv
    <2>1. /\ Small(sync.local) /\ Carries(sync.events, sync.local) /\ receipt = NoProposal
          /\ sync.events = Upto(events, sync.through)
      BY <1>t DEF SyncInv, ReadInv
    <2>2. \A f \in Fields : sync.local[f] <= values'
      BY <1>t, <1>s, <2>1, SmallGrows
    <2> QED BY <1>1, <2>1, <2>2 DEF ReadInv, Small
  <1>4. ReserveInv'
    <2> SUFFICES ASSUME sync.pc = "reserve" PROVE ReserveInv'
      BY DEF ReserveInv
    <2>1. /\ Small(sync.doc) /\ Carries(sync.events, sync.doc) /\ receipt = NoProposal
          /\ sync.events = Upto(events, sync.through)
          /\ sync.expected \in Past /\ (sync.expected = cloud.rev => Spares(sync.doc))
      BY <1>t DEF SyncInv, ReserveInv
    <2>2. \A f \in Fields : sync.doc[f] <= values'
      BY <1>t, <1>s, <2>1, SmallGrows
    <2>3. sync.expected \in Past' /\ (sync.expected = cloud'.rev => Spares(sync.doc)')
      BY <1>t, <2>1, SparesGrows DEF Spares
    <2> QED BY <1>1, <2>1, <2>2, <2>3 DEF ReserveInv, Small
  <1>5. PostInv'
    BY <1>t DEF SyncInv, PostInv, Growth
  <1>6. ConfirmInv'
    <2>1. sync.pc \in {"confirm", "store"} => \A f \in Fields : sync.doc[f] <= values'
      BY <1>t, <1>s, SmallGrows DEF SyncInv, ConfirmInv
    <2>2. sync.pc = "confirm" => Arrived(Upto(events, sync.through))'
      BY <1>t, <1>1 DEF SyncInv, ConfirmInv, Arrived, Growth
    <2>3. sync.pc = "confirm" => sync.receipt = receipt.rev
      BY <1>t DEF SyncInv, ConfirmInv
    <2> QED BY <2>1, <2>2, <2>3 DEF ConfirmInv, Small
  <1> QED BY <1>1, <1>2, <1>3, <1>4, <1>5, <1>6 DEF SyncInv

\* The requests' part survives.
LEMMA SpareKept ==
  ASSUME RateInv, Growth, Requests' \in SUBSET Requests
  PROVE  SpareInv'
  <1> SUFFICES ASSUME NEW m \in Requests
               PROVE  m.expected \in Past' /\ (m.expected = cloud'.rev =>
                        \A f \in Fields : m.doc[f] # cloud'.doc[f] /\ cloud'.doc[f] \in others'
                                            => cloud'.doc[f] \in shown'[f])
    BY DEF SpareInv, Spares
  <1> QED BY SparesGrows DEF RateInv, SpareInv

\* So does what is said of values.
LEMMA ValueKept ==
  ASSUME RateInv, Growth,
         RateTypeOK', Small(file)', Small(cloud.doc)', \A f \in Fields : file'[f] \in shown'[f],
         journal' # NoJournal => journal' = journal \/ Small(journal.after)',
         \A m \in Requests' : m \in Requests \/ Small(m.doc)',
         \A e \in events' : e \in events \/ (Known(e.before)' /\ Known(e.after)'),
         \A x \in others' : x \in others \/ x > values
  PROVE  ValueInv'
  <1>t. RateTypeOK
    BY DEF RateInv
  <1>1. journal' # NoJournal => Small(journal.after)'
    <2> SUFFICES ASSUME journal # NoJournal, journal' = journal PROVE Small(journal.after)'
      OBVIOUS
    <2>1. journal.after \in Doc /\ Small(journal.after)
      BY JournalShapes DEF RateInv, RateTypeOK, ValueInv
    <2> QED BY <1>t, <2>1, SmallGrows DEF Small
  <1>2. ASSUME NEW m \in Requests PROVE \A f \in Fields : m.doc[f] <= values'
    <2>1. m \in Requests /\ m \in Request /\ Small(m.doc)
      BY <1>2 DEF RateInv, RateTypeOK, Requests, ValueInv
    <2>2. m.doc \in Doc
      BY <2>1 DEF Request
    <2> QED BY <1>t, <2>1, <2>2, SmallGrows
  <1>3. ASSUME NEW e \in events, NEW doc \in Doc, Known(doc)
        PROVE  \A f \in Fields : doc[f] <= values' /\ (doc[f] \in others' => doc[f] \in shown'[f])
    <2>1. \A f \in Fields : doc[f] <= values'
      BY <1>t, <1>3, SmallGrows DEF Known
    <2>2. \A f \in Fields : doc[f] \in Nat /\ values \in Nat /\ doc[f] <= values
      BY <1>t, <1>3 DEF Known, Small, Doc, RateTypeOK
    <2>3. \A f \in Fields : doc[f] \in others' => doc[f] \in others
      BY <2>2
    <2> QED BY <1>3, <2>1, <2>3 DEF Known, Growth
  <1>4. ASSUME NEW e \in events PROVE Known(e.before)' /\ Known(e.after)'
    <2>1. e.before \in Doc /\ e.after \in Doc /\ Known(e.before) /\ Known(e.after)
      BY <1>t DEF RateTypeOK, Event, RateInv, ValueInv
    <2> QED BY <1>3, <2>1 DEF Known, Small
  <1> QED BY <1>1, <1>2, <1>4 DEF ValueInv, Small

-----------------------------------------------------------------------------
(* Saves.                                                                  *)

\* The file of a save has values given out and shown.
LEMMA SaveRatesFacts ==
  ASSUME RateTypeOK, NEW doc \in Doc, Small(doc), SaveRates(doc), values' = values
  PROVE  /\ file' \in Doc /\ shown' \in [Fields -> SUBSET Nat]
         /\ \A f \in Fields : shown[f] \subseteq shown'[f] /\ file'[f] \in shown'[f]
         /\ Small(file)'
  BY DEF RateTypeOK, SaveRates, Doc, Small

\* The file is saved, by the save itself or by the recovery of one.
LEMMA SaveSteps ==
  ASSUME RateInv, Recover \/ Save
  PROVE  RateInv'
  <1>1. /\ UNCHANGED <<journal, events, dirty, receipt, cloud, applied, net, sync, clock, values,
                       others, intended, seen>>
        /\ SaveRates(journal.after)
        /\ prefs.pc \in {"recover", "save"}
        /\ prefs' = [prefs EXCEPT !.pc = IF prefs.pc = "save" THEN "finish" ELSE "refinish"]
    BY DEF Recover, Save, service
  <1>t. RateTypeOK /\ prefs \in Holder
    BY DEF RateInv, RateTypeOK
  <1>2. journal # NoJournal /\ journal.after \in Doc /\ Small(journal.after)
    BY <1>1, JournalShapes DEF RateInv, RateTypeOK, SaveInv, ValueInv
  <1>3. /\ file' \in Doc /\ shown' \in [Fields -> SUBSET Nat] /\ Small(file)'
        /\ \A f \in Fields : shown[f] \subseteq shown'[f] /\ file'[f] \in shown'[f]
    BY <1>1, <1>2, <1>t, SaveRatesFacts
  <1>4. /\ prefs' \in Holder /\ prefs'.by = prefs.by
        /\ prefs'.pc = IF prefs.pc = "save" THEN "finish" ELSE "refinish"
    BY <1>1, <1>t DEF Holder
  <1>5. RateTypeOK'
    BY <1>1, <1>3, <1>4, <1>t DEF RateTypeOK
  <1>6. HolderInv' /\ LoneInv'
    BY <1>1, <1>4 DEF RateInv, HolderInv, LoneInv
  <1>7. SaveInv'
    BY <1>1, <1>2, <1>4 DEF RateInv, SaveInv, SaveRates
  <1>8. QueueInv' /\ IntentInv' /\ RetireInv' /\ ReceiptInv'
    BY <1>1 DEF RateInv, QueueInv, IntentInv, Left, RetireInv, Arrived, ReceiptInv
  <1>9. CloudInv' /\ RequestInv' /\ Requests' = Requests
    BY <1>1 DEF RateInv, CloudInv, Past, RequestInv, Requests
  <1>10. Growth /\ QueueGrows
    BY <1>1, <1>3, <1>t DEF Growth, QueueGrows, RateTypeOK
  <1>11. Small(cloud.doc)'
    BY <1>1 DEF RateInv, ValueInv, Small
  <1>12. ValueInv'
    BY <1>1, <1>3, <1>5, <1>9, <1>10, <1>11, ValueKept
  <1>13. SyncInv' /\ SpareInv'
    BY <1>1, <1>9, <1>10, SyncKept, SpareKept
  <1> QED BY <1>5, <1>6, <1>7, <1>8, <1>9, <1>12, <1>13 DEF RateInv

\* The journal is retired: an edit stays queued, what was confirmed leaves.
LEMMA FinishStep ==
  ASSUME RateInv, Finish
  PROVE  RateInv'
  <1>1. /\ UNCHANGED <<file, cloud, applied, net, clock, values, others, intended, shown, seen>>
        /\ journal' = NoJournal /\ prefs.pc \in {"finish", "refinish"}
    BY DEF Finish, FinishJournal, service, rateGhost
  <1>t. /\ RateTypeOK /\ prefs \in Holder /\ sync \in SyncType /\ events \in SUBSET Event
        /\ dirty \in Nat /\ clock \in Nat /\ receipt \in {NoProposal} \cup Request
    BY DEF RateInv, RateTypeOK
  <1>2. /\ journal # NoJournal /\ journal.kind \in {"edit", "confirm"} /\ journal'.kind = "none"
        /\ file = journal.after /\ intended = journal.after
        /\ journal.kind = "confirm" => journal.through \in Nat /\ journal.receipt \in Nat
    BY <1>1, JournalShapes DEF RateInv, RateTypeOK, SaveInv, NoJournal
  <1>3. events' = Left /\ events' \in SUBSET events
    BY <1>2 DEF Finish, FinishJournal, Retire, Left, Newer
  <1>4. /\ dirty' \in Nat /\ dirty' <= clock /\ \A e \in events' : 0 < e.at /\ e.at <= dirty'
    <2>1. CASE journal.kind = "edit"
      BY <1>1, <1>t, <2>1 DEF Finish, FinishJournal, RateInv, QueueInv
    <2>2. CASE journal.kind = "confirm"
      <3>1. /\ events' = Newer(events, journal.through)
            /\ dirty' = IF dirty <= journal.through THEN 0 ELSE dirty
        BY <2>2 DEF Finish, FinishJournal, Retire
      <3>2. \A e \in events : e.at \in Nat /\ 0 < e.at /\ e.at <= dirty /\ dirty <= clock
        BY <1>t DEF RateInv, QueueInv, Event
      <3>3. dirty <= clock
        BY DEF RateInv, QueueInv
      <3> QED BY <1>2, <1>t, <2>2, <3>1, <3>2, <3>3 DEF Newer
    <2> QED BY <1>2, <2>1, <2>2
  <1>5. receipt' = NoProposal \/ receipt' = receipt
    BY <1>2 DEF Finish, FinishJournal
  <1>6. journal.kind = "confirm" => receipt' = NoProposal
    BY <1>t, ReceiptShapes DEF Finish, FinishJournal, RateInv, RetireInv
  <1>7. \/ /\ prefs' = [prefs EXCEPT !.pc = "body"] /\ sync' = sync /\ prefs.pc = "refinish"
        \/ /\ prefs' = Free /\ prefs.pc = "finish"
           /\ sync' = IF prefs.by = "edit" THEN sync ELSE Afterwards
    BY <1>1 DEF Finish
  <1>8. prefs' \in Holder /\ sync' \in SyncType /\ prefs'.pc \in {"free", "body"}
    BY <1>7, <1>t, AfterwardsFacts DEF Holder, Free, SyncType
  <1>9. RateTypeOK'
    BY <1>1, <1>3, <1>4, <1>5, <1>8, <1>t DEF RateTypeOK
  <1>10. HolderInv'
    BY <1>7, <1>t DEF RateInv, HolderInv, Holder, Free
  <1>11. SaveInv' /\ LoneInv'
    BY <1>1, <1>2, <1>8 DEF SaveInv, LoneInv
  <1>12. QueueInv'
    BY <1>1, <1>3, <1>4 DEF RateInv, QueueInv
  <1>13. IntentInv' /\ RetireInv'
    BY <1>1, <1>2, <1>3 DEF RateInv, IntentInv, Left, RetireInv
  <1>14. ReceiptInv'
    <2>1. CASE journal.kind = "confirm"
      BY <1>6, <2>1 DEF ReceiptInv
    <2>2. CASE journal.kind = "edit"
      BY <1>1, <2>2 DEF Finish, FinishJournal, RateInv, ReceiptInv
    <2> QED BY <1>2, <2>1, <2>2
  <1>15. Requests' \in SUBSET Requests
    BY <1>1, <1>5 DEF Requests
  <1>16. CloudInv' /\ RequestInv'
    BY <1>1, <1>15 DEF RateInv, CloudInv, RequestInv, Past
  <1>17. Growth
    BY <1>1, <1>t DEF Growth, RateTypeOK
  <1>18. SpareInv'
    BY <1>15, <1>17, SpareKept
  <1>19. Small(file)' /\ Small(cloud.doc)' /\ \A f \in Fields : file'[f] \in shown'[f]
    BY <1>1 DEF RateInv, ValueInv, Small
  <1>20. ValueInv'
    BY <1>1, <1>3, <1>9, <1>15, <1>17, <1>19, ValueKept
  <1>21. SyncInv'
    <2>1. CASE sync' # sync
      <3>1. sync'.pc \in {"idle", "pull"}
        BY <1>7, <2>1, AfterwardsFacts
      <3> QED BY <3>1, PlainSync
    <2>2. CASE sync' = sync /\ journal.kind = "edit"
      <3>1. events' = events /\ dirty' = dirty /\ receipt' = receipt
        BY <2>2 DEF Finish, FinishJournal
      <3> QED BY <1>17, <2>2, <3>1, SyncKept DEF QueueGrows
    <2>3. CASE sync' = sync /\ journal.kind = "confirm"
      <3>1. ~(prefs.by = "confirm" /\ prefs.pc = "finish")
        <4>1. SUFFICES ASSUME prefs.by = "confirm", prefs.pc = "finish" PROVE FALSE
          OBVIOUS
        <4>2. sync.pc = "confirm" /\ sync' = Afterwards
          BY <1>7, <4>1 DEF RateInv, HolderInv
        <4> QED BY <2>3, <4>2, AfterwardsFacts
      <3>2. sync.pc \notin Publishing
        BY <1>1, <2>3, <3>1 DEF RateInv, LoneInv
      <3>3. sync.pc \in {"load", "store"} \/ sync.pc \in {"idle", "initial", "queue", "mark", "find", "pull"}
        BY <1>t, <3>2 DEF SyncType, Bare, Loading, Loaded, Reading, Reserving, Confirming, Storing,
           Publishing, Posting
      <3>4. sync.pc = "load" => sync.through <= clock
        BY DEF RateInv, SyncInv
      <3>5. sync.pc = "store" => Small(sync.doc)
        BY DEF RateInv, SyncInv, ConfirmInv
      <3> QED BY <1>1, <2>3, <3>3, <3>4, <3>5 DEF SyncInv, SnapshotInv, ReadInv, ReserveInv,
                 PostInv, ConfirmInv, Posting, Small
    <2> QED BY <1>2, <2>1, <2>2, <2>3
  <1> QED BY <1>9, <1>10, <1>11, <1>12, <1>13, <1>14, <1>16, <1>18, <1>20, <1>21 DEF RateInv

-----------------------------------------------------------------------------
(* Edits.                                                                  *)

\* An edit gets the next generation.
LEMMA Enqueue ==
  ASSUME RateInv, NEW e \in Event, e.at = clock + 1, dirty' = clock + 1, clock' = clock + 1,
         events' = events \cup {e}, receipt' = receipt
  PROVE  /\ QueueInv' /\ QueueGrows /\ ReceiptInv'
         /\ dirty' \in Nat /\ clock' \in Nat /\ clock <= clock' /\ events' \in SUBSET Event
         /\ \A d \in events : d.at < e.at
  <1>t. clock \in Nat /\ dirty \in Nat /\ events \in SUBSET Event
    BY DEF RateInv, RateTypeOK
  <1>1. \A d \in events : d.at \in Nat /\ 0 < d.at /\ d.at <= dirty /\ d.at < e.at
    BY <1>t DEF RateInv, QueueInv, Event
  <1>2. QueueInv'
    BY <1>t, <1>1 DEF RateInv, QueueInv
  <1>3. ASSUME NEW th \in Nat, th <= clock PROVE Upto(events', th) = Upto(events, th)
    BY <1>3, <1>t, UptoAdded
  <1>4. QueueGrows
    <2>1. dirty' \in Nat /\ dirty' > clock
      BY <1>t
    <2>2. \A th \in Nat : th <= clock => Upto(events', th) = Upto(events, th)
      BY <1>3
    <2> QED BY <2>1, <2>2 DEF QueueGrows
  <1>5. ReceiptInv'
    <2> SUFFICES ASSUME receipt # NoProposal PROVE ReceiptInv'
      BY DEF ReceiptInv
    <2>1. receipt.through \in Nat /\ receipt.through <= clock
          /\ Carries(Upto(events, receipt.through), receipt.doc)
      BY ReceiptShapes DEF RateInv, RateTypeOK, ReceiptInv
    <2>2. Upto(events', receipt.through) = Upto(events, receipt.through)
      BY <1>3, <2>1
    <2>3. receipt.through <= clock'
      BY <1>t, <2>1
    <2> QED BY <2>1, <2>2, <2>3 DEF ReceiptInv
  <1> QED BY <1>1, <1>2, <1>4, <1>5, <1>t

\* The Cloud's part does not depend on the local files.
LEMMA CloudKept ==
  ASSUME RateInv, Growth, UNCHANGED <<cloud, applied, others, seen, net, receipt>>
  PROVE  CloudInv' /\ RequestInv' /\ Requests' = Requests
  <1>1. Requests' = Requests /\ Past' = Past
    BY DEF Requests, Past
  <1>2. values \in Nat /\ values' \in Nat /\ values <= values'
    BY DEF RateInv, RateTypeOK, Growth
  <1>3. 1..values \subseteq 1..values' /\ 2..values \subseteq 2..values'
    BY <1>2
  <1>4. CloudInv'
    BY <1>1, <1>2, <1>3 DEF RateInv, CloudInv
  <1>5. \A m \in Requests : m.rev \in Nat
    BY DEF Requests, RateInv, RateTypeOK, Request
  <1>6. RequestInv'
    BY <1>1, <1>2, <1>5 DEF RateInv, RequestInv
  <1> QED BY <1>1, <1>4, <1>6

\* A user's edit: one field gets a value, queued and journalled at once.
LEMMA StageEditStep ==
  ASSUME RateInv, NEW f \in Fields, NEW v \in {0, 1, values + 1}, StageEdit(f, v)
  PROVE  RateInv'
  <1> DEFINE after == [file EXCEPT ![f] = v]
  <1>t. /\ RateTypeOK /\ file \in Doc /\ clock \in Nat /\ values \in Nat /\ dirty \in Nat
        /\ prefs \in Holder
    BY DEF RateInv, RateTypeOK
  <1>1. /\ UNCHANGED <<file, receipt, cloud, applied, net, sync, others, shown, seen>>
        /\ events' = events \cup {[at |-> clock + 1, before |-> file, after |-> after]}
        /\ dirty' = clock + 1 /\ clock' = clock + 1
        /\ journal' = [kind |-> "edit", before |-> file, after |-> after]
        /\ intended' = after
        /\ prefs = [by |-> "edit", pc |-> "body"] /\ prefs' = [prefs EXCEPT !.pc = "save"]
    BY DEF StageEdit, service
  <1>2. values' \in Nat /\ values <= values' /\ v <= values' /\ v \in Nat /\ v \notin others
    BY <1>t DEF StageEdit, RateInv, CloudInv
  <1>3. /\ after \in Doc /\ after[f] = v /\ \A g \in Fields : g # f => after[g] = file[g]
    BY <1>t, <1>2 DEF Doc
  <1> HIDE DEF after
  <1>4. PICK e \in Event : /\ e.at = clock + 1 /\ e.before = file /\ e.after = after
                           /\ events' = events \cup {e}
    <2> DEFINE d == [at |-> clock + 1, before |-> file, after |-> after]
    <2>1. d \in Event /\ d.at = clock + 1 /\ d.before = file /\ d.after = after
      BY <1>t, <1>3 DEF Event
    <2>2. events' = events \cup {d}
      BY <1>1
    <2> HIDE DEF d
    <2> QED BY <2>1, <2>2
  <1>5. journal = NoJournal /\ file = intended /\ journal.kind = "none"
    BY <1>1, JournalShapes DEF RateInv, RateTypeOK, SaveInv
  <1>6. /\ QueueInv' /\ QueueGrows /\ ReceiptInv'
        /\ dirty' \in Nat /\ clock' \in Nat /\ clock <= clock' /\ events' \in SUBSET Event
        /\ \A d \in events : d.at < e.at
    BY <1>1, <1>4, Enqueue
  <1>7. /\ journal' \in EditJournal /\ journal'.kind = "edit" /\ journal' # NoJournal
        /\ journal'.before = file /\ journal'.after = after
    BY <1>1, <1>3, <1>t DEF EditJournal, NoJournal
  <1>8. prefs' \in Holder /\ prefs'.by = "edit" /\ prefs'.pc = "save"
    BY <1>1, <1>t DEF Holder
  <1>9. RateTypeOK'
    BY <1>1, <1>2, <1>3, <1>6, <1>7, <1>8, <1>t DEF RateTypeOK
  <1>10. HolderInv' /\ SaveInv'
    BY <1>1, <1>7, <1>8 DEF HolderInv, SaveInv
  <1>11. LoneInv' /\ RetireInv'
    BY <1>7 DEF LoneInv, RetireInv
  <1>12. IntentInv'
    <2>1. Carries(events, file)
      BY <1>5 DEF RateInv, IntentInv, Left
    <2>2. \A g \in Fields : e.before[g] = e.after[g] => file[g] = e.after[g]
      BY <1>4
    <2>3. Carries(events \cup {e}, e.after)
      BY <1>4, <1>6, <1>t, <2>1, <2>2, CarriesAdded DEF RateTypeOK
    <2> QED BY <1>1, <1>4, <1>7, <2>3 DEF IntentInv, Left
  <1>13. Growth
    BY <1>1, <1>2, <1>6 DEF Growth
  <1>14. CloudInv' /\ RequestInv' /\ Requests' = Requests
    BY <1>1, <1>13, CloudKept
  <1>15. SyncInv' /\ SpareInv'
    BY <1>1, <1>6, <1>13, <1>14, SyncKept, SpareKept
  <1>16. /\ Small(file) /\ Small(cloud.doc) /\ cloud.doc \in Doc
         /\ \A g \in Fields : file[g] \in shown[g]
    BY <1>t DEF RateInv, ValueInv, RateTypeOK
  <1>17. /\ \A g \in Fields : file[g] <= values' /\ cloud.doc[g] <= values'
    BY <1>13, <1>16, <1>t, SmallGrows
  <1>18. \A g \in Fields : after[g] <= values' /\ (after[g] \in others => after[g] \in shown[g])
    <2> TAKE g \in Fields
    <2>1. CASE g = f
      BY <1>2, <1>3, <2>1
    <2>2. CASE g # f
      BY <1>3, <1>16, <1>17, <2>2
    <2> QED BY <2>1, <2>2
  <1>19. Small(journal.after)'
    BY <1>7, <1>18 DEF Small
  <1>20. Known(e.before)' /\ Known(e.after)'
    BY <1>1, <1>4, <1>16, <1>17, <1>18 DEF Known, Small
  <1>21. Small(file)' /\ Small(cloud.doc)'
    BY <1>1, <1>17 DEF Small
  <1>22. ValueInv'
    BY <1>1, <1>4, <1>9, <1>13, <1>14, <1>16, <1>19, <1>20, <1>21, ValueKept
  <1> QED BY <1>6, <1>9, <1>10, <1>11, <1>12, <1>14, <1>15, <1>22 DEF RateInv

\* queue_initial_rate_config: the rates there are become an edit of nothing.
LEMMA QueueInitialStep ==
  ASSUME RateInv, QueueInitial
  PROVE  RateInv'
  <1>t. /\ RateTypeOK /\ file \in Doc /\ clock \in Nat /\ values \in Nat /\ dirty \in Nat
        /\ prefs \in Holder /\ sync \in SyncType /\ events \in SUBSET Event
    BY DEF RateInv, RateTypeOK
  <1>1. /\ UNCHANGED <<file, journal, receipt, cloud, applied, net, values, others, intended,
                       shown, seen>>
        /\ prefs = [by |-> "queue", pc |-> "body"] /\ prefs' = Free
        /\ sync.pc = "queue" /\ sync' = [sync EXCEPT !.pc = "mark"]
    BY DEF QueueInitial, Step, service, rateGhost
  <1>2. sync' \in Bare /\ sync'.pc = "mark"
    BY <1>1, <1>t, SyncShapes DEF Bare
  <1>3. sync' \in SyncType /\ SyncInv' /\ LoneInv'
    BY <1>2, PlainSync DEF SyncType
  <1>4. journal = NoJournal /\ file = intended /\ journal.kind = "none"
    BY <1>1, JournalShapes DEF RateInv, RateTypeOK, SaveInv
  <1>5. CASE ~(file # Empty /\ dirty = 0)
    <2>1. Frame
      BY <1>1, <1>5 DEF QueueInitial, Frame
    <2> QED BY <1>1, <1>3, <2>1, FreeFacts, QuietMove
  <1>6. CASE file # Empty /\ dirty = 0
    <2>1. /\ events' = events \cup {[at |-> clock + 1, before |-> Empty, after |-> file]}
          /\ dirty' = clock + 1 /\ clock' = clock + 1
      BY <1>6 DEF QueueInitial
    <2>2. events = {}
      <3>1. \A d \in events : d.at \in Nat /\ 0 < d.at /\ d.at <= 0
        BY <1>6, <1>t DEF RateInv, QueueInv, Event
      <3> QED BY <3>1
    <2>3. PICK e \in Event : /\ e.at = clock + 1 /\ e.before = Empty /\ e.after = file
                             /\ events' = events \cup {e}
      <3>1. Empty \in Doc
        BY DEF Doc, Empty
      <3> DEFINE d == [at |-> clock + 1, before |-> Empty, after |-> file]
      <3>2. d \in Event /\ d.at = clock + 1 /\ d.before = Empty /\ d.after = file
        BY <1>t, <3>1 DEF Event
      <3>3. events' = events \cup {d}
        BY <2>1
      <3> HIDE DEF d
      <3> QED BY <3>2, <3>3
    <2>4. /\ QueueInv' /\ QueueGrows /\ ReceiptInv'
          /\ dirty' \in Nat /\ clock' \in Nat /\ clock <= clock' /\ events' \in SUBSET Event
          /\ \A d \in events : d.at < e.at
      BY <1>1, <2>1, <2>3, Enqueue
    <2>5. RateTypeOK' /\ HolderInv' /\ SaveInv'
      BY <1>1, <1>3, <1>4, <1>t, <2>4 DEF RateTypeOK, HolderInv, SaveInv, Holder, Free
    <2>6. IntentInv' /\ RetireInv'
      <3>1. Carries(events, file)
        BY <2>2, NothingQueued
      <3>2. Carries(events \cup {e}, e.after)
        BY <1>t, <2>3, <2>4, <3>1, CarriesAdded
      <3> QED BY <1>1, <1>4, <2>1, <2>3, <3>2 DEF IntentInv, Left, RetireInv
    <2>7. Growth
      BY <1>1, <1>t, <2>4 DEF Growth
    <2>8. CloudInv' /\ RequestInv' /\ Requests' = Requests
      BY <1>1, <2>7, CloudKept
    <2>9. SpareInv'
      BY <2>7, <2>8, SpareKept
    <2>10. /\ Small(file) /\ Small(cloud.doc) /\ \A g \in Fields : file[g] \in shown[g]
           /\ \A g \in Fields : Empty[g] = 0 /\ 0 \notin others /\ 0 <= values
      BY <1>t DEF RateInv, ValueInv, CloudInv, Empty
    <2>11. Known(e.before)' /\ Known(e.after)' /\ Small(file)' /\ Small(cloud.doc)'
      BY <1>1, <2>3, <2>10 DEF Known, Small
    <2>12. ValueInv'
      BY <1>1, <2>3, <2>5, <2>7, <2>8, <2>10, <2>11, ValueKept
    <2> QED BY <1>3, <2>4, <2>5, <2>6, <2>8, <2>9, <2>12 DEF RateInv
  <1> QED BY <1>5, <1>6

-----------------------------------------------------------------------------
(* The request and the Cloud.                                              *)

\* The ciphertext the Cloud has was given out.
LEMMA CloudRevFacts ==
  ASSUME RateInv
  PROVE  cloud.rev \in Nat /\ cloud.rev <= values /\ values \in Nat
         /\ \A r \in Past : r \in Nat /\ r <= values
  BY DEF RateInv, RateTypeOK, CloudInv, Past

\* The request is made durable, if the queue is still what was merged.
LEMMA ReserveStep ==
  ASSUME RateInv, Reserve
  PROVE  RateInv'
  <1>t. /\ RateTypeOK /\ sync \in SyncType /\ values \in Nat /\ clock \in Nat /\ net \in SUBSET Request
        /\ sync.pc = "reserve" /\ sync.through \in Nat /\ sync.expected \in Nat /\ sync.doc \in Doc
    BY SyncShapes DEF RateInv, RateTypeOK, Reserve
  <1>p. sync.pc \in Publishing
    BY <1>t DEF Publishing
  <1>0. ReserveInv /\ sync.through <= clock /\ journal.kind # "confirm"
    BY <1>t, <1>p DEF RateInv, SyncInv, LoneInv
  <1>1. UNCHANGED <<file, journal, events, dirty, cloud, applied, net, prefs, clock, others,
                    intended, shown, seen>>
    BY DEF Reserve, service, rateGhost
  <1>2. CASE ~(dirty = sync.through /\ events = sync.events)
    <2>1. Frame /\ prefs' = prefs /\ sync' \in Bare /\ sync'.pc = "pull"
      BY <1>1, <1>2 DEF Reserve, Frame, Bare
    <2>2. SyncInv' /\ sync' \in SyncType
      BY <2>1, PlainSync DEF SyncType
    <2> QED BY <1>t, <1>p, <2>1, <2>2, SyncMoves
  <1>3. CASE dirty = sync.through /\ events = sync.events
    <2>1. /\ receipt' = [rev |-> values + 1, expected |-> sync.expected, doc |-> sync.doc,
                         through |-> sync.through]
          /\ values' = values + 1 /\ sync' = [pc |-> "post"]
      BY <1>3 DEF Reserve
    <2>2. PICK q \in Request : /\ receipt' = q /\ q.rev = values + 1
                               /\ q.expected = sync.expected /\ q.doc = sync.doc
                               /\ q.through = sync.through
      <3> DEFINE q == [rev |-> values + 1, expected |-> sync.expected, doc |-> sync.doc,
                       through |-> sync.through]
      <3>1. /\ q \in Request /\ q.rev = values + 1 /\ q.expected = sync.expected
            /\ q.doc = sync.doc /\ q.through = sync.through
        BY <1>t DEF Request
      <3>2. receipt' = q
        BY <2>1
      <3> HIDE DEF q
      <3> QED BY <3>1, <3>2
    <2>3. q # NoProposal /\ q.rev \notin others /\ q.rev \notin applied /\ q.rev # cloud.rev
      BY <1>t, <2>2, CloudRevFacts DEF NoProposal, RateInv, CloudInv, Past
    <2>4. sync' \in Bare /\ sync'.pc = "post" /\ sync' \in SyncType
      BY <2>1 DEF Bare, SyncType
    <2>5. RateTypeOK'
      BY <1>1, <1>t, <2>1, <2>2, <2>4 DEF RateTypeOK
    <2>6. HolderInv' /\ SaveInv'
      BY <1>1, <1>t, <2>4 DEF RateInv, HolderInv, SaveInv
    <2>7. QueueInv' /\ IntentInv' /\ LoneInv' /\ RetireInv'
      BY <1>0, <1>1 DEF RateInv, QueueInv, IntentInv, Left, LoneInv, RetireInv
    <2>8. ReceiptInv'
      BY <1>0, <1>1, <1>t, <2>2 DEF ReserveInv, ReceiptInv
    <2>9. Growth
      BY <1>1, <1>t, <2>1 DEF Growth
    <2>10. SyncInv'
      BY <2>2, <2>3, <2>4 DEF SyncInv, SnapshotInv, ReadInv, ReserveInv, PostInv, ConfirmInv
    <2>11. Requests' = Requests \cup {q} /\ Past' = Past
      BY <1>0, <1>1, <1>t, <2>2, <2>3 DEF ReserveInv, Requests, Past
    <2>12. CloudInv'
      <3>1. 1..values \subseteq 1..values' /\ 2..values \subseteq 2..values' /\ values' > 0
        BY <1>t, <2>1
      <3> QED BY <1>1, <2>11, <3>1 DEF RateInv, CloudInv
    <2>13. RequestInv'
      <3>1. \A m \in Requests : /\ m.rev \in Nat /\ m.rev <= values /\ m.rev <= values'
                                /\ m.rev # q.rev
        BY <1>t, <2>1, <2>2 DEF RateInv, RequestInv, Requests, Request, RateTypeOK
      <3>2. q.rev <= values'
        BY <1>t, <2>1, <2>2
      <3> QED BY <1>1, <2>3, <2>11, <3>1, <3>2 DEF RateInv, RequestInv
    <2>14. SpareInv'
      <3>1. q.expected \in Past /\ (q.expected = cloud.rev => Spares(q.doc))
        BY <1>0, <1>t, <2>2 DEF ReserveInv
      <3> QED BY <1>1, <2>11, <3>1 DEF RateInv, SpareInv, Spares
    <2>15. /\ file \in Doc /\ cloud.doc \in Doc /\ Small(file) /\ Small(cloud.doc) /\ Small(sync.doc)
           /\ \A f \in Fields : file[f] \in shown[f]
      BY <1>0, <1>t DEF ReserveInv, RateInv, ValueInv, RateTypeOK
    <2>16. Small(file)' /\ Small(cloud.doc)' /\ Small(q.doc)'
      BY <1>1, <1>t, <2>2, <2>9, <2>15, SmallGrows DEF Small
    <2>17. ValueInv'
      BY <1>1, <2>5, <2>9, <2>11, <2>15, <2>16, ValueKept
    <2> QED BY <2>5, <2>6, <2>7, <2>8, <2>10, <2>12, <2>13, <2>14, <2>17 DEF RateInv
  <1> QED BY <1>2, <1>3

\* A step of the sync task without the lock that leaves the local files alone,
\* while no confirmation is pending.
LEMMA ServiceMove ==
  ASSUME RateInv, sync.pc \in Posting,
         UNCHANGED <<file, journal, events, dirty, clock, values, prefs, others, intended, shown>>,
         RateTypeOK', receipt' \in {receipt, NoProposal}, SyncInv', CloudInv', RequestInv', Growth,
         Requests' \in SUBSET Requests, Small(cloud.doc)'
  PROVE  RateInv'
  <1>1. journal.kind # "confirm"
    BY DEF RateInv, LoneInv, Publishing, Posting
  <1>2. HolderInv' /\ SaveInv' /\ QueueInv'
    BY DEF RateInv, HolderInv, SaveInv, QueueInv, Posting
  <1>3. IntentInv' /\ LoneInv' /\ RetireInv'
    BY <1>1 DEF RateInv, IntentInv, Left, LoneInv, RetireInv
  <1>4. ReceiptInv'
    BY DEF RateInv, ReceiptInv
  <1>5. SpareInv'
    BY SpareKept
  <1>6. Small(file)' /\ \A f \in Fields : file'[f] \in shown'[f]
    BY DEF RateInv, ValueInv, Small
  <1>7. ValueInv'
    BY <1>6, ValueKept
  <1> QED BY <1>2, <1>3, <1>4, <1>5, <1>7 DEF RateInv

\* The request is sent, or given up after a definite rejection.
LEMMA PostSteps ==
  ASSUME RateInv, Post \/ PostRejected
  PROVE  RateInv'
  <1>1. /\ UNCHANGED <<file, journal, events, dirty, clock, values, prefs, others, intended,
                       shown, cloud, applied, seen>>
        /\ sync.pc \in Posting
    BY DEF Post, PostRejected, disk, service, rateGhost, Posting
  <1>t. RateTypeOK /\ receipt # NoProposal /\ receipt \in Request
    BY <1>1, ReceiptShapes DEF RateInv, RateTypeOK, SyncInv, PostInv
  <1>2. Growth /\ Small(cloud.doc)'
    BY <1>1, <1>t DEF Growth, RateTypeOK, RateInv, ValueInv, Small
  <1>3. CASE Post
    <2>1. /\ net' = net \cup {receipt} /\ receipt' = receipt /\ sync' \in Bare
          /\ sync'.pc \in {"await", "reawait"}
      BY <1>3 DEF Post, disk, Bare
    <2>2. Requests' = Requests
      BY <1>t, <2>1 DEF Requests
    <2>3. RateTypeOK'
      BY <1>1, <1>t, <2>1 DEF RateTypeOK, SyncType
    <2>4. SyncInv'
      BY <1>t, <2>1 DEF SyncInv, SnapshotInv, ReadInv, ReserveInv, PostInv, ConfirmInv
    <2>5. CloudInv' /\ RequestInv'
      BY <1>1, <2>2 DEF RateInv, CloudInv, Past, RequestInv
    <2> QED BY <1>1, <1>2, <2>1, <2>2, <2>3, <2>4, <2>5, ServiceMove
  <1>4. CASE PostRejected
    <2>1. net' = net /\ receipt' = NoProposal /\ sync' \in Bare /\ sync'.pc = "pull"
      BY <1>4 DEF PostRejected, service, Bare
    <2>2. Requests' \in SUBSET Requests
      BY <2>1 DEF Requests
    <2>3. RateTypeOK'
      BY <1>1, <1>t, <2>1 DEF RateTypeOK, SyncType
    <2>4. SyncInv'
      BY <2>1, PlainSync
    <2>5. CloudInv' /\ RequestInv'
      BY <1>1, <2>2 DEF RateInv, CloudInv, Past, RequestInv
    <2> QED BY <1>1, <1>2, <2>1, <2>2, <2>3, <2>4, <2>5, ServiceMove
  <1> QED BY <1>3, <1>4

\* The Cloud decides on a request: its document stays, or becomes the proposal
\* under a ciphertext it never had.
LEMMA ServeFacts ==
  ASSUME RateInv, NEW m \in Requests, Serve(m),
         UNCHANGED <<clock, values, others, shown, net, receipt>>
  PROVE  /\ Growth /\ CloudInv' /\ RequestInv' /\ Small(cloud.doc)' /\ Requests' = Requests
         /\ cloud' \in [rev : Nat, doc : Doc] /\ applied' \in SUBSET Nat
         /\ seen' \in [Fields -> SUBSET Nat]
         /\ Accepts(m) => m.rev \in applied'
  <1>t. /\ RateTypeOK /\ m \in Request /\ m.rev \in Nat /\ m.rev # 0 /\ m.doc \in Doc /\ Small(m.doc)
        /\ m.rev <= values /\ m.rev \notin others /\ values \in Nat
    BY DEF RateInv, RateTypeOK, Requests, Request, ValueInv, RequestInv
  <1>0. Requests' = Requests
    BY DEF Requests
  <1>1. CASE ~(m.rev \notin applied /\ m.expected = cloud.rev)
    <2>1. UNCHANGED <<cloud, applied, seen>>
      BY <1>1 DEF Serve
    <2>2. Growth
      BY <1>t, <2>1 DEF Growth, RateTypeOK
    <2>3. Accepts(m) => m.rev \in applied'
      BY <1>1, <2>1 DEF Accepts
    <2>4. Small(cloud.doc)'
      BY <2>1 DEF RateInv, ValueInv, Small
    <2> QED BY <1>0, <1>t, <2>1, <2>2, <2>3, <2>4, CloudKept DEF RateTypeOK
  <1>2. CASE m.rev \notin applied /\ m.expected = cloud.rev
    <2>1. /\ cloud' = [rev |-> m.rev, doc |-> m.doc] /\ applied' = applied \cup {m.rev}
          /\ seen' = [f \in Fields |-> seen[f] \cup {m.doc[f]}]
      BY <1>2 DEF Serve
    <2>2. cloud' \in [rev : Nat, doc : Doc] /\ cloud'.rev = m.rev /\ cloud'.doc = m.doc
      BY <1>t, <2>1
    <2>3. /\ seen' \in [Fields -> SUBSET Nat]
          /\ \A f \in Fields : seen[f] \subseteq seen'[f] /\ m.doc[f] \in seen'[f]
      BY <1>t, <2>1 DEF RateTypeOK, Doc
    <2>4. cloud'.rev \notin Past
      BY <1>2, <1>t, <2>2 DEF Past
    <2>5. Growth
      BY <1>t, <2>1, <2>3, <2>4 DEF Growth, RateTypeOK
    <2>6. CloudInv'
      <3>1. m.rev \in 1..values /\ m.rev # 0
        BY <1>t
      <3>2. applied' \in SUBSET (1..values') /\ others' \in SUBSET (2..values') /\ values' > 0
        BY <2>1, <3>1 DEF RateInv, CloudInv
      <3>3. cloud'.rev \in Past' /\ cloud'.rev # 0
        BY <2>1, <2>2, <3>1 DEF Past
      <3> QED BY <2>2, <2>3, <3>2, <3>3 DEF CloudInv
    <2>7. RequestInv'
      BY <1>0, <1>t, <2>1, <2>2, <2>3 DEF RateInv, RequestInv
    <2>8. Small(cloud.doc)'
      BY <1>t, <2>2 DEF Small
    <2> QED BY <1>0, <1>t, <2>1, <2>2, <2>3, <2>5, <2>6, <2>7, <2>8 DEF RateTypeOK
  <1> QED BY <1>1, <1>2

\* A service step beside everything the Pi does.
LEMMA RemoteMove ==
  ASSUME RateInv, UNCHANGED <<file, journal, events, dirty, receipt, clock, prefs, sync, net,
                              intended, shown>>,
         RateTypeOK', CloudInv', RequestInv', Growth, Small(cloud.doc)',
         \A x \in others' : x \in others \/ x > values
  PROVE  RateInv'
  <1>1. HolderInv' /\ SaveInv' /\ QueueInv' /\ LoneInv' /\ IntentInv' /\ ReceiptInv'
    BY DEF RateInv, HolderInv, SaveInv, QueueInv, LoneInv, IntentInv, Left, ReceiptInv
  <1>2. RetireInv'
    BY DEF RateInv, RetireInv, Arrived, Growth
  <1>3. QueueGrows /\ Requests' = Requests
    BY DEF QueueGrows, Requests
  <1>4. SyncInv' /\ SpareInv'
    BY <1>3, SyncKept, SpareKept
  <1>5. Small(file)'
    BY SmallGrows DEF RateInv, ValueInv, RateTypeOK, Small
  <1>6. \A f \in Fields : file'[f] \in shown'[f]
    BY DEF RateInv, ValueInv
  <1>7. ValueInv'
    BY <1>3, <1>5, <1>6, ValueKept
  <1> QED BY <1>1, <1>2, <1>4, <1>7 DEF RateInv

\* A request arrives, heard of or not.
LEMMA ServeSteps ==
  ASSUME RateInv, PostApplied \/ \E m \in net : ServeUnheard(m)
  PROVE  RateInv'
  <1>t. RateTypeOK
    BY DEF RateInv
  <1>1. CASE \E m \in net : ServeUnheard(m)
    <2>1. PICK m \in net : ServeUnheard(m)
      BY <1>1
    <2>2. m \in Requests /\ Serve(m)
          /\ UNCHANGED <<file, journal, events, dirty, receipt, clock, prefs, sync, net,
                         intended, shown, values, others>>
      BY <2>1 DEF ServeUnheard, disk, Requests
    <2>3. /\ Growth /\ CloudInv' /\ RequestInv' /\ Small(cloud.doc)'
          /\ cloud' \in [rev : Nat, doc : Doc] /\ applied' \in SUBSET Nat
          /\ seen' \in [Fields -> SUBSET Nat]
      BY <2>2, ServeFacts
    <2>4. RateTypeOK'
      BY <1>t, <2>2, <2>3 DEF RateTypeOK
    <2> QED BY <2>2, <2>3, <2>4, RemoteMove
  <1>2. CASE PostApplied
    <2>1. /\ UNCHANGED <<file, journal, events, dirty, receipt, clock, prefs, net, intended,
                         shown, values, others>>
          /\ sync.pc \in Posting /\ Serve(receipt) /\ Accepts(receipt)
          /\ sync' \in Bare /\ sync'.pc = "adopt"
      BY <1>2 DEF PostApplied, disk, Posting, Bare
    <2>2. receipt # NoProposal /\ receipt \in Requests
      BY <2>1 DEF RateInv, SyncInv, PostInv, Requests
    <2>3. /\ Growth /\ CloudInv' /\ RequestInv' /\ Small(cloud.doc)' /\ Requests' = Requests
          /\ cloud' \in [rev : Nat, doc : Doc] /\ applied' \in SUBSET Nat
          /\ seen' \in [Fields -> SUBSET Nat] /\ receipt.rev \in applied'
      BY <2>1, <2>2, ServeFacts
    <2>4. RateTypeOK'
      BY <1>t, <2>1, <2>3 DEF RateTypeOK, SyncType
    <2>5. SyncInv'
      BY <2>1, <2>2, <2>3 DEF SyncInv, SnapshotInv, ReadInv, ReserveInv, PostInv, ConfirmInv
    <2> QED BY <2>1, <2>3, <2>4, <2>5, ServiceMove
  <1> QED BY <1>1, <1>2

\* Another client edits the document.
LEMMA OtherClientStep ==
  ASSUME RateInv, NEW f \in Fields, OtherClient(f)
  PROVE  RateInv'
  <1> DEFINE n == values + 1
             doc == [cloud.doc EXCEPT ![f] = n]
  <1>t. /\ RateTypeOK /\ values \in Nat /\ cloud.doc \in Doc /\ Small(cloud.doc) /\ n \in Nat
        /\ values > 0 /\ applied \in SUBSET (1..values) /\ others \in SUBSET (2..values)
    BY DEF RateInv, RateTypeOK, ValueInv, CloudInv
  <1>1. /\ UNCHANGED <<file, journal, events, dirty, receipt, clock, prefs, sync, net, intended,
                       shown, applied>>
        /\ cloud' = [rev |-> n, doc |-> doc] /\ values' = n /\ others' = others \cup {n}
        /\ seen' = [seen EXCEPT ![f] = @ \cup {n}]
    BY DEF OtherClient, disk
  <1>2. n > values /\ n \notin Past /\ n # 0
    BY <1>t, CloudRevFacts
  <1>r. \A m \in Requests : m.rev \in Nat /\ m.rev <= values
    BY DEF RateInv, RateTypeOK, RequestInv, Requests, Request
  <1>a. 1..values \subseteq 1..n /\ 2..values \subseteq 2..n /\ n \in 2..n
    BY <1>t
  <1> HIDE DEF n
  <1>3. /\ doc \in Doc /\ doc[f] = n /\ \A g \in Fields : g # f => doc[g] = cloud.doc[g]
    BY <1>t DEF Doc
  <1> HIDE DEF doc
  <1>4. cloud' \in [rev : Nat, doc : Doc] /\ cloud'.rev = n /\ cloud'.doc = doc
    BY <1>1, <1>3, <1>t
  <1>5. /\ seen' \in [Fields -> SUBSET Nat]
        /\ \A g \in Fields : seen[g] \subseteq seen'[g] /\ doc[g] \in seen'[g]
    BY <1>1, <1>3, <1>t DEF RateTypeOK, RateInv, CloudInv
  <1>6. Growth
    BY <1>1, <1>2, <1>4, <1>5, <1>t DEF Growth, RateTypeOK
  <1>7. RateTypeOK'
    BY <1>1, <1>4, <1>5, <1>t DEF RateTypeOK
  <1>8. CloudInv'
    BY <1>1, <1>2, <1>4, <1>5, <1>a, <1>t DEF CloudInv, Past
  <1>9. RequestInv'
    <2>1. Requests' = Requests
      BY <1>1 DEF Requests
    <2>2. \A m \in Requests : m.rev <= n /\ m.rev # n
      BY <1>2, <1>r, <1>t
    <2> QED BY <1>1, <1>4, <1>5, <2>1, <2>2 DEF RateInv, RequestInv
  <1>10. Small(cloud.doc)'
    <2>1. ASSUME NEW g \in Fields PROVE doc[g] <= n
      <3>1. CASE g = f
        BY <1>3, <1>t, <3>1
      <3>2. CASE g # f
        BY <1>2, <1>3, <1>t, <3>2 DEF Small, Doc
      <3> QED BY <3>1, <3>2
    <2> QED BY <1>1, <1>4, <2>1 DEF Small
  <1> QED BY <1>1, <1>2, <1>6, <1>7, <1>8, <1>9, <1>10, RemoteMove

-----------------------------------------------------------------------------
(* Confirmation and pull.                                                  *)

\* The confirmation journals the Cloud's document with newer edits replayed.
LEMMA StageConfirmationStep ==
  ASSUME RateInv, StageConfirmation
  PROVE  RateInv'
  <1>t. /\ RateTypeOK /\ prefs \in Holder /\ sync \in SyncType /\ events \in SUBSET Event
        /\ dirty \in Nat /\ clock \in Nat /\ file \in Doc /\ values \in Nat
        /\ receipt \in {NoProposal} \cup Request
    BY DEF RateInv, RateTypeOK
  <1>1. /\ UNCHANGED <<file, events, dirty, receipt, cloud, applied, net, clock, values, others,
                       shown, seen>>
        /\ prefs = [by |-> "confirm", pc |-> "body"] /\ prefs.pc = "body" /\ prefs.by = "confirm"
    BY DEF StageConfirmation, service
  <1>2. /\ sync.pc = "confirm" /\ sync.doc \in Doc /\ sync.through \in Nat /\ sync.receipt \in Nat
        /\ sync.through <= clock /\ sync.receipt = receipt.rev
        /\ Small(sync.doc) /\ Arrived(Upto(events, sync.through))
    BY <1>1, <1>t, SyncShapes DEF RateInv, HolderInv, SyncInv, ConfirmInv
  <1>3. journal = NoJournal /\ file = intended
    BY <1>1 DEF RateInv, SaveInv
  <1>4. CASE dirty # 0 /\ sync.receipt = receipt.rev
    <2> DEFINE after == ApplyTo(Newer(events, sync.through), sync.doc)
    <2>1. /\ journal' = [kind |-> "confirm", before |-> file, after |-> after,
                         through |-> sync.through, receipt |-> sync.receipt]
          /\ intended' = after /\ prefs' = [prefs EXCEPT !.pc = "save"] /\ sync' = sync
      BY <1>4 DEF StageConfirmation
    <2>2. Newer(events, sync.through) \in SUBSET Event
          /\ \A e \in Newer(events, sync.through) : e.at <= dirty /\ Small(e.after)
      BY <1>t DEF Newer, RateInv, QueueInv, ValueInv, Known
    <2>3. after \in Doc /\ Carries(Newer(events, sync.through), after) /\ Small(after)
      BY <1>2, <1>t, <2>2, ApplyFacts
    <2> HIDE DEF after
    <2>4. /\ journal' \in ConfirmJournal /\ journal' # NoJournal /\ journal'.kind = "confirm"
          /\ journal'.before = file /\ journal'.after = after
          /\ journal'.through = sync.through /\ journal'.receipt = sync.receipt
      BY <1>2, <1>t, <2>1, <2>3 DEF ConfirmJournal, NoJournal
    <2>5. prefs' \in Holder /\ prefs'.by = "confirm" /\ prefs'.pc = "save"
      BY <1>1, <1>t, <2>1 DEF Holder
    <2>6. RateTypeOK'
      BY <1>1, <1>t, <2>1, <2>3, <2>4, <2>5 DEF RateTypeOK
    <2>7. HolderInv' /\ SaveInv' /\ LoneInv'
      BY <1>1, <1>2, <2>1, <2>4, <2>5 DEF HolderInv, SaveInv, LoneInv
    <2>8. QueueInv' /\ ReceiptInv'
      BY <1>1 DEF RateInv, QueueInv, ReceiptInv
    <2>9. IntentInv'
      BY <1>1, <2>1, <2>3, <2>4 DEF IntentInv, Left
    <2>10. RetireInv'
      BY <1>1, <1>2, <2>4 DEF RetireInv, Arrived
    <2>11. Growth /\ QueueGrows
      BY <1>1, <1>t DEF Growth, QueueGrows
    <2>12. CloudInv' /\ RequestInv' /\ Requests' = Requests
      BY <1>1, <2>11, CloudKept
    <2>13. SyncInv' /\ SpareInv'
      BY <1>1, <2>1, <2>11, <2>12, SyncKept, SpareKept
    <2>14. /\ Small(file)' /\ Small(cloud.doc)' /\ Small(journal.after)'
           /\ \A f \in Fields : file'[f] \in shown'[f]
      BY <1>1, <2>3, <2>4 DEF RateInv, ValueInv, Small
    <2>15. ValueInv'
      BY <1>1, <2>6, <2>11, <2>12, <2>14, ValueKept
    <2> QED BY <2>6, <2>7, <2>8, <2>9, <2>10, <2>12, <2>13, <2>15 DEF RateInv
  <1>5. CASE ~(dirty # 0 /\ sync.receipt = receipt.rev)
    <2>1. Frame /\ prefs' = Free /\ sync' = Afterwards
      BY <1>1, <1>5 DEF StageConfirmation, Frame
    <2>2. sync' \in SyncType /\ SyncInv' /\ LoneInv'
      BY <2>1, AfterwardsFacts, PlainSync DEF SyncType
    <2> QED BY <2>1, <2>2, FreeFacts, QuietMove
  <1> QED BY <1>4, <1>5

\* The pull stores the Cloud's document when nothing is queued.
LEMMA StoreDocStep ==
  ASSUME RateInv, StoreDoc
  PROVE  RateInv'
  <1>t. /\ RateTypeOK /\ sync \in SyncType /\ events \in SUBSET Event /\ dirty \in Nat
    BY DEF RateInv, RateTypeOK
  <1>1. /\ UNCHANGED <<journal, events, dirty, receipt, cloud, applied, net, clock, values, others,
                       seen>>
        /\ prefs.pc = "body" /\ prefs.by = "store" /\ prefs' = Free /\ sync' = NoSync
    BY DEF StoreDoc, service
  <1>2. sync.pc = "store" /\ sync.doc \in Doc /\ Small(sync.doc)
    BY <1>1, <1>t, SyncShapes DEF RateInv, HolderInv, SyncInv, ConfirmInv
  <1>3. sync' \in SyncType /\ SyncInv' /\ LoneInv'
    BY <1>1, PlainSync DEF NoSync, SyncType, Bare
  <1>4. CASE dirty # 0
    <2>1. Frame
      BY <1>1, <1>4 DEF StoreDoc, Frame
    <2> QED BY <1>1, <1>3, <2>1, FreeFacts, QuietMove
  <1>5. CASE dirty = 0
    <2>1. SaveRates(sync.doc) /\ intended' = sync.doc /\ file' = sync.doc
      BY <1>5 DEF StoreDoc, SaveRates
    <2>2. /\ file' \in Doc /\ shown' \in [Fields -> SUBSET Nat] /\ Small(file)'
          /\ \A f \in Fields : shown[f] \subseteq shown'[f] /\ file'[f] \in shown'[f]
      BY <1>1, <1>2, <1>t, <2>1, SaveRatesFacts
    <2>3. journal = NoJournal /\ journal.kind = "none"
      BY <1>1, JournalShapes DEF RateInv, RateTypeOK, SaveInv
    <2>4. events = {}
      <3>1. \A d \in events : d.at \in Nat /\ 0 < d.at /\ d.at <= 0
        BY <1>5, <1>t DEF RateInv, QueueInv, Event
      <3> QED BY <3>1
    <2>5. RateTypeOK'
      BY <1>1, <1>2, <1>3, <1>t, <2>1, <2>2 DEF RateTypeOK, Free, Holder
    <2>6. HolderInv' /\ SaveInv'
      BY <1>1, <2>1, <2>3 DEF HolderInv, SaveInv, Free
    <2>7. QueueInv' /\ ReceiptInv' /\ RetireInv'
      BY <1>1, <2>3 DEF RateInv, QueueInv, ReceiptInv, RetireInv
    <2>8. IntentInv'
      BY <1>1, <2>3, <2>4, NothingQueued DEF IntentInv, Left
    <2>9. Growth
      BY <1>1, <1>t, <2>2 DEF Growth, RateTypeOK
    <2>10. CloudInv' /\ RequestInv' /\ Requests' = Requests
      BY <1>1, <2>9, CloudKept
    <2>11. SpareInv'
      BY <2>9, <2>10, SpareKept
    <2>12. Small(cloud.doc)'
      BY <1>1 DEF RateInv, ValueInv, Small
    <2>13. ValueInv'
      BY <1>1, <2>2, <2>5, <2>9, <2>10, <2>12, ValueKept
    <2> QED BY <1>3, <2>5, <2>6, <2>7, <2>8, <2>10, <2>11, <2>13 DEF RateInv
  <1> QED BY <1>4, <1>5

-----------------------------------------------------------------------------
(* The invariant holds.                                                    *)

\* Initially nothing is queued, pending or under way.
LEMMA RateInitInv == RateInit => RateInv
  <1> SUFFICES ASSUME RateInit PROVE RateInv
    OBVIOUS
  <1>1. /\ file \in Doc /\ intended = file /\ journal = NoJournal /\ journal.kind = "none"
        /\ events = {} /\ dirty = 0 /\ clock = 0 /\ values = 1 /\ receipt = NoProposal
        /\ cloud = [rev |-> 0, doc |-> Empty] /\ applied = {} /\ others = {} /\ net = {}
        /\ prefs = Free /\ sync = NoSync /\ Empty \in Doc
        /\ \A f \in Fields : file[f] \in {0, 1} /\ file[f] \in Nat /\ Empty[f] = 0
    BY DEF RateInit, Doc, NoJournal, Empty
  <1>2. /\ shown \in [Fields -> SUBSET Nat] /\ seen \in [Fields -> SUBSET Nat]
        /\ \A f \in Fields : file[f] \in shown[f] /\ 0 \in seen[f]
    BY <1>1 DEF RateInit
  <1>3. sync \in Bare /\ sync.pc = "idle" /\ prefs \in Holder /\ prefs.pc = "free"
        /\ prefs.by = "nobody"
    BY <1>1 DEF NoSync, Bare, Free, Holder
  <1>4. RateTypeOK
    BY <1>1, <1>2, <1>3 DEF RateTypeOK, SyncType
  <1>5. HolderInv /\ SaveInv /\ LoneInv /\ RetireInv /\ ReceiptInv
    BY <1>1, <1>3 DEF HolderInv, SaveInv, LoneInv, RetireInv, ReceiptInv
  <1>6. QueueInv /\ IntentInv
    BY <1>1, NothingQueued DEF QueueInv, IntentInv, Left
  <1>7. SyncInv
    BY <1>3 DEF SyncInv, SnapshotInv, ReadInv, ReserveInv, PostInv, ConfirmInv, Posting
  <1>8. Requests = {}
    BY <1>1 DEF Requests
  <1>9. CloudInv /\ RequestInv /\ SpareInv
    BY <1>1, <1>2, <1>8 DEF CloudInv, RequestInv, SpareInv, Past
  <1>10. ValueInv
    BY <1>1, <1>2, <1>8 DEF ValueInv, Small
  <1> QED BY <1>4, <1>5, <1>6, <1>7, <1>9, <1>10 DEF RateInv

\* Every step keeps it.
LEMMA RateNextInv == RateInv /\ [RateNext]_rateVars => RateInv'
  <1> SUFFICES ASSUME RateInv, [RateNext]_rateVars PROVE RateInv'
    OBVIOUS
  <1>1. CASE UNCHANGED rateVars
    <2>1. Frame /\ sync' = sync /\ prefs' = prefs
      BY <1>1 DEF rateVars, Frame
    <2>2. prefs' \in Holder /\ HolderInv' /\ SaveInv' /\ LoneInv'
      BY <2>1 DEF RateInv, RateTypeOK, HolderInv, SaveInv, LoneInv, Frame
    <2> QED BY <2>1, <2>2, LockMoves
  <1>2. CASE PrefsStep
    BY <1>2, SaveSteps, FinishStep DEF PrefsStep
  <1>3. CASE SyncStep
    BY <1>3, PlainSteps, LockSteps, QueueInitialStep, LoadSteps, SnapshotStep, ReadAndMergeStep,
       ReserveStep, PostSteps, ServeSteps, ExamineSteps, StageConfirmationStep, ReadSteps,
       StoreDocStep DEF SyncStep
  <1>4. CASE EditBegin \/ EditOther
    BY <1>4, LockSteps
  <1>5. CASE Edit
    BY <1>5, StageEditStep DEF Edit
  <1>6. CASE PostUnclear \/ (\E m \in net : ServeUnheard(m))
    BY <1>6, ReadSteps, ServeSteps
  <1>7. CASE \E f \in Fields : OtherClient(f)
    BY <1>7, OtherClientStep
  <1>8. CASE (\E edit \in BOOLEAN : OperationFails(edit)) \/ Stop
    <2>1. OperationFails(TRUE) \/ OperationFails(FALSE) \/ Stop
      BY <1>8
    <2> QED BY <2>1, LockSteps, PlainSteps
  <1> QED BY <1>1, <1>2, <1>3, <1>4, <1>5, <1>6, <1>7, <1>8 DEF RateNext

-----------------------------------------------------------------------------
(* The theorems.                                                           *)

\* Files, queue, journal, receipt, service and task keep their types.
THEOREM RateTypes == RateSpec => []RateTypeOK
  <1>1. RateInv => RateTypeOK
    BY DEF RateInv
  <1> QED BY <1>1, RateInitInv, RateNextInv, PTL DEF RateSpec

\* A save is atomic across SQLite and the preferences file, wherever it or its
\* recovery stops (preferences_journal.rs).
THEOREM SavesAreAtomic == RateSpec => []RatesRecoverable
  <1>1. RateInv => RatesRecoverable
    BY DEF RateInv, SaveInv, RatesRecoverable
  <1> QED BY <1>1, RateInitInv, RateNextInv, PTL DEF RateSpec

\* What the user saved and the Cloud has not stays in the file, through
\* confirmations of earlier edits and pulls (rate_intent.rs, store_rate_doc).
THEOREM UnsentEditsStay == RateSpec => []UnsentEditsShow
  <1>1. RateInv => UnsentEditsShow
    <2> SUFFICES ASSUME RateInv, journal = NoJournal
                 PROVE  \A f \in Fields : Net(events, f) => file[f] = Desired(events, f)
      BY DEF UnsentEditsShow
    <2>1. file = intended /\ Left = events
      BY JournalShapes DEF RateInv, RateTypeOK, SaveInv, Left
    <2> QED BY <2>1 DEF RateInv, IntentInv, Carries
  <1> QED BY <1>1, RateInitInv, RateNextInv, PTL DEF RateSpec

\* Only finish_rate_confirmation takes edits off the queue, and only those up
\* to the generation that was confirmed.
LEMMA OnlyFinishRetires ==
  ASSUME RateInv, [RateNext]_rateVars, events \ events' # {}
  PROVE  journal.kind = "confirm" /\ events \ events' = Upto(events, journal.through)
  <1>1. Finish
    <2>1. CASE events' = events
      BY <2>1
    <2>2. CASE UNCHANGED disk
      BY <2>2 DEF disk
    <2>3. CASE Recover \/ Save \/ MarkChecked \/ Reserve \/ PostRejected \/ StageConfirmation
               \/ StoreDoc
      BY <2>3 DEF Recover, Save, MarkChecked, Reserve, PostRejected, StageConfirmation, StoreDoc
    <2>4. CASE QueueInitial \/ Edit
      BY <2>4 DEF QueueInitial, Edit, StageEdit
    <2>5. CASE UNCHANGED rateVars
      BY <2>5 DEF rateVars
    <2>6. CASE EditBegin \/ EditOther \/ PostUnclear \/ Stop \/ (\E m \in net : ServeUnheard(m))
               \/ (\E f \in Fields : OtherClient(f)) \/ (\E edit \in BOOLEAN : OperationFails(edit))
      BY <2>2, <2>6 DEF EditBegin, EditOther, PostUnclear, Stop, ServeUnheard, OtherClient,
         OperationFails
    <2>7. CASE SyncBegin \/ ReadInitial \/ QueueBegin \/ LoadBegin \/ Load \/ Snapshot
               \/ ReadAndMerge \/ Post \/ PostApplied \/ Examine \/ ReadCurrent \/ ConfirmBegin
               \/ PullRead \/ PullBegin
      BY <2>2, <2>7 DEF SyncBegin, ReadInitial, QueueBegin, LoadBegin, Load, Snapshot,
         ReadAndMerge, Post, PostApplied, Examine, ReadCurrent, ConfirmBegin, PullRead, PullBegin,
         Keep
    <2> QED BY <2>3, <2>4, <2>5, <2>6, <2>7 DEF RateNext, PrefsStep, SyncStep
  <1>2. /\ journal # NoJournal /\ journal.kind \in {"edit", "confirm"}
        /\ journal.kind = "confirm" => journal.through \in Nat
    BY <1>1, JournalShapes DEF Finish, RateInv, RateTypeOK, SaveInv
  <1>3. journal.kind = "confirm" /\ events' = Newer(events, journal.through)
    BY <1>1, <1>2 DEF Finish, FinishJournal, Retire
  <1>4. \A e \in events : e.at \in Nat
    BY DEF RateInv, RateTypeOK, Event
  <1> QED BY <1>2, <1>3, <1>4 DEF Newer, Upto

\* An edit leaves the queue only when the Cloud has had its value, although
\* answers are lost, requests repeated and newer edits made meanwhile.
THEOREM RetiredEditsArrived == RateSpec => EditsArrive
  <1>1. ASSUME RateInv, [RateNext]_rateVars, NEW f \in Fields, Net(events \ events', f)
        PROVE  Desired(events \ events', f) \in seen[f]
    <2>1. events \ events' # {}
      BY <1>1 DEF Net, Touching
    <2>2. journal.kind = "confirm" /\ events \ events' = Upto(events, journal.through)
      BY <1>1, <2>1, OnlyFinishRetires
    <2>3. Arrived(Upto(events, journal.through))
      BY <1>1, <2>2 DEF RateInv, RetireInv
    <2> QED BY <1>1, <2>2, <2>3 DEF Arrived
  <1>2. RateInv /\ [RateNext]_rateVars =>
          [LET gone == events \ events' IN
             \A f \in Fields : Net(gone, f) => Desired(gone, f) \in seen[f]]_rateVars
    BY <1>1
  <1> QED BY <1>2, RateInitInv, RateNextInv, PTL DEF RateSpec, EditsArrive

\* Whoever replaces the Cloud's document is the other client or a request that
\* was reserved against this very ciphertext.
LEMMA OnlyRequestsReplace ==
  ASSUME RateInv, [RateNext]_rateVars, cloud' # cloud, cloud'.rev \in applied'
  PROVE  \E m \in Requests : m.expected = cloud.rev /\ cloud'.doc = m.doc
  <1>1. CASE \E m \in net : ServeUnheard(m)
    BY <1>1 DEF ServeUnheard, Serve, Requests
  <1>2. CASE PostApplied
    <2>1. receipt \in Requests
      BY <1>2 DEF PostApplied, RateInv, SyncInv, PostInv, Posting, Requests
    <2> QED BY <1>2, <2>1 DEF PostApplied, Serve
  <1>3. CASE \E f \in Fields : OtherClient(f)
    <2>1. cloud'.rev = values + 1 /\ applied' = applied
      BY <1>3 DEF OtherClient
    <2> QED BY <2>1 DEF RateInv, RateTypeOK, CloudInv
  <1>4. CASE UNCHANGED service \/ UNCHANGED rateVars
    BY <1>4 DEF service, rateVars
  <1>5. CASE PrefsStep \/ EditBegin \/ EditOther \/ Edit \/ PostUnclear \/ Stop
             \/ (\E edit \in BOOLEAN : OperationFails(edit))
    BY <1>4, <1>5 DEF PrefsStep, Recover, Save, Finish, EditBegin, EditOther, Edit, StageEdit,
       PostUnclear, Stop, OperationFails
  <1>6. CASE SyncBegin \/ ReadInitial \/ QueueBegin \/ QueueInitial \/ MarkChecked \/ LoadBegin
             \/ Load \/ Snapshot \/ ReadAndMerge \/ Reserve
    BY <1>4, <1>6 DEF SyncBegin, ReadInitial, QueueBegin, QueueInitial, MarkChecked, LoadBegin,
       Load, Snapshot, ReadAndMerge, Reserve, Keep
  <1>7. CASE Post \/ PostRejected \/ Examine \/ ReadCurrent \/ ConfirmBegin \/ StageConfirmation
             \/ PullRead \/ PullBegin \/ StoreDoc
    BY <1>4, <1>7 DEF Post, PostRejected, Examine, ReadCurrent, ConfirmBegin, StageConfirmation,
       PullRead, PullBegin, StoreDoc, Keep
  <1> QED BY <1>1, <1>2, <1>3, <1>4, <1>5, <1>6, <1>7 DEF RateNext, SyncStep

\* The Pi replaces another client's value only when it had shown that value:
\* however late or often the request arrives (conditional_rate.rs).
THEOREM UnseenEditsSurvive == RateSpec => OthersEditsSurvive
  <1>1. ASSUME RateInv, [RateNext]_rateVars, NEW f \in Fields, cloud'.doc[f] # cloud.doc[f],
               cloud'.rev \in applied', cloud.doc[f] \in others
        PROVE  cloud.doc[f] \in shown[f]
    <2>1. PICK m \in Requests : m.expected = cloud.rev /\ cloud'.doc = m.doc
      BY <1>1, OnlyRequestsReplace
    <2>2. Spares(m.doc)
      BY <1>1, <2>1 DEF RateInv, SpareInv
    <2> QED BY <1>1, <2>1, <2>2 DEF Spares
  <1>2. RateInv /\ [RateNext]_rateVars =>
          [\A f \in Fields :
             cloud'.doc[f] # cloud.doc[f] /\ cloud'.rev \in applied' /\ cloud.doc[f] \in others
               => cloud.doc[f] \in shown[f]]_rateVars
    BY <1>1
  <1> QED BY <1>2, RateInitInv, RateNextInv, PTL DEF RateSpec, OthersEditsSurvive
=============================================================================
