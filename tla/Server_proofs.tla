---------------------------- MODULE Server_proofs ----------------------------
(***************************************************************************)
(* Proofs about the web server's caches (Caches) and its keep-awake        *)
(* sessions (KeepAwake), for any number of requests, keys, snapshot names, *)
(* calls and busy periods.                                                 *)
(***************************************************************************)
EXTENDS Caches, KeepAwake, FiniteSetTheorems, TLAPS

-----------------------------------------------------------------------------
(* StaleWhileRevalidate.  A slot is never older than the last clear, and a     *)
(* load that was begun after it cannot be: the generation tells which.         *)

SlotType == [key : Keys \cup {"none"}, fresh : BOOLEAN, value : Nat]
FlightType ==
  [by : Requests \cup {"task", "nobody"}, key : Keys \cup {"none"}, gen : Nat, value : Nat]
ReqType ==
  [pc : {"idle", "waiting", "answered"}, key : Keys \cup {"none"}, since : Nat, value : Nat]

TtlTypeOK ==
  /\ data \in Nat \ {0} /\ cleared \in Nat
  /\ ttl \in [gen : Nat, slot : SlotType]
  /\ flight \in FlightType
  /\ req \in [Requests -> ReqType]

\* What is in the slot, and what a load of this generation has read, is not
\* older than the last clear.
SlotInv ==
  /\ cleared <= data
  /\ ttl.slot.key = "none" => ~ttl.slot.fresh
  /\ ttl.slot.key # "none" => ttl.slot.value >= cleared
  /\ flight.gen <= ttl.gen
  /\ flight.value # 0 /\ flight.gen = ttl.gen => flight.value >= cleared

\* A load that a request awaits is answered to that request, which asked before
\* the load read the data.
AwaitInv ==
  /\ flight.by = "nobody" => flight = NoFlight
  /\ flight.by # "nobody" => flight.key \in Keys
  /\ \A r \in Requests : req[r].pc = "waiting" => req[r].key \in Keys
  /\ \A r \in Requests : req[r].since <= cleared
  /\ flight.by \in Requests =>
       /\ req[flight.by].pc = "waiting"
       /\ flight.value # 0 => flight.value >= req[flight.by].since

TtlInv == TtlTypeOK /\ SlotInv /\ AwaitInv /\ AnswersFollowClears

\* The records that stand for nothing.
LEMMA CacheFacts ==
  /\ NoSlot \in SlotType /\ NoSlot.key = "none" /\ NoSlot.fresh = FALSE /\ NoSlot.value = 0
  /\ NoFlight \in FlightType /\ NoFlight.by = "nobody" /\ NoFlight.gen = 0
  /\ NoFlight.value = 0 /\ NoFlight.by \notin Requests
  /\ Resting \in ReqType /\ Resting.pc = "idle" /\ Resting.since = 0
  BY CacheAssumption DEF NoSlot, SlotType, NoFlight, FlightType, Resting, ReqType

\* A request's own move changes that request only.
LEMMA RequestFacts ==
  ASSUME TtlTypeOK, NEW r \in Requests, NEW q \in ReqType, req' = [req EXCEPT ![r] = q]
  PROVE  /\ req' \in [Requests -> ReqType] /\ req'[r] = q
         /\ \A s \in Requests : s # r => req'[s] = req[s]
  BY DEF TtlTypeOK

LEMMA TtlInitInv == CacheInit => TtlInv
  <1> SUFFICES ASSUME CacheInit PROVE TtlInv
    OBVIOUS
  <1>1. /\ data = 1 /\ cleared = 1 /\ ttl.gen = 0 /\ ttl.slot = NoSlot /\ flight = NoFlight
        /\ ttl \in [gen : Nat, slot : SlotType]
    BY CacheFacts DEF CacheInit
  <1>2. req \in [Requests -> ReqType] /\ \A r \in Requests : req[r] = Resting
    BY CacheFacts DEF CacheInit
  <1>3. TtlTypeOK
    BY <1>1, <1>2, CacheFacts DEF TtlTypeOK
  <1>4. SlotInv
    BY <1>1, CacheFacts DEF SlotInv
  <1>5. AwaitInv /\ AnswersFollowClears
    BY <1>1, <1>2, CacheFacts DEF AwaitInv, AnswersFollowClears
  <1> QED BY <1>3, <1>4, <1>5 DEF TtlInv

\* A request that is answered at once, or begins to wait.
LEMMA GetSteps ==
  ASSUME TtlInv, NEW r \in Requests, NEW k \in Keys,
         GetFresh(r, k) \/ GetStale(r, k) \/ GetCold(r, k)
  PROVE  TtlInv'
  <1> USE DEF TtlInv
  <1>t. /\ data \in Nat /\ cleared \in Nat /\ ttl.gen \in Nat /\ ttl.slot \in SlotType
        /\ ttl.slot.value \in Nat /\ flight \in FlightType
    BY DEF TtlTypeOK, SlotType
  <1>n. k # "none"
    BY CacheAssumption
  <1>u. UNCHANGED <<data, cleared, ttl>> /\ req[r].pc = "idle"
    BY DEF GetFresh, GetStale, GetCold
  <1>1. PICK pc \in {"waiting", "answered"}, v \in Nat :
          Request(r, pc, k, v) /\ (pc = "answered" => v >= cleared)
    <2>1. CASE GetCold(r, k)
      BY <2>1 DEF GetCold
    <2>2. CASE GetFresh(r, k) \/ GetStale(r, k)
      <3>1. Request(r, "answered", k, ttl.slot.value) /\ ttl.slot.key = k
        BY <2>2 DEF GetFresh, GetStale, Fresh, Stale
      <3>2. ttl.slot.value >= cleared
        BY <3>1, <1>n DEF SlotInv
      <3> QED BY <1>t, <3>1, <3>2
    <2> QED BY <2>1, <2>2
  <1>2. /\ req' \in [Requests -> ReqType]
        /\ req'[r].since = cleared /\ req'[r].pc = pc /\ req'[r].value = v /\ req'[r].key = k
        /\ \A s \in Requests : s # r => req'[s] = req[s]
    <2> DEFINE q == [pc |-> pc, key |-> k, since |-> cleared, value |-> v]
    <2>1. q \in ReqType /\ q.since = cleared /\ q.pc = pc /\ q.value = v /\ q.key = k
      BY <1>t DEF ReqType
    <2>2. req' = [req EXCEPT ![r] = q]
      BY <1>1 DEF Request
    <2> HIDE DEF q
    <2> QED BY <2>1, <2>2, RequestFacts
  <1>3. /\ flight' \in FlightType /\ flight'.gen \in Nat
        /\ \/ flight' = flight
           \/ /\ flight'.by = "task" /\ flight'.gen = ttl.gen /\ flight'.value = 0
              /\ flight'.key = k
    BY <1>t DEF GetFresh, GetStale, GetCold, FlightType
  <1>4. TtlTypeOK'
    BY <1>u, <1>2, <1>3 DEF TtlTypeOK
  <1>5. SlotInv'
    BY <1>t, <1>u, <1>3 DEF SlotInv
  <1>6. /\ flight'.by = "nobody" => flight' = NoFlight
        /\ flight'.by # "nobody" => flight'.key \in Keys
        /\ \A s \in Requests : req'[s].pc = "waiting" => req'[s].key \in Keys
    BY <1>2, <1>3 DEF AwaitInv
  <1>7. \A s \in Requests : req'[s].since <= cleared
    BY <1>t, <1>2 DEF AwaitInv
  <1>8. ASSUME flight'.by \in Requests
        PROVE  /\ req'[flight'.by].pc = "waiting"
               /\ flight'.value # 0 => flight'.value >= req'[flight'.by].since
    <2>1. flight' = flight
      BY <1>3, <1>8, CacheAssumption
    <2>2. flight.by # r
      BY <1>u, <1>8, <2>1 DEF AwaitInv
    <2> QED BY <1>2, <1>8, <2>1, <2>2 DEF AwaitInv
  <1>9. AwaitInv'
    BY <1>u, <1>6, <1>7, <1>8 DEF AwaitInv
  <1>10. AnswersFollowClears'
    BY <1>1, <1>2 DEF AnswersFollowClears
  <1> QED BY <1>4, <1>5, <1>9, <1>10

\* A cold request gets its turn; an answered one is over.
LEMMA TurnSteps ==
  ASSUME TtlInv, NEW r \in Requests, ColdTurn(r) \/ NextRequest(r)
  PROVE  TtlInv'
  <1> USE DEF TtlInv
  <1>t. /\ data \in Nat /\ cleared \in Nat /\ ttl.gen \in Nat /\ ttl.slot \in SlotType
        /\ ttl.slot.value \in Nat /\ flight \in FlightType /\ req \in [Requests -> ReqType]
    BY DEF TtlTypeOK, SlotType
  <1>u. UNCHANGED <<data, cleared, ttl>>
    BY DEF ColdTurn, NextRequest
  <1>1. CASE NextRequest(r)
    <2>1. UNCHANGED flight /\ req[r].pc = "answered" /\ req' = [req EXCEPT ![r] = Resting]
      BY <1>1 DEF NextRequest
    <2>2. /\ req' \in [Requests -> ReqType] /\ req'[r] = Resting
          /\ \A s \in Requests : s # r => req'[s] = req[s]
      BY <2>1, CacheFacts, RequestFacts
    <2>3. TtlTypeOK' /\ SlotInv'
      BY <1>u, <2>1, <2>2 DEF TtlTypeOK, SlotInv
    <2>4. AwaitInv'
      <3>1. req'[r].since <= cleared
        BY <1>t, <2>2, CacheFacts
      <3>2. flight.by # r
        BY <2>1 DEF AwaitInv
      <3> QED BY <1>u, <2>1, <2>2, <3>1, <3>2, CacheFacts DEF AwaitInv
    <2>5. AnswersFollowClears'
      BY <2>2, CacheFacts DEF AnswersFollowClears
    <2> QED BY <2>3, <2>4, <2>5
  <1>2. CASE ColdTurn(r) /\ Fresh(req[r].key)
    <2>1. /\ UNCHANGED flight /\ flight = NoFlight
          /\ req' = [req EXCEPT ![r].pc = "answered", ![r].value = ttl.slot.value]
      BY <1>2 DEF ColdTurn, Answer
    <2>2. /\ req' \in [Requests -> ReqType]
          /\ req'[r].value = ttl.slot.value /\ req'[r].since = req[r].since
          /\ req'[r].pc = "answered"
          /\ \A s \in Requests : s # r => req'[s] = req[s]
      BY <1>t, <2>1 DEF ReqType
    <2>3. TtlTypeOK' /\ SlotInv'
      BY <1>u, <2>1, <2>2 DEF TtlTypeOK, SlotInv
    <2>4. AwaitInv'
      BY <1>u, <2>1, <2>2, CacheFacts DEF AwaitInv
    <2>5. ttl.slot.value >= req[r].since
      <3>1. ttl.slot.value >= cleared
        BY <1>2 DEF Fresh, SlotInv
      <3>2. req[r].since <= cleared /\ req[r].since \in Nat
        BY <1>t DEF AwaitInv, ReqType
      <3> QED BY <1>t, <3>1, <3>2
    <2>6. AnswersFollowClears'
      BY <2>2, <2>5 DEF AnswersFollowClears
    <2> QED BY <2>3, <2>4, <2>6
  <1>3. CASE ColdTurn(r) /\ ~Fresh(req[r].key)
    <2>1. /\ UNCHANGED req /\ req[r].pc = "waiting"
          /\ flight' = [by |-> r, key |-> req[r].key, gen |-> ttl.gen, value |-> 0]
      BY <1>3 DEF ColdTurn
    <2>2. req[r].key \in Keys \cup {"none"}
      BY <1>t DEF ReqType
    <2>3. /\ flight' \in FlightType /\ flight'.by = r /\ flight'.gen = ttl.gen
          /\ flight'.value = 0 /\ flight'.key = req[r].key
      BY <1>t, <2>1, <2>2 DEF FlightType
    <2>4. TtlTypeOK'
      BY <1>u, <2>1, <2>3 DEF TtlTypeOK
    <2>5. SlotInv'
      BY <1>t, <1>u, <2>3 DEF SlotInv
    <2>6. AwaitInv'
      BY <1>u, <2>1, <2>3, CacheAssumption DEF AwaitInv
    <2>7. AnswersFollowClears'
      BY <2>1 DEF AnswersFollowClears
    <2> QED BY <2>4, <2>5, <2>6, <2>7
  <1> QED BY <1>1, <1>2, <1>3

\* The load reads the data, fails, or ends.
LEMMA LoadSteps ==
  ASSUME TtlInv, Load \/ LoadFails \/ StoreIfCurrent
  PROVE  TtlInv'
  <1> USE DEF TtlInv
  <1>t. /\ data \in Nat /\ data # 0 /\ cleared \in Nat /\ ttl.gen \in Nat
        /\ ttl \in [gen : Nat, slot : SlotType] /\ flight \in FlightType
        /\ flight.gen \in Nat /\ flight.value \in Nat /\ req \in [Requests -> ReqType]
    BY DEF TtlTypeOK, FlightType
  <1>u. UNCHANGED <<data, cleared>>
    BY DEF Load, LoadFails, StoreIfCurrent
  <1>1. CASE Load
    <2>1. UNCHANGED <<ttl, req>> /\ flight.value = 0
      BY <1>1 DEF Load
    <2>2. /\ flight' \in FlightType /\ flight'.by = flight.by /\ flight'.gen = flight.gen
          /\ flight'.value = data /\ flight.by # "nobody" /\ flight'.key = flight.key
      <3>1. flight.by # "nobody"
        BY <1>1 DEF Load, AwaitInv
      <3> QED BY <1>1, <1>t, <3>1 DEF Load, FlightType
    <2>3. TtlTypeOK'
      BY <1>u, <2>1, <2>2 DEF TtlTypeOK
    <2>4. SlotInv'
      BY <1>t, <1>u, <2>1, <2>2 DEF SlotInv
    <2>5. \A r \in Requests : data >= req[r].since
      <3>1. \A r \in Requests : req[r].since \in Nat /\ req[r].since <= cleared
        BY <1>t DEF AwaitInv, ReqType
      <3>2. cleared <= data
        BY DEF SlotInv
      <3> QED BY <1>t, <3>1, <3>2
    <2>6. AwaitInv'
      BY <1>u, <2>1, <2>2, <2>5 DEF AwaitInv
    <2>7. AnswersFollowClears'
      BY <2>1 DEF AnswersFollowClears
    <2> QED BY <2>3, <2>4, <2>6, <2>7
  <1>2. CASE LoadFails
    <2>1. UNCHANGED ttl /\ flight' = NoFlight /\ flight # NoFlight
      BY <1>2 DEF LoadFails
    <2>2. flight.by \in Requests \cup {"task"}
      BY <1>t, <2>1 DEF AwaitInv, FlightType
    <2>3. /\ req' \in [Requests -> ReqType]
          /\ \A s \in Requests : req'[s] = req[s] \/ req'[s] = Resting
      <3>1. CASE flight.by = "task"
        BY <1>2, <1>t, <3>1 DEF LoadFails
      <3>2. CASE flight.by # "task"
        <4>1. req' = [req EXCEPT ![flight.by] = Resting] /\ flight.by \in Requests
          BY <1>2, <2>2, <3>2 DEF LoadFails
        <4> QED BY <4>1, CacheFacts, RequestFacts
      <3> QED BY <3>1, <3>2
    <2>4. TtlTypeOK'
      BY <1>u, <2>1, <2>3, CacheFacts DEF TtlTypeOK
    <2>5. SlotInv'
      BY <1>t, <1>u, <2>1, CacheFacts DEF SlotInv
    <2>6. AwaitInv'
      <3>1. \A s \in Requests : req'[s].since <= cleared
        BY <1>t, <2>3, CacheFacts DEF AwaitInv
      <3> QED BY <1>u, <2>1, <2>3, <3>1, CacheFacts DEF AwaitInv
    <2>7. AnswersFollowClears'
      BY <2>3, CacheFacts DEF AnswersFollowClears
    <2> QED BY <2>4, <2>5, <2>6, <2>7
  <1>3. CASE StoreIfCurrent
    <2>1. flight' = NoFlight /\ flight.value # 0
      BY <1>3 DEF StoreIfCurrent
    <2>2. flight.by \in Requests \cup {"task"}
      BY <1>t, <2>1, CacheFacts DEF AwaitInv, FlightType
    <2>3. /\ req' \in [Requests -> ReqType]
          /\ \A s \in Requests : req'[s].since = req[s].since
          /\ \A s \in Requests : s # flight.by => req'[s] = req[s]
          /\ flight.by \in Requests =>
               req'[flight.by].value = flight.value /\ req'[flight.by].pc = "answered"
      <3>1. CASE flight.by = "task"
        BY <1>3, <1>t, <3>1, CacheAssumption DEF StoreIfCurrent
      <3>2. CASE flight.by # "task"
        <4>1. /\ req' = [req EXCEPT ![flight.by].pc = "answered",
                                    ![flight.by].value = flight.value]
              /\ flight.by \in Requests
          BY <1>3, <2>2, <3>2 DEF StoreIfCurrent, Answer
        <4> QED BY <1>t, <4>1 DEF ReqType
      <3> QED BY <3>1, <3>2
    <2>4. /\ ttl' \in [gen : Nat, slot : SlotType] /\ ttl'.gen = ttl.gen
          /\ \/ ttl'.slot = ttl.slot
             \/ ttl.gen = flight.gen /\ ttl'.slot.value = flight.value /\ ttl'.slot.key = flight.key
                /\ ttl'.slot.key # "none"
      <3>1. CASE ttl.gen = flight.gen
        <4>1. Loaded \in SlotType /\ Loaded.value = flight.value /\ Loaded.key = flight.key
          BY <1>t DEF Loaded, SlotType, FlightType
        <4>2. ttl' = [ttl EXCEPT !.slot = Loaded]
          BY <1>3, <3>1 DEF StoreIfCurrent
        <4>3. flight.key # "none"
          BY <2>2, CacheAssumption DEF AwaitInv
        <4> QED BY <1>t, <3>1, <4>1, <4>2, <4>3
      <3>2. CASE ttl.gen # flight.gen
        BY <1>3, <1>t, <3>2 DEF StoreIfCurrent
      <3> QED BY <3>1, <3>2
    <2>5. TtlTypeOK'
      BY <1>u, <2>1, <2>3, <2>4, CacheFacts DEF TtlTypeOK
    <2>6. SlotInv'
      BY <1>t, <1>u, <2>1, <2>4, CacheFacts DEF SlotInv
    <2>7. AwaitInv'
      BY <1>u, <2>1, <2>3, CacheFacts DEF AwaitInv
    <2>8. AnswersFollowClears'
      BY <2>1, <2>2, <2>3 DEF AnswersFollowClears, AwaitInv
    <2> QED BY <2>5, <2>6, <2>7, <2>8
  <1> QED BY <1>1, <1>2, <1>3

\* The entry ages, the data changes, and the change is made known.
LEMMA ClearSteps ==
  ASSUME TtlInv, Expire \/ Change \/ Clear
  PROVE  TtlInv'
  <1> USE DEF TtlInv
  <1>t. /\ data \in Nat /\ data # 0 /\ cleared \in Nat /\ ttl.gen \in Nat
        /\ ttl \in [gen : Nat, slot : SlotType] /\ ttl.slot \in SlotType
        /\ flight.gen \in Nat /\ flight.value \in Nat /\ req \in [Requests -> ReqType]
    BY DEF TtlTypeOK, FlightType
  <1>u. UNCHANGED <<flight, req>>
    BY DEF Expire, Change, Clear
  <1>1. CASE Expire
    <2>1. UNCHANGED <<data, cleared>>
      BY <1>1 DEF Expire
    <2>2. /\ ttl' \in [gen : Nat, slot : SlotType] /\ ttl'.gen = ttl.gen
          /\ ttl'.slot.key = ttl.slot.key /\ ttl'.slot.value = ttl.slot.value
          /\ ttl'.slot.fresh = FALSE
      BY <1>1, <1>t DEF Expire, SlotType
    <2>3. TtlTypeOK' /\ SlotInv'
      BY <1>u, <2>1, <2>2 DEF TtlTypeOK, SlotInv
    <2>4. AwaitInv' /\ AnswersFollowClears'
      BY <1>u, <2>1 DEF AwaitInv, AnswersFollowClears
    <2> QED BY <2>3, <2>4
  <1>2. CASE Change
    <2>1. UNCHANGED <<cleared, ttl>> /\ data' = data + 1
      BY <1>2 DEF Change
    <2>2. TtlTypeOK' /\ SlotInv'
      BY <1>t, <1>u, <2>1 DEF TtlTypeOK, SlotInv
    <2>3. AwaitInv' /\ AnswersFollowClears'
      BY <1>u, <2>1 DEF AwaitInv, AnswersFollowClears
    <2> QED BY <2>2, <2>3
  <1>3. CASE Clear
    <2>1. UNCHANGED data /\ cleared' = data /\ cleared < data
      BY <1>3 DEF Clear
    <2>2. /\ ttl' \in [gen : Nat, slot : SlotType] /\ ttl'.gen = ttl.gen + 1
          /\ ttl'.slot = NoSlot
      BY <1>3, <1>t, CacheFacts DEF Clear
    <2>3. TtlTypeOK'
      BY <1>t, <1>u, <2>1, <2>2 DEF TtlTypeOK
    <2>4. SlotInv'
      BY <1>t, <1>u, <2>1, <2>2, CacheFacts DEF SlotInv
    <2>5. AwaitInv'
      <3>1. \A r \in Requests : req[r].since \in Nat
        BY <1>t DEF ReqType
      <3>2. \A r \in Requests : req[r].since <= cleared'
        BY <1>t, <2>1, <3>1 DEF AwaitInv
      <3> QED BY <1>u, <2>1, <3>2 DEF AwaitInv
    <2>6. AnswersFollowClears'
      BY <1>u DEF AnswersFollowClears
    <2> QED BY <2>3, <2>4, <2>5, <2>6
  <1> QED BY <1>1, <1>2, <1>3

LEMMA TtlNextInv == TtlInv /\ [TtlNext \/ SizeNext]_cacheVars => TtlInv'
  <1> SUFFICES ASSUME TtlInv, [TtlNext \/ SizeNext]_cacheVars PROVE TtlInv'
    OBVIOUS
  <1>1. CASE TtlNext
    BY <1>1, GetSteps, TurnSteps, LoadSteps, ClearSteps DEF TtlNext
  <1>2. CASE SizeNext \/ UNCHANGED cacheVars
    <2>1. UNCHANGED <<data, cleared, ttl, flight, req>>
      BY <1>2 DEF SizeNext, MakeImage, OthersRelease, DeleteSnapshot, Measure, Identify,
         Invalidate, ReadDirectory, ListSnapshots, Publish, SizesExpire, ttlVars, cacheVars
    <2> QED BY <2>1 DEF TtlInv, TtlTypeOK, SlotInv, AwaitInv, AnswersFollowClears
  <1> QED BY <1>1, <1>2

\* Nobody who asks after a clear is answered with data from before it, for any
\* number of requests, keys and changes (ttl_cache.rs).
THEOREM AnswersAreCurrent == CacheSpec => []AnswersFollowClears
  <1>1. TtlInv => AnswersFollowClears
    BY DEF TtlInv
  <1> QED BY <1>1, TtlInitInv, TtlNextInv, PTL DEF CacheSpec

-----------------------------------------------------------------------------
(* SizeCache.  Its generation is the number of deletions that were answered,   *)
(* so a measurement of this generation is of after the last of them.  What it  *)
(* noted of a name, the image and then the identity, is right of the file      *)
(* behind the name now unless the check mistakes that file for an earlier one. *)

Figures == [SnapNames -> Nat]
KeptType == [of : Figures, id : Figures, at : Nat, ids : SUBSET SnapNames, done : BOOLEAN]
MeasureType == [on : BOOLEAN, ids : SUBSET SnapNames, gen : Nat, of : Figures, id : Figures,
                at : Nat]
ListingType == [on : BOOLEAN, ids : SUBSET SnapNames, shown : Figures, at : Nat]

SizeTypeOK ==
  /\ image \in Figures /\ images \in Nat /\ deleting \in Nat /\ deletions \in Nat
  /\ inode \in Figures
  /\ sizes \in [gen : Nat, kept : KeptType]
  /\ measuring \in MeasureType /\ listing \in ListingType

\* A measurement, kept or in flight, knows the generation it belongs to.
GenerationInv ==
  /\ sizes.gen = deletions
  /\ sizes.kept.done => sizes.kept.at = deletions
  /\ measuring.gen = measuring.at

\* A page that is being made shows nothing yet.
ListingInv == listing.on => \A n \in SnapNames : listing.shown[n] = 0

\* The image that was measured under the name is the one behind it now, or the
\* one behind it now is mistaken for it.
Right(n, of) == of[n] = image[n] \/ n \in mistaken

\* A file has a number.
NumberInv == \A n \in SnapNames : image[n] # 0 => inode[n] # 0

\* An identity that was noted and is the file's is of the measured image.
KeptInv ==
  \A n \in SnapNames :
    image[n] # 0 /\ sizes.kept.id[n] = inode[n] => Right(n, sizes.kept.of)

MeasureInv ==
  \A n \in SnapNames :
    /\ image[n] # 0 /\ measuring.id[n] = inode[n] => Right(n, measuring.of)
    /\ image[n] # 0 /\ n \in HalfRead => Right(n, measuring.of)
    /\ measuring.id[n] # 0 => measuring.of[n] # 0

SizeInv ==
  SizeTypeOK /\ GenerationInv /\ ListingInv /\ NumberInv /\ KeptInv /\ MeasureInv

LEMMA SizeFacts ==
  /\ NoFigures \in Figures /\ \A n \in SnapNames : NoFigures[n] = 0
  /\ NoSizes \in KeptType /\ NoSizes.done = FALSE
  /\ NoSizes.of = NoFigures /\ NoSizes.id = NoFigures
  /\ NoMeasure \in MeasureType /\ NoMeasure.gen = 0 /\ NoMeasure.at = 0
  /\ NoMeasure.of = NoFigures /\ NoMeasure.id = NoFigures /\ NoMeasure.ids = {}
  <1>1. NoFigures \in Figures /\ \A n \in SnapNames : NoFigures[n] = 0
    BY DEF Figures, NoFigures
  <1>2. /\ NoSizes \in KeptType /\ NoSizes.done = FALSE
        /\ NoSizes.of = NoFigures /\ NoSizes.id = NoFigures
    BY <1>1 DEF KeptType, NoSizes
  <1>3. /\ NoMeasure \in MeasureType /\ NoMeasure.gen = 0 /\ NoMeasure.at = 0
        /\ NoMeasure.of = NoFigures /\ NoMeasure.id = NoFigures /\ NoMeasure.ids = {}
    BY <1>1 DEF MeasureType, NoMeasure
  <1> QED BY <1>1, <1>2, <1>3

LEMMA SizeInitInv == CacheInit => SizeInv
  <1> SUFFICES ASSUME CacheInit PROVE SizeInv
    OBVIOUS
  <1>1. /\ image = NoFigures /\ images = 0 /\ deleting = 0 /\ deletions = 0
        /\ inode = NoFigures /\ measuring = NoMeasure
    BY DEF CacheInit
  <1>2. sizes = [gen |-> 0, kept |-> NoSizes]
    BY DEF CacheInit
  <1>3. sizes \in [gen : Nat, kept : KeptType] /\ sizes.gen = 0 /\ sizes.kept = NoSizes
    BY <1>2, SizeFacts
  <1>4. listing \in ListingType /\ \A n \in SnapNames : listing.shown[n] = 0
    BY SizeFacts DEF CacheInit, ListingType
  <1>5. SizeTypeOK /\ GenerationInv /\ ListingInv
    BY <1>1, <1>3, <1>4, SizeFacts DEF SizeTypeOK, GenerationInv, ListingInv
  <1>6. NumberInv /\ KeptInv /\ MeasureInv
    BY <1>1, <1>3, SizeFacts DEF NumberInv, KeptInv, MeasureInv, HalfRead
  <1> QED BY <1>5, <1>6 DEF SizeInv

\* A new image under a name that had none.
LEMMA MakeStep ==
  ASSUME SizeInv, NEW n \in SnapNames, MakeImage(n)
  PROVE  SizeInv'
  <1>t. SizeTypeOK
    BY DEF SizeInv
  <1>1. PICK i \in (1..images + 1) \ {inode[m] : m \in SnapNames} :
          /\ inode' = [inode EXCEPT ![n] = i]
          /\ mistaken' = IF i \in {sizes.kept.id[n], measuring.id[n]} \/ n \in HalfRead
                         THEN mistaken \cup {n} ELSE mistaken
    BY DEF MakeImage
  <1>2. /\ UNCHANGED <<sizes, listing, measuring, deleting, deletions>>
        /\ image' = [image EXCEPT ![n] = images + 1] /\ images' = images + 1
    BY DEF MakeImage
  <1>3. i \in Nat /\ i # 0
    BY <1>t, <1>1 DEF SizeTypeOK
  <1>4. SizeTypeOK'
    BY <1>t, <1>1, <1>2, <1>3 DEF SizeTypeOK, Figures
  <1>5. /\ image'[n] = images + 1 /\ inode'[n] = i
        /\ \A m \in SnapNames : m # n => image'[m] = image[m] /\ inode'[m] = inode[m]
    BY <1>t, <1>1, <1>2 DEF SizeTypeOK, Figures
  <1>6. /\ \A m : m \in mistaken => m \in mistaken'
        /\ i \in {sizes.kept.id[n], measuring.id[n]} \/ n \in HalfRead => n \in mistaken'
    BY <1>1
  <1>7. HalfRead' = HalfRead
    BY <1>2 DEF HalfRead
  <1>8. GenerationInv' /\ ListingInv'
    BY <1>2 DEF SizeInv, GenerationInv, ListingInv
  <1>9. NumberInv'
    BY <1>3, <1>5 DEF SizeInv, NumberInv
  <1>10. KeptInv'
    <2> SUFFICES ASSUME NEW m \in SnapNames, image'[m] # 0, sizes.kept.id[m] = inode'[m]
                 PROVE  sizes.kept.of[m] = image'[m] \/ m \in mistaken'
      BY <1>2 DEF KeptInv, Right
    <2>1. CASE m = n
      BY <2>1, <1>5, <1>6
    <2>2. CASE m # n
      BY <2>2, <1>5, <1>6 DEF SizeInv, KeptInv, Right
    <2> QED BY <2>1, <2>2
  <1>11. MeasureInv'
    <2> SUFFICES ASSUME NEW m \in SnapNames
                 PROVE  /\ image'[m] # 0 /\ measuring.id[m] = inode'[m] =>
                             measuring.of[m] = image'[m] \/ m \in mistaken'
                        /\ image'[m] # 0 /\ m \in HalfRead =>
                             measuring.of[m] = image'[m] \/ m \in mistaken'
                        /\ measuring.id[m] # 0 => measuring.of[m] # 0
      BY <1>2, <1>7 DEF MeasureInv, Right
    <2>1. CASE m = n
      BY <2>1, <1>5, <1>6 DEF SizeInv, MeasureInv
    <2>2. CASE m # n
      BY <2>2, <1>5, <1>6 DEF SizeInv, MeasureInv, Right
    <2> QED BY <2>1, <2>2
  <1> QED BY <1>4, <1>8, <1>9, <1>10, <1>11 DEF SizeInv

\* An image that goes makes nothing right or wrong of the others.
LEMMA GoneStep ==
  ASSUME SizeInv, NEW n \in SnapNames, OthersRelease(n) \/ DeleteSnapshot(n)
  PROVE  SizeInv'
  <1>t. SizeTypeOK
    BY DEF SizeInv
  <1>1. /\ UNCHANGED <<images, sizes, listing, measuring, deletions>>
        /\ image' = [image EXCEPT ![n] = 0] /\ inode' = [inode EXCEPT ![n] = 0]
        /\ mistaken' = mistaken \ {n} /\ deleting' \in Nat
    BY <1>t DEF OthersRelease, DeleteSnapshot, Gone, SizeTypeOK
  <1>2. SizeTypeOK'
    BY <1>t, <1>1 DEF SizeTypeOK, Figures
  <1>3. /\ image'[n] = 0
        /\ \A m \in SnapNames : m # n => image'[m] = image[m] /\ inode'[m] = inode[m]
    BY <1>t, <1>1 DEF SizeTypeOK, Figures
  <1>4. HalfRead' = HalfRead
    BY <1>1 DEF HalfRead
  <1>5. GenerationInv' /\ ListingInv'
    BY <1>1 DEF SizeInv, GenerationInv, ListingInv
  <1>6. NumberInv' /\ KeptInv'
    BY <1>1, <1>3 DEF SizeInv, NumberInv, KeptInv, Right
  <1>7. MeasureInv'
    BY <1>1, <1>3, <1>4 DEF SizeInv, MeasureInv, Right
  <1> QED BY <1>2, <1>5, <1>6, <1>7 DEF SizeInv

\* The two reads of one file.
LEMMA ReadSteps ==
  ASSUME SizeInv, NEW n \in SnapNames, Measure(n) \/ Identify(n)
  PROVE  SizeInv'
  <1>t. SizeTypeOK /\ measuring \in MeasureType /\ image \in Figures /\ inode \in Figures
    BY DEF SizeInv, SizeTypeOK
  <1>1. /\ UNCHANGED <<image, images, inode, mistaken, sizes, listing, deleting, deletions>>
        /\ image[n] # 0
    BY DEF Measure, Identify, fileVars
  <1>2. /\ measuring' \in MeasureType /\ measuring'.gen = measuring.gen
        /\ measuring'.at = measuring.at /\ measuring'.ids = measuring.ids
        /\ \A m \in SnapNames : m # n =>
             measuring'.of[m] = measuring.of[m] /\ measuring'.id[m] = measuring.id[m]
    BY <1>t DEF Measure, Identify, MeasureType, Figures
  <1>3. SizeTypeOK' /\ GenerationInv' /\ ListingInv' /\ NumberInv' /\ KeptInv'
    BY <1>1, <1>2 DEF SizeInv, SizeTypeOK, GenerationInv, ListingInv, NumberInv, KeptInv, Right
  <1>4. ASSUME NEW m \in SnapNames, m # n
        PROVE  m \in HalfRead' <=> m \in HalfRead
    BY <1>2, <1>4 DEF HalfRead
  <1>5. /\ image[n] # 0 /\ measuring'.id[n] = inode[n] => measuring'.of[n] = image[n] \/ n \in mistaken
        /\ image[n] # 0 /\ n \in HalfRead' => measuring'.of[n] = image[n] \/ n \in mistaken
        /\ measuring'.id[n] # 0 => measuring'.of[n] # 0
    <2>1. CASE Measure(n)
      <3>1. measuring'.of[n] = image[n] /\ measuring'.id[n] = measuring.id[n]
        BY <1>t, <2>1 DEF Measure, MeasureType, Figures
      <3> QED BY <1>1, <3>1
    <2>2. CASE Identify(n)
      <3>1. measuring'.of[n] = measuring.of[n] /\ measuring.of[n] # 0 /\ n \in HalfRead
        BY <1>t, <2>2 DEF Identify, MeasureType, Figures, HalfRead
      <3> QED BY <1>1, <3>1 DEF SizeInv, MeasureInv, Right
    <2> QED BY <2>1, <2>2
  <1>6. MeasureInv'
    <2> SUFFICES ASSUME NEW m \in SnapNames
                 PROVE  /\ image[m] # 0 /\ measuring'.id[m] = inode[m] =>
                             measuring'.of[m] = image[m] \/ m \in mistaken
                        /\ image[m] # 0 /\ m \in HalfRead' =>
                             measuring'.of[m] = image[m] \/ m \in mistaken
                        /\ measuring'.id[m] # 0 => measuring'.of[m] # 0
      BY <1>1 DEF MeasureInv, Right
    <2>1. CASE m = n
      BY <2>1, <1>5
    <2>2. CASE m # n
      BY <2>2, <1>2, <1>4 DEF SizeInv, MeasureInv, Right
    <2> QED BY <2>1, <2>2
  <1> QED BY <1>3, <1>6 DEF SizeInv

\* A page is begun or made, and a measurement perhaps begun.
LEMMA PageSteps ==
  ASSUME SizeInv, ReadDirectory \/ ListSnapshots
  PROVE  SizeInv'
  <1>t. /\ SizeTypeOK /\ sizes.kept \in KeptType /\ listing \in ListingType
        /\ measuring \in MeasureType
    BY DEF SizeInv, SizeTypeOK
  <1>1. UNCHANGED <<image, images, inode, mistaken, sizes, deleting, deletions>>
    BY DEF ReadDirectory, ListSnapshots, fileVars
  <1>2. /\ measuring' \in MeasureType /\ measuring'.gen = measuring'.at
        /\ measuring' = measuring \/ (measuring'.of = NoFigures /\ measuring'.id = NoFigures)
    <2>1. CASE measuring' = measuring
      BY <1>t, <2>1 DEF SizeInv, GenerationInv
    <2>2. CASE measuring' = [NoMeasure EXCEPT !.on = TRUE, !.ids = listing.ids,
                                              !.gen = sizes.gen, !.at = deletions]
      <3>1. listing.ids \in SUBSET SnapNames
        BY <1>t DEF ListingType
      <3> QED BY <1>t, <2>2, <3>1, SizeFacts DEF MeasureType, SizeInv, SizeTypeOK, GenerationInv
    <2> QED BY <2>1, <2>2 DEF ReadDirectory, ListSnapshots
  <1>3. listing' \in ListingType /\ (listing'.on => \A n \in SnapNames : listing'.shown[n] = 0)
    <2>1. CASE ReadDirectory
      <3>1. Names \in SUBSET SnapNames /\ deletions \in Nat
        BY <1>t DEF Names, SizeTypeOK
      <3> QED BY <2>1, <3>1, SizeFacts DEF ReadDirectory, ListingType
    <2>2. CASE ListSnapshots /\ IsCurrentFor(listing.ids)
      <3> DEFINE shown == [n \in SnapNames |-> IF n \in listing.ids THEN GetIfSame(n) ELSE 0]
      <3>1. shown \in Figures
        BY <1>t DEF Figures, GetIfSame, KeptType
      <3>2. listing' = [listing EXCEPT !.on = FALSE, !.ids = {}, !.shown = shown,
                                       !.at = sizes.kept.at]
        BY <2>2 DEF ListSnapshots
      <3>3. sizes.kept.at \in Nat
        BY <1>t DEF KeptType
      <3> HIDE DEF shown
      <3> QED BY <1>t, <3>1, <3>2, <3>3 DEF ListingType
    <2>3. CASE ListSnapshots /\ ~IsCurrentFor(listing.ids)
      BY <1>t, <2>3 DEF ListSnapshots, ListingType
    <2> QED BY <2>1, <2>2, <2>3
  <1>4. SizeTypeOK' /\ GenerationInv' /\ ListingInv' /\ NumberInv' /\ KeptInv'
    BY <1>1, <1>2, <1>3
       DEF SizeInv, SizeTypeOK, GenerationInv, ListingInv, NumberInv, KeptInv, Right
  <1>5. MeasureInv'
    <2>1. CASE measuring' = measuring
      BY <1>1, <2>1 DEF SizeInv, MeasureInv, Right, HalfRead
    <2>2. CASE measuring'.of = NoFigures /\ measuring'.id = NoFigures
      <3>1. \A n \in SnapNames : measuring'.id[n] = 0 /\ measuring'.of[n] = 0
        BY <2>2, SizeFacts
      <3>2. \A n \in SnapNames : n \notin HalfRead'
        BY <3>1 DEF HalfRead
      <3> QED BY <1>1, <3>1, <3>2 DEF SizeInv, NumberInv, MeasureInv
    <2> QED BY <1>2, <2>1, <2>2
  <1> QED BY <1>4, <1>5 DEF SizeInv

\* A cache without entries holds nothing wrong.
LEMMA NothingKept ==
  ASSUME NumberInv', \A n \in SnapNames : sizes'.kept.id[n] = 0
  PROVE  KeptInv'
  BY DEF NumberInv, KeptInv

\* The cache is emptied, filled by a measurement that ended, or grows old.
LEMMA StoreSteps ==
  ASSUME SizeInv, Invalidate \/ SizesExpire \/ \E ok \in BOOLEAN : Publish(ok)
  PROVE  SizeInv'
  <1>t. /\ SizeTypeOK /\ sizes \in [gen : Nat, kept : KeptType] /\ sizes.gen \in Nat
        /\ sizes.kept \in KeptType /\ measuring \in MeasureType
        /\ deleting \in Nat /\ deletions \in Nat
    BY DEF SizeInv, SizeTypeOK
  <1>1. UNCHANGED <<image, images, inode, mistaken, listing>>
    BY DEF Invalidate, SizesExpire, Publish, fileVars
  <1>2. NumberInv' /\ ListingInv'
    BY <1>1 DEF SizeInv, NumberInv, ListingInv
  <1>3. CASE Invalidate
    <2>1. UNCHANGED measuring /\ deletions' = deletions + 1 /\ deleting' \in Nat
      BY <1>3, <1>t DEF Invalidate
    <2>2. /\ sizes' \in [gen : Nat, kept : KeptType]
          /\ sizes'.gen = sizes.gen + 1 /\ sizes'.kept = NoSizes
      BY <1>3, <1>t, SizeFacts DEF Invalidate
    <2>3. SizeTypeOK' /\ GenerationInv'
      BY <1>1, <1>t, <2>1, <2>2, SizeFacts DEF SizeInv, SizeTypeOK, GenerationInv
    <2>4. KeptInv'
      BY <1>2, <2>2, SizeFacts, NothingKept
    <2>5. MeasureInv'
      BY <1>1, <2>1 DEF SizeInv, MeasureInv, Right, HalfRead
    <2> QED BY <1>2, <2>3, <2>4, <2>5 DEF SizeInv
  <1>4. CASE SizesExpire
    <2>1. UNCHANGED <<measuring, deleting, deletions>>
      BY <1>4 DEF SizesExpire
    <2>2. /\ sizes' \in [gen : Nat, kept : KeptType] /\ sizes'.gen = sizes.gen
          /\ sizes'.kept.done = FALSE
          /\ sizes'.kept.id = sizes.kept.id /\ sizes'.kept.of = sizes.kept.of
      BY <1>4, <1>t DEF SizesExpire, KeptType
    <2>3. SizeTypeOK' /\ GenerationInv'
      BY <1>1, <1>t, <2>1, <2>2 DEF SizeInv, SizeTypeOK, GenerationInv
    <2>4. KeptInv' /\ MeasureInv'
      BY <1>1, <2>1, <2>2 DEF SizeInv, KeptInv, MeasureInv, Right, HalfRead
    <2> QED BY <1>2, <2>3, <2>4 DEF SizeInv
  <1>5. ASSUME NEW ok \in BOOLEAN, Publish(ok) PROVE SizeInv'
    <2>1. UNCHANGED <<deleting, deletions>> /\ measuring' = NoMeasure
      BY <1>5 DEF Publish
    <2>2. MeasureInv'
      <3>1. \A n \in SnapNames : measuring'.id[n] = 0 /\ measuring'.of[n] = 0 /\ n \notin HalfRead'
        BY <2>1, SizeFacts DEF HalfRead
      <3> QED BY <1>2, <3>1 DEF NumberInv, MeasureInv
    <2>3. CASE measuring.gen = sizes.gen
      <3>1. /\ SizesKept(ok) \in KeptType /\ SizesKept(ok).at = measuring.at
            /\ \/ SizesKept(ok).of = measuring.of /\ SizesKept(ok).id = measuring.id
               \/ SizesKept(ok).of = NoFigures /\ SizesKept(ok).id = NoFigures
        BY <1>t, SizeFacts DEF SizesKept, KeptType, MeasureType
      <3>2. sizes' = [sizes EXCEPT !.kept = SizesKept(ok)]
        BY <1>5, <2>3 DEF Publish
      <3>3. /\ sizes' \in [gen : Nat, kept : KeptType] /\ sizes'.gen = sizes.gen
            /\ sizes'.kept = SizesKept(ok)
        BY <1>t, <3>1, <3>2
      <3>4. SizeTypeOK' /\ GenerationInv'
        BY <1>1, <1>t, <2>1, <2>3, <3>1, <3>3, SizeFacts DEF SizeInv, SizeTypeOK, GenerationInv
      <3>5. KeptInv'
        <4>1. CASE SizesKept(ok).of = measuring.of /\ SizesKept(ok).id = measuring.id
          BY <1>1, <3>3, <4>1 DEF SizeInv, MeasureInv, KeptInv, Right
        <4>2. CASE SizesKept(ok).of = NoFigures /\ SizesKept(ok).id = NoFigures
          BY <1>2, <3>3, <4>2, SizeFacts, NothingKept
        <4> QED BY <3>1, <4>1, <4>2
      <3> QED BY <1>2, <2>2, <3>4, <3>5 DEF SizeInv
    <2>4. CASE measuring.gen # sizes.gen
      <3>1. UNCHANGED sizes
        BY <1>5, <2>4 DEF Publish
      <3>2. SizeTypeOK' /\ GenerationInv' /\ KeptInv'
        BY <1>1, <1>t, <2>1, <3>1, SizeFacts
           DEF SizeInv, SizeTypeOK, GenerationInv, KeptInv, Right
      <3> QED BY <1>2, <2>2, <3>2 DEF SizeInv
    <2> QED BY <2>3, <2>4
  <1> QED BY <1>3, <1>4, <1>5

LEMMA SizeNextInv == SizeInv /\ [TtlNext \/ SizeNext]_cacheVars => SizeInv'
  <1> SUFFICES ASSUME SizeInv, [TtlNext \/ SizeNext]_cacheVars PROVE SizeInv'
    OBVIOUS
  <1>1. CASE TtlNext \/ UNCHANGED cacheVars
    <2>1. UNCHANGED <<image, images, inode, mistaken, sizes, listing, measuring, deleting,
                      deletions>>
      BY <1>1 DEF TtlNext, GetFresh, GetStale, GetCold, ColdTurn, NextRequest, Load, LoadFails,
         StoreIfCurrent, Expire, Change, Clear, sizeVars, cacheVars
    <2> QED BY <2>1 DEF SizeInv, SizeTypeOK, GenerationInv, ListingInv, NumberInv, KeptInv,
                        MeasureInv, Right, HalfRead
  <1>2. CASE SizeNext
    BY <1>2, MakeStep, GoneStep, ReadSteps, PageSteps, StoreSteps DEF SizeNext
  <1> QED BY <1>1, <1>2

\* A figure that is shown was measured on the image behind the name now, after
\* the last answered deletion, unless the identity check mistakes that image for
\* an earlier one, for any number of names, images and releases (snapshots.rs).
THEOREM FiguresAreCurrent == CacheSpec => FiguresMatchImages
  <1>1. ASSUME SizeInv, [TtlNext \/ SizeNext]_cacheVars, NEW n \in SnapNames,
               listing.on, ~listing'.on, listing'.shown[n] # 0
        PROVE  /\ listing'.shown[n] = image[n] \/ n \in mistaken
               /\ listing'.at = deletions
    <2>0. listing' # listing
      BY <1>1
    <2>1. ListSnapshots
      <3>1. ~TtlNext /\ ~UNCHANGED cacheVars
        BY <2>0 DEF TtlNext, GetFresh, GetStale, GetCold, ColdTurn, NextRequest, Load, LoadFails,
           StoreIfCurrent, Expire, Change, Clear, sizeVars, cacheVars
      <3>2. SizeNext
        BY <1>1, <3>1
      <3>3. ASSUME NEW m \in SnapNames,
                   \/ MakeImage(m) \/ OthersRelease(m) \/ DeleteSnapshot(m)
                   \/ Measure(m) \/ Identify(m)
            PROVE  FALSE
        BY <2>0, <3>3 DEF MakeImage, OthersRelease, DeleteSnapshot, Measure, Identify
      <3>4. ~Invalidate /\ ~SizesExpire /\ \A ok \in BOOLEAN : ~Publish(ok)
        BY <2>0 DEF Invalidate, SizesExpire, Publish
      <3>5. ~ReadDirectory
        BY <1>1 DEF ReadDirectory
      <3> QED BY <3>2, <3>3, <3>4, <3>5 DEF SizeNext
    <2>t. listing \in ListingType
      BY <1>1 DEF SizeInv, SizeTypeOK
    <2>2. IsCurrentFor(listing.ids)
      <3>1. ASSUME listing' = [listing EXCEPT !.on = FALSE, !.ids = {}] PROVE FALSE
        BY <1>1, <2>t, <3>1 DEF SizeInv, ListingInv, ListingType
      <3> QED BY <2>1, <3>1 DEF ListSnapshots
    <2>3. listing'.at = sizes.kept.at /\ listing'.shown[n] \in {0, GetIfSame(n)}
      <3> DEFINE shown == [m \in SnapNames |-> IF m \in listing.ids THEN GetIfSame(m) ELSE 0]
      <3>1. shown[n] \in {0, GetIfSame(n)}
        OBVIOUS
      <3>2. listing' = [listing EXCEPT !.on = FALSE, !.ids = {}, !.shown = shown,
                                       !.at = sizes.kept.at]
        BY <2>1, <2>2 DEF ListSnapshots
      <3> HIDE DEF shown
      <3> QED BY <2>t, <3>1, <3>2 DEF ListingType
    <2>4. listing'.shown[n] = image[n] \/ n \in mistaken
      BY <1>1, <2>3 DEF SizeInv, KeptInv, Right, GetIfSame
    <2> QED BY <2>2, <2>3, <2>4, <1>1 DEF SizeInv, GenerationInv, IsCurrentFor
  <1>2. SizeInv /\ [TtlNext \/ SizeNext]_cacheVars =>
          [\A n \in SnapNames :
             listing.on /\ ~listing'.on /\ listing'.shown[n] # 0 =>
               /\ listing'.shown[n] = image[n] \/ n \in mistaken
               /\ listing'.at = deletions]_cacheVars
    BY <1>1
  <1> QED BY <1>2, SizeInitInv, SizeNextInv, PTL DEF CacheSpec, FiguresMatchImages

-----------------------------------------------------------------------------
(* KeepAwake.  The bound on generations is part of the argument: a call makes  *)
(* one, and the session it began makes one more when it expires, so the task   *)
(* of every session has its place among the Epochs.                            *)

KaType == [state : {"idle", "pending", "active"}, mode : {"none", "manual", "auto"},
           epoch : Nat, due : BOOLEAN]
TaskPcs == {"none", "waiting", "looking", "starting", "launch", "watching", "expired",
            "release", "done"}

AwakeTypeOK ==
  /\ ka \in KaType /\ owner \in BOOLEAN /\ busy \in BOOLEAN
  /\ call \in [Calls -> {"new", "beat", "release", "done"}]
  /\ task \in [Epochs -> TaskPcs]

\* The calls that have made their generation.
Spent == {c \in Calls : call[c] \in {"release", "done"}}

EpochInv ==
  /\ ka.state = "idle" => ka.epoch <= 2 * Cardinality(Spent)
  /\ ka.state # "idle" => ka.epoch + 1 <= 2 * Cardinality(Spent)

AwakeInv == AwakeTypeOK /\ EpochInv /\ SessionsAreWatched /\ OwnerIsReleased

\* There are at most as many spent calls as calls, and one more after a call.
LEMMA SpentFacts ==
  /\ IsFiniteSet(Spent) /\ Cardinality(Spent) \in Nat /\ Cardinality(Spent) <= MaxCalls
  <1>1. IsFiniteSet(Calls) /\ Cardinality(Calls) = MaxCalls
    BY FS_Interval, KeepAwakeAssumption DEF Calls
  <1>2. Spent \subseteq Calls
    BY DEF Spent
  <1> QED BY <1>1, <1>2, FS_Subset, FS_CardinalityType

LEMMA OneMoreSpent ==
  ASSUME AwakeTypeOK, NEW c \in Calls, call[c] \in {"new", "beat"},
         NEW pc \in {"release", "done"}, Reached(c, pc)
  PROVE  /\ call' \in [Calls -> {"new", "beat", "release", "done"}] /\ call'[c] = pc
         /\ \A d \in Calls : d # c => call'[d] = call[d]
         /\ Cardinality(Spent') = Cardinality(Spent) + 1
         /\ Cardinality(Spent) + 1 <= MaxCalls
  <1>1. /\ call' \in [Calls -> {"new", "beat", "release", "done"}] /\ call'[c] = pc
        /\ \A d \in Calls : d # c => call'[d] = call[d]
    BY DEF AwakeTypeOK, Reached
  <1>2. Spent' = Spent \cup {c} /\ c \notin Spent
    BY <1>1 DEF Spent
  <1>3. Cardinality(Spent') = Cardinality(Spent) + 1 /\ IsFiniteSet(Spent')
    BY <1>2, SpentFacts, FS_AddElement
  <1>4. Cardinality(Spent') <= MaxCalls
    <2>1. IsFiniteSet(Calls) /\ Cardinality(Calls) = MaxCalls
      BY FS_Interval, KeepAwakeAssumption DEF Calls
    <2>2. Spent' \subseteq Calls
      BY DEF Spent
    <2> QED BY <2>1, <2>2, FS_Subset
  <1> QED BY <1>1, <1>3, <1>4

\* What calls do not spend leaves their number as it is.
LEMMA SameSpent ==
  ASSUME \A c \in Calls : call'[c] \in {"release", "done"} <=> call[c] \in {"release", "done"}
  PROVE  Spent' = Spent
  BY DEF Spent

\* The task of a session has its place.
LEMMA EpochInRange ==
  ASSUME AwakeTypeOK, EpochInv, ka.state # "idle"
  PROVE  ka.epoch \in Epochs
  <1>1. ka.epoch \in Nat /\ MaxCalls \in Nat
    BY KeepAwakeAssumption DEF AwakeTypeOK, KaType
  <1>2. ka.epoch + 1 <= 2 * Cardinality(Spent)
    BY DEF EpochInv
  <1> QED BY <1>1, <1>2, SpentFacts DEF Epochs

\* The session is over, and its generation with it.
LEMMA EndedFacts ==
  ASSUME ka \in KaType, ka' = [ka EXCEPT !.state = "idle", !.epoch = @ + 1, !.due = FALSE]
  PROVE  ka' \in KaType /\ ka'.state = "idle" /\ ka'.epoch = ka.epoch + 1
  <1> DEFINE n == ka.epoch + 1
  <1>1. n \in Nat
    BY DEF KaType
  <1>2. ka' = [ka EXCEPT !.state = "idle", !.epoch = n, !.due = FALSE]
    BY DEF KaType
  <1> HIDE DEF n
  <1>3. ka' \in KaType /\ ka'.state = "idle" /\ ka'.epoch = n
    BY <1>1, <1>2 DEF KaType
  <1> QED BY <1>3 DEF n

LEMMA AwakeInitInv == KeepAwakeInit => AwakeInv
  <1> SUFFICES ASSUME KeepAwakeInit PROVE AwakeInv
    OBVIOUS
  <1>1. ka \in KaType /\ ka.state = "idle" /\ ka.epoch = 0
    BY DEF KeepAwakeInit, KaType
  <1>2. call \in [Calls -> {"new", "beat", "release", "done"}] /\ task \in [Epochs -> TaskPcs]
    BY DEF KeepAwakeInit, TaskPcs
  <1>3. owner \in BOOLEAN /\ busy \in BOOLEAN /\ ~owner
    BY Zenon DEF KeepAwakeInit
  <1>4. EpochInv
    BY <1>1, SpentFacts DEF EpochInv
  <1> QED BY <1>1, <1>2, <1>3, <1>4
          DEF AwakeInv, AwakeTypeOK, SessionsAreWatched, OwnerIsReleased

\* A session that begins, is queued, or is extended.
LEMMA StartSessionStep ==
  ASSUME AwakeInv, NEW c \in Calls, call[c] \in {"new", "beat"}, Reached(c, "done"),
         NEW m \in {"manual", "auto"}, StartSession(m), UNCHANGED busy
  PROVE  AwakeInv'
  <1> USE DEF AwakeInv
  <1>t. /\ ka \in KaType /\ ka.epoch \in Nat /\ busy \in BOOLEAN /\ owner \in BOOLEAN
        /\ task \in [Epochs -> TaskPcs] /\ Cardinality(Spent) \in Nat
    BY SpentFacts DEF AwakeTypeOK, KaType
  <1>1. /\ call' \in [Calls -> {"new", "beat", "release", "done"}] /\ call'[c] = "done"
        /\ Cardinality(Spent') = Cardinality(Spent) + 1
        /\ Cardinality(Spent) + 1 <= MaxCalls
    BY OneMoreSpent
  <1>2. CASE ka.state # "idle"
    <2>1. /\ ka' \in KaType /\ ka'.state = ka.state /\ ka'.epoch = ka.epoch
          /\ UNCHANGED <<owner, task>>
      BY <1>2, <1>t DEF StartSession, KaType
    <2>2. AwakeTypeOK'
      BY <1>1, <2>1 DEF AwakeTypeOK
    <2>3. EpochInv'
      BY <1>t, <1>1, <1>2, <2>1 DEF EpochInv
    <2>4. SessionsAreWatched' /\ OwnerIsReleased'
      BY <1>2, <2>1 DEF SessionsAreWatched, OwnerIsReleased
    <2> QED BY <2>2, <2>3, <2>4
  <1>3. CASE ka.state = "idle"
    <2> DEFINE e == ka.epoch + 1
    <2>1. e \in Epochs
      <3>1. ka.epoch <= 2 * Cardinality(Spent)
        BY <1>3 DEF EpochInv
      <3>2. MaxCalls \in Nat
        BY KeepAwakeAssumption
      <3> QED BY <1>t, <1>1, <3>1, <3>2 DEF Epochs
    <2>2. /\ ka' = [state |-> IF busy THEN "pending" ELSE "active", mode |-> m, epoch |-> e,
                    due |-> FALSE]
          /\ owner' = TRUE
          /\ task' = [task EXCEPT ![e] = IF busy THEN "waiting" ELSE "watching"]
      BY <1>3 DEF StartSession, TaskAt
    <2> HIDE DEF e
    <2>3. e \in Nat /\ e = ka.epoch + 1
      BY <1>t DEF e
    <2>4. /\ ka' \in KaType /\ ka'.epoch = e
          /\ ka'.state = IF busy THEN "pending" ELSE "active"
      BY <2>2, <2>3 DEF KaType
    <2>5. /\ task' \in [Epochs -> TaskPcs]
          /\ task'[e] = IF busy THEN "waiting" ELSE "watching"
      BY <1>t, <2>1, <2>2 DEF TaskPcs
    <2>6. owner' \in BOOLEAN
      BY <2>2, Zenon
    <2>7. AwakeTypeOK'
      BY <1>t, <1>1, <2>4, <2>5, <2>6 DEF AwakeTypeOK
    <2>8. EpochInv'
      <3>1. ka.epoch <= 2 * Cardinality(Spent)
        BY <1>3 DEF EpochInv
      <3>2. ka'.epoch + 1 <= 2 * Cardinality(Spent') /\ ka'.state # "idle"
        BY <1>t, <1>1, <2>3, <2>4, <3>1
      <3> QED BY <3>2 DEF EpochInv
    <2>9. SessionsAreWatched' /\ OwnerIsReleased'
      BY <2>4, <2>5 DEF SessionsAreWatched, OwnerIsReleased
    <2> QED BY <2>7, <2>8, <2>9
  <1> QED BY <1>2, <1>3

\* The calls.
LEMMA CallSteps ==
  ASSUME AwakeInv, NEW c \in Calls,
         Start(c) \/ Heartbeat(c) \/ StopSession(c) \/ CallStep(c)
  PROVE  AwakeInv'
  <1> USE DEF AwakeInv
  <1>t. /\ ka \in KaType /\ ka.epoch \in Nat /\ call \in [Calls -> {"new", "beat", "release", "done"}]
        /\ Cardinality(Spent) \in Nat
    BY SpentFacts DEF AwakeTypeOK, KaType
  <1>1. CASE Start(c) \/ HeartbeatStarts(c)
    BY <1>1, StartSessionStep DEF Start, HeartbeatStarts, Comes
  <1>2. CASE Heartbeat(c)
    <2>1. UNCHANGED <<owner, busy, task>> /\ call[c] = "new"
      BY <1>2 DEF Heartbeat, Comes
    <2>2. ka' \in KaType /\ ka'.state = ka.state /\ ka'.epoch = ka.epoch
      BY <1>2, <1>t DEF Heartbeat, KaType
    <2>3. PICK pc \in {"beat", "done"} : Reached(c, pc)
      BY <1>2 DEF Heartbeat
    <2>4. /\ call' \in [Calls -> {"new", "beat", "release", "done"}] /\ call'[c] = pc
          /\ \A d \in Calls : d # c => call'[d] = call[d]
      BY <1>t, <2>3 DEF Reached
    <2>5. AwakeTypeOK'
      BY <2>1, <2>2, <2>4 DEF AwakeTypeOK
    <2>6. Cardinality(Spent') \in Nat /\ Cardinality(Spent) <= Cardinality(Spent')
      <3>1. CASE pc = "beat"
        BY <1>t, <2>1, <2>4, <3>1, SameSpent
      <3>2. CASE pc = "done"
        BY <1>t, <2>1, <2>3, <3>2, OneMoreSpent
      <3> QED BY <3>1, <3>2
    <2>7. EpochInv'
      BY <1>t, <2>2, <2>6 DEF EpochInv
    <2>8. SessionsAreWatched' /\ OwnerIsReleased'
      BY <2>1, <2>2, <2>4 DEF SessionsAreWatched, OwnerIsReleased
    <2> QED BY <2>5, <2>7, <2>8
  <1>3. CASE StopSession(c)
    <2>1. UNCHANGED <<owner, busy, task>> /\ call[c] = "new"
      BY <1>3 DEF StopSession, Comes
    <2>2. ka' \in KaType /\ ka'.state = "idle" /\ ka'.epoch = ka.epoch + 1
      BY <1>3, <1>t, EndedFacts DEF StopSession
    <2>3. PICK pc \in {"release", "done"} : Reached(c, pc) /\ (ka.state # "idle" => pc = "release")
      BY <1>3 DEF StopSession
    <2>4. /\ call' \in [Calls -> {"new", "beat", "release", "done"}] /\ call'[c] = pc
          /\ \A d \in Calls : d # c => call'[d] = call[d]
          /\ Cardinality(Spent') = Cardinality(Spent) + 1
      BY <2>1, <2>3, OneMoreSpent
    <2>5. AwakeTypeOK'
      BY <2>1, <2>2, <2>4 DEF AwakeTypeOK
    <2>6. EpochInv'
      BY <1>t, <2>2, <2>4 DEF EpochInv
    <2>7. SessionsAreWatched'
      BY <2>2 DEF SessionsAreWatched
    <2>8. OwnerIsReleased'
      BY <2>1, <2>2, <2>3, <2>4 DEF OwnerIsReleased
    <2> QED BY <2>5, <2>6, <2>7, <2>8
  <1>4. CASE StopReleases(c)
    <2>1. UNCHANGED <<ka, busy, task>> /\ owner' = FALSE /\ call[c] = "release"
      BY <1>4 DEF StopReleases
    <2>2. /\ call' \in [Calls -> {"new", "beat", "release", "done"}] /\ call'[c] = "done"
          /\ \A d \in Calls : d # c => call'[d] = call[d]
      BY <1>4, <1>t DEF StopReleases, Reached
    <2>3. owner' \in BOOLEAN
      BY <2>1, Zenon
    <2>4. AwakeTypeOK'
      BY <2>1, <2>2, <2>3 DEF AwakeTypeOK
    <2>5. Spent' = Spent
      BY <2>1, <2>2, SameSpent
    <2>6. EpochInv' /\ SessionsAreWatched' /\ OwnerIsReleased'
      BY <2>1, <2>5 DEF EpochInv, SessionsAreWatched, OwnerIsReleased
    <2> QED BY <2>4, <2>6
  <1> QED BY <1>1, <1>2, <1>3, <1>4 DEF CallStep

\* The task of a session.
LEMMA TaskSteps ==
  ASSUME AwakeInv, NEW e \in Epochs, TaskStep(e)
  PROVE  AwakeInv'
  <1> USE DEF AwakeInv
  <1>t. /\ ka \in KaType /\ ka.epoch \in Nat /\ task \in [Epochs -> TaskPcs]
        /\ ka.state \in {"idle", "pending", "active"}
    BY DEF AwakeTypeOK, KaType
  <1>u. UNCHANGED <<busy, call>> /\ Spent' = Spent
    BY DEF TaskStep, WaiterPolls, WaiterLooks, WaiterStarts, WaiterLaunches, WatcherPolls,
           WatcherExpires, WatcherReleases, Spent
  <1>k. ASSUME NEW pc \in TaskPcs, TaskAt(e, pc)
        PROVE  /\ task' \in [Epochs -> TaskPcs] /\ task'[e] = pc
               /\ \A f \in Epochs : f # e => task'[f] = task[f]
    BY <1>t, <1>k DEF TaskAt
  \* A step that changes neither the session nor the registration.
  <1>q. ASSUME NEW pc \in TaskPcs, TaskAt(e, pc), UNCHANGED <<ka, owner>>, task[e] # "release",
               e = ka.epoch /\ ka.state = "pending" => pc \in {"waiting", "looking", "starting"},
               e = ka.epoch /\ ka.state = "active" => pc \in {"launch", "watching", "expired"}
        PROVE  AwakeInv'
    <2>1. /\ task' \in [Epochs -> TaskPcs] /\ task'[e] = pc
          /\ \A f \in Epochs : f # e => task'[f] = task[f]
      BY <1>k, <1>q
    <2>2. AwakeTypeOK'
      BY <1>u, <1>q, <2>1 DEF AwakeTypeOK
    <2>3. EpochInv'
      BY <1>u, <1>q DEF EpochInv
    <2>4. ka.state # "idle" => ka.epoch \in Epochs
      BY EpochInRange
    <2>5. SessionsAreWatched'
      BY <1>q, <2>1, <2>4 DEF SessionsAreWatched
    <2>6. OwnerIsReleased'
      BY <1>u, <1>q, <2>1 DEF OwnerIsReleased
    <2> QED BY <2>2, <2>3, <2>5, <2>6
  <1>1. CASE WaiterPolls(e) \/ WaiterLooks(e)
    <2>1. PICK pc \in {"waiting", "looking", "starting", "done"} :
            TaskAt(e, pc) /\ (pc = "done" => ~Current(e, "pending"))
      BY <1>1 DEF WaiterPolls, WaiterLooks
    <2>2. task[e] \in {"waiting", "looking"} /\ UNCHANGED <<ka, owner>>
      BY <1>1 DEF WaiterPolls, WaiterLooks
    <2>3. ~(e = ka.epoch /\ ka.state = "active")
      BY <2>2 DEF SessionsAreWatched
    <2>4. pc \in TaskPcs
      BY DEF TaskPcs
    <2> QED BY <1>q, <2>1, <2>2, <2>3, <2>4 DEF Current
  <1>2. CASE WaiterStarts(e) /\ ~Current(e, "pending")
    <2>1. TaskAt(e, "done") /\ UNCHANGED <<ka, owner>> /\ task[e] = "starting"
      BY <1>2 DEF WaiterStarts
    <2>2. ~(e = ka.epoch /\ ka.state = "active")
      BY <2>1 DEF SessionsAreWatched
    <2>3. "done" \in TaskPcs
      BY DEF TaskPcs
    <2> QED BY <1>2, <1>q, <2>1, <2>2, <2>3 DEF Current
  <1>3. CASE WaiterStarts(e) /\ Current(e, "pending")
    <2>1. /\ ka' \in KaType /\ ka'.state = "active" /\ ka'.epoch = ka.epoch /\ ka.epoch = e
          /\ UNCHANGED owner /\ ka.state = "pending"
      BY <1>3, <1>t DEF WaiterStarts, Current, KaType
    <2>2. task' \in [Epochs -> TaskPcs] /\ task'[e] = "launch"
      <3>1. TaskAt(e, "launch") /\ "launch" \in TaskPcs
        BY <1>3 DEF WaiterStarts, TaskPcs
      <3> QED BY <1>k, <3>1
    <2>3. AwakeTypeOK'
      BY <1>u, <2>1, <2>2 DEF AwakeTypeOK
    <2>4. EpochInv'
      BY <1>u, <2>1 DEF EpochInv
    <2>5. SessionsAreWatched' /\ OwnerIsReleased'
      BY <2>1, <2>2 DEF SessionsAreWatched, OwnerIsReleased
    <2> QED BY <2>3, <2>4, <2>5
  <1>4. CASE WaiterLaunches(e)
    <2>1. TaskAt(e, "watching") /\ UNCHANGED <<ka, owner>> /\ task[e] = "launch"
      BY <1>4 DEF WaiterLaunches
    <2>2. ~(e = ka.epoch /\ ka.state = "pending") /\ "watching" \in TaskPcs
      BY <2>1 DEF SessionsAreWatched, TaskPcs
    <2> QED BY <1>q, <2>1, <2>2
  <1>5. CASE WatcherPolls(e)
    <2>1. PICK pc \in {"watching", "expired", "done"} :
            TaskAt(e, pc) /\ (pc = "done" => ~Current(e, "active"))
      BY <1>5 DEF WatcherPolls
    <2>2. task[e] = "watching" /\ UNCHANGED <<ka, owner>>
      BY <1>5 DEF WatcherPolls
    <2>3. ~(e = ka.epoch /\ ka.state = "pending")
      BY <2>2 DEF SessionsAreWatched
    <2>4. pc \in TaskPcs
      BY DEF TaskPcs
    <2> QED BY <1>q, <2>1, <2>2, <2>3, <2>4 DEF Current
  <1>6. CASE WatcherExpires(e) /\ ~Current(e, "active")
    <2>1. TaskAt(e, "done") /\ UNCHANGED <<ka, owner>> /\ task[e] = "expired"
      BY <1>6 DEF WatcherExpires
    <2>2. ~(e = ka.epoch /\ ka.state = "pending") /\ "done" \in TaskPcs
      BY <2>1 DEF SessionsAreWatched, TaskPcs
    <2> QED BY <1>6, <1>q, <2>1, <2>2 DEF Current
  <1>7. CASE WatcherExpires(e) /\ Current(e, "active")
    <2>1. /\ ka' \in KaType /\ ka'.state = "idle" /\ ka'.epoch = ka.epoch + 1
          /\ UNCHANGED owner /\ ka.state = "active"
      BY <1>7, <1>t, EndedFacts DEF WatcherExpires, Current
    <2>2. task' \in [Epochs -> TaskPcs] /\ task'[e] = "release"
      <3>1. TaskAt(e, "release") /\ "release" \in TaskPcs
        BY <1>7 DEF WatcherExpires, TaskPcs
      <3> QED BY <1>k, <3>1
    <2>3. AwakeTypeOK'
      BY <1>u, <2>1, <2>2 DEF AwakeTypeOK
    <2>4. EpochInv'
      BY <1>u, <2>1 DEF EpochInv
    <2>5. SessionsAreWatched' /\ OwnerIsReleased'
      BY <2>1, <2>2 DEF SessionsAreWatched, OwnerIsReleased
    <2> QED BY <2>3, <2>4, <2>5
  <1>8. CASE WatcherReleases(e)
    <2>1. TaskAt(e, "done") /\ UNCHANGED ka /\ owner' = FALSE /\ task[e] = "release"
      BY <1>8 DEF WatcherReleases
    <2>2. /\ task' \in [Epochs -> TaskPcs]
          /\ \A f \in Epochs : f # e => task'[f] = task[f]
      <3>1. "done" \in TaskPcs
        BY DEF TaskPcs
      <3> QED BY <1>k, <2>1, <3>1
    <2>3. owner' \in BOOLEAN
      BY <2>1, Zenon
    <2>4. AwakeTypeOK'
      BY <1>u, <2>1, <2>2, <2>3 DEF AwakeTypeOK
    <2>5. EpochInv' /\ OwnerIsReleased'
      BY <1>u, <2>1 DEF EpochInv, OwnerIsReleased
    <2>6. ka.state # "idle" => ka.epoch \in Epochs
      BY EpochInRange
    <2>7. SessionsAreWatched'
      BY <2>1, <2>2, <2>6 DEF SessionsAreWatched
    <2> QED BY <2>4, <2>5, <2>7
  <1> QED BY <1>1, <1>2, <1>3, <1>4, <1>5, <1>6, <1>7, <1>8 DEF TaskStep

LEMMA AwakeNextInv == AwakeInv /\ [KeepAwakeNext]_kaVars => AwakeInv'
  <1> SUFFICES ASSUME AwakeInv, [KeepAwakeNext]_kaVars PROVE AwakeInv'
    OBVIOUS
  <1> USE DEF AwakeInv
  <1>1. CASE UNCHANGED kaVars
    BY <1>1 DEF kaVars, AwakeTypeOK, EpochInv, Spent, SessionsAreWatched, OwnerIsReleased
  <1>2. CASE DurationPasses
    <2>1. /\ UNCHANGED <<owner, busy, call, task>>
          /\ ka' \in KaType /\ ka'.state = ka.state /\ ka'.epoch = ka.epoch
      BY <1>2 DEF DurationPasses, AwakeTypeOK, KaType
    <2> QED BY <2>1 DEF AwakeTypeOK, EpochInv, Spent, SessionsAreWatched, OwnerIsReleased
  <1>3. CASE BusyBegins \/ BusyEnds
    <2>1. UNCHANGED <<ka, owner, call, task>>
      BY <1>3 DEF BusyBegins, BusyEnds
    <2>2. busy' \in BOOLEAN
      BY <1>3, Zenon DEF BusyBegins, BusyEnds
    <2> QED BY <2>1, <2>2 DEF AwakeTypeOK, EpochInv, Spent, SessionsAreWatched, OwnerIsReleased
  <1> QED BY <1>1, <1>2, <1>3, CallSteps, TaskSteps DEF KeepAwakeNext

\* Every session has the task of its own epoch at work on it, however calls,
\* expiry and the waiter interleave, for any number of calls (keep_awake.rs).
THEOREM SessionsHaveTheirTask == KeepAwakeSpec => []SessionsAreWatched
  <1>1. AwakeInv => SessionsAreWatched
    BY DEF AwakeInv
  <1> QED BY <1>1, AwakeInitInv, AwakeNextInv, PTL DEF KeepAwakeSpec

\* The registration that keeps the car awake is released by whoever ended the
\* session (awake_stop's owners).
THEOREM RegistrationEnds == KeepAwakeSpec => []OwnerIsReleased
  <1>1. AwakeInv => OwnerIsReleased
    BY DEF AwakeInv
  <1> QED BY <1>1, AwakeInitInv, AwakeNextInv, PTL DEF KeepAwakeSpec
=============================================================================
