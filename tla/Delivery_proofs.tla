--------------------------- MODULE Delivery_proofs ---------------------------
(***************************************************************************)
(* Proofs about what the Pi sends and may have to send again: the retry    *)
(* queue of mobile pushes (PushRetry) and the charge sweep (ChargeSweep),  *)
(* for every number of pushes, sessions, imports, deletions and troubles.  *)
(***************************************************************************)
EXTENDS PushRetry, ChargeSweep, WellFoundedInduction, TLAPS

\* A set of numbers that is not empty has a least one, which Min returns.
LEMMA MinFacts ==
  ASSUME NEW T, T \subseteq Nat, T # {}
  PROVE  Min(T) \in T /\ \A y \in T : Min(T) <= y
  <1> DEFINE R == {ss \in Nat \X Nat : ss[1] < ss[2]}
  <1>1. IsWellFoundedOn(R, Nat)
    BY NatLessThanWellFounded DEF OpToRel
  <1> HIDE DEF R
  <1>2. PICK x \in T : \A y \in T : ~(<<y, x>> \in R)
    BY <1>1, WFMin
  <1>3. ASSUME NEW y \in T PROVE x <= y
    <2>1. <<y, x>> \in R <=> y < x
      BY DEF R
    <2> QED BY <1>2, <2>1
  <1> QED BY <1>3 DEF Min

\* A bounded one has a greatest one, which Max returns.
LEMMA MaxFacts ==
  ASSUME NEW N \in Nat, NEW T, T \subseteq 0..N, T # {}
  PROVE  Max(T) \in T /\ \A y \in T : Max(T) >= y
  <1> DEFINE D == {N - y : y \in T}
  <1>1. D \subseteq Nat /\ D # {}
    <2>1. PICK t \in T : TRUE
      OBVIOUS
    <2>2. N - t \in D
      BY <2>1
    <2> QED BY <2>2
  <1>2. PICK x \in T : Min(D) = N - x
    BY <1>1, MinFacts
  <1>3. ASSUME NEW y \in T PROVE x >= y
    <2>1. N - y \in D
      OBVIOUS
    <2>2. Min(D) <= N - y
      BY <1>1, <2>1, MinFacts
    <2> QED BY <1>2, <2>2
  <1> QED BY <1>3 DEF Max

-----------------------------------------------------------------------------
(* PushRetry.  One worker at a time holds the queue's flag.  A queued push was *)
(* never taken by the server, but for the one the worker has just sent and     *)
(* heard of; it is forgotten in the critical section that follows.             *)

\* A push is in the hands of its dispatch until that failed for certain.
BornInv ==
  \A n \in Pushes :
    /\ dispatch[n] # "unborn" => push[n].kind \in Kinds
    /\ dispatch[n] \in {"unborn", "out"} => push[n].taken = 0

\* At most one worker, and only while the flag is up.
OneWorkerInv ==
  /\ \A w \in Pushes : worker[w].pc # "none" => running
  /\ \A v, w \in Pushes : worker[v].pc # "none" /\ worker[w].pc # "none" => v = w

\* The push the worker has chosen was queued once.
HeldInv ==
  \A w \in Pushes :
    worker[w].pc \in {"chosen", "out", "taken"} =>
      /\ worker[w].held \in Pushes
      /\ dispatch[worker[w].held] \in {"kept", "done"}
      /\ worker[w].pc = "out" => push[worker[w].held].taken = 0

QueueInv ==
  \A k \in Kinds :
    pending[k] # 0 =>
      /\ push[pending[k]].kind = k
      /\ dispatch[pending[k]] \in {"kept", "done"}
      /\ delivered[k] < pending[k]
      /\ \/ push[pending[k]].taken = 0
         \/ \E w \in Pushes : worker[w].pc = "taken" /\ worker[w].held = pending[k]

PushInv == PushTypeOK /\ BornInv /\ OneWorkerInv /\ HeldInv /\ QueueInv /\ PushTakenOnce

PushType == [kind : Kinds \cup {"none"}, at : 0..MaxUptime, taken : Nat]
WorkerType == [pc : {"none", "asleep", "chosen", "out", "taken"}, held : 0..MaxPushes]

\* Numbers of pushes, and the worker that is not there.
LEMMA PushFacts ==
  /\ \A n \in 0..MaxPushes : n \in Nat /\ (n # 0 <=> n \in Pushes)
  /\ 0 \in 0..MaxPushes /\ Pushes \subseteq 0..MaxPushes
  /\ Nobody \in WorkerType /\ Nobody.pc = "none"
  BY PushAssumption DEF Pushes, Nobody, WorkerType

\* A worker's step changes that worker only.
LEMMA MoveFacts ==
  ASSUME worker \in [Pushes -> WorkerType], NEW w \in Pushes, NEW n \in 0..MaxPushes,
         NEW pc \in {"none", "asleep", "chosen", "out", "taken"}, Move(w, pc, n)
  PROVE  /\ worker' \in [Pushes -> WorkerType]
         /\ worker'[w].pc = pc /\ worker'[w].held = n
         /\ \A v \in Pushes : v # w => worker'[v] = worker[v]
  BY DEF Move, WorkerType

\* A recorded delivery drops what is not newer from the queue, and leaves the
\* rest ahead of what was delivered.
LEMMA RecordFacts ==
  ASSUME PushTypeOK, QueueInv, NEW n \in Pushes, push[n].kind \in Kinds, RecordDelivered(n)
  PROVE  /\ pending' \in [Kinds -> 0..MaxPushes] /\ delivered' \in [Kinds -> 0..MaxPushes]
         /\ \A k \in Kinds : pending'[k] # 0 =>
              pending'[k] = pending[k] /\ delivered'[k] < pending'[k]
         /\ pending'[push[n].kind] # n
  <1> USE PushAssumption DEF PushTypeOK, RecordDelivered, Pushes
  <1>1. pending' \in [Kinds -> 0..MaxPushes] /\ delivered' \in [Kinds -> 0..MaxPushes]
    OBVIOUS
  <1>2. /\ pending'[push[n].kind] = IF pending[push[n].kind] <= n THEN 0
                                    ELSE pending[push[n].kind]
        /\ delivered'[push[n].kind] = IF delivered[push[n].kind] < n THEN n
                                      ELSE delivered[push[n].kind]
        /\ \A k \in Kinds : k # push[n].kind =>
             pending'[k] = pending[k] /\ delivered'[k] = delivered[k]
    OBVIOUS
  <1>3. \A k \in Kinds : pending[k] # 0 => delivered[k] < pending[k]
    BY DEF QueueInv
  <1>4. \A k \in Kinds : pending[k] \in Nat /\ delivered[k] \in Nat
    OBVIOUS
  <1> HIDE DEF PushTypeOK, RecordDelivered
  <1> QED BY <1>1, <1>2, <1>3, <1>4

LEMMA PushInitInv == PushInit => PushInv
  <1> SUFFICES ASSUME PushInit PROVE PushInv
    OBVIOUS
  <1>1. PushTypeOK
    <2>1. push \in [Pushes -> PushType] /\ \A n \in Pushes : push[n].taken = 0
      BY PushAssumption DEF PushInit, Unborn, PushType
    <2>2. worker \in [Pushes -> WorkerType] /\ \A n \in Pushes : worker[n].pc = "none"
      BY PushFacts DEF PushInit
    <2>3. dispatch \in [Pushes -> {"unborn", "out", "taken", "kept", "done"}]
      BY DEF PushInit
    <2>5. running \in BOOLEAN
      BY Zenon DEF PushInit
    <2>6. uptime \in 0..MaxUptime
      BY PushAssumption DEF PushInit
    <2>4. pending \in [Kinds -> 0..MaxPushes] /\ delivered \in [Kinds -> 0..MaxPushes]
      BY PushFacts DEF PushInit
    <2> QED BY <2>1, <2>2, <2>3, <2>4, <2>5, <2>6 DEF PushTypeOK, PushType, WorkerType
  <1>2. \A n \in Pushes : push[n].taken = 0 /\ worker[n].pc = "none"
    BY PushFacts DEF PushInit, Unborn
  <1> QED
    BY <1>1, <1>2 DEF PushInit, PushInv, BornInv, OneWorkerInv, HeldInv, QueueInv, PushTakenOnce

\* A dispatch and its answer.
LEMMA DispatchSteps ==
  ASSUME PushInv, NEW n \in Pushes,
         \/ \E k \in Kinds : Dispatch(n, k)
         \/ DispatchTaken(n) \/ AfterDispatchOk(n) \/ AfterDispatchNeverSent(n)
         \/ AfterDispatchUnclear(n)
  PROVE  PushInv'
  <1> USE DEF PushInv
  <1>t. /\ push \in [Pushes -> PushType] /\ worker \in [Pushes -> WorkerType]
        /\ dispatch \in [Pushes -> {"unborn", "out", "taken", "kept", "done"}]
        /\ pending \in [Kinds -> 0..MaxPushes] /\ delivered \in [Kinds -> 0..MaxPushes]
        /\ uptime \in 0..MaxUptime /\ running \in BOOLEAN
    BY DEF PushTypeOK, PushType, WorkerType
  <1>o. ASSUME UNCHANGED worker, UNCHANGED running PROVE OneWorkerInv'
    BY <1>o DEF OneWorkerInv
  <1>1. ASSUME NEW k \in Kinds, Dispatch(n, k) PROVE PushInv'
    <2>1. /\ push' \in [Pushes -> PushType] /\ push'[n].kind = k /\ push'[n].taken = 0
          /\ \A m \in Pushes : m # n => push'[m] = push[m]
      BY <1>1, <1>t DEF Dispatch, PushType
    <2>2. /\ dispatch' \in [Pushes -> {"unborn", "out", "taken", "kept", "done"}]
          /\ dispatch[n] = "unborn" /\ dispatch'[n] = "out"
          /\ \A m \in Pushes : m # n => dispatch'[m] = dispatch[m]
      BY <1>1, <1>t DEF Dispatch
    <2>3. UNCHANGED <<uptime, pending, delivered, running, worker>>
      BY <1>1 DEF Dispatch
    <2>4. PushTypeOK'
      BY <2>1, <2>2, <2>3 DEF PushTypeOK, PushType
    <2>5. BornInv' /\ PushTakenOnce'
      BY <2>1, <2>2 DEF BornInv, PushTakenOnce
    <2>6. HeldInv'
      BY <2>1, <2>2, <2>3 DEF HeldInv
    <2>7. QueueInv'
      BY <2>1, <2>2, <2>3, <1>t, PushFacts DEF QueueInv
    <2> QED BY <2>3, <2>4, <2>5, <2>6, <2>7, <1>o
  <1>2. CASE DispatchTaken(n)
    <2>1. /\ push' \in [Pushes -> PushType] /\ push'[n].kind = push[n].kind
          /\ push'[n].taken = push[n].taken + 1
          /\ \A m \in Pushes : m # n => push'[m] = push[m]
      BY <1>2, <1>t DEF DispatchTaken, PushType
    <2>2. /\ dispatch' \in [Pushes -> {"unborn", "out", "taken", "kept", "done"}]
          /\ dispatch[n] = "out" /\ dispatch'[n] = "taken"
          /\ \A m \in Pushes : m # n => dispatch'[m] = dispatch[m]
      BY <1>2, <1>t DEF DispatchTaken
    <2>3. UNCHANGED <<uptime, pending, delivered, running, worker>>
      BY <1>2 DEF DispatchTaken
    <2>4. PushTypeOK'
      BY <2>1, <2>2, <2>3 DEF PushTypeOK, PushType
    <2>5. BornInv' /\ PushTakenOnce'
      BY <2>1, <2>2 DEF BornInv, PushTakenOnce
    <2>6. HeldInv'
      BY <2>1, <2>2, <2>3 DEF HeldInv
    <2>7. QueueInv'
      BY <2>1, <2>2, <2>3, <1>t, PushFacts DEF QueueInv
    <2> QED BY <2>3, <2>4, <2>5, <2>6, <2>7, <1>o
  <1>3. CASE AfterDispatchOk(n)
    <2>2. /\ dispatch' \in [Pushes -> {"unborn", "out", "taken", "kept", "done"}]
          /\ dispatch[n] = "taken" /\ dispatch'[n] = "done"
          /\ \A m \in Pushes : m # n => dispatch'[m] = dispatch[m]
      BY <1>3, <1>t DEF AfterDispatchOk
    <2>3. UNCHANGED <<uptime, push, running, worker>>
      BY <1>3 DEF AfterDispatchOk
    <2>4. /\ pending' \in [Kinds -> 0..MaxPushes] /\ delivered' \in [Kinds -> 0..MaxPushes]
          /\ \A k \in Kinds : pending'[k] # 0 =>
               pending'[k] = pending[k] /\ delivered'[k] < pending'[k]
      BY <1>3, <2>2, RecordFacts DEF AfterDispatchOk, BornInv
    <2>5. PushTypeOK'
      BY <2>2, <2>3, <2>4 DEF PushTypeOK
    <2>6. BornInv' /\ PushTakenOnce' /\ HeldInv'
      BY <2>2, <2>3 DEF BornInv, PushTakenOnce, HeldInv
    <2>7. QueueInv'
      BY <2>2, <2>3, <2>4, <1>t, PushFacts DEF QueueInv
    <2> QED BY <2>3, <2>5, <2>6, <2>7, <1>o
  <1>4. CASE AfterDispatchNeverSent(n)
    <2>1. push[n].kind \in Kinds /\ push[n].taken = 0 /\ dispatch[n] = "out"
      BY <1>4 DEF AfterDispatchNeverSent, BornInv
    <2>2. /\ dispatch' \in [Pushes -> {"unborn", "out", "taken", "kept", "done"}]
          /\ dispatch'[n] \in {"kept", "done"}
          /\ \A m \in Pushes : m # n => dispatch'[m] = dispatch[m]
      BY <1>4, <1>t DEF AfterDispatchNeverSent
    <2>3. UNCHANGED <<uptime, push, delivered, running, worker>>
      BY <1>4 DEF AfterDispatchNeverSent
    <2>4. pending' \in [Kinds -> 0..MaxPushes]
      BY <1>4, <1>t, <2>1, PushFacts DEF AfterDispatchNeverSent
    <2>5. PushTypeOK'
      BY <2>2, <2>3, <2>4 DEF PushTypeOK
    <2>6. BornInv' /\ PushTakenOnce' /\ HeldInv'
      BY <2>1, <2>2, <2>3 DEF BornInv, PushTakenOnce, HeldInv
    <2>7. QueueInv'
      <3>1. CASE Kept(n)
        <4>1. /\ pending'[push[n].kind] = n /\ delivered[push[n].kind] < n
              /\ \A k \in Kinds : k # push[n].kind => pending'[k] = pending[k]
          BY <1>4, <3>1, <2>1, <1>t DEF AfterDispatchNeverSent, Kept
        <4> QED BY <4>1, <2>1, <2>2, <2>3, <1>t, PushFacts DEF QueueInv
      <3>2. CASE ~Kept(n)
        <4>1. pending' = pending
          BY <1>4, <3>2 DEF AfterDispatchNeverSent
        <4> QED BY <4>1, <2>1, <2>2, <2>3, <1>t, PushFacts DEF QueueInv
      <3> QED BY <3>1, <3>2
    <2> QED BY <2>3, <2>5, <2>6, <2>7, <1>o
  <1>5. CASE AfterDispatchUnclear(n)
    <2>2. /\ dispatch' \in [Pushes -> {"unborn", "out", "taken", "kept", "done"}]
          /\ dispatch[n] \in {"out", "taken"} /\ dispatch'[n] = "done"
          /\ \A m \in Pushes : m # n => dispatch'[m] = dispatch[m]
      BY <1>5, <1>t DEF AfterDispatchUnclear
    <2>3. UNCHANGED <<uptime, push, pending, delivered, running, worker>>
      BY <1>5 DEF AfterDispatchUnclear
    <2>5. PushTypeOK'
      BY <2>2, <2>3 DEF PushTypeOK
    <2>6. BornInv' /\ PushTakenOnce' /\ HeldInv'
      BY <2>2, <2>3 DEF BornInv, PushTakenOnce, HeldInv
    <2>7. QueueInv'
      BY <2>2, <2>3, <1>t, PushFacts DEF QueueInv
    <2> QED BY <2>3, <2>5, <2>6, <2>7, <1>o
  <1> QED BY <1>1, <1>2, <1>3, <1>4, <1>5

\* What every step of a worker on its own leaves to show: how the queue shrank,
\* and where the worker stands.
WorkerMoves(w) ==
  /\ UNCHANGED <<uptime, dispatch>>
  /\ worker[w].pc # "none" /\ running' = running
  /\ worker' \in [Pushes -> WorkerType]
  /\ \A v \in Pushes : v # w => worker'[v] = worker[v]
  /\ pending' \in [Kinds -> 0..MaxPushes] /\ delivered' \in [Kinds -> 0..MaxPushes]
  /\ \A k \in Kinds : pending'[k] # 0 =>
       pending'[k] = pending[k] /\ delivered'[k] < pending'[k]

\* A worker that moves without a push reaching the server keeps the invariant,
\* when it leaves no taken push behind in the queue.
LEMMA QuietMoves ==
  ASSUME PushInv, NEW w \in Pushes, WorkerMoves(w), UNCHANGED push,
         worker'[w].pc \in {"asleep", "chosen", "out"},
         worker'[w].pc \in {"chosen", "out"} =>
           worker'[w].held \in Pushes /\ dispatch[worker'[w].held] \in {"kept", "done"},
         worker'[w].pc = "out" => push[worker'[w].held].taken = 0,
         worker[w].pc = "taken" => pending'[push[worker[w].held].kind] # worker[w].held
  PROVE  PushInv'
  <1> USE DEF PushInv
  <1>1. PushTypeOK'
    BY DEF PushTypeOK, WorkerMoves, WorkerType
  <1>2. BornInv' /\ PushTakenOnce'
    BY DEF BornInv, PushTakenOnce, WorkerMoves
  <1>3. OneWorkerInv'
    BY DEF OneWorkerInv, WorkerMoves
  <1>4. HeldInv'
    <2> SUFFICES ASSUME NEW v \in Pushes, worker'[v].pc \in {"chosen", "out", "taken"}
                 PROVE  /\ worker'[v].held \in Pushes
                        /\ dispatch[worker'[v].held] \in {"kept", "done"}
                        /\ worker'[v].pc = "out" => push[worker'[v].held].taken = 0
      BY DEF HeldInv, WorkerMoves
    <2>1. CASE v = w
      BY <2>1
    <2>2. CASE v # w
      BY <2>2 DEF HeldInv, WorkerMoves
    <2> QED BY <2>1, <2>2
  <1>5. QueueInv'
    <2> SUFFICES ASSUME NEW k \in Kinds, pending'[k] # 0
                 PROVE  /\ push[pending'[k]].kind = k
                        /\ dispatch[pending'[k]] \in {"kept", "done"}
                        /\ delivered'[k] < pending'[k]
                        /\ push[pending'[k]].taken = 0
      BY DEF QueueInv, WorkerMoves
    <2>1. pending'[k] = pending[k] /\ delivered'[k] < pending'[k]
      BY DEF WorkerMoves
    <2>2. /\ push[pending[k]].kind = k /\ dispatch[pending[k]] \in {"kept", "done"}
          /\ \/ push[pending[k]].taken = 0
             \/ \E v \in Pushes : worker[v].pc = "taken" /\ worker[v].held = pending[k]
      BY <2>1 DEF QueueInv
    <2>3. ASSUME NEW v \in Pushes, worker[v].pc = "taken", worker[v].held = pending[k]
          PROVE FALSE
      <3>1. v = w
        BY <2>3 DEF OneWorkerInv, WorkerMoves
      <3> QED BY <2>1, <2>2, <2>3, <3>1
    <2> QED BY <2>1, <2>2, <2>3
  <1> QED BY <1>1, <1>2, <1>3, <1>4, <1>5

\* A push that leaves the queue leaves the others as they are.
LEMMA SentFacts ==
  ASSUME PushTypeOK, QueueInv, NEW n \in Pushes, push[n].kind \in Kinds, Sent(n)
  PROVE  /\ pending' \in [Kinds -> 0..MaxPushes] /\ delivered' \in [Kinds -> 0..MaxPushes]
         /\ \A k \in Kinds : pending'[k] # 0 =>
              pending'[k] = pending[k] /\ delivered'[k] < pending'[k]
         /\ pending'[push[n].kind] # n
  <1>1. /\ pending \in [Kinds -> 0..MaxPushes] /\ delivered \in [Kinds -> 0..MaxPushes]
        /\ 0 \in 0..MaxPushes /\ n # 0
    BY PushFacts DEF PushTypeOK
  <1>2. \A k \in Kinds : pending[k] # 0 => delivered[k] < pending[k]
    BY DEF QueueInv
  <1> QED BY <1>1, <1>2 DEF Sent, StillPending

\* The second critical section of after_dispatch.
LEMMA StartWorkerStep ==
  ASSUME PushInv, NEW n \in Pushes, StartWorker(n)
  PROVE  PushInv'
  <1> USE DEF PushInv
  <1>t. worker \in [Pushes -> WorkerType] /\ dispatch \in [Pushes -> {"unborn", "out", "taken", "kept", "done"}]
    BY DEF PushTypeOK, WorkerType
  <1>1. /\ dispatch' \in [Pushes -> {"unborn", "out", "taken", "kept", "done"}]
        /\ dispatch[n] = "kept" /\ dispatch'[n] = "done"
        /\ \A m \in Pushes : m # n => dispatch'[m] = dispatch[m]
    BY <1>t DEF StartWorker
  <1>2. UNCHANGED <<uptime, push, pending, delivered>> /\ running' = TRUE
    BY DEF StartWorker
  <1>3. /\ worker' \in [Pushes -> WorkerType]
        /\ \A v \in Pushes : v # n => worker'[v] = worker[v]
        /\ \/ worker'[n] = worker[n] /\ running
           \/ worker'[n].pc = "asleep" /\ ~running
    BY <1>t, PushFacts DEF StartWorker, WorkerType
  <1>4. PushTypeOK'
    BY <1>1, <1>2, <1>3 DEF PushTypeOK, WorkerType
  <1>5. BornInv' /\ PushTakenOnce'
    BY <1>1, <1>2 DEF BornInv, PushTakenOnce
  <1>6. OneWorkerInv'
    BY <1>2, <1>3 DEF OneWorkerInv
  <1>7. HeldInv'
    BY <1>1, <1>2, <1>3 DEF HeldInv
  <1>8. QueueInv'
    <2>1. \A k \in Kinds : pending[k] # 0 => pending[k] \in Pushes
      BY PushFacts DEF PushTypeOK
    <2>2. \A v \in Pushes : worker[v].pc = "taken" => worker'[v] = worker[v]
      BY <1>3 DEF OneWorkerInv
    <2> QED BY <1>1, <1>2, <2>1, <2>2 DEF QueueInv
  <1> QED BY <1>4, <1>5, <1>6, <1>7, <1>8

\* next_due: what it retains, and the push it chooses.
LEMMA WorkerDueStep ==
  ASSUME PushInv, NEW w \in Pushes, WorkerDue(w)
  PROVE  PushInv'
  <1> USE DEF PushInv
  <1> DEFINE due == {Retained[k] : k \in Kinds} \ {0}
  <1>t. worker \in [Pushes -> WorkerType] /\ pending \in [Kinds -> 0..MaxPushes]
        /\ delivered \in [Kinds -> 0..MaxPushes] /\ 0 \in 0..MaxPushes
    BY PushFacts DEF PushTypeOK, WorkerType
  <1>1. /\ pending' \in [Kinds -> 0..MaxPushes]
        /\ \A k \in Kinds : pending'[k] = Retained[k] /\ pending'[k] \in {0, pending[k]}
    BY <1>t DEF WorkerDue, Retained
  <1>2. UNCHANGED <<uptime, push, dispatch, delivered>> /\ worker[w].pc = "asleep"
    BY DEF WorkerDue
  <1>3. \A k \in Kinds : pending'[k] # 0 =>
          pending'[k] = pending[k] /\ delivered'[k] < pending'[k]
    BY <1>1, <1>2 DEF QueueInv
  <1>4. CASE due = {}
    <2>1. worker' = [worker EXCEPT ![w] = Nobody] /\ running' = FALSE
      BY <1>4 DEF WorkerDue
    <2>2. /\ worker' \in [Pushes -> WorkerType] /\ worker'[w].pc = "none"
          /\ \A v \in Pushes : v # w => worker'[v] = worker[v]
      BY <1>t, <2>1, PushFacts
    <2>3. \A v \in Pushes : worker'[v].pc = "none"
      BY <1>2, <2>2 DEF OneWorkerInv
    <2>4. \A k \in Kinds : pending'[k] = 0
      BY <1>1, <1>4
    <2>5. PushTypeOK'
      BY <1>1, <1>2, <2>1, <2>2 DEF PushTypeOK, WorkerType
    <2> QED BY <1>2, <2>3, <2>4, <2>5
            DEF BornInv, PushTakenOnce, OneWorkerInv, HeldInv, QueueInv
  <1>5. CASE due # {}
    <2>1. due \subseteq 0..MaxPushes
      BY <1>1
    <2>2. due \subseteq Nat
      BY <2>1, PushFacts
    <2>3. Min(due) \in due
      BY <1>5, <2>2, MinFacts
    <2>4. PICK k \in Kinds : Min(due) = pending'[k] /\ pending'[k] # 0
      BY <2>3, <1>1
    <2>5. Min(due) \in Pushes /\ dispatch[Min(due)] \in {"kept", "done"} /\ Min(due) \in 0..MaxPushes
      BY <1>t, <1>1, <2>4, PushFacts DEF QueueInv
    <2>6. Move(w, "chosen", Min(due)) /\ UNCHANGED running
      BY <1>5 DEF WorkerDue
    <2> HIDE DEF due
    <2>7. /\ worker' \in [Pushes -> WorkerType]
          /\ worker'[w].pc = "chosen" /\ worker'[w].held = Min(due)
          /\ \A v \in Pushes : v # w => worker'[v] = worker[v]
      BY <1>t, <2>5, <2>6, MoveFacts
    <2>8. WorkerMoves(w)
      BY <1>t, <1>1, <1>2, <1>3, <2>6, <2>7 DEF WorkerMoves
    <2> QED BY <1>2, <2>5, <2>7, <2>8, QuietMoves
  <1> QED BY <1>4, <1>5

\* The worker forgets, sends, or goes back to sleep.
LEMMA WorkerQuietSteps ==
  ASSUME PushInv, NEW w \in Pushes,
         WorkerTypeOff(w) \/ WorkerSend(w) \/ WorkerOk(w) \/ WorkerNeverSent(w)
         \/ WorkerGivesUp(w)
  PROVE  PushInv'
  <1> USE DEF PushInv
  <1> DEFINE n == worker[w].held
  <1>t. worker \in [Pushes -> WorkerType] /\ pending \in [Kinds -> 0..MaxPushes]
        /\ delivered \in [Kinds -> 0..MaxPushes] /\ 0 \in 0..MaxPushes
        /\ Pushes \subseteq 0..MaxPushes
    BY PushFacts DEF PushTypeOK, WorkerType
  <1>1. /\ UNCHANGED <<uptime, push, dispatch>> /\ running' = running
        /\ worker[w].pc \in {"chosen", "out", "taken"}
    BY DEF WorkerTypeOff, WorkerSend, WorkerOk, WorkerNeverSent, WorkerGivesUp
  <1>2. n \in Pushes /\ dispatch[n] \in {"kept", "done"} /\ push[n].kind \in Kinds
    BY <1>1 DEF HeldInv, BornInv
  <1>3. \A k \in Kinds : pending[k] # 0 => delivered[k] < pending[k]
    BY DEF QueueInv
  <1> HIDE DEF n
  <1>4. ASSUME Sent(n) \/ RecordDelivered(n), Move(w, "asleep", 0) PROVE PushInv'
    <2>1. /\ pending' \in [Kinds -> 0..MaxPushes] /\ delivered' \in [Kinds -> 0..MaxPushes]
          /\ \A k \in Kinds : pending'[k] # 0 =>
               pending'[k] = pending[k] /\ delivered'[k] < pending'[k]
          /\ pending'[push[n].kind] # n
      BY <1>2, <1>4, SentFacts, RecordFacts
    <2>2. /\ worker' \in [Pushes -> WorkerType] /\ worker'[w].pc = "asleep"
          /\ \A v \in Pushes : v # w => worker'[v] = worker[v]
      BY <1>t, <1>4, MoveFacts
    <2>3. WorkerMoves(w)
      BY <1>1, <2>1, <2>2 DEF WorkerMoves
    <2> QED BY <1>1, <2>1, <2>2, <2>3, QuietMoves DEF n
  <1>5. ASSUME UNCHANGED <<pending, delivered>>, Move(w, "asleep", 0), worker[w].pc # "taken"
        PROVE  PushInv'
    <2>2. /\ worker' \in [Pushes -> WorkerType] /\ worker'[w].pc = "asleep"
          /\ \A v \in Pushes : v # w => worker'[v] = worker[v]
      BY <1>t, <1>5, MoveFacts
    <2>3. WorkerMoves(w)
      BY <1>t, <1>1, <1>3, <1>5, <2>2 DEF WorkerMoves
    <2> QED BY <1>1, <1>5, <2>2, <2>3, QuietMoves
  <1>6. ASSUME WorkerSend(w), StillPending(n) PROVE PushInv'
    <2>1. UNCHANGED <<pending, delivered>> /\ Move(w, "out", n) /\ worker[w].pc = "chosen"
      BY <1>6 DEF WorkerSend, n
    <2>2. /\ worker' \in [Pushes -> WorkerType]
          /\ worker'[w].pc = "out" /\ worker'[w].held = n
          /\ \A v \in Pushes : v # w => worker'[v] = worker[v]
      BY <1>t, <1>2, <2>1, MoveFacts
    <2>3. WorkerMoves(w)
      BY <1>t, <1>1, <1>3, <2>1, <2>2 DEF WorkerMoves
    <2>4. pending[push[n].kind] = n /\ n # 0
      BY <1>2, <1>6, PushFacts DEF StillPending
    <2>5. push[n].taken = 0
      BY <1>2, <2>1, <2>4 DEF QueueInv, OneWorkerInv
    <2> QED BY <1>1, <1>2, <2>1, <2>2, <2>3, <2>5, QuietMoves
  <1>7. CASE WorkerSend(w) /\ ~StillPending(n)
    <2>1. UNCHANGED <<pending, delivered>> /\ Move(w, "asleep", 0) /\ worker[w].pc = "chosen"
      BY <1>7 DEF WorkerSend, n
    <2> QED BY <2>1, <1>5
  <1>8. CASE WorkerNeverSent(w)
    <2>1. UNCHANGED <<pending, delivered>> /\ Move(w, "asleep", 0) /\ worker[w].pc = "out"
      BY <1>8 DEF WorkerNeverSent
    <2> QED BY <2>1, <1>5
  <1>9. CASE WorkerTypeOff(w) \/ WorkerOk(w) \/ WorkerGivesUp(w)
    BY <1>9, <1>4 DEF WorkerTypeOff, WorkerOk, WorkerGivesUp, n
  <1> QED BY <1>6, <1>7, <1>8, <1>9

\* The server takes what the worker sends: the one push it has out was never taken.
LEMMA WorkerTakenStep ==
  ASSUME PushInv, NEW w \in Pushes, WorkerTaken(w)
  PROVE  PushInv'
  <1> USE DEF PushInv
  <1> DEFINE n == worker[w].held
  <1>t. worker \in [Pushes -> WorkerType] /\ push \in [Pushes -> PushType]
        /\ pending \in [Kinds -> 0..MaxPushes] /\ Pushes \subseteq 0..MaxPushes
    BY PushFacts DEF PushTypeOK, WorkerType, PushType
  <1>1. /\ UNCHANGED <<uptime, dispatch, pending, delivered, running>>
        /\ worker[w].pc = "out" /\ Move(w, "taken", n)
    BY DEF WorkerTaken
  <1>2. n \in Pushes /\ dispatch[n] \in {"kept", "done"} /\ push[n].taken = 0
    BY <1>1 DEF HeldInv
  <1>3. /\ push' \in [Pushes -> PushType] /\ push'[n].kind = push[n].kind
        /\ push'[n].taken = 1
        /\ \A m \in Pushes : m # n => push'[m] = push[m]
    BY <1>t, <1>2 DEF WorkerTaken, PushType
  <1> HIDE DEF n
  <1>4. /\ worker' \in [Pushes -> WorkerType]
        /\ worker'[w].pc = "taken" /\ worker'[w].held = n
        /\ \A v \in Pushes : v # w => worker'[v] = worker[v]
    BY <1>t, <1>1, <1>2, MoveFacts
  <1>5. PushTypeOK'
    BY <1>1, <1>3, <1>4 DEF PushTypeOK, WorkerType, PushType
  <1>6. BornInv' /\ PushTakenOnce'
    BY <1>1, <1>2, <1>3 DEF BornInv, PushTakenOnce
  <1>7. OneWorkerInv'
    BY <1>1, <1>4 DEF OneWorkerInv
  <1>8. HeldInv'
    <2>1. \A v \in Pushes : v # w => worker'[v].pc = "none"
      BY <1>1, <1>4 DEF OneWorkerInv
    <2> QED BY <1>1, <1>2, <1>4, <2>1 DEF HeldInv
  <1>9. QueueInv'
    <2>1. \A k \in Kinds : pending[k] # 0 => pending[k] \in Pushes
      BY <1>t, PushFacts
    <2>2. \A v \in Pushes : worker[v].pc = "taken" => worker'[v] = worker[v]
      BY <1>1, <1>4
    <2> QED BY <1>1, <1>3, <1>4, <2>1, <2>2 DEF QueueInv
  <1> QED BY <1>5, <1>6, <1>7, <1>8, <1>9

LEMMA PushNextInv == PushInv /\ [PushNext]_pushVars => PushInv'
  <1> SUFFICES ASSUME PushInv, [PushNext]_pushVars PROVE PushInv'
    OBVIOUS
  <1>1. CASE PushTick
    <2>1. UNCHANGED <<push, dispatch, pending, delivered, running, worker>>
      BY <1>1 DEF PushTick
    <2>2. uptime' \in 0..MaxUptime
      BY <1>1, PushAssumption DEF PushTick, PushInv, PushTypeOK
    <2>3. PushTypeOK'
      BY <2>1, <2>2 DEF PushInv, PushTypeOK
    <2> QED BY <2>1, <2>3
            DEF PushInv, BornInv, OneWorkerInv, HeldInv, QueueInv, PushTakenOnce
  <1>2. CASE UNCHANGED pushVars
    BY <1>2 DEF pushVars, PushInv, PushTypeOK, BornInv, OneWorkerInv, HeldInv, QueueInv,
                PushTakenOnce
  <1>3. ASSUME NEW n \in Pushes, WorkerStep(n) PROVE PushInv'
    BY <1>3, WorkerDueStep, WorkerQuietSteps, WorkerTakenStep DEF WorkerStep
  <1> QED BY <1>1, <1>2, <1>3, DispatchSteps, StartWorkerStep DEF PushNext

\* The queue, the dispatches and the worker keep their types.
THEOREM PushTypes == PushSpec => []PushTypeOK
  <1>1. PushInv => PushTypeOK
    BY DEF PushInv
  <1> QED BY <1>1, PushInitInv, PushNextInv, PTL DEF PushSpec

\* No push reaches the server twice, however many dispatches and workers there
\* are and whichever answers are lost (after_dispatch, run_worker).
THEOREM PushesAreTakenOnce == PushSpec => []PushTakenOnce
  <1>1. PushInv => PushTakenOnce
    BY DEF PushInv
  <1> QED BY <1>1, PushInitInv, PushNextInv, PTL DEF PushSpec

\* A step that puts a retry out is run_worker's send, after its re-check.
LEMMA OnlySendPutsOut ==
  ASSUME PushInv, PushNext, NEW w \in Pushes, worker[w].pc # "out", worker'[w].pc = "out"
  PROVE  WorkerSend(w) /\ StillPending(worker[w].held)
  <1>t. worker \in [Pushes -> WorkerType]
    BY DEF PushInv, PushTypeOK, WorkerType
  <1>1. ASSUME NEW v \in Pushes, WorkerSend(v)
        PROVE  v = w /\ StillPending(worker[v].held)
    BY <1>t, <1>1 DEF WorkerSend, Move
  <1>2. ASSUME NEW v \in Pushes, NEW r, r.pc # "out", worker' = [worker EXCEPT ![v] = r]
        PROVE  FALSE
    BY <1>t, <1>2
  <1>3. worker' # worker
    OBVIOUS
  <1>4. ASSUME NEW v \in Pushes, NEW n, NEW pc, pc # "out", Move(v, pc, n) PROVE FALSE
    <2>1. [pc |-> pc, held |-> n].pc # "out"
      BY <1>4
    <2> QED BY <1>2, <1>4, <2>1 DEF Move
  <1>5. ASSUME NEW v \in Pushes, WorkerStep(v) PROVE WorkerSend(v)
    <2>1. CASE WorkerDue(v)
      BY <2>1, <1>2, <1>4, PushFacts DEF WorkerDue
    <2>2. CASE WorkerTypeOff(v) \/ WorkerOk(v) \/ WorkerNeverSent(v) \/ WorkerGivesUp(v)
      BY <2>2, <1>4 DEF WorkerTypeOff, WorkerOk, WorkerNeverSent, WorkerGivesUp
    <2>3. CASE WorkerTaken(v)
      BY <2>3, <1>4 DEF WorkerTaken
    <2> QED BY <1>5, <2>1, <2>2, <2>3 DEF WorkerStep
  <1>6. ASSUME NEW v \in Pushes, StartWorker(v) PROVE FALSE
    BY <1>2, <1>3, <1>6 DEF StartWorker
  <1>7. \E v \in Pushes : WorkerStep(v)
    BY <1>3, <1>6 DEF PushNext, PushTick, Dispatch, DispatchTaken, AfterDispatchOk,
       AfterDispatchNeverSent, AfterDispatchUnclear
  <1> QED BY <1>1, <1>5, <1>7

\* A retry is only ever begun for the newest push of its type: the re-check of
\* run_worker is enough, whatever happened since the push was chosen.
THEOREM RetriesAreNewest == PushSpec => RetryIsNewest
  <1>1. ASSUME PushInv, [PushNext]_pushVars, NEW w \in Pushes,
               worker[w].pc # "out", worker'[w].pc = "out"
        PROVE  LET n == worker'[w].held IN
                 delivered[push[n].kind] < n /\ pending[push[n].kind] = n
    <2>1. PushNext
      BY <1>1 DEF pushVars
    <2>2. WorkerSend(w) /\ StillPending(worker[w].held)
      BY <1>1, <2>1, OnlySendPutsOut
    <2>3. /\ worker[w].held \in Pushes /\ push[worker[w].held].kind \in Kinds
          /\ worker[w].held # 0
      BY <1>1, <2>2, PushFacts DEF WorkerSend, PushInv, HeldInv, BornInv
    <2>4. worker'[w].held = worker[w].held
      BY <1>1, <2>2 DEF WorkerSend, Move, PushInv, PushTypeOK
    <2> QED BY <1>1, <2>2, <2>3, <2>4 DEF StillPending, PushInv, QueueInv
  <1>2. PushInv /\ [PushNext]_pushVars =>
          [\A w \in Pushes :
             worker[w].pc # "out" /\ worker'[w].pc = "out" =>
               LET n == worker'[w].held IN
                 delivered[push[n].kind] < n /\ pending[push[n].kind] = n]_pushVars
    BY <1>1
  <1> QED BY <1>2, PushInitInv, PushNextInv, PTL DEF PushSpec, RetryIsNewest

-----------------------------------------------------------------------------
(* ChargeSweep.  A sweep reads the cursor, the uploads and the rows in three   *)
(* transactions and stores its frontier in a fourth, under the token it read   *)
(* first.  The invariant says what those reads still mean when the token       *)
(* matches: whatever has changed behind them was imported behind the sweep's   *)
(* back, or is newer than every row it saw.                                    *)

\* The sweep has read the cursor and not stored its frontier yet.
Reading == sweep.pc \in {"uploads", "rows", "frontier"}

\* Nothing the sweeps, the uploads or the rows speak of is newer than newest.
NewestInv ==
  \A t \in Sessions :
    \/ local[t] # "none" \/ mark[t] # "none" \/ outbox[t] # "none" \/ t \in sweep.ups
    \/ sweep.rows[t] # "none" \/ t \in sweep.todo
    => t <= newest

\* The cursor is unset, or a session there has been.
CursorInv == cursor <= newest

\* The cursor is still the token, unless an import has unset it.
TokenInv == Reading => cursor \in {0, sweep.token} /\ sweep.from \in {0, sweep.token}

\* The token still tells: no import can have come in between but one that the
\* code cannot tell from none.
Vouched == Reading /\ cursor = sweep.token /\ (importing # 0 => sweep.token = 0)

\* A session whose mark was read has it, unless it was deleted and re-imported.
UploadsInv ==
  Vouched => \A t \in sweep.ups : local[t] # "none" /\ mark[t] = "none" => t \in slipped

\* A session that was not there when the rows were read is newer than all of
\* them, or was imported.
RowsInv ==
  Vouched /\ sweep.pc = "frontier" =>
    \A t, s \in Sessions :
      /\ t >= sweep.from /\ sweep.rows[t] = "none" /\ local[t] # "none"
      /\ sweep.rows[s] # "none" /\ t <= s
      => t \in slipped

ChargeInv ==
  /\ ChargeTypeOK /\ NewestInv /\ CursorInv /\ TokenInv /\ UploadsInv /\ RowsInv
  /\ CursorWaits

SweepType ==
  [pc : {"idle", "uploads", "rows", "frontier", "outbox", "post", "ack",
         "deletes", "delete", "settle"},
   token : 0..MaxSession, dated : BOOLEAN, from : 0..MaxSession,
   ups : SUBSET Sessions, rows : [Sessions -> {"none", "open", "closed"}],
   todo : SUBSET Sessions, settled : SUBSET Sessions]

\* The numbers of sessions, and the sweep that does not run.
LEMMA SessionFacts ==
  /\ MaxSession \in Nat /\ 0 \in 0..MaxSession /\ Sessions \subseteq 0..MaxSession
  /\ 0 \notin Sessions /\ \A t \in 0..MaxSession : t \in Nat
  /\ NoSweep \in SweepType
  /\ NoSweep.pc = "idle" /\ NoSweep.token = 0 /\ NoSweep.dated = FALSE /\ NoSweep.from = 0
  /\ NoSweep.ups = {} /\ NoSweep.todo = {} /\ NoSweep.settled = {}
  /\ \A t \in Sessions : NoSweep.rows[t] = "none"
  <1>1. /\ MaxSession \in Nat /\ 0 \in 0..MaxSession /\ Sessions \subseteq 0..MaxSession
        /\ 0 \notin Sessions
    BY ChargeAssumption DEF Sessions
  <1>2. [t \in Sessions |-> "none"] \in [Sessions -> {"none", "open", "closed"}]
    OBVIOUS
  <1> DEFINE R == [t \in Sessions |-> "none"]
  <1>3. \A t \in Sessions : R[t] = "none"
    OBVIOUS
  <1>4. NoSweep = [pc |-> "idle", token |-> 0, dated |-> FALSE, from |-> 0,
                   ups |-> {}, rows |-> R, todo |-> {}, settled |-> {}]
    BY DEF NoSweep
  <1> HIDE DEF R
  <1>5. R \in [Sessions -> {"none", "open", "closed"}]
    BY <1>2 DEF R
  <1>6. NoSweep \in SweepType
    BY <1>1, <1>4, <1>5 DEF SweepType
  <1>7. /\ NoSweep.pc = "idle" /\ NoSweep.token = 0 /\ NoSweep.dated = FALSE
        /\ NoSweep.from = 0 /\ NoSweep.ups = {} /\ NoSweep.todo = {} /\ NoSweep.settled = {}
        /\ NoSweep.rows = R
    BY <1>4
  <1> QED BY <1>1, <1>3, <1>6, <1>7

\* The sweep's moves that touch none of what it has read.
LEMMA SweepToFacts ==
  ASSUME sweep \in SweepType,
         NEW pc \in {"idle", "uploads", "rows", "frontier", "outbox", "post", "ack",
                     "deletes", "delete", "settle"}, SweepTo(pc)
  PROVE  /\ sweep' \in SweepType /\ sweep'.pc = pc
         /\ sweep'.ups = sweep.ups /\ sweep'.rows = sweep.rows /\ sweep'.todo = sweep.todo
  BY DEF SweepTo, SweepType

\* A frontier is a cursor, and nothing that was seen and not handled is before it.
LEMMA FrontierFacts ==
  ASSUME ChargeTypeOK
  PROVE  /\ Frontier \in 0..MaxSession
         /\ Seen = {} => Frontier = cursor
         /\ Seen # {} => Frontier \in Seen
         /\ Seen # {} => \A t \in Seen : t < Frontier => Handled(t)
  <1> DEFINE ahead == {t \in Seen : ~Handled(t)}
  <1>1. Seen \subseteq 0..MaxSession /\ Seen \subseteq Nat
    BY SessionFacts DEF Seen
  <1>2. cursor \in 0..MaxSession
    BY DEF ChargeTypeOK
  <1>3. CASE ahead # {}
    <2>1. Frontier = Min(ahead)
      BY <1>3 DEF Frontier
    <2>2. Min(ahead) \in ahead /\ \A t \in ahead : Min(ahead) <= t
      BY <1>1, <1>3, MinFacts
    <2>3. ASSUME NEW t \in Seen, t < Min(ahead) PROVE Handled(t)
      <3>1. t \in Nat /\ Min(ahead) \in Nat
        BY <1>1, <2>2
      <3>2. ~(Min(ahead) <= t)
        BY <2>3, <3>1
      <3> QED BY <2>2, <3>2
    <2> QED BY <1>1, <2>1, <2>2, <2>3
  <1>4. CASE ahead = {} /\ Seen # {}
    <2>1. Frontier = Max(Seen)
      BY <1>4 DEF Frontier
    <2>2. Max(Seen) \in Seen
      BY <1>1, <1>4, SessionFacts, MaxFacts
    <2> QED BY <1>1, <1>4, <2>1, <2>2
  <1>5. CASE ahead = {} /\ Seen = {}
    BY <1>2, <1>5 DEF Frontier
  <1> QED BY <1>3, <1>4, <1>5

\* A step after which no sweep is reading, and which takes no mark and brings no
\* session, keeps the invariant.
LEMMA SweepAway ==
  ASSUME ChargeInv, ChargeTypeOK', NewestInv', ~Reading',
         UNCHANGED <<local, cursor, importing, slipped, newest>>,
         \A t \in Sessions : mark[t] # "none" => mark'[t] # "none"
  PROVE  ChargeInv'
  <1>1. CursorWaits'
    BY DEF ChargeInv, CursorWaits
  <1> QED BY <1>1 DEF ChargeInv, CursorInv, TokenInv, UploadsInv, RowsInv, Vouched

LEMMA ChargeInitInv == ChargeInit => ChargeInv
  <1> SUFFICES ASSUME ChargeInit PROVE ChargeInv
    OBVIOUS
  <1>1. sweep = NoSweep
    BY DEF ChargeInit
  <1>2. ~Reading
    BY <1>1, SessionFacts DEF Reading
  <1>3. ChargeTypeOK
    <2>1. /\ local \in [Sessions -> {"none", "open", "closed"}]
          /\ mark \in [Sessions -> {"none", "sent", "skip"}]
          /\ outbox \in [Sessions -> {"none", "pending", "settled"}]
      BY DEF ChargeInit
    <2>2. fullDone \in BOOLEAN
      BY Zenon DEF ChargeInit
    <2>3. importing \in 0..MaxSession /\ cursor \in 0..MaxSession /\ newest \in 0..MaxSession
      BY SessionFacts DEF ChargeInit
    <2>4. account \subseteq Sessions /\ late \subseteq Sessions /\ slipped \subseteq Sessions
      BY DEF ChargeInit
    <2>5. imports \in 0..MaxImports /\ removals \in 0..MaxDeletes /\ troubles \in 0..MaxTroubles
      BY ChargeAssumption DEF ChargeInit
    <2>6. sweep \in SweepType
      BY <1>1, SessionFacts
    <2> QED BY <2>1, <2>2, <2>3, <2>4, <2>5, <2>6 DEF ChargeTypeOK, SweepType
  <1>4. \A t \in Sessions : local[t] = "none" /\ mark[t] = "none" /\ outbox[t] = "none"
    BY DEF ChargeInit
  <1>5. NewestInv
    BY <1>1, <1>4, SessionFacts DEF NewestInv
  <1>6. CursorWaits
    BY <1>4 DEF CursorWaits
  <1>7. CursorInv
    BY DEF ChargeInit, CursorInv
  <1> QED BY <1>2, <1>3, <1>5, <1>6, <1>7 DEF ChargeInv, TokenInv, UploadsInv, RowsInv, Vouched

\* A step that leaves the tables and the import alone keeps the cursor's promise.
LEMMA SameStore ==
  ASSUME CursorWaits, CursorInv,
         UNCHANGED <<local, mark, cursor, importing, slipped, newest>>
  PROVE  CursorWaits' /\ CursorInv'
  BY DEF CursorWaits, CursorInv

\* The three reads of an upload sweep.
LEMMA ReadSteps ==
  ASSUME ChargeInv, ReadCursor \/ ReadUploads \/ ReadRows
  PROVE  ChargeInv'
  <1> USE DEF ChargeInv
  <1>t. /\ sweep \in SweepType /\ cursor \in 0..MaxSession /\ fullDone \in BOOLEAN
        /\ local \in [Sessions -> {"none", "open", "closed"}]
    BY DEF ChargeTypeOK, SweepType
  <1>u. /\ UNCHANGED <<local, mark, outbox, cursor, fullDone, importing, account, late,
                       newest, slipped, imports, removals, troubles>>
    BY DEF ReadCursor, ReadUploads, ReadRows, chargeStore, chargeCount
  <1>v. ASSUME sweep' \in SweepType PROVE ChargeTypeOK'
    BY <1>u, <1>v DEF ChargeTypeOK, SweepType
  <1>w. CursorWaits' /\ CursorInv'
    BY <1>u, SameStore
  <1>1. CASE ReadCursor
    <2>0. (~fullDone) \in BOOLEAN
      BY <1>t
    <2>1. sweep' = [NoSweep EXCEPT !.pc = "uploads", !.token = cursor, !.dated = ~fullDone,
                                   !.from = IF fullDone THEN cursor ELSE 0]
      BY <1>1 DEF ReadCursor
    <2>2. (IF fullDone THEN cursor ELSE 0) \in 0..MaxSession
          /\ (IF fullDone THEN cursor ELSE 0) \in {0, cursor}
      BY <1>t, SessionFacts
    <2>3. /\ sweep' \in SweepType
          /\ sweep'.pc = "uploads" /\ sweep'.token = cursor /\ sweep'.from \in {0, cursor}
          /\ sweep'.ups = NoSweep.ups /\ sweep'.rows = NoSweep.rows
          /\ sweep'.todo = NoSweep.todo
      BY <1>t, <2>0, <2>1, <2>2, SessionFacts DEF SweepType
    <2>4. sweep'.ups = {} /\ sweep'.todo = {} /\ \A t \in Sessions : sweep'.rows[t] = "none"
      BY <2>3, SessionFacts
    <2>5. NewestInv'
      BY <1>u, <2>4 DEF NewestInv
    <2>6. TokenInv' /\ UploadsInv' /\ RowsInv'
      BY <1>u, <2>3, <2>4 DEF TokenInv, UploadsInv, RowsInv, Vouched, Reading
    <2> QED BY <1>v, <1>w, <2>3, <2>5, <2>6
  <1>2. CASE ReadUploads
    <2>1. /\ sweep' \in SweepType /\ sweep.pc = "uploads"
          /\ sweep'.pc = "rows" /\ sweep'.token = sweep.token /\ sweep'.from = sweep.from
          /\ sweep'.ups = {t \in Sessions : t >= sweep.from /\ mark[t] # "none"}
          /\ sweep'.rows = sweep.rows /\ sweep'.todo = sweep.todo
      BY <1>t, <1>2 DEF ReadUploads, SweepType
    <2>2. NewestInv'
      BY <1>u, <2>1 DEF NewestInv
    <2>3. TokenInv' /\ UploadsInv' /\ RowsInv'
      BY <1>u, <2>1 DEF TokenInv, UploadsInv, RowsInv, Vouched, Reading
    <2> QED BY <1>v, <1>w, <2>1, <2>2, <2>3
  <1>3. CASE ReadRows
    <2> DEFINE rows == [t \in Sessions |-> IF t >= sweep.from THEN local[t] ELSE "none"]
    <2>1. /\ rows \in [Sessions -> {"none", "open", "closed"}]
          /\ \A t \in Sessions : rows[t] # "none" => local[t] # "none"
          /\ \A t \in Sessions : t >= sweep.from => rows[t] = local[t]
      BY <1>t
    <2>2. sweep' = [sweep EXCEPT !.pc = "frontier", !.rows = rows] /\ sweep.pc = "rows"
      BY <1>3 DEF ReadRows
    <2> HIDE DEF rows
    <2>3. /\ sweep' \in SweepType /\ sweep'.pc = "frontier"
          /\ sweep'.token = sweep.token /\ sweep'.from = sweep.from
          /\ sweep'.ups = sweep.ups /\ sweep'.rows = rows /\ sweep'.todo = sweep.todo
      BY <1>t, <2>1, <2>2 DEF SweepType
    <2>4. NewestInv'
      BY <1>u, <2>1, <2>3 DEF NewestInv
    <2>5. TokenInv' /\ UploadsInv'
      BY <1>u, <2>2, <2>3 DEF TokenInv, UploadsInv, Vouched, Reading
    <2>6. RowsInv'
      BY <1>u, <2>1, <2>3 DEF RowsInv
    <2> QED BY <1>v, <1>w, <2>3, <2>4, <2>5, <2>6
  <1> QED BY <1>1, <1>2, <1>3

\* The write of the frontier: whatever is before it has a mark, or slipped in.
LEMMA StoreFrontierStep ==
  ASSUME ChargeInv, StoreFrontier
  PROVE  ChargeInv'
  <1> USE DEF ChargeInv
  <1>t. /\ sweep \in SweepType /\ cursor \in 0..MaxSession /\ fullDone \in BOOLEAN
    BY DEF ChargeTypeOK, SweepType
  <1>u. /\ UNCHANGED <<local, mark, outbox, importing, account, late, newest, slipped,
                       imports, removals, troubles>>
        /\ sweep.pc = "frontier" /\ importing = 0
    BY DEF StoreFrontier, chargeCount
  <1>1. /\ sweep' \in SweepType /\ sweep'.pc = "outbox"
        /\ sweep'.ups = sweep.ups /\ sweep'.rows = sweep.rows /\ sweep'.todo = sweep.todo
    <2>1. 0 \in 0..MaxSession
      BY SessionFacts
    <2> QED BY <1>t, <2>1 DEF StoreFrontier, SweepType
  <1>2. cursor' \in 0..MaxSession
    BY <1>t, FrontierFacts DEF StoreFrontier
  <1>3. fullDone' \in BOOLEAN
    BY <1>t, Zenon DEF StoreFrontier
  <1>4. ChargeTypeOK'
    BY <1>u, <1>1, <1>2, <1>3 DEF ChargeTypeOK, SweepType
  <1>5. NewestInv'
    BY <1>u, <1>1 DEF NewestInv
  <1>6. CursorWaits'
    <2> SUFFICES ASSUME NEW t \in Sessions, local[t] # "none", mark[t] = "none", t < cursor'
                 PROVE  t \in slipped
      BY <1>u DEF CursorWaits
    <2>1. CASE cursor' = cursor
      BY <1>u, <2>1, SessionFacts DEF CursorWaits
    <2>2. CASE cursor' # cursor
      <3>1. cursor = sweep.token /\ cursor' = Frontier
        BY <2>2 DEF StoreFrontier
      <3>2. Seen # {}
        BY <2>2, <3>1, FrontierFacts
      <3>3. Vouched
        BY <1>u, <3>1 DEF Vouched, Reading
      <3>4. CASE t \in Seen
        <4>1. t \in sweep.ups
          BY <3>1, <3>2, <3>4, FrontierFacts DEF Handled
        <4> QED BY <3>3, <4>1 DEF UploadsInv
      <3>5. CASE t \notin Seen /\ t >= sweep.from
        <4>1. sweep.rows[t] = "none"
          BY <3>5 DEF Seen
        <4>2. Frontier \in Sessions /\ sweep.rows[Frontier] # "none"
          BY <3>2, FrontierFacts DEF Seen
        <4>3. t <= Frontier
          BY <3>1, <4>2, SessionFacts
        <4> QED BY <1>u, <3>3, <3>5, <4>1, <4>2, <4>3 DEF RowsInv
      <3>6. CASE ~(t >= sweep.from)
        <4>1. t \in Nat /\ sweep.from \in Nat
          BY <1>t, SessionFacts DEF SweepType
        <4>2. t < sweep.from
          BY <3>6, <4>1
        <4>3. sweep.from = cursor
          <5>1. sweep.from # 0
            BY <4>1, <4>2
          <5> QED BY <1>u, <3>1, <5>1 DEF TokenInv, Reading
        <4> QED BY <1>u, <4>2, <4>3, SessionFacts DEF CursorWaits
      <3> QED BY <3>4, <3>5, <3>6
    <2> QED BY <2>1, <2>2
  <1>7. TokenInv' /\ UploadsInv' /\ RowsInv'
    BY <1>1 DEF TokenInv, UploadsInv, RowsInv, Vouched, Reading
  <1>8. CursorInv'
    <2>1. CASE Seen = {} \/ cursor' = cursor
      <3>1. cursor' = cursor
        BY <2>1, FrontierFacts DEF StoreFrontier
      <3> QED BY <1>u, <3>1 DEF CursorInv
    <2>2. CASE Seen # {} /\ cursor' = Frontier
      BY <1>u, <2>2, FrontierFacts DEF CursorInv, NewestInv, Seen
    <2> QED BY <2>1, <2>2 DEF StoreFrontier
  <1> QED BY <1>4, <1>5, <1>6, <1>7, <1>8

\* The rest of a round: nothing is being read, and marks are only added.
LEMMA PostSteps ==
  ASSUME ChargeInv,
         \/ ReadOutbox \/ PostCharges \/ PostUnanswered \/ ReadDeletes \/ PostDeletes
         \/ \E t \in Sessions : AcknowledgeCharge(t) \/ AcknowledgeDelete(t)
         \/ \E to \in {"deletes", "idle"} : SweepFails(to)
  PROVE  ChargeInv'
  <1> USE DEF ChargeInv
  <1>t. /\ sweep \in SweepType
        /\ mark \in [Sessions -> {"none", "sent", "skip"}]
        /\ outbox \in [Sessions -> {"none", "pending", "settled"}]
        /\ account \subseteq Sessions /\ late \subseteq Sessions /\ troubles \in 0..MaxTroubles
        /\ sweep.todo \subseteq Sessions
    BY DEF ChargeTypeOK, SweepType
  <1>k. ASSUME UNCHANGED <<local, cursor, fullDone, importing, newest, slipped, imports, removals>>,
               sweep' \in SweepType, sweep'.pc \notin {"uploads", "rows", "frontier"},
               mark' \in [Sessions -> {"none", "sent", "skip"}],
               outbox' \in [Sessions -> {"none", "pending", "settled"}],
               account' \subseteq Sessions, late' \subseteq Sessions,
               troubles' \in 0..MaxTroubles,
               \A t \in Sessions : mark[t] # "none" => mark'[t] # "none",
               \A t \in Sessions :
                 \/ mark'[t] # "none" \/ outbox'[t] # "none" \/ t \in sweep'.ups
                 \/ sweep'.rows[t] # "none" \/ t \in sweep'.todo
                 => \/ local[t] # "none" \/ mark[t] # "none" \/ outbox[t] # "none"
                    \/ t \in sweep.ups \/ sweep.rows[t] # "none" \/ t \in sweep.todo
        PROVE  ChargeInv'
    <2>1. ChargeTypeOK'
      BY <1>k DEF ChargeTypeOK, SweepType
    <2>2. NewestInv'
      BY <1>k DEF NewestInv
    <2>3. ~Reading'
      BY <1>k DEF Reading
    <2> QED BY <1>k, <2>1, <2>2, <2>3, SweepAway
  <1>1. CASE ReadOutbox
    <2> DEFINE due == {t \in Seen : /\ sweep.rows[t] = "closed" /\ t \notin sweep.ups
                                    /\ outbox[t] = "none"}
               pc == IF due = {} THEN "deletes" ELSE "post"
    <2>1. due \subseteq Sessions /\ \A t \in due : sweep.rows[t] # "none"
      BY DEF Seen
    <2>2. pc \in {"deletes", "post"}
      OBVIOUS
    <2>3. sweep' = [NoSweep EXCEPT !.pc = pc, !.todo = due]
      BY <1>1 DEF ReadOutbox
    <2> HIDE DEF due, pc
    <2>4. /\ sweep' \in SweepType /\ sweep'.pc \in {"deletes", "post"}
          /\ sweep'.ups = NoSweep.ups /\ sweep'.rows = NoSweep.rows /\ sweep'.todo = due
      BY <2>1, <2>2, <2>3, SessionFacts DEF SweepType
    <2>5. sweep'.ups = {} /\ \A t \in Sessions : sweep'.rows[t] = "none"
      BY <2>4, SessionFacts
    <2>6. UNCHANGED <<chargeStore, account, late, chargeCount>>
      BY <1>1 DEF ReadOutbox
    <2> QED BY <1>k, <1>t, <2>1, <2>4, <2>5, <2>6 DEF chargeStore, chargeCount
  <1>2. CASE PostCharges
    <2>1. /\ sweep' \in SweepType /\ sweep'.pc = "ack"
          /\ sweep'.ups = sweep.ups /\ sweep'.rows = sweep.rows /\ sweep'.todo = sweep.todo
      BY <1>t, <1>2, SweepToFacts DEF PostCharges
    <2>2. account' \subseteq Sessions
      BY <1>t, <1>2 DEF PostCharges
    <2> QED BY <1>2, <1>k, <1>t, <2>1, <2>2 DEF PostCharges, chargeStore, chargeCount
  <1>3. CASE PostUnanswered
    <2>1. /\ sweep' \in SweepType /\ sweep'.pc = "deletes"
          /\ sweep'.ups = sweep.ups /\ sweep'.rows = sweep.rows /\ sweep'.todo = sweep.todo
      BY <1>t, <1>3, SweepToFacts DEF PostUnanswered
    <2>2. late' \subseteq Sessions
      BY <1>t, <1>3 DEF PostUnanswered
    <2>3. troubles' \in 0..MaxTroubles
      BY <1>t, <1>3, ChargeAssumption DEF PostUnanswered
    <2> QED BY <1>3, <1>k, <1>t, <2>1, <2>2, <2>3 DEF PostUnanswered, chargeStore
  <1>4. CASE ReadDeletes
    <2> DEFINE rows == {t \in Sessions : outbox[t] # "none"}
               gone == {t \in rows : outbox[t] = "settled"}
    <2>0. UNCHANGED <<chargeStore, account, late, chargeCount>>
      BY <1>4 DEF ReadDeletes
    <2>1. CASE rows = {}
      <3>1. sweep' = NoSweep
        BY <1>4, <2>1 DEF ReadDeletes
      <3> QED BY <1>k, <1>t, <2>0, <3>1, SessionFacts DEF chargeStore, chargeCount
    <2>2. CASE rows # {}
      <3>1. sweep' = [sweep EXCEPT !.pc = "delete", !.todo = rows, !.settled = gone]
        BY <1>4, <2>2 DEF ReadDeletes
      <3>2. rows \subseteq Sessions /\ gone \subseteq Sessions
            /\ \A t \in rows : outbox[t] # "none"
        OBVIOUS
      <3> HIDE DEF rows, gone
      <3>3. /\ sweep' \in SweepType /\ sweep'.pc = "delete" /\ sweep'.todo = rows
            /\ sweep'.ups = sweep.ups /\ sweep'.rows = sweep.rows
        BY <1>t, <3>1, <3>2 DEF SweepType
      <3> QED BY <1>k, <1>t, <2>0, <3>2, <3>3 DEF chargeStore, chargeCount
    <2> QED BY <2>1, <2>2
  <1>5. CASE PostDeletes
    <2>1. /\ sweep' \in SweepType /\ sweep'.pc = "settle"
          /\ sweep'.ups = sweep.ups /\ sweep'.rows = sweep.rows /\ sweep'.todo = sweep.todo
      BY <1>t, <1>5, SweepToFacts DEF PostDeletes
    <2>2. account' \subseteq Sessions /\ late' \subseteq Sessions
      BY <1>t, <1>5 DEF PostDeletes
    <2> QED BY <1>5, <1>k, <1>t, <2>1, <2>2 DEF PostDeletes, chargeStore, chargeCount
  <1>6. ASSUME NEW t \in Sessions, AcknowledgeCharge(t) PROVE ChargeInv'
    <2>1. /\ sweep' \in SweepType /\ sweep'.pc \in {"deletes", "ack"}
          /\ sweep'.ups = sweep.ups /\ sweep'.rows = sweep.rows
          /\ sweep'.todo \subseteq sweep.todo /\ t \in sweep.todo
      BY <1>t, <1>6 DEF AcknowledgeCharge, SweepType
    <2>2. /\ mark' \in [Sessions -> {"none", "sent", "skip"}]
          /\ \A u \in Sessions : u # t => mark'[u] = mark[u]
          /\ mark[t] # "none" => mark'[t] # "none"
      BY <1>t, <1>6 DEF AcknowledgeCharge, ConfirmCharge
    <2> QED BY <1>6, <1>k, <1>t, <2>1, <2>2 DEF AcknowledgeCharge, chargeCount
  <1>7. ASSUME NEW t \in Sessions, AcknowledgeDelete(t) PROVE ChargeInv'
    <2>1. CASE sweep.todo = {t}
      <3>1. sweep' = NoSweep
        BY <1>7, <2>1 DEF AcknowledgeDelete
      <3>2. /\ outbox' \in [Sessions -> {"none", "pending", "settled"}]
            /\ \A u \in Sessions : outbox[u] = "none" => outbox'[u] = "none"
        BY <1>t, <1>7 DEF AcknowledgeDelete, SettleRow
      <3> QED BY <1>7, <1>k, <1>t, <3>1, <3>2, SessionFacts DEF AcknowledgeDelete, chargeCount
    <2>2. CASE sweep.todo # {t}
      <3>1. /\ sweep' \in SweepType /\ sweep'.pc = "settle"
            /\ sweep'.ups = sweep.ups /\ sweep'.rows = sweep.rows
            /\ sweep'.todo \subseteq sweep.todo
        BY <1>t, <1>7, <2>2 DEF AcknowledgeDelete, SweepType
      <3>2. /\ outbox' \in [Sessions -> {"none", "pending", "settled"}]
            /\ \A u \in Sessions : outbox[u] = "none" => outbox'[u] = "none"
        BY <1>t, <1>7 DEF AcknowledgeDelete, SettleRow
      <3> QED BY <1>7, <1>k, <1>t, <3>1, <3>2 DEF AcknowledgeDelete, chargeCount
    <2> QED BY <2>1, <2>2
  <1>8. ASSUME NEW to \in {"deletes", "idle"}, SweepFails(to) PROVE ChargeInv'
    <2>1. /\ sweep' \in SweepType /\ sweep'.pc = to
          /\ sweep'.ups = NoSweep.ups /\ sweep'.rows = NoSweep.rows /\ sweep'.todo = NoSweep.todo
      BY <1>8, SessionFacts DEF SweepFails, SweepType
    <2>2. sweep'.ups = {} /\ sweep'.todo = {} /\ \A t \in Sessions : sweep'.rows[t] = "none"
      BY <2>1, SessionFacts
    <2>3. troubles' \in 0..MaxTroubles
      BY <1>t, <1>8, ChargeAssumption DEF SweepFails
    <2> QED BY <1>8, <1>k, <1>t, <2>1, <2>2, <2>3 DEF SweepFails, chargeStore
  <1> QED BY <1>1, <1>2, <1>3, <1>4, <1>5, <1>6, <1>7, <1>8

\* What goes on around a sweep that stands still.
LEMMA WorldSteps ==
  ASSUME ChargeInv,
         \/ \E t \in Sessions : LateCommit(t) \/ ChargeBegins(t) \/ ChargeEnds(t)
                                \/ BulkDelete(t) \/ ImportRows(t)
         \/ ImportReset \/ NewDay
  PROVE  ChargeInv'
  <1> USE DEF ChargeInv
  <1>t. /\ sweep \in SweepType /\ cursor \in 0..MaxSession /\ newest \in 0..MaxSession
        /\ local \in [Sessions -> {"none", "open", "closed"}]
        /\ mark \in [Sessions -> {"none", "sent", "skip"}]
        /\ outbox \in [Sessions -> {"none", "pending", "settled"}]
        /\ account \subseteq Sessions /\ late \subseteq Sessions /\ slipped \subseteq Sessions
        /\ imports \in 0..MaxImports /\ removals \in 0..MaxDeletes
        /\ sweep.ups \subseteq Sessions
    BY DEF ChargeTypeOK, SweepType
  <1>1. ASSUME NEW t \in Sessions, LateCommit(t) PROVE ChargeInv'
    <2>1. UNCHANGED <<local, mark, outbox, cursor, fullDone, importing, sweep, newest, slipped,
                      imports, removals, troubles>>
      BY <1>1 DEF LateCommit, chargeStore, chargeCount
    <2>2. account' \subseteq Sessions /\ late' \subseteq Sessions
      BY <1>t, <1>1 DEF LateCommit
    <2>3. ChargeTypeOK'
      BY <2>1, <2>2 DEF ChargeTypeOK
    <2>4. NewestInv' /\ TokenInv' /\ CursorInv' /\ CursorWaits'
      BY <2>1, SameStore DEF NewestInv, TokenInv, Reading
    <2>5. UploadsInv' /\ RowsInv'
      BY <2>1 DEF UploadsInv, RowsInv, Vouched, Reading
    <2> QED BY <2>3, <2>4, <2>5
  <1>2. ASSUME NEW t \in Sessions, ChargeBegins(t) PROVE ChargeInv'
    <2>1. /\ UNCHANGED <<mark, outbox, cursor, fullDone, importing, sweep, account, late, slipped,
                         imports, removals, troubles>>
          /\ t > newest /\ newest' = t
      BY <1>2 DEF ChargeBegins
    <2>2. /\ local' \in [Sessions -> {"none", "open", "closed"}]
          /\ \A u \in Sessions : u # t => local'[u] = local[u]
      BY <1>t, <1>2 DEF ChargeBegins
    <2>3. newest' \in 0..MaxSession /\ newest \in Nat /\ t \in Nat
      BY <1>t, <2>1, SessionFacts
    <2>4. ChargeTypeOK'
      BY <2>1, <2>2, <2>3 DEF ChargeTypeOK
    <2>5. /\ mark[t] = "none" /\ t \notin sweep.ups
          /\ \A s \in Sessions : sweep.rows[s] # "none" => s < t
      <3>1. \A s \in Sessions : s <= newest => s < t
        BY <2>1, <2>3, SessionFacts
      <3>2. ~(t <= newest)
        BY <2>1, <2>3
      <3> QED BY <3>1, <3>2 DEF NewestInv
    <2>6. NewestInv'
      <3>1. \A s \in Sessions : s <= newest => s <= t
        BY <2>1, <2>3, SessionFacts
      <3>2. t <= t
        BY <2>3
      <3> QED BY <2>1, <2>2, <3>1, <3>2 DEF NewestInv
    <2>7. TokenInv'
      BY <2>1 DEF TokenInv, Reading
    <2>8. UploadsInv'
      BY <1>t, <2>1, <2>2, <2>5 DEF UploadsInv, Vouched, Reading
    <2>9. RowsInv'
      <3>1. \A s \in Sessions : sweep.rows[s] # "none" => ~(t <= s)
        BY <2>3, <2>5, SessionFacts
      <3> QED BY <2>1, <2>2, <3>1 DEF RowsInv, Vouched, Reading
    <2>10. CursorWaits'
      <3> SUFFICES ASSUME NEW u \in Sessions, local'[u] # "none", mark[u] = "none", u < cursor
                   PROVE  u \in slipped \cup {importing}
        BY <2>1 DEF CursorWaits
      <3>1. CASE u # t
        BY <2>2, <3>1 DEF CursorWaits
      <3>2. CASE u = t
        <4>1. cursor \in Nat /\ cursor <= newest
          BY <1>t, SessionFacts DEF CursorInv
        <4> QED BY <2>1, <2>3, <3>2, <4>1
      <3> QED BY <3>1, <3>2
    <2>11. CursorInv'
      <3>1. cursor \in Nat /\ cursor <= newest
        BY <1>t, SessionFacts DEF CursorInv
      <3> QED BY <2>1, <2>3, <3>1 DEF CursorInv
    <2> QED BY <2>4, <2>6, <2>7, <2>8, <2>9, <2>10, <2>11
  <1>3. ASSUME NEW t \in Sessions, ChargeEnds(t) PROVE ChargeInv'
    <2>1. UNCHANGED <<mark, outbox, cursor, fullDone, importing, sweep, account, late, newest,
                      slipped, imports, removals, troubles>>
      BY <1>3 DEF ChargeEnds, chargeCount
    <2>2. /\ local' \in [Sessions -> {"none", "open", "closed"}]
          /\ \A u \in Sessions : local'[u] = "none" <=> local[u] = "none"
      BY <1>t, <1>3 DEF ChargeEnds
    <2>3. ChargeTypeOK'
      BY <2>1, <2>2 DEF ChargeTypeOK
    <2>4. NewestInv' /\ TokenInv' /\ CursorInv'
      BY <2>1, <2>2 DEF NewestInv, TokenInv, CursorInv, Reading
    <2>5. Vouched' = Vouched
      BY <2>1 DEF Vouched, Reading
    <2>6. UploadsInv'
      BY <1>t, <2>1, <2>2, <2>5 DEF UploadsInv
    <2>7. RowsInv'
      BY <2>1, <2>2, <2>5 DEF RowsInv
    <2>8. CursorWaits'
      BY <2>1, <2>2 DEF CursorWaits
    <2> QED BY <2>3, <2>4, <2>6, <2>7, <2>8
  <1>4. ASSUME NEW t \in Sessions, BulkDelete(t) PROVE ChargeInv'
    <2>1. /\ UNCHANGED <<cursor, fullDone, importing, sweep, account, late, newest, imports,
                         troubles>>
          /\ slipped' = slipped \ {t} /\ local[t] # "none"
      BY <1>4 DEF BulkDelete
    <2>2. /\ local' \in [Sessions -> {"none", "open", "closed"}] /\ local'[t] = "none"
          /\ \A u \in Sessions : u # t => local'[u] = local[u]
      BY <1>t, <1>4 DEF BulkDelete
    <2>3. /\ mark' \in [Sessions -> {"none", "sent", "skip"}] /\ mark'[t] = "none"
          /\ \A u \in Sessions : u # t => mark'[u] = mark[u]
      BY <1>t, <1>4 DEF BulkDelete
    <2>4. /\ outbox' \in [Sessions -> {"none", "pending", "settled"}]
          /\ \A u \in Sessions : u # t => outbox'[u] = outbox[u]
      BY <1>t, <1>4 DEF BulkDelete
    <2>5. removals' \in 0..MaxDeletes
      BY <1>t, <1>4, ChargeAssumption DEF BulkDelete
    <2>6. ChargeTypeOK'
      BY <2>1, <2>2, <2>3, <2>4, <2>5 DEF ChargeTypeOK
    <2>7. NewestInv' /\ TokenInv' /\ CursorInv'
      BY <2>1, <2>2, <2>3, <2>4 DEF NewestInv, TokenInv, CursorInv, Reading
    <2>8. Vouched' = Vouched
      BY <2>1 DEF Vouched, Reading
    <2>9. UploadsInv'
      BY <1>t, <2>1, <2>2, <2>3, <2>8 DEF UploadsInv
    <2>10. RowsInv'
      BY <2>1, <2>2, <2>8 DEF RowsInv
    <2>11. CursorWaits'
      BY <2>1, <2>2, <2>3 DEF CursorWaits
    <2> QED BY <2>6, <2>7, <2>9, <2>10, <2>11
  <1>5. ASSUME NEW t \in Sessions, ImportRows(t) PROVE ChargeInv'
    <2>1. /\ UNCHANGED <<mark, outbox, cursor, fullDone, sweep, account, late, removals, troubles>>
          /\ importing = 0 /\ importing' = t
      BY <1>5 DEF ImportRows
    <2>2. /\ local' \in [Sessions -> {"none", "open", "closed"}]
          /\ \A u \in Sessions : u # t => local'[u] = local[u]
      BY <1>t, <1>5 DEF ImportRows
    <2>3. newest' \in 0..MaxSession /\ newest <= newest' /\ t <= newest'
      <3>1. {newest, t} \subseteq 0..MaxSession /\ {newest, t} # {}
        BY <1>t, SessionFacts
      <3>2. Max({newest, t}) \in {newest, t} /\ \A y \in {newest, t} : Max({newest, t}) >= y
        BY <3>1, SessionFacts, MaxFacts
      <3>3. newest' = Max({newest, t})
        BY <1>5 DEF ImportRows
      <3> QED BY <3>1, <3>2, <3>3, SessionFacts
    <2>4. slipped' \subseteq Sessions /\ slipped \subseteq slipped'
      BY <1>t, <1>5 DEF ImportRows
    <2>5. imports' \in 0..MaxImports
      BY <1>t, <1>5, ChargeAssumption DEF ImportRows
    <2>6. ChargeTypeOK'
      BY <2>1, <2>2, <2>3, <2>4, <2>5, SessionFacts DEF ChargeTypeOK
    <2>7. \A u \in 0..MaxSession : u <= newest => u <= newest'
      BY <1>t, <2>3, SessionFacts
    <2>8. NewestInv' /\ CursorInv'
      BY <1>t, <2>1, <2>2, <2>3, <2>7, SessionFacts DEF NewestInv, CursorInv
    <2>9. TokenInv' /\ CursorWaits'
      BY <2>1, <2>2, <2>4, SessionFacts DEF TokenInv, CursorWaits, Reading
    <2>10. ASSUME Vouched' PROVE Vouched /\ t \in slipped'
      <3>1. Reading /\ cursor = sweep.token /\ sweep.token = 0
        BY <2>1, <2>10, SessionFacts DEF Vouched, Reading
      <3> QED BY <2>1, <3>1, <1>5 DEF ImportRows, Vouched, Reading
    <2>11. UploadsInv'
      BY <1>t, <2>1, <2>2, <2>4, <2>10 DEF UploadsInv
    <2>12. RowsInv'
      BY <2>1, <2>2, <2>4, <2>10 DEF RowsInv
    <2> QED BY <2>6, <2>8, <2>9, <2>11, <2>12
  <1>6. CASE ImportReset
    <2>1. /\ UNCHANGED <<local, mark, outbox, fullDone, sweep, account, late, newest, slipped,
                         imports, removals, troubles>>
          /\ importing # 0 /\ importing' = 0 /\ cursor' = 0
      BY <1>6 DEF ImportReset, chargeCount
    <2>2. cursor' \in 0..MaxSession /\ cursor' <= newest
          /\ \A t \in Sessions : ~(t < cursor')
      <3>1. newest \in Nat /\ \A t \in Sessions : t \in Nat
        BY <1>t, SessionFacts
      <3> QED BY <2>1, <3>1, SessionFacts
    <2>3. ChargeTypeOK'
      <3>1. importing' \in 0..MaxSession
        BY <2>1, SessionFacts
      <3> QED BY <2>1, <2>2, <3>1 DEF ChargeTypeOK
    <2>4. NewestInv' /\ CursorInv' /\ CursorWaits' /\ TokenInv'
      BY <2>1, <2>2 DEF NewestInv, CursorInv, CursorWaits, TokenInv, Reading
    <2>5. Vouched' => Vouched
      BY <2>1 DEF Vouched, Reading, TokenInv
    <2>6. UploadsInv' /\ RowsInv'
      BY <2>1, <2>5 DEF UploadsInv, RowsInv
    <2> QED BY <2>3, <2>4, <2>6
  <1>7. CASE NewDay
    <2>1. UNCHANGED <<local, mark, outbox, cursor, importing, account, late, newest, slipped,
                      imports, removals, troubles>>
      BY <1>7 DEF NewDay, chargeCount
    <2>2. /\ sweep' \in SweepType /\ sweep'.pc = sweep.pc /\ sweep'.token = sweep.token
          /\ sweep'.from = sweep.from /\ sweep'.ups = sweep.ups /\ sweep'.rows = sweep.rows
          /\ sweep'.todo = sweep.todo
      BY <1>t, <1>7 DEF NewDay, SweepType
    <2>3. fullDone' \in BOOLEAN
      BY <1>7, Zenon DEF NewDay
    <2>4. ChargeTypeOK'
      BY <2>1, <2>2, <2>3 DEF ChargeTypeOK, SweepType
    <2>5. NewestInv' /\ TokenInv' /\ CursorInv' /\ CursorWaits'
      BY <2>1, <2>2, SameStore DEF NewestInv, TokenInv, Reading
    <2>6. UploadsInv' /\ RowsInv'
      BY <2>1, <2>2 DEF UploadsInv, RowsInv, Vouched, Reading
    <2> QED BY <2>4, <2>5, <2>6
  <1> QED BY <1>1, <1>2, <1>3, <1>4, <1>5, <1>6, <1>7

\* A restart, which may stop an import before it has unset the cursor.
LEMMA SweeperDiesStep ==
  ASSUME ChargeInv, SweeperDies
  PROVE  ChargeInv'
  <1> USE DEF ChargeInv
  <1>t. /\ late \subseteq Sessions /\ slipped \subseteq Sessions /\ troubles \in 0..MaxTroubles
        /\ sweep.todo \subseteq Sessions
    BY DEF ChargeTypeOK
  <1>1. /\ UNCHANGED <<local, mark, outbox, cursor, fullDone, account, newest, imports, removals>>
        /\ sweep' = NoSweep /\ importing' = 0 /\ importing \in 0..MaxSession
    BY DEF SweeperDies, ChargeTypeOK
  <1>2. late' \subseteq Sessions /\ slipped' \subseteq Sessions /\ slipped \subseteq slipped'
    <2>1. importing \in Sessions \cup {0}
      BY <1>1, ChargeAssumption DEF Sessions
    <2> QED BY <1>t, <2>1 DEF SweeperDies
  <1>3. \A t \in Sessions : t = importing => t \in slipped'
    BY SessionFacts DEF SweeperDies
  <1>4. troubles' \in 0..MaxTroubles
    BY <1>t, ChargeAssumption DEF SweeperDies
  <1>5. sweep' \in SweepType /\ importing' \in 0..MaxSession
    BY <1>1, SessionFacts
  <1>6. ChargeTypeOK'
    BY <1>1, <1>2, <1>4, <1>5 DEF ChargeTypeOK, SweepType
  <1>7. NewestInv' /\ CursorInv'
    BY <1>1, SessionFacts DEF NewestInv, CursorInv
  <1>8. ~Reading'
    BY <1>1, SessionFacts DEF Reading
  <1>9. CursorWaits'
    BY <1>1, <1>2, <1>3 DEF CursorWaits
  <1> QED BY <1>6, <1>7, <1>8, <1>9 DEF TokenInv, UploadsInv, RowsInv, Vouched

LEMMA ChargeNextInv == ChargeInv /\ [ChargeNext]_chargeVars => ChargeInv'
  <1> SUFFICES ASSUME ChargeInv, [ChargeNext]_chargeVars PROVE ChargeInv'
    OBVIOUS
  <1>1. CASE UNCHANGED chargeVars
    BY <1>1 DEF chargeVars, ChargeInv, ChargeTypeOK, NewestInv, CursorInv, TokenInv, UploadsInv,
                RowsInv, CursorWaits, Vouched, Reading
  <1> QED BY <1>1, ReadSteps, StoreFrontierStep, PostSteps, WorldSteps, SweeperDiesStep
          DEF ChargeNext, SweepStep

\* The tables, the sweep and the Cloud's account keep their types.
THEOREM ChargeTypes == ChargeSpec => []ChargeTypeOK
  <1>1. ChargeInv => ChargeTypeOK
    BY DEF ChargeInv
  <1> QED BY <1>1, ChargeInitInv, ChargeNextInv, PTL DEF ChargeSpec

\* The compare-and-set of the cursor is enough: it never passes a session that
\* has no mark, but for the two kinds of import that CursorWaits names
\* (charges.rs, import_json).
THEOREM CursorPassesNothing == ChargeSpec => []CursorWaits
  <1>1. ChargeInv => CursorWaits
    BY DEF ChargeInv
  <1> QED BY <1>1, ChargeInitInv, ChargeNextInv, PTL DEF ChargeSpec
=============================================================================
