------------------------------ MODULE PushRetry ------------------------------
(***************************************************************************)
(* The in-memory queue that retries mobile pushes which failed right after *)
(* boot (crates/api/src/push_retry.rs), with the dispatches that feed it   *)
(* (notifications.rs) and the worker task that drains it.  Every closure   *)
(* passed to with_queue is one critical section and one step here; the     *)
(* push itself travels between two steps, so answers may be late or lost.  *)
(***************************************************************************)
EXTENDS Naturals, FiniteSets, FiniteSetsExt

CONSTANTS Kinds,        \* notification types that are dispatched
          RetryKinds,   \* the types worth delivering late
          BootWindow,   \* uptime at which retrying stops
          MaxAge,       \* age above which a push is dropped
          MaxPushes,    \* bound: dispatches in a behaviour
          MaxUptime     \* bound: how far the clock runs

ASSUME PushAssumption ==
  /\ RetryKinds \subseteq Kinds
  /\ BootWindow \in Nat /\ MaxAge \in Nat /\ MaxPushes \in Nat /\ MaxUptime \in Nat
  /\ BootWindow < MaxUptime

(* Pushes are numbered in the order in which they were started, which is   *)
(* how the code compares them (started_at); 0 stands for no push.          *)
Pushes == 1..MaxPushes

VARIABLES
  uptime,     \* the clock: /proc/uptime, and Instant::now() at the same pace
  push,       \* push[n]: its type, start time, and how often the server took it
  dispatch,   \* dispatch[n]: where the first attempt at push n stands
  pending,    \* pending[k]: the push queued for type k
  delivered,  \* delivered[k]: the newest push of type k known to have arrived
  running,    \* worker_running
  worker      \* worker[n]: the worker task spawned after dispatch n failed

pushVars == <<uptime, push, dispatch, pending, delivered, running, worker>>

Nobody == [pc |-> "none", held |-> 0]
Unborn == [kind |-> "none", at |-> 0, taken |-> 0]

PushTypeOK ==
  /\ uptime \in 0..MaxUptime
  /\ push \in [Pushes -> [kind : Kinds \cup {"none"}, at : 0..MaxUptime, taken : Nat]]
  /\ dispatch \in [Pushes -> {"unborn", "out", "taken", "kept", "done"}]
  /\ pending \in [Kinds -> 0..MaxPushes]
  /\ delivered \in [Kinds -> 0..MaxPushes]
  /\ running \in BOOLEAN
  /\ worker \in [Pushes -> [pc : {"none", "asleep", "chosen", "out", "taken"},
                            held : 0..MaxPushes]]

PushInit ==
  /\ uptime = 0
  /\ push = [n \in Pushes |-> Unborn]
  /\ dispatch = [n \in Pushes |-> "unborn"]
  /\ pending = [k \in Kinds |-> 0]
  /\ delivered = [k \in Kinds |-> 0]
  /\ running = FALSE
  /\ worker = [n \in Pushes |-> Nobody]

-----------------------------------------------------------------------------
(* The queue's own operations.                                             *)

Kept(n) ==
  LET k == push[n].kind IN
  /\ k \in RetryKinds
  /\ uptime < BootWindow
  /\ delivered[k] < n
  /\ pending[k] <= n

RecordDelivered(n) ==
  LET k == push[n].kind IN
  /\ delivered' = [delivered EXCEPT ![k] = IF @ < n THEN n ELSE @]
  /\ pending' = [pending EXCEPT ![k] = IF @ <= n THEN 0 ELSE @]

StillPending(n) == pending[push[n].kind] = n

Sent(n) ==
  /\ pending' = IF StillPending(n) THEN [pending EXCEPT ![push[n].kind] = 0] ELSE pending
  /\ UNCHANGED delivered

(* What next_due leaves in the queue: everything goes once the window is   *)
(* over, and what is too old goes before that.                             *)
Retained ==
  [k \in Kinds |->
     IF \/ uptime >= BootWindow
        \/ pending[k] # 0 /\ uptime - push[pending[k]].at > MaxAge
     THEN 0 ELSE pending[k]]

-----------------------------------------------------------------------------
(* A dispatch: the push goes out, the server takes it or not, the answer   *)
(* comes or not, and after_dispatch is told.                               *)

Dispatch(n, k) ==
  /\ dispatch[n] = "unborn"
  /\ \A m \in Pushes : m < n => dispatch[m] # "unborn"
  /\ push' = [push EXCEPT ![n] = [kind |-> k, at |-> uptime, taken |-> 0]]
  /\ dispatch' = [dispatch EXCEPT ![n] = "out"]
  /\ UNCHANGED <<uptime, pending, delivered, running, worker>>

DispatchTaken(n) ==
  /\ dispatch[n] = "out"
  /\ push' = [push EXCEPT ![n].taken = @ + 1]
  /\ dispatch' = [dispatch EXCEPT ![n] = "taken"]
  /\ UNCHANGED <<uptime, pending, delivered, running, worker>>

AfterDispatchOk(n) ==
  /\ dispatch[n] = "taken"
  /\ RecordDelivered(n)
  /\ dispatch' = [dispatch EXCEPT ![n] = "done"]
  /\ UNCHANGED <<uptime, push, running, worker>>

(* No connection: the push cannot have reached the server.                 *)
AfterDispatchNeverSent(n) ==
  /\ dispatch[n] = "out"
  /\ pending' = IF Kept(n) THEN [pending EXCEPT ![push[n].kind] = n] ELSE pending
  /\ dispatch' = [dispatch EXCEPT ![n] = IF Kept(n) THEN "kept" ELSE "done"]
  /\ UNCHANGED <<uptime, push, delivered, running, worker>>

(* An error after connecting: the server may have taken the push.          *)
AfterDispatchUnclear_Kept(n) ==
  /\ dispatch[n] \in {"out", "taken"}
  /\ pending' = IF Kept(n) THEN [pending EXCEPT ![push[n].kind] = n] ELSE pending
  /\ dispatch' = [dispatch EXCEPT ![n] = IF Kept(n) THEN "kept" ELSE "done"]
  /\ UNCHANGED <<uptime, push, delivered, running, worker>>

AfterDispatchUnclear(n) ==
  /\ dispatch[n] \in {"out", "taken"}
  /\ dispatch' = [dispatch EXCEPT ![n] = "done"]
  /\ UNCHANGED <<uptime, push, pending, delivered, running, worker>>

(* The second critical section of after_dispatch.                          *)
StartWorker(n) ==
  /\ dispatch[n] = "kept"
  /\ running' = TRUE
  /\ worker' = IF running THEN worker
               ELSE [worker EXCEPT ![n] = [pc |-> "asleep", held |-> 0]]
  /\ dispatch' = [dispatch EXCEPT ![n] = "done"]
  /\ UNCHANGED <<uptime, push, pending, delivered>>

-----------------------------------------------------------------------------
(* The worker task w.                                                      *)

Move(w, pc, n) == worker' = [worker EXCEPT ![w] = [pc |-> pc, held |-> n]]

(* The worker returns without giving worker_running back.                  *)
WorkerDue_KeepsFlag(w) ==
  /\ worker[w].pc = "asleep"
  /\ pending' = Retained
  /\ LET due == {Retained[k] : k \in Kinds} \ {0} IN
       IF due = {} THEN worker' = [worker EXCEPT ![w] = Nobody]
                   ELSE Move(w, "chosen", Min(due))
  /\ UNCHANGED <<uptime, push, dispatch, delivered, running>>

(* After the sleep: next_due, and when nothing is left the flag goes down  *)
(* in the same critical section.                                           *)
WorkerDue(w) ==
  /\ worker[w].pc = "asleep"
  /\ pending' = Retained
  /\ LET due == {Retained[k] : k \in Kinds} \ {0} IN
       IF due = {} THEN /\ worker' = [worker EXCEPT ![w] = Nobody]
                        /\ running' = FALSE
                   ELSE /\ Move(w, "chosen", Min(due))
                        /\ UNCHANGED running
  /\ UNCHANGED <<uptime, push, dispatch, delivered>>

(* The user has switched this type off since.                              *)
WorkerTypeOff(w) ==
  /\ worker[w].pc = "chosen"
  /\ Sent(worker[w].held)
  /\ Move(w, "asleep", 0)
  /\ UNCHANGED <<uptime, push, dispatch, running>>

(* The push goes out whatever happened since it was chosen.                *)
WorkerSend_Unchecked(w) ==
  /\ worker[w].pc = "chosen"
  /\ Move(w, "out", worker[w].held)
  /\ UNCHANGED <<uptime, push, dispatch, pending, delivered, running>>

(* The re-check right before sending.                                      *)
WorkerSend(w) ==
  /\ worker[w].pc = "chosen"
  /\ IF StillPending(worker[w].held) THEN Move(w, "out", worker[w].held)
                                     ELSE Move(w, "asleep", 0)
  /\ UNCHANGED <<uptime, push, dispatch, pending, delivered, running>>

WorkerTaken(w) ==
  /\ worker[w].pc = "out"
  /\ push' = [push EXCEPT ![worker[w].held].taken = @ + 1]
  /\ Move(w, "taken", worker[w].held)
  /\ UNCHANGED <<uptime, dispatch, pending, delivered, running>>

WorkerOk(w) ==
  /\ worker[w].pc = "taken"
  /\ RecordDelivered(worker[w].held)
  /\ Move(w, "asleep", 0)
  /\ UNCHANGED <<uptime, push, dispatch, running>>

WorkerNeverSent(w) ==
  /\ worker[w].pc = "out"
  /\ Move(w, "asleep", 0)
  /\ UNCHANGED <<uptime, push, dispatch, pending, delivered, running>>

(* Any other error, or mobile push is not enabled any more.                *)
WorkerGivesUp(w) ==
  /\ worker[w].pc \in {"out", "taken"}
  /\ Sent(worker[w].held)
  /\ Move(w, "asleep", 0)
  /\ UNCHANGED <<uptime, push, dispatch, running>>

WorkerStep(w) ==
  \/ WorkerDue(w) \/ WorkerTypeOff(w) \/ WorkerSend(w) \/ WorkerTaken(w)
  \/ WorkerOk(w) \/ WorkerNeverSent(w) \/ WorkerGivesUp(w)

PushTick ==
  /\ uptime < MaxUptime
  /\ uptime' = uptime + 1
  /\ UNCHANGED <<push, dispatch, pending, delivered, running, worker>>

PushNext ==
  \/ PushTick
  \/ \E n \in Pushes :
       \/ \E k \in Kinds : Dispatch(n, k)
       \/ DispatchTaken(n) \/ AfterDispatchOk(n) \/ AfterDispatchNeverSent(n)
       \/ AfterDispatchUnclear(n) \/ StartWorker(n)
       \/ WorkerStep(n)

PushSpec == PushInit /\ [][PushNext]_pushVars

-----------------------------------------------------------------------------
(* A push never reaches the server twice: only a push that cannot have     *)
(* been taken is queued, one worker at a time sends, and it forgets a push *)
(* whose fate is unclear (after_dispatch, run_worker).                     *)
PushTakenOnce == \A n \in Pushes : push[n].taken <= 1

(* A retry is never started for a push that is known to be outdated: when  *)
(* run_worker begins to send, no newer push of that type is recorded as    *)
(* delivered and none is queued, whatever happened since it was chosen.    *)
RetryIsNewest ==
  [][\A w \in Pushes :
       worker[w].pc # "out" /\ worker'[w].pc = "out" =>
         LET n == worker'[w].held IN
           delivered[push[n].kind] < n /\ pending[push[n].kind] = n]_pushVars

(* Every queued push is settled: sent, given up, or dropped at the end of  *)
(* the boot window.  The worker is never lost between the two critical     *)
(* sections of after_dispatch and the one in which run_worker returns.     *)
PendingIsSettled == \A k \in RetryKinds : []<>(pending[k] = 0)
=============================================================================
