------------------------------ MODULE KeepAwake ------------------------------
(***************************************************************************)
(* The web UI's keep-awake sessions (crates/api/src/keep_awake.rs) and the *)
(* registry of owners that awake_stop consults (drives_handler.rs).  Every *)
(* critical section of the manager's mutex is a step; what the code does   *)
(* after it dropped the mutex is a later one.  A session's task waits for  *)
(* the system to be idle (wait_for_idle_then_start) and then watches the   *)
(* expiry (expiration_watcher); a notification only makes a superseded     *)
(* task end sooner than its next poll.  The scripts awake_start and        *)
(* awake_stop, spawned and not awaited, are outside the model.             *)
(***************************************************************************)
EXTENDS Naturals

CONSTANTS MaxCalls,    \* bound: calls of start, heartbeat and stop
          MaxBusy      \* bound: periods of archiving or processing

ASSUME KeepAwakeAssumption == MaxCalls \in Nat /\ MaxBusy \in Nat

Calls == 1..MaxCalls
(* A call makes at most one new generation, and so does each expiry.       *)
Epochs == 0..(2 * MaxCalls)

VARIABLES
  ka,       \* KaInner: state, mode, epoch, and whether expires_at has passed
  owner,    \* "webui" is registered as an owner
  busy,     \* is_busy: an archive or the processor is at work
  periods,  \* busy periods so far
  call,     \* call[c]: where the request stands
  task      \* task[e]: the task of the session that began with epoch e

kaVars == <<ka, owner, busy, periods, call, task>>

KeepAwakeInit ==
  /\ ka = [state |-> "idle", mode |-> "none", epoch |-> 0, due |-> FALSE]
  /\ owner = FALSE
  /\ busy = FALSE /\ periods = 0
  /\ call = [c \in Calls |-> "new"]
  /\ task = [e \in Epochs |-> "none"]

(* Calls come in the order of their numbers.                               *)
Comes(c) == call[c] = "new" /\ \A d \in 1..(c - 1) : call[d] # "new"

Reached(c, pc) == call' = [call EXCEPT ![c] = pc]
TaskAt(e, pc) == task' = [task EXCEPT ![e] = pc]

-----------------------------------------------------------------------------
(* start: an active session is extended, a queued one gets the new         *)
(* duration, otherwise a new session begins or is queued.                  *)
StartSession(mode) ==
  IF ka.state # "idle"
  THEN /\ ka' = [ka EXCEPT !.mode = mode, !.due = FALSE]
       /\ UNCHANGED <<owner, task>>
  ELSE LET e == ka.epoch + 1 IN
       /\ ka' = [state |-> IF busy THEN "pending" ELSE "active", mode |-> mode, epoch |-> e,
                 due |-> FALSE]
       /\ owner' = TRUE
       /\ TaskAt(e, IF busy THEN "waiting" ELSE "watching")

Start(c) ==
  /\ Comes(c)
  /\ StartSession("manual")
  /\ Reached(c, "done")
  /\ UNCHANGED <<busy, periods>>

(* heartbeat extends automatic sessions only; when it finds none it lets   *)
(* the mutex go and starts one.                                            *)
Heartbeat(c) ==
  /\ Comes(c)
  /\ ka' = IF ka.state # "idle" /\ ka.mode = "auto" THEN [ka EXCEPT !.due = FALSE] ELSE ka
  /\ Reached(c, IF ka.state = "idle" THEN "beat" ELSE "done")
  /\ UNCHANGED <<owner, busy, periods, task>>

HeartbeatStarts(c) ==
  /\ call[c] = "beat"
  /\ StartSession("auto")
  /\ Reached(c, "done")
  /\ UNCHANGED <<busy, periods>>

(* A queued session is forgotten without its registration.                 *)
StopSession_ActiveOnly(c) ==
  /\ Comes(c)
  /\ ka' = [ka EXCEPT !.state = "idle", !.epoch = @ + 1, !.due = FALSE]
  /\ Reached(c, IF ka.state = "active" THEN "release" ELSE "done")
  /\ UNCHANGED <<owner, busy, periods, task>>

StopSession(c) ==
  /\ Comes(c)
  /\ ka' = [ka EXCEPT !.state = "idle", !.epoch = @ + 1, !.due = FALSE]
  /\ Reached(c, IF ka.state = "idle" THEN "done" ELSE "release")
  /\ UNCHANGED <<owner, busy, periods, task>>

StopReleases(c) ==
  /\ call[c] = "release"
  /\ owner' = FALSE
  /\ Reached(c, "done")
  /\ UNCHANGED <<ka, busy, periods, task>>

-----------------------------------------------------------------------------
(* The session's task.                                                     *)

Current(e, state) == ka.epoch = e /\ ka.state = state

(* The poll: superseded tasks return, others look whether the system is    *)
(* busy without the mutex.                                                 *)
WaiterPolls(e) ==
  /\ task[e] = "waiting"
  /\ TaskAt(e, IF Current(e, "pending") THEN "looking" ELSE "done")
  /\ UNCHANGED <<ka, owner, busy, periods, call>>

WaiterLooks(e) ==
  /\ task[e] = "looking"
  /\ TaskAt(e, IF busy THEN "waiting" ELSE "starting")
  /\ UNCHANGED <<ka, owner, busy, periods, call>>

(* What was checked before the look is taken to hold still.                *)
WaiterStarts_Unchecked(e) ==
  /\ task[e] = "starting"
  /\ ka' = [ka EXCEPT !.state = "active", !.due = FALSE]
  /\ TaskAt(e, "launch")
  /\ UNCHANGED <<owner, busy, periods, call>>

WaiterStarts(e) ==
  /\ task[e] = "starting"
  /\ IF Current(e, "pending")
     THEN ka' = [ka EXCEPT !.state = "active", !.due = FALSE] /\ TaskAt(e, "launch")
     ELSE TaskAt(e, "done") /\ UNCHANGED ka
  /\ UNCHANGED <<owner, busy, periods, call>>

(* The nudge is started and the task forgotten.                            *)
WaiterLaunches_Unwatched(e) ==
  /\ task[e] = "launch"
  /\ TaskAt(e, "done")
  /\ UNCHANGED <<ka, owner, busy, periods, call>>

WaiterLaunches(e) ==
  /\ task[e] = "launch"
  /\ TaskAt(e, "watching")
  /\ UNCHANGED <<ka, owner, busy, periods, call>>

WatcherPolls(e) ==
  /\ task[e] = "watching"
  /\ TaskAt(e, IF ~Current(e, "active") THEN "done"
               ELSE IF ka.due THEN "expired" ELSE "watching")
  /\ UNCHANGED <<ka, owner, busy, periods, call>>

(* The second critical section looks at the epoch and the state again, not *)
(* at the expiry.                                                          *)
WatcherExpires(e) ==
  /\ task[e] = "expired"
  /\ IF Current(e, "active")
     THEN /\ ka' = [ka EXCEPT !.state = "idle", !.epoch = @ + 1, !.due = FALSE]
          /\ TaskAt(e, "release")
     ELSE TaskAt(e, "done") /\ UNCHANGED ka
  /\ UNCHANGED <<owner, busy, periods, call>>

WatcherReleases(e) ==
  /\ task[e] = "release"
  /\ owner' = FALSE
  /\ TaskAt(e, "done")
  /\ UNCHANGED <<ka, busy, periods, call>>

-----------------------------------------------------------------------------
(* The surroundings.                                                       *)

DurationPasses ==
  /\ ka.state = "active" /\ ~ka.due
  /\ ka' = [ka EXCEPT !.due = TRUE]
  /\ UNCHANGED <<owner, busy, periods, call, task>>

BusyBegins ==
  /\ ~busy /\ periods < MaxBusy
  /\ busy' = TRUE /\ periods' = periods + 1
  /\ UNCHANGED <<ka, owner, call, task>>

BusyEnds ==
  /\ busy
  /\ busy' = FALSE
  /\ UNCHANGED <<ka, owner, periods, call, task>>

CallStep(c) == HeartbeatStarts(c) \/ StopReleases(c)

TaskStep(e) ==
  \/ WaiterPolls(e) \/ WaiterLooks(e) \/ WaiterStarts(e) \/ WaiterLaunches(e)
  \/ WatcherPolls(e) \/ WatcherExpires(e) \/ WatcherReleases(e)

KeepAwakeNext ==
  \/ \E c \in Calls : Start(c) \/ Heartbeat(c) \/ StopSession(c) \/ CallStep(c)
  \/ \E e \in Epochs : TaskStep(e)
  \/ DurationPasses \/ BusyBegins \/ BusyEnds

KeepAwakeSpec == KeepAwakeInit /\ [][KeepAwakeNext]_kaVars

-----------------------------------------------------------------------------
(* Every session that is queued or active has the task of its own epoch at *)
(* work on it, however starts, heartbeats, stops, an expiry and the        *)
(* waiter's look between two critical sections interleave: none is kept by *)
(* a task that will leave it alone.                                        *)
SessionsAreWatched ==
  /\ ka.state = "pending" => task[ka.epoch] \in {"waiting", "looking", "starting"}
  /\ ka.state = "active" => task[ka.epoch] \in {"launch", "watching", "expired"}

(* A session, queued or active, ends when nobody extends it any more: no   *)
(* interleaving leaves it to run for ever.                                 *)
SessionsEnd == []<>(ka.state = "idle")

(* The registration does not outlive the session: without one, somebody    *)
(* who ended a session is about to release it.  Left behind it would keep  *)
(* awake_stop from ever letting the car sleep.                             *)
OwnerIsReleased ==
  owner /\ ka.state = "idle" =>
    (\E c \in Calls : call[c] = "release") \/ (\E e \in Epochs : task[e] = "release")
=============================================================================
