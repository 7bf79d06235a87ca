----------------------------- MODULE MCServices -----------------------------
(***************************************************************************)
(* The background services of the web server that share no state with each *)
(* other, checked in one run: a behaviour is one of the service in focus,  *)
(* and the others stay in their initial states.                            *)
(***************************************************************************)
EXTENDS PushRetry, AutoUpdate, Caches, KeepAwake, ChargeSweep, Pairing

VARIABLE focus

Services == {"push", "update", "updates", "ttl", "sizes", "awake", "charges", "pairing"}

(* Automatic updates have two instances: one attempt with two power cuts,  *)
(* and two attempts with one power cut and no manual update.               *)
UpdateBounds ==
  \/ focus = "update" /\ made' <= 1 /\ cycles' <= 1
  \/ focus = "updates" /\ manuals' = 0 /\ boot' <= 2 /\ (boot' = 2 => job' # "stopping")

(* At most one deletion by the user, among any number by other programs.   *)
SizeBounds == deleting' + deletions' <= 1

MCInit ==
  /\ focus \in Services
  /\ PushInit /\ UpdateInit /\ CacheInit /\ KeepAwakeInit /\ ChargeInit /\ PairInit

MCNext ==
  /\ UNCHANGED focus
  /\ \/ focus = "push" /\ PushNext /\ UNCHANGED <<updVars, cacheVars, kaVars, chargeVars, pairVars>>
     \/ UpdateNext /\ UpdateBounds
        /\ UNCHANGED <<pushVars, cacheVars, kaVars, chargeVars, pairVars>>
     \/ focus = "ttl" /\ TtlNext /\ UNCHANGED <<pushVars, updVars, kaVars, chargeVars, pairVars>>
     \/ focus = "sizes" /\ SizeNext /\ SizeBounds
        /\ UNCHANGED <<pushVars, updVars, kaVars, chargeVars, pairVars>>
     \/ focus = "awake" /\ KeepAwakeNext
        /\ UNCHANGED <<pushVars, updVars, cacheVars, chargeVars, pairVars>>
     \/ focus = "charges" /\ ChargeNext
        /\ UNCHANGED <<pushVars, updVars, cacheVars, kaVars, pairVars>>
     \/ focus = "pairing" /\ PairNext
        /\ UNCHANGED <<pushVars, updVars, cacheVars, kaVars, chargeVars>>

vars == <<pushVars, updVars, cacheVars, kaVars, chargeVars, pairVars, focus>>

(* Time passes, a critical section that was reached is executed, and the   *)
(* worker task is run.                                                     *)
PushFairness ==
  /\ WF_pushVars(focus = "push" /\ PushTick)
  /\ WF_pushVars(focus = "push" /\ \E n \in Pushes : StartWorker(n))
  /\ WF_pushVars(focus = "push" /\ \E n \in Pushes : WorkerStep(n))

(* The coordinator's steps are bounded by timeouts, startup is a task that *)
(* runs, and a shutdown that began ends in a boot.                         *)
UpdateFairness ==
  /\ WF_updVars(CoordStep /\ UpdateBounds)
  /\ WF_updVars(StartupStep /\ UpdateBounds)
  /\ WF_updVars(job = "stopping" /\ PowerGoes /\ UpdateBounds)

(* Tasks and handlers run to their end, time passes, and work ends (a      *)
(* stale archive status stops counting after two minutes).                 *)
KeepAwakeFairness ==
  /\ WF_kaVars(focus = "awake" /\ \E e \in Epochs : TaskStep(e))
  /\ WF_kaVars(focus = "awake" /\ \E c \in Calls : CallStep(c))
  /\ WF_kaVars(focus = "awake" /\ DurationPasses)
  /\ WF_kaVars(focus = "awake" /\ BusyEnds)

(* The sweep loop is woken by its timer at the latest, an import goes on   *)
(* to its end, charges end, and days pass.                                 *)
ChargeFairness ==
  /\ WF_chargeVars(focus = "charges" /\ SweepStep)
  /\ WF_chargeVars(focus = "charges" /\ ImportReset)
  /\ WF_chargeVars(focus = "charges" /\ \E t \in Sessions : ChargeEnds(t))
  /\ WF_chargeVars(focus = "charges" /\ NewDay)

(* The task of an attempt runs to its end: requests have time limits, and  *)
(* polling stops after eleven minutes.                                     *)
PairFairness ==
  \A n \in Pairings : WF_pairVars(focus = "pairing" /\ AttemptStep(n))

MCSpec ==
  /\ MCInit /\ [][MCNext]_vars
  /\ PushFairness /\ UpdateFairness /\ KeepAwakeFairness /\ ChargeFairness /\ PairFairness
=============================================================================
