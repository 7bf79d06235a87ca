------------------------------- MODULE Pairing -------------------------------
(***************************************************************************)
(* The pairing of the Pi with a Cloud account: attempts to pair            *)
(* (cloud_uploader/src/pairing.rs), the credentials and who may replace or *)
(* remove them (state.rs), key rotation (rekey.rs), and the two agents     *)
(* that talk to the Cloud with a copy of the credentials: the sweep loop   *)
(* (uploader.rs, sync.rs) and the location repair (locations/              *)
(* background.rs).                                                         *)
(*                                                                         *)
(* Credentials are known by the attempt that obtained them and by the      *)
(* generation of their key.                                                *)
(***************************************************************************)
EXTENDS Naturals

CONSTANTS MaxPairings,   \* bound: attempts to pair
          MaxRotations,  \* bound: key rotations of a pairing
          MaxBreaks      \* bound: restarts, failed writes and failed removals

ASSUME PairingAssumption ==
  MaxPairings \in Nat /\ MaxRotations \in Nat /\ MaxBreaks \in Nat

Pairings == 1..MaxPairings
Agents == {"sweep", "repair"}
NoCreds == [pair |-> 0, gen |-> 0]
Credentials == [pair : 0..MaxPairings, gen : 0..MaxRotations]

VARIABLES
  creds,     \* the credentials in memory, NoCreds when unpaired
  credFile,  \* the credentials file
  active,    \* pairing_cancel: the attempt that owns the pairing, 0 for none
  shown,     \* the state of the pairing that the web interface shows
  run,       \* run[n]: where the task of attempt n is
  permit,    \* the attempts whose Notify holds a permit
  agent,     \* agent[a]: its copy of the credentials and where it is
  \* the Cloud
  pairing,   \* pairing[n]: "none", "live" or "revoked"
  keyGen,    \* the generation of the key of each pairing
  \* what really happened
  ended,     \* pairings that the user cancelled or ended
  lost,      \* pairings removed because the Cloud revoked them
  breaks

pairVars == <<creds, credFile, active, shown, run, permit, agent, pairing, keyGen,
              ended, lost, breaks>>
pairCloud == <<pairing, keyGen>>

NoAgent == [pc |-> "idle", creds |-> NoCreds, answer |-> "none", next |-> 0]

PairTypeOK ==
  /\ creds \in Credentials /\ credFile \in Credentials
  /\ active \in 0..MaxPairings
  /\ shown \in {"idle", "handshaking", "polling", "complete", "error"}
  /\ run \in [Pairings -> {"new", "handshake", "progress", "poll", "complete", "failed", "over"}]
  /\ permit \subseteq Pairings
  /\ agent \in [Agents -> [pc : {"idle", "check", "sent", "answered", "rekey", "rekeyed"},
                           creds : Credentials, answer : {"none", "stored", "stale", "revoked"},
                           next : 0..MaxRotations]]
  /\ pairing \in [Pairings -> {"none", "live", "revoked"}]
  /\ keyGen \in [Pairings -> 0..MaxRotations]
  /\ ended \subseteq Pairings /\ lost \subseteq Pairings /\ breaks \in 0..MaxBreaks

PairInit ==
  /\ creds = NoCreds /\ credFile = NoCreds
  /\ active = 0 /\ shown = "idle"
  /\ run = [n \in Pairings |-> "new"] /\ permit = {}
  /\ agent = [a \in Agents |-> NoAgent]
  /\ pairing = [n \in Pairings |-> "none"] /\ keyGen = [n \in Pairings |-> 0]
  /\ ended = {} /\ lost = {} /\ breaks = 0

RunTo(n, pc) == run' = [run EXCEPT ![n] = pc]

-----------------------------------------------------------------------------
(* An attempt.  Every operation on the state is one critical section: what *)
(* it reads and writes is under locks it holds from its first read on.     *)

BeginPairing(n) ==
  /\ run[n] = "new" /\ \A m \in 1..(n - 1) : run[m] # "new"
  /\ creds = NoCreds /\ active = 0
  /\ active' = n /\ shown' = "handshaking"
  /\ RunTo(n, "handshake")
  /\ UNCHANGED <<creds, credFile, permit, agent, pairCloud, ended, lost, breaks>>

(* The handshake is accepted, or fails.                                    *)
Handshake(n) ==
  /\ run[n] = "handshake"
  /\ \E pc \in {"progress", "failed"} : RunTo(n, pc)
  /\ UNCHANGED <<creds, credFile, active, shown, permit, agent, pairCloud,
                 ended, lost, breaks>>

(* A request races the permit that a cancellation left.                    *)
AttemptCancelled(n) ==
  /\ run[n] \in {"handshake", "poll"} /\ n \in permit
  /\ permit' = permit \ {n} /\ RunTo(n, "failed")
  /\ UNCHANGED <<creds, credFile, active, shown, agent, pairCloud,
                 ended, lost, breaks>>

Owns(n) == creds = NoCreds /\ active = n

(* Before every poll.                                                      *)
ReportProgress(n) ==
  /\ run[n] = "progress" \/ (run[n] = "poll" /\ ~Owns(n))
  /\ IF Owns(n) THEN shown' = "polling" /\ RunTo(n, "poll")
                ELSE RunTo(n, "failed") /\ UNCHANGED shown
  /\ UNCHANGED <<creds, credFile, active, permit, agent, pairCloud,
                 ended, lost, breaks>>

(* The browser approves and the Pi hears of it, or the code expires, the   *)
(* server fails or eleven minutes are over.                                *)
PollEnds(n) ==
  /\ run[n] = "poll"
  /\ \/ RunTo(n, "complete") /\ pairing' = [pairing EXCEPT ![n] = "live"]
     \/ RunTo(n, "failed") /\ UNCHANGED pairing
  /\ UNCHANGED <<creds, credFile, active, shown, permit, agent, keyGen,
                 ended, lost, breaks>>

(* Any attempt may complete while the Pi is unpaired.                      *)
MayComplete_Unowned(n) == creds = NoCreds

MayComplete(n) == Owns(n)

(* complete_pairing.  A stop between the file and the memory is a restart  *)
(* after both, for the file is read then.                                  *)
CompletePairing(n) ==
  /\ run[n] = "complete"
  /\ IF MayComplete(n)
     THEN /\ creds' = [pair |-> n, gen |-> 0] /\ credFile' = creds'
          /\ active' = 0 /\ shown' = "complete"
          /\ RunTo(n, "over")
     ELSE RunTo(n, "failed") /\ UNCHANGED <<creds, credFile, active, shown>>
  /\ UNCHANGED <<permit, agent, pairCloud, ended, lost, breaks>>

CompleteUnsaved(n) ==
  /\ run[n] = "complete" /\ breaks < MaxBreaks
  /\ breaks' = breaks + 1 /\ RunTo(n, "failed")
  /\ UNCHANGED <<creds, credFile, active, shown, permit, agent, pairCloud,
                 ended, lost>>

(* The task ends without giving the pairing back.                          *)
FailPairing_Silent(n) ==
  /\ run[n] = "failed" /\ RunTo(n, "over")
  /\ UNCHANGED <<creds, credFile, active, shown, permit, agent, pairCloud,
                 ended, lost, breaks>>

FailPairing(n) ==
  /\ run[n] = "failed" /\ RunTo(n, "over")
  /\ IF active = n THEN active' = 0 /\ shown' = "error" ELSE UNCHANGED <<active, shown>>
  /\ UNCHANGED <<creds, credFile, permit, agent, pairCloud, ended, lost, breaks>>

-----------------------------------------------------------------------------
(* The user.                                                               *)

Cancelling ==
  /\ active' = 0
  /\ IF active # 0 THEN permit' = permit \cup {active} /\ shown' = "idle"
                   ELSE UNCHANGED <<permit, shown>>

CancelPairing ==
  /\ active # 0 /\ Cancelling
  /\ ended' = ended \cup {active}
  /\ UNCHANGED <<creds, credFile, run, agent, pairCloud, lost, breaks>>

Unpair ==
  /\ creds # NoCreds \/ active # 0
  /\ Cancelling
  /\ creds' = NoCreds
  /\ credFile' = IF creds # NoCreds THEN NoCreds ELSE credFile
  /\ ended' = ended \cup ({active, creds.pair} \ {0})
  /\ UNCHANGED <<run, agent, pairCloud, lost, breaks>>

(* The file cannot be removed: the pairing stays.                          *)
UnpairFails ==
  /\ creds # NoCreds /\ breaks < MaxBreaks
  /\ breaks' = breaks + 1
  /\ Cancelling
  /\ ended' = ended \cup ({active} \ {0})
  /\ UNCHANGED <<creds, credFile, run, agent, pairCloud, lost>>

-----------------------------------------------------------------------------
(* The agents work with a copy of the credentials.                         *)

AgentBegins(a) ==
  /\ agent[a].pc = "idle" /\ creds # NoCreds
  /\ agent' = [agent EXCEPT ![a] = [NoAgent EXCEPT !.pc = "check", !.creds = creds]]
  /\ UNCHANGED <<creds, credFile, active, shown, run, permit, pairCloud,
                 ended, lost, breaks>>

(* current_credentials, before a request is sent.                          *)
AgentChecks(a) ==
  /\ agent[a].pc = "check"
  /\ agent' = [agent EXCEPT ![a] = IF creds = @.creds THEN [@ EXCEPT !.pc = "sent"] ELSE NoAgent]
  /\ UNCHANGED <<creds, credFile, active, shown, run, permit, pairCloud,
                 ended, lost, breaks>>

(* What the Cloud says to a request with these credentials.                *)
CloudSays(c) ==
  IF pairing[c.pair] # "live" THEN "revoked"
  ELSE IF keyGen[c.pair] # c.gen THEN "stale" ELSE "stored"

CloudAnswers(a) ==
  /\ agent[a].pc = "sent"
  /\ agent' = [agent EXCEPT ![a] = [@ EXCEPT !.pc = "answered",
                                                !.answer = CloudSays(agent[a].creds)]]
  /\ UNCHANGED <<creds, credFile, active, shown, run, permit, pairCloud,
                 ended, lost, breaks>>

(* No answer, one that says nothing about the pairing, or a new key that   *)
(* cannot be opened or stored.                                             *)
RequestFails(a) ==
  /\ agent[a].pc \in {"sent", "rekey", "rekeyed"}
  /\ agent' = [agent EXCEPT ![a] = NoAgent]
  /\ UNCHANGED <<creds, credFile, active, shown, run, permit, pairCloud,
                 ended, lost, breaks>>

(* The marks this leaves in the local database, if the credentials are     *)
(* still these, are no part of the model.                                  *)
AgentStored(a) ==
  /\ agent[a].pc = "answered" /\ agent[a].answer = "stored"
  /\ agent' = [agent EXCEPT ![a] = NoAgent]
  /\ UNCHANGED <<creds, credFile, active, shown, run, permit, pairCloud, ended, lost, breaks>>

(* handle_remote_revoke trusts the answer.                                 *)
RevokeApplies_Any(a) == creds # NoCreds

RevokeApplies(a) == creds = agent[a].creds

(* handle_remote_revoke; a file that cannot be removed stays.              *)
AgentRevoked(a) ==
  /\ agent[a].pc = "answered" /\ agent[a].answer = "revoked"
  /\ IF RevokeApplies(a)
     THEN /\ creds' = NoCreds /\ lost' = lost \cup {creds.pair}
          /\ \/ credFile' = NoCreds /\ UNCHANGED breaks
             \/ breaks < MaxBreaks /\ breaks' = breaks + 1 /\ UNCHANGED credFile
     ELSE UNCHANGED <<creds, credFile, lost, breaks>>
  /\ agent' = [agent EXCEPT ![a] = NoAgent]
  /\ UNCHANGED <<active, shown, run, permit, pairCloud, ended>>

(* A stale key: the sweep polls for a new one, with a copy of its own; the *)
(* repair leaves that to the sweep.                                        *)
AgentStale(a) ==
  /\ agent[a].pc = "answered" /\ agent[a].answer = "stale"
  /\ agent' = [agent EXCEPT ![a] =
                 IF a = "sweep" /\ creds # NoCreds
                 THEN [NoAgent EXCEPT !.pc = "rekey", !.creds = creds] ELSE NoAgent]
  /\ UNCHANGED <<creds, credFile, active, shown, run, permit, pairCloud,
                 ended, lost, breaks>>

RekeyAnswers(a) ==
  /\ agent[a].pc = "rekey"
  /\ LET c == agent[a].creds IN
       agent' = [agent EXCEPT ![a] =
         IF pairing[c.pair] # "live" THEN [@ EXCEPT !.pc = "answered", !.answer = "revoked"]
         ELSE IF keyGen[c.pair] = c.gen THEN NoAgent
         ELSE [@ EXCEPT !.pc = "rekeyed", !.next = keyGen[c.pair]]]
  /\ UNCHANGED <<creds, credFile, active, shown, run, permit, pairCloud,
                 ended, lost, breaks>>

(* replace_credentials_if_current, with the generation that was answered.  *)
ReplaceCredentials(a) == creds = agent[a].creds

ApplyRekey(a) ==
  /\ agent[a].pc = "rekeyed"
  /\ IF ReplaceCredentials(a)
     THEN /\ creds' = [agent[a].creds EXCEPT !.gen = agent[a].next]
          /\ credFile' = creds'
     ELSE UNCHANGED <<creds, credFile>>
  /\ agent' = [agent EXCEPT ![a] = NoAgent]
  /\ UNCHANGED <<active, shown, run, permit, pairCloud, ended, lost, breaks>>

-----------------------------------------------------------------------------
(* The account, and restarts.                                              *)

CloudRevokes(n) ==
  /\ pairing[n] = "live"
  /\ pairing' = [pairing EXCEPT ![n] = "revoked"]
  /\ UNCHANGED <<creds, credFile, active, shown, run, permit, agent, keyGen,
                 ended, lost, breaks>>

CloudRotates(n) ==
  /\ pairing[n] = "live" /\ keyGen[n] < MaxRotations
  /\ keyGen' = [keyGen EXCEPT ![n] = @ + 1]
  /\ UNCHANGED <<creds, credFile, active, shown, run, permit, agent, pairing,
                 ended, lost, breaks>>

(* bootstrap_load_credentials                                              *)
UploaderRestarts ==
  /\ breaks < MaxBreaks /\ breaks' = breaks + 1
  /\ creds' = credFile
  /\ active' = 0 /\ shown' = "idle" /\ permit' = {}
  /\ run' = [n \in Pairings |-> IF run[n] = "new" THEN "new" ELSE "over"]
  /\ agent' = [a \in Agents |-> NoAgent]
  /\ UNCHANGED <<credFile, pairCloud, ended, lost>>

AttemptStep(n) ==
  \/ Handshake(n) \/ AttemptCancelled(n) \/ ReportProgress(n) \/ PollEnds(n)
  \/ CompletePairing(n) \/ FailPairing(n)

AgentStep(a) ==
  \/ AgentBegins(a) \/ AgentChecks(a) \/ CloudAnswers(a) \/ RequestFails(a)
  \/ AgentStored(a) \/ AgentRevoked(a) \/ AgentStale(a) \/ RekeyAnswers(a) \/ ApplyRekey(a)

PairNext ==
  \/ (\E n \in Pairings : BeginPairing(n) \/ AttemptStep(n) \/ CompleteUnsaved(n)
                          \/ CloudRevokes(n) \/ CloudRotates(n))
  \/ (\E a \in Agents : AgentStep(a))
  \/ CancelPairing \/ Unpair \/ UnpairFails \/ UploaderRestarts

PairSpec == PairInit /\ [][PairNext]_pairVars

-----------------------------------------------------------------------------
(* A pairing that the user cancelled or ended never comes back: not by a   *)
(* late answer to its attempt, not by a key rotation that was under way,   *)
(* not by a restart.                                                       *)
EndedStaysEnded == creds.pair \notin ended /\ credFile.pair \notin ended

(* The Pi forgets a pairing on its own only if the Cloud revoked that very *)
(* pairing: a late refusal of an older one leaves the newer one alone.     *)
RevokeHitsItsOwn == \A n \in lost : pairing[n] = "revoked"

(* The web interface never shows an attempt for ever: however requests,    *)
(* cancellations, a new attempt and a restart interleave, what is shown as *)
(* under way ends.                                                         *)
SpinnerStops == []<>(shown \notin {"handshaking", "polling"})
=============================================================================
