--------------------------- MODULE Pairing_proofs ---------------------------
(***************************************************************************)
(* Proofs about the pairing with the Cloud, for every number of attempts,  *)
(* key rotations, restarts and failed writes.                              *)
(*                                                                         *)
(* The argument is about attempts: an attempt that owns the pairing is     *)
(* under way, credentials belong to an attempt that is over, and what the  *)
(* user ended was begun.  So nothing that still has a copy of credentials  *)
(* (the file, the two agents) can be the attempt that is cancelled now,    *)
(* and no attempt can own the pairing after it was cancelled.              *)
(***************************************************************************)
EXTENDS Pairing, TLAPS

AgentType == [pc : {"idle", "check", "sent", "answered", "rekey", "rekeyed"},
              creds : Credentials, answer : {"none", "stored", "stale", "revoked"},
              next : 0..MaxRotations]
RunType == {"new", "handshake", "progress", "poll", "complete", "failed", "over"}

\* Credentials in somebody's hands come from an attempt that is over and that
\* the Cloud knows.
Obtained(c) ==
  c # NoCreds => c.pair \in Pairings /\ pairing[c.pair] # "none" /\ run[c.pair] = "over"

ObtainedInv ==
  /\ Obtained(creds) /\ Obtained(credFile)
  /\ \A a \in Agents : Obtained(agent[a].creds)

\* An agent at work has credentials, and was told "revoked" only of a revoked
\* pairing.
AgentInv ==
  \A a \in Agents :
    /\ agent[a].pc # "idle" => agent[a].creds # NoCreds
    /\ agent[a].answer = "revoked" =>
         agent[a].creds # NoCreds /\ pairing[agent[a].creds.pair] = "revoked"

\* The attempt that owns the pairing is under way, and was not cancelled.
OwnerInv ==
  active # 0 => creds = NoCreds /\ run[active] \notin {"new", "over"} /\ active \notin ended

\* The Cloud makes the pairing when the poll succeeds, once.
PollInv ==
  \A n \in Pairings :
    /\ run[n] \in {"new", "handshake", "progress", "poll"} => pairing[n] = "none"
    /\ run[n] = "complete" => pairing[n] # "none"

BegunInv == \A n \in ended : run[n] # "new"

PairInv ==
  /\ PairTypeOK /\ ObtainedInv /\ AgentInv /\ OwnerInv /\ PollInv /\ BegunInv
  /\ EndedStaysEnded /\ RevokeHitsItsOwn

-----------------------------------------------------------------------------
(* Facts about credentials and agents. *)

LEMMA CredFacts ==
  /\ NoCreds \in Credentials /\ NoCreds.pair = 0
  /\ NoAgent \in AgentType /\ NoAgent.pc = "idle" /\ NoAgent.creds = NoCreds
  /\ NoAgent.answer = "none"
  /\ \A n \in Pairings : n \in 1..MaxPairings /\ n # 0 /\ n \in 0..MaxPairings
  <1>1. NoCreds \in Credentials /\ NoCreds.pair = 0
    BY PairingAssumption DEF NoCreds, Credentials
  <1> QED BY <1>1, PairingAssumption DEF NoAgent, AgentType, Pairings

\* The credentials that an attempt obtains.
LEMMA FreshCreds ==
  ASSUME NEW n \in Pairings
  PROVE  /\ [pair |-> n, gen |-> 0] \in Credentials
         /\ [pair |-> n, gen |-> 0].pair = n
         /\ [pair |-> n, gen |-> 0] # NoCreds
  BY PairingAssumption DEF Credentials, Pairings, NoCreds

LEMMA PairInitInv == PairInit => PairInv
  <1> SUFFICES ASSUME PairInit PROVE PairInv
    OBVIOUS
  <1>1. PairTypeOK
    <2>1. agent \in [Agents -> AgentType]
      BY CredFacts DEF PairInit
    <2>2. breaks \in 0..MaxBreaks /\ active \in 0..MaxPairings
          /\ keyGen \in [Pairings -> 0..MaxRotations]
      BY PairingAssumption DEF PairInit
    <2> QED BY <2>1, <2>2, CredFacts DEF PairInit, PairTypeOK, AgentType
  <1>2. ObtainedInv /\ AgentInv
    BY CredFacts DEF PairInit, ObtainedInv, AgentInv, Obtained
  <1>3. OwnerInv /\ PollInv /\ BegunInv /\ EndedStaysEnded /\ RevokeHitsItsOwn
    BY CredFacts
       DEF PairInit, OwnerInv, PollInv, BegunInv, EndedStaysEnded, RevokeHitsItsOwn
  <1> QED BY <1>1, <1>2, <1>3 DEF PairInv

-----------------------------------------------------------------------------
(* Attempts. *)

\* What the steps of an attempt that obtain no credentials have in common: the
\* attempt goes on from where it was, and it can only take the pairing when
\* nobody has it, or give back its own.
AttemptMoves(n, pc) ==
  /\ RunTo(n, pc)
  /\ run[n] # "over" /\ pc # "new"
  /\ \/ pairing' = pairing /\ (run[n] = "new" => pc = "handshake")
        /\ (pc \in {"handshake", "progress", "poll"} => pairing[n] = "none")
        /\ pc # "complete"
     \/ run[n] = "poll" /\ pc = "complete" /\ pairing' = [pairing EXCEPT ![n] = "live"]
  /\ \/ active' = active /\ pc # "over" /\ run[n] # "new"
     \/ active' = active /\ active # n
     \/ active' = 0
     \/ active' = n /\ creds = NoCreds /\ run[n] = "new" /\ pc # "over"
  /\ shown' \in {"idle", "handshaking", "polling", "complete", "error"}
  /\ permit' \subseteq Pairings
  /\ breaks' \in 0..MaxBreaks
  /\ UNCHANGED <<creds, credFile, agent, keyGen, ended, lost>>

LEMMA AttemptKeeps ==
  ASSUME PairInv, NEW n \in Pairings, NEW pc \in RunType, AttemptMoves(n, pc)
  PROVE  PairInv'
  <1> USE DEF PairInv, AttemptMoves
  <1>1. /\ run' \in [Pairings -> RunType] /\ run'[n] = pc
        /\ \A m \in Pairings : m # n => run'[m] = run[m]
    BY DEF PairTypeOK, RunTo, RunType
  <1>2. /\ pairing' \in [Pairings -> {"none", "live", "revoked"}]
        /\ \A m \in Pairings : m # n => pairing'[m] = pairing[m]
        /\ pairing[n] # "none" => pairing'[n] # "none"
    BY DEF PairTypeOK
  <1>a. active' \in 0..MaxPairings
    BY PairingAssumption DEF PairTypeOK, Pairings
  <1>b. active # 0 => active \in Pairings
    BY PairingAssumption DEF PairTypeOK, Pairings
  <1>3. PairTypeOK'
    <2>1. UNCHANGED <<creds, credFile, agent, keyGen, ended, lost>>
      OBVIOUS
    <2>2. /\ shown' \in {"idle", "handshaking", "polling", "complete", "error"}
          /\ permit' \subseteq Pairings /\ breaks' \in 0..MaxBreaks
      OBVIOUS
    <2> HIDE DEF AttemptMoves
    <2> QED BY <1>1, <1>2, <1>a, <2>1, <2>2 DEF PairTypeOK, RunType
  <1>4. ObtainedInv'
    BY <1>1, <1>2 DEF ObtainedInv, Obtained
  <1>5. pairing[n] = "revoked" => pairing'[n] = "revoked"
    BY DEF PollInv, PairTypeOK
  <1>6. AgentInv'
    BY <1>2, <1>5 DEF AgentInv, ObtainedInv, Obtained
  <1>7. OwnerInv'
    <2> SUFFICES ASSUME active' # 0
                 PROVE  creds' = NoCreds /\ run'[active'] \notin {"new", "over"}
                        /\ active' \notin ended'
      BY DEF OwnerInv
    <2>1. CASE active' = active /\ pc # "over"
      BY <1>1, <1>b, <2>1 DEF OwnerInv
    <2>2. CASE active' = active /\ active # n
      BY <1>1, <1>b, <2>2 DEF OwnerInv
    <2>3. CASE active' = n /\ creds = NoCreds /\ run[n] = "new" /\ pc # "over"
      BY <1>1, <2>3 DEF BegunInv
    <2> QED BY <2>1, <2>2, <2>3
  <1>8. PollInv'
    BY <1>1, <1>2 DEF PollInv
  <1>9. BegunInv' /\ EndedStaysEnded' /\ RevokeHitsItsOwn'
    BY <1>1, <1>2, <1>5 DEF BegunInv, EndedStaysEnded, RevokeHitsItsOwn, PairTypeOK
  <1> QED BY <1>3, <1>4, <1>6, <1>7, <1>8, <1>9

\* The steps of an attempt that leave the credentials alone are such moves.
LEMMA AttemptSteps ==
  ASSUME PairInv, NEW n \in Pairings,
         \/ BeginPairing(n) \/ Handshake(n) \/ AttemptCancelled(n) \/ ReportProgress(n)
         \/ PollEnds(n) \/ CompleteUnsaved(n) \/ FailPairing(n)
  PROVE  PairInv'
  <1> USE DEF pairCloud
  <1>t. /\ run[n] \in RunType /\ permit \subseteq Pairings /\ breaks \in 0..MaxBreaks
        /\ shown \in {"idle", "handshaking", "polling", "complete", "error"}
    BY DEF PairInv, PairTypeOK, RunType
  <1>p. run[n] \in {"new", "handshake", "progress", "poll"} => pairing[n] = "none"
    BY DEF PairInv, PollInv
  <1>1. CASE BeginPairing(n)
    <2>1. AttemptMoves(n, "handshake")
      BY <1>1, <1>t, <1>p DEF BeginPairing, AttemptMoves
    <2> QED BY <2>1, AttemptKeeps DEF RunType
  <1>2. CASE Handshake(n)
    <2>1. PICK pc \in {"progress", "failed"} : AttemptMoves(n, pc)
      BY <1>2, <1>t, <1>p DEF Handshake, AttemptMoves
    <2> QED BY <2>1, AttemptKeeps DEF RunType
  <1>3. CASE AttemptCancelled(n)
    <2>1. AttemptMoves(n, "failed")
      BY <1>3, <1>t, <1>p DEF AttemptCancelled, AttemptMoves
    <2> QED BY <2>1, AttemptKeeps DEF RunType
  <1>4. CASE ReportProgress(n)
    <2>1. CASE Owns(n)
      <3>1. AttemptMoves(n, "poll")
        BY <1>4, <2>1, <1>t, <1>p DEF ReportProgress, AttemptMoves
      <3> QED BY <3>1, AttemptKeeps DEF RunType
    <2>2. CASE ~Owns(n)
      <3>1. AttemptMoves(n, "failed")
        BY <1>4, <2>2, <1>t, <1>p DEF ReportProgress, AttemptMoves
      <3> QED BY <3>1, AttemptKeeps DEF RunType
    <2> QED BY <2>1, <2>2
  <1>5. CASE PollEnds(n)
    <2>1. PICK pc \in {"complete", "failed"} : AttemptMoves(n, pc)
      BY <1>5, <1>t, <1>p DEF PollEnds, AttemptMoves
    <2> QED BY <2>1, AttemptKeeps DEF RunType
  <1>6. CASE CompleteUnsaved(n)
    <2>1. breaks' \in 0..MaxBreaks
      BY <1>6, <1>t, PairingAssumption DEF CompleteUnsaved
    <2>2. AttemptMoves(n, "failed")
      BY <1>6, <2>1, <1>t DEF CompleteUnsaved, AttemptMoves
    <2> QED BY <2>2, AttemptKeeps DEF RunType
  <1>7. CASE FailPairing(n)
    <2>1. AttemptMoves(n, "over")
      BY <1>7, <1>t DEF FailPairing, AttemptMoves
    <2> QED BY <2>1, AttemptKeeps DEF RunType
  <1> QED BY <1>1, <1>2, <1>3, <1>4, <1>5, <1>6, <1>7

\* complete_pairing: only the attempt that owns the pairing may store what it
\* obtained, and the owner was not cancelled.
LEMMA CompleteStep ==
  ASSUME PairInv, NEW n \in Pairings, CompletePairing(n) PROVE PairInv'
  <1> USE DEF pairCloud
  <1>1. CASE ~MayComplete(n)
    <2>1. AttemptMoves(n, "failed")
      BY <1>1 DEF CompletePairing, AttemptMoves, PairInv, PairTypeOK
    <2> QED BY <2>1, AttemptKeeps DEF RunType
  <1>2. CASE MayComplete(n)
    <2> DEFINE c == [pair |-> n, gen |-> 0]
    <2>1. creds' = c /\ credFile' = c /\ active' = 0 /\ shown' = "complete" /\ RunTo(n, "over")
          /\ run[n] = "complete"
          /\ UNCHANGED <<permit, agent, pairing, keyGen, ended, lost, breaks>>
      BY <1>2 DEF CompletePairing
    <2>2. c \in Credentials /\ c.pair = n /\ c # NoCreds
      BY FreshCreds
    <2>3. active = n /\ n # 0 /\ n \notin ended /\ pairing[n] # "none"
      BY <1>2, <2>1, CredFacts DEF MayComplete, Owns, PairInv, OwnerInv, PollInv
    <2>4. /\ run' \in [Pairings -> RunType] /\ run'[n] = "over"
          /\ \A m \in Pairings : m # n => run'[m] = run[m]
      BY <2>1 DEF PairInv, PairTypeOK, RunTo, RunType
    <2> HIDE DEF c
    <2>5. PairTypeOK'
      BY <2>1, <2>2, <2>4, PairingAssumption DEF PairInv, PairTypeOK, RunType
    <2>6. ObtainedInv'
      BY <2>1, <2>2, <2>3, <2>4 DEF PairInv, ObtainedInv, Obtained
    <2>7. AgentInv' /\ OwnerInv' /\ PollInv' /\ BegunInv' /\ RevokeHitsItsOwn'
      BY <2>1, <2>4
         DEF PairInv, PairTypeOK, AgentInv, OwnerInv, PollInv, BegunInv, RevokeHitsItsOwn
    <2>8. EndedStaysEnded'
      BY <2>1, <2>2, <2>3 DEF EndedStaysEnded
    <2> QED BY <2>5, <2>6, <2>7, <2>8 DEF PairInv
  <1> QED BY <1>1, <1>2

-----------------------------------------------------------------------------
(* The agents. *)

\* What the agents' steps have in common: one agent moves, the credentials stay
\* those of the same pairing or go, and the pairing goes only if the Cloud
\* revoked it.
AgentMoves(a, r) ==
  /\ agent' = [agent EXCEPT ![a] = r] /\ r \in AgentType
  /\ Obtained(r.creds)
  /\ r.pc # "idle" => r.creds # NoCreds
  /\ r.answer = "revoked" => r.creds # NoCreds /\ pairing[r.creds.pair] = "revoked"
  /\ creds' \in Credentials
  /\ creds' = NoCreds \/ (creds # NoCreds /\ creds'.pair = creds.pair)
  /\ credFile' \in {NoCreds, credFile, creds'}
  /\ \/ lost' = lost
     \/ creds # NoCreds /\ lost' = lost \cup {creds.pair} /\ pairing[creds.pair] = "revoked"
  /\ breaks' \in 0..MaxBreaks
  /\ UNCHANGED <<active, shown, run, permit, pairing, keyGen, ended>>

LEMMA AgentKeeps ==
  ASSUME PairInv, NEW a \in Agents, NEW r, AgentMoves(a, r) PROVE PairInv'
  <1> USE DEF PairInv, AgentMoves
  <1>1. /\ agent' \in [Agents -> AgentType] /\ agent'[a] = r
        /\ \A b \in Agents : b # a => agent'[b] = agent[b]
    BY DEF PairTypeOK, AgentType
  <1>2. Obtained(creds)
    BY DEF ObtainedInv
  <1>3. PairTypeOK'
    <2>1. lost' \subseteq Pairings
      BY <1>2 DEF Obtained, PairTypeOK
    <2>2. credFile' \in Credentials
      BY CredFacts DEF PairTypeOK
    <2> QED BY <1>1, <2>1, <2>2 DEF PairTypeOK, AgentType
  <1>4. ObtainedInv'
    <2>1. Obtained(creds)' /\ Obtained(credFile)'
      BY <1>2, CredFacts DEF ObtainedInv, Obtained
    <2>2. \A b \in Agents : Obtained(agent[b].creds)'
      BY <1>1 DEF ObtainedInv, Obtained
    <2> QED BY <2>1, <2>2 DEF ObtainedInv
  <1>5. AgentInv'
    BY <1>1 DEF AgentInv
  <1>6. OwnerInv' /\ PollInv' /\ BegunInv'
    BY DEF OwnerInv, PollInv, BegunInv
  <1>7. EndedStaysEnded'
    BY CredFacts DEF EndedStaysEnded, PairTypeOK, Pairings
  <1>8. RevokeHitsItsOwn'
    BY DEF RevokeHitsItsOwn
  <1> QED BY <1>3, <1>4, <1>5, <1>6, <1>7, <1>8

\* Every step of an agent is such a move.
LEMMA AgentSteps ==
  ASSUME PairInv, NEW a \in Agents, AgentStep(a) PROVE PairInv'
  <1> USE DEF pairCloud
  <1>t. /\ creds \in Credentials /\ credFile \in Credentials /\ agent[a] \in AgentType
        /\ agent \in [Agents -> AgentType]
        /\ breaks \in 0..MaxBreaks
    BY DEF PairInv, PairTypeOK, AgentType
  <1>i. /\ Obtained(creds) /\ Obtained(agent[a].creds)
        /\ agent[a].pc # "idle" => agent[a].creds # NoCreds
        /\ agent[a].answer = "revoked" => pairing[agent[a].creds.pair] = "revoked"
    BY DEF PairInv, ObtainedInv, AgentInv
  <1>n. Obtained(NoCreds)
    BY DEF Obtained
  <1>q. ASSUME NEW r \in AgentType, agent' = [agent EXCEPT ![a] = r],
               Obtained(r.creds), r.pc # "idle" => r.creds # NoCreds,
               r.answer = "revoked" => r.creds # NoCreds /\ pairing[r.creds.pair] = "revoked",
               UNCHANGED <<creds, credFile, active, shown, run, permit, pairing,
                           keyGen, ended, lost, breaks>>
        PROVE  PairInv'
    <2>1. AgentMoves(a, r)
      BY <1>q, <1>t DEF AgentMoves
    <2> QED BY <2>1, AgentKeeps
  <1>g. ASSUME agent' = [agent EXCEPT ![a] = NoAgent],
               UNCHANGED <<creds, credFile, active, shown, run, permit, pairing,
                           keyGen, ended, lost, breaks>>
        PROVE  PairInv'
    BY <1>g, <1>q, <1>n, CredFacts
  <1>1. CASE AgentBegins(a)
    <2> DEFINE r == [NoAgent EXCEPT !.pc = "check", !.creds = creds]
    <2>1. r \in AgentType /\ r.creds = creds /\ r.answer = "none"
      BY <1>t, CredFacts DEF AgentType
    <2> QED BY <1>1, <1>q, <1>i, <2>1 DEF AgentBegins
  <1>2. CASE AgentChecks(a)
    <2> DEFINE r == [agent[a] EXCEPT !.pc = "sent"]
    <2>1. r \in AgentType /\ r.creds = agent[a].creds /\ r.answer = agent[a].answer
      BY <1>t DEF AgentType
    <2>2. CASE creds = agent[a].creds
      <3>1. agent' = [agent EXCEPT ![a] = r]
        BY <1>2, <2>2, <1>t DEF AgentChecks
      <3> HIDE DEF r
      <3> QED BY <1>2, <1>q, <1>i, <2>1, <3>1 DEF AgentChecks
    <2>3. CASE creds # agent[a].creds
      <3>1. agent' = [agent EXCEPT ![a] = NoAgent]
        BY <1>2, <2>3, <1>t DEF AgentChecks
      <3> QED BY <1>2, <1>g, <3>1 DEF AgentChecks
    <2> QED BY <2>2, <2>3
  <1>3. CASE CloudAnswers(a)
    <2> DEFINE r == [agent[a] EXCEPT !.pc = "answered", !.answer = CloudSays(agent[a].creds)]
    <2>0. CloudSays(agent[a].creds) \in {"stored", "stale", "revoked"}
      BY DEF CloudSays
    <2>1. /\ r \in AgentType /\ r.creds = agent[a].creds
          /\ r.answer = CloudSays(agent[a].creds) /\ agent' = [agent EXCEPT ![a] = r]
      BY <1>3, <1>t, <2>0 DEF AgentType, CloudAnswers
    <2>2. agent[a].creds # NoCreds
      BY <1>3, <1>i DEF CloudAnswers
    <2>3. pairing[agent[a].creds.pair] \in {"live", "revoked"}
      BY <2>2, <1>i DEF Obtained, PairInv, PairTypeOK
    <2>4. r.answer = "revoked" => pairing[r.creds.pair] = "revoked"
      BY <2>1, <2>3 DEF CloudSays
    <2> HIDE DEF r
    <2> QED BY <1>3, <1>q, <1>i, <2>1, <2>2, <2>4 DEF CloudAnswers
  <1>4. CASE RequestFails(a)
    BY <1>4, <1>g DEF RequestFails
  <1>5. CASE AgentStored(a)
    BY <1>5, <1>g DEF AgentStored
  <1>6. CASE AgentRevoked(a)
    <2>1. breaks' \in 0..MaxBreaks
      BY <1>6, <1>t, PairingAssumption DEF AgentRevoked
    <2>2. agent[a].creds # NoCreds /\ pairing[agent[a].creds.pair] = "revoked"
      BY <1>6, <1>i DEF AgentRevoked
    <2>3. AgentMoves(a, NoAgent)
      BY <1>6, <2>1, <2>2, <1>t, <1>n, CredFacts DEF AgentRevoked, RevokeApplies, AgentMoves
    <2> QED BY <2>3, AgentKeeps
  <1>7. CASE AgentStale(a)
    <2> DEFINE r == [NoAgent EXCEPT !.pc = "rekey", !.creds = creds]
    <2>1. r \in AgentType /\ r.creds = creds /\ r.answer = "none"
      BY <1>t, CredFacts DEF AgentType
    <2>2. CASE a = "sweep" /\ creds # NoCreds
      BY <1>7, <2>2, <1>q, <1>i, <2>1 DEF AgentStale
    <2>3. CASE ~(a = "sweep" /\ creds # NoCreds)
      BY <1>7, <2>3, <1>g DEF AgentStale
    <2> QED BY <2>2, <2>3
  <1>8. CASE RekeyAnswers(a)
    <2> DEFINE c == agent[a].creds
               r == [agent[a] EXCEPT !.pc = "answered", !.answer = "revoked"]
               k == [agent[a] EXCEPT !.pc = "rekeyed", !.next = keyGen[c.pair]]
    <2>1. c # NoCreds /\ pairing[c.pair] \in {"live", "revoked"}
      BY <1>8, <1>i DEF RekeyAnswers, Obtained, PairInv, PairTypeOK
    <2>2. CASE pairing[c.pair] # "live"
      <3>1. r \in AgentType /\ r.creds = c /\ agent' = [agent EXCEPT ![a] = r]
        BY <1>8, <2>2, <1>t DEF RekeyAnswers, AgentType
      <3> HIDE DEF r
      <3> QED BY <1>8, <1>q, <1>i, <2>1, <2>2, <3>1 DEF RekeyAnswers
    <2>3. CASE pairing[c.pair] = "live" /\ keyGen[c.pair] = c.gen
      BY <1>8, <2>3, <1>g DEF RekeyAnswers
    <2>4. CASE pairing[c.pair] = "live" /\ keyGen[c.pair] # c.gen
      <3>0. keyGen[c.pair] \in 0..MaxRotations
        BY <2>1, <1>i DEF Obtained, PairInv, PairTypeOK
      <3>1. k \in AgentType /\ k.creds = c /\ k.answer = agent[a].answer
            /\ agent' = [agent EXCEPT ![a] = k]
        BY <1>8, <2>4, <3>0, <1>t DEF RekeyAnswers, AgentType
      <3> HIDE DEF k
      <3> QED BY <1>8, <1>q, <1>i, <2>1, <3>1 DEF RekeyAnswers
    <2> QED BY <2>2, <2>3, <2>4
  <1>9. CASE ApplyRekey(a)
    <2> DEFINE d == [agent[a].creds EXCEPT !.gen = agent[a].next]
    <2>1. CASE ReplaceCredentials(a)
      <3>1. creds = agent[a].creds /\ creds # NoCreds /\ creds.pair \in Pairings
        BY <1>9, <2>1, <1>i DEF ApplyRekey, ReplaceCredentials, Obtained
      <3>2. agent[a].next \in 0..MaxRotations
        BY <1>t DEF AgentType
      <3>3. d \in Credentials /\ d.pair = creds.pair
        BY <3>1, <3>2, <1>t DEF Credentials
      <3>4. creds' = d /\ credFile' = d
        BY <1>9, <2>1 DEF ApplyRekey
      <3> HIDE DEF d
      <3>5. AgentMoves(a, NoAgent)
        BY <1>9, <3>1, <3>3, <3>4, <1>t, <1>n, CredFacts DEF ApplyRekey, AgentMoves
      <3> QED BY <3>5, AgentKeeps
    <2>2. CASE ~ReplaceCredentials(a)
      BY <1>9, <2>2, <1>g DEF ApplyRekey
    <2> QED BY <2>1, <2>2
  <1> QED
    BY <1>1, <1>2, <1>3, <1>4, <1>5, <1>6, <1>7, <1>8, <1>9 DEF AgentStep

-----------------------------------------------------------------------------
(* The user, the account and restarts. *)

\* Cancelling and unpairing end the attempt that owns the pairing and the
\* pairing itself, and nothing else.
LEMMA UserSteps ==
  ASSUME PairInv, CancelPairing \/ Unpair \/ UnpairFails PROVE PairInv'
  <1> USE DEF PairInv, pairCloud
  <1>a. active # 0 => active \in Pairings /\ creds = NoCreds
    BY PairingAssumption DEF PairTypeOK, Pairings, OwnerInv
  <1>c. creds # NoCreds => creds.pair \in Pairings /\ run[creds.pair] = "over"
    BY DEF ObtainedInv, Obtained
  <1>f. credFile.pair = active => active = 0
    BY CredFacts DEF ObtainedInv, Obtained, OwnerInv
  <1>1. /\ active' = 0 /\ permit' \subseteq Pairings
        /\ shown' \in {"idle", "handshaking", "polling", "complete", "error"}
    BY <1>a DEF CancelPairing, Unpair, UnpairFails, Cancelling, PairTypeOK
  <1>2. UNCHANGED <<run, agent, pairing, keyGen, lost>>
    BY DEF CancelPairing, Unpair, UnpairFails
  <1>3. creds' \in {creds, NoCreds} /\ credFile' \in {credFile, NoCreds}
    BY DEF CancelPairing, Unpair, UnpairFails
  <1>4. breaks' \in 0..MaxBreaks
    BY PairingAssumption DEF CancelPairing, Unpair, UnpairFails, PairTypeOK
  <1>5. \A m \in ended' : m \in Pairings /\ (m \in ended \/ m \in {active, creds.pair})
    BY <1>a, <1>c, CredFacts DEF CancelPairing, Unpair, UnpairFails, PairTypeOK
  <1>6. PairTypeOK'
    BY <1>1, <1>2, <1>3, <1>4, <1>5, CredFacts, PairingAssumption DEF PairTypeOK
  <1>7. ObtainedInv' /\ AgentInv' /\ PollInv' /\ RevokeHitsItsOwn' /\ OwnerInv'
    BY <1>1, <1>2, <1>3
       DEF ObtainedInv, Obtained, AgentInv, PollInv, RevokeHitsItsOwn, OwnerInv
  <1>8. BegunInv'
    BY <1>2, <1>5, <1>a, <1>c, CredFacts DEF BegunInv, OwnerInv
  <1>9. EndedStaysEnded'
    <2>0. 0 \notin ended'
      BY <1>5, CredFacts
    <2>1. CASE CancelPairing
      BY <2>1, <2>0, <1>a, <1>f, CredFacts DEF CancelPairing, EndedStaysEnded
    <2>2. CASE Unpair
      <3>1. creds'.pair \notin ended'
        BY <2>2, <2>0, CredFacts DEF Unpair
      <3>2. CASE creds # NoCreds
        BY <2>2, <2>0, <3>1, <3>2, CredFacts DEF Unpair, EndedStaysEnded
      <3>3. CASE creds = NoCreds
        <4>1. ended' = ended \cup ({active, 0} \ {0}) /\ credFile' = credFile
          BY <2>2, <3>3, CredFacts DEF Unpair
        <4> QED BY <4>1, <3>1, <1>f DEF EndedStaysEnded
      <3> QED BY <3>2, <3>3
    <2>3. CASE UnpairFails
      <3>1. active = 0 /\ ended' = ended
        BY <2>3, <1>a DEF UnpairFails
      <3> QED BY <2>3, <3>1 DEF UnpairFails, EndedStaysEnded
    <2> QED BY <2>1, <2>2, <2>3
  <1> QED BY <1>6, <1>7, <1>8, <1>9

\* The account revokes and rotates; a restart reads the file.
LEMMA OtherSteps ==
  ASSUME PairInv,
         UploaderRestarts \/ \E n \in Pairings : CloudRevokes(n) \/ CloudRotates(n)
  PROVE  PairInv'
  <1> USE DEF PairInv, pairCloud
  <1>1. ASSUME NEW n \in Pairings, CloudRevokes(n) PROVE PairInv'
    <2>1. /\ pairing' \in [Pairings -> {"none", "live", "revoked"}]
          /\ \A m \in Pairings : /\ pairing'[m] = "none" <=> pairing[m] = "none"
                                 /\ pairing[m] = "revoked" => pairing'[m] = "revoked"
      BY <1>1 DEF CloudRevokes, PairTypeOK
    <2>2. UNCHANGED <<creds, credFile, active, shown, run, permit, agent, keyGen,
                      ended, lost, breaks>>
      BY <1>1 DEF CloudRevokes
    <2>3. PairTypeOK'
      BY <2>1, <2>2 DEF PairTypeOK
    <2>4. ObtainedInv' /\ PollInv'
      BY <2>1, <2>2 DEF ObtainedInv, Obtained, PollInv
    <2>5. AgentInv'
      BY <2>1, <2>2 DEF AgentInv, ObtainedInv, Obtained
    <2>6. OwnerInv' /\ BegunInv' /\ EndedStaysEnded' /\ RevokeHitsItsOwn'
      BY <2>1, <2>2 DEF OwnerInv, BegunInv, EndedStaysEnded, RevokeHitsItsOwn, PairTypeOK
    <2> QED BY <2>3, <2>4, <2>5, <2>6
  <1>2. ASSUME NEW n \in Pairings, CloudRotates(n) PROVE PairInv'
    <2>1. keyGen' \in [Pairings -> 0..MaxRotations]
      BY <1>2, PairingAssumption DEF CloudRotates, PairTypeOK
    <2>2. UNCHANGED <<creds, credFile, active, shown, run, permit, agent, pairing,
                      ended, lost, breaks>>
      BY <1>2 DEF CloudRotates
    <2> QED
      BY <2>1, <2>2 DEF PairTypeOK, ObtainedInv, Obtained, AgentInv, OwnerInv, PollInv,
                        BegunInv, EndedStaysEnded, RevokeHitsItsOwn
  <1>3. CASE UploaderRestarts
    <2>1. /\ creds' = credFile /\ active' = 0 /\ shown' = "idle" /\ permit' = {}
          /\ agent' = [a \in Agents |-> NoAgent]
          /\ UNCHANGED <<credFile, pairing, keyGen, ended, lost>>
      BY <1>3 DEF UploaderRestarts
    <2>2. breaks' \in 0..MaxBreaks
      BY <1>3, PairingAssumption DEF UploaderRestarts, PairTypeOK
    <2>3. /\ run' \in [Pairings -> RunType]
          /\ \A m \in Pairings : run'[m] = IF run[m] = "new" THEN "new" ELSE "over"
      BY <1>3 DEF UploaderRestarts, RunType
    <2>4. agent' \in [Agents -> AgentType]
      BY <2>1, CredFacts
    <2>5. PairTypeOK'
      BY <2>1, <2>2, <2>3, <2>4, PairingAssumption DEF PairTypeOK, RunType, AgentType
    <2>6. ObtainedInv' /\ AgentInv'
      BY <2>1, <2>3, CredFacts DEF ObtainedInv, Obtained, AgentInv
    <2>7. OwnerInv' /\ PollInv' /\ BegunInv'
      BY <2>1, <2>3 DEF OwnerInv, PollInv, BegunInv, PairTypeOK
    <2>8. EndedStaysEnded' /\ RevokeHitsItsOwn'
      BY <2>1 DEF EndedStaysEnded, RevokeHitsItsOwn
    <2> QED BY <2>5, <2>6, <2>7, <2>8
  <1> QED BY <1>1, <1>2, <1>3

LEMMA PairNextInv == PairInv /\ [PairNext]_pairVars => PairInv'
  <1> SUFFICES ASSUME PairInv, [PairNext]_pairVars PROVE PairInv'
    OBVIOUS
  <1>1. CASE UNCHANGED pairVars
    BY <1>1 DEF pairVars, PairInv, PairTypeOK, ObtainedInv, Obtained, AgentInv, OwnerInv,
                PollInv, BegunInv, EndedStaysEnded, RevokeHitsItsOwn
  <1>2. CASE PairNext
    BY <1>2, AttemptSteps, CompleteStep, AgentSteps, UserSteps, OtherSteps
       DEF PairNext, AttemptStep
  <1> QED BY <1>1, <1>2

LEMMA PairAlways == PairSpec => []PairInv
  BY PairInitInv, PairNextInv, PTL DEF PairSpec

(* The state of the pairing keeps its type.                                *)
THEOREM PairTypes == PairSpec => []PairTypeOK
  <1>1. PairInv => PairTypeOK
    BY DEF PairInv
  <1> QED BY <1>1, PairAlways, PTL

(* A pairing that the user cancelled or ended never comes back, however    *)
(* attempts, the agents' answers, key rotations, failed removals and       *)
(* restarts interleave.                                                    *)
THEOREM CancelledStaysCancelled == PairSpec => []EndedStaysEnded
  <1>1. PairInv => EndedStaysEnded
    BY DEF PairInv
  <1> QED BY <1>1, PairAlways, PTL

(* The Pi removes credentials on its own only when the Cloud revoked that  *)
(* very pairing: a late refusal never hits a newer pairing.                *)
THEOREM RevocationIsOfThisPairing == PairSpec => []RevokeHitsItsOwn
  <1>1. PairInv => RevokeHitsItsOwn
    BY DEF PairInv
  <1> QED BY <1>1, PairAlways, PTL
=============================================================================
