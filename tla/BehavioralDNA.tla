---------------------------- MODULE BehavioralDNA ----------------------------
(***************************************************************************)
(* The behavioural DNA engine (agent/engines/behavioral_dna_engine.py):    *)
(* a profile per user, address or device, learned from every event and     *)
(* asked, after it has learned the event, whether the event is unusual.    *)
(*                                                                         *)
(* The lists of locations, resources, applications and accesses are left   *)
(* out: what an event brings is the last element of each when the event is *)
(* looked up in it, so they never make a difference.  Hours can (a full    *)
(* list of MaxHours learns no more), networks can (only access requests    *)
(* teach them), volumes can.  Scores are in hundredths.                    *)
(***************************************************************************)
EXTENDS DetectionEvents

LOCAL INSTANCE Functions

CONSTANTS
  Profiled,    \* ids that have profiles
  MaxHours,    \* hours in a profile: 16
  MinEvents,   \* min_events_for_profile: 5
  Learned      \* threats of one gigabyte at nine o'clock that a run starts with

ASSUME BehavioralDNAAssumption ==
  MaxHours \in Nat \ {0} /\ {MinEvents, Learned} \subseteq Nat /\ None \notin Profiled

VARIABLES
  seen,        \* total_events
  visits,      \* total_sessions
  dnaHours, dnaNetworks, volumes,
  dnaRisk,     \* risk_score, in thousandths
  anomalies    \* _anomaly_history

dnaVars == <<seen, visits, dnaHours, dnaNetworks, volumes, dnaRisk, anomalies>>

DNAInit ==
  /\ seen = [n \in Profiled |-> 2 * Learned] /\ visits = [n \in Profiled |-> 0]
  /\ dnaHours = [n \in Profiled |-> IF Learned = 0 THEN {} ELSE {9}]
  /\ dnaNetworks = [n \in Profiled |-> <<>>]
  /\ volumes = [n \in Profiled |-> [i \in 1..Learned |-> 1]]
  /\ dnaRisk = [n \in Profiled |-> 0]
  /\ anomalies = <<>>

\* _extract_entities; without any, the source itself is profiled.
Profiles(e) ==
  LET named == {e.user, e.ip, e.device} \ {None}
  IN Profiled \cap (IF named = {} THEN {e.source} ELSE named)

LearnHour(H, h) ==
  IF h \in H \/ Cardinality(H) >= MaxHours THEN H ELSE H \cup {h}

LearnNetwork(s, x) ==
  IF x = None \/ \E i \in DOMAIN s : s[i] = x THEN s ELSE LastN(Append(s, x), 5)

LearnVolume(s, v) == IF v = 0 THEN s ELSE LastN(Append(s, v), 50)

\* More than three times the mean, of which it is itself a part.
Spike(s, v) == v * Len(s) > 3 * FoldFunction(+, 0, s)

(* _detect_anomaly on the updated profile. *)
AnomalyScore(n, e) ==
  LET odd(c, x) == IF c THEN x ELSE 0
  IN odd(e.hour \notin LearnHour(dnaHours[n], e.hour), 40)
   + odd(e.volume > 0 /\ Spike(LearnVolume(volumes[n], e.volume), e.volume), 50)
   + odd(e.network # None /\ dnaNetworks[n] # <<>>
          /\ \A i \in DOMAIN dnaNetworks[n] : dnaNetworks[n][i] # e.network, 20)

IsAnomaly(n, e) == seen[n] + 2 >= MinEvents /\ AnomalyScore(n, e) >= 65

(* _detect_anomaly_from_request, after hour, location, network and         *)
(* resource have been learned.                                             *)
UnusualRequest(hs, ns, e) ==
  (IF e.hour \notin hs THEN 40 ELSE 0)
  + (IF e.network # None /\ \A i \in DOMAIN ns : ns[i] # e.network THEN 20 ELSE 0)

IsRequestAnomaly(n, e) ==
  visits[n] + 1 >= 3 /\ UnusualRequest(LearnHour(dnaHours[n], e.hour),
                                      LearnNetwork(dnaNetworks[n], e.network), e) >= 65

Anomalous(e) ==
  CASE e.bus = "threat" -> {n \in Profiles(e) : IsAnomaly(n, e)}
    [] e.bus = "request" -> {n \in Profiled \cap {e.user} : IsRequestAnomaly(n, e)}
    [] e.bus = "finding" -> {}

\* What the anomaly is called first decides its severity.
AnomalySeverity(n, e) ==
  IF e.hour \notin LearnHour(dnaHours[n], e.hour) THEN MEDIUM ELSE HIGH

(* _publish_anomaly: the payload names the entity_id only, and carries a   *)
(* dictionary as its peer deviation.                                       *)
AnomalyReport(n, e) ==
  [Threat("anomalous_behavior", AnomalySeverity(n, e)) EXCEPT
     !.source = "BehavioralDNAEngine", !.entity = n, !.deviation = TRUE,
     !.hour = e.hour]

DNAPublishes(e) == {AnomalyReport(n, e) : n \in Anomalous(e)}

(* _on_threat_event, _on_access_request and _on_agent_finding.  A threat   *)
(* counts twice, in update_temporal and in _update_profile_from_event.     *)
DNAOn(e) ==
  LET about == CASE e.bus = "threat" -> Profiles(e)
                 [] e.bus = "request" -> Profiled \cap {e.user}
                 [] e.bus = "finding" ->
                      {n \in Profiled \cap {FirstOf(<<e.user, e.ip>>)} : seen[n] > 0}
      learns == e.bus # "finding"
      set(f, F(_, _)) == [n \in Profiled |-> IF n \in about THEN F(n, f[n]) ELSE f[n]]
      Seen(n, x) == x + (IF e.bus = "threat" THEN 2 ELSE IF learns THEN 1 ELSE 0)
      Visits(n, x) == IF e.bus = "request" THEN x + 1 ELSE x
      Hours(n, x) == IF learns THEN LearnHour(x, e.hour) ELSE x
      Networks(n, x) == IF e.bus = "request" THEN LearnNetwork(x, e.network) ELSE x
      Volumes(n, x) == IF e.bus = "threat" THEN LearnVolume(x, e.volume) ELSE x
      Risk(n, x) == IF learns \/ e.sev < HIGH THEN x ELSE AtMost(1000, x + e.conf \div 10)
  IN /\ seen' = set(seen, Seen)
     /\ visits' = set(visits, Visits)
     /\ dnaHours' = set(dnaHours, Hours)
     /\ dnaNetworks' = set(dnaNetworks, Networks)
     /\ volumes' = set(volumes, Volumes)
     /\ dnaRisk' = set(dnaRisk, Risk)
     /\ anomalies' = IF Anomalous(e) = {} THEN anomalies
                     ELSE Append(anomalies, [about |-> Anomalous(e), item |-> e])
==============================================================================
