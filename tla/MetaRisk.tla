------------------------------- MODULE MetaRisk -------------------------------
(***************************************************************************)
(* The meta-risk arbiter (agent/engines/meta_risk_arbiter.py): one score   *)
(* per entity out of six weighted dimensions, cut when fewer than          *)
(* MIN_CORROBORATING_SIGNALS dimensions are active, cut again by a         *)
(* "skeptic" when findings were unsure, and published as a finding when it *)
(* reaches a level above LOW and the entity is not in its cooldown.        *)
(*                                                                         *)
(* A handler runs without a break up to the publication, so handling an    *)
(* item is one step; the cooldown starts only when the publication has     *)
(* been delivered to every subscriber, a later step of its own             *)
(* (ArbiterDelivered).  Scores are in thousandths.                         *)
(***************************************************************************)
EXTENDS DetectionEvents

CONSTANTS
  Entities,    \* users, addresses and devices that score
  MinSignals,  \* MIN_CORROBORATING_SIGNALS: 3
  MaxSignals   \* signals kept per entity: 50

ASSUME MetaRiskAssumption ==
  MinSignals \in Nat /\ MaxSignals \in Nat \ {0} /\ None \notin Entities

Dimensions == {"behavioral", "threat_intel", "physical", "insider", "device",
               "network"}

VARIABLES
  dims,       \* dimension_scores of each entity
  composite,  \* composite_score
  signals,    \* recent_signals: dimension, confidence (-1: has none), recent?
  cooling,    \* entities whose last alert is less than the cooldown ago
  alerted     \* history: the dimensions of an entity at its last alert

arbiterVars == <<dims, composite, signals, cooling, alerted>>

NoConfidence == 0 - 1

ArbiterInit ==
  /\ dims = [n \in Entities |-> [d \in Dimensions |-> 0]]
  /\ composite = [n \in Entities |-> 0]
  /\ signals = [n \in Entities |-> <<>>]
  /\ cooling = {}
  /\ alerted = [n \in Entities |-> <<>>]

(* _recalculate, with the weights 0.20 and 0.15. *)
Weighted(s) ==
  (20 * (s["behavioral"] + s["threat_intel"])
    + 15 * (s["physical"] + s["insider"] + s["device"] + s["network"])) \div 100

\* Mutant: the thresholds of the risk scoring engine.
RiskLevel_Scoring(score) ==
  CASE score >= 900 -> CRITICAL
    [] score >= 700 /\ score < 900 -> HIGH
    [] score >= 400 /\ score < 700 -> MEDIUM
    [] score < 400 -> LOW

\* _score_to_risk_level
RiskLevel(score) ==
  CASE score >= 800 -> CRITICAL
    [] score >= 650 /\ score < 800 -> HIGH
    [] score >= 450 /\ score < 650 -> MEDIUM
    [] score < 450 -> LOW

(* _extract_dimension_scores: the dimension a threat speaks about, and how *)
(* loudly.  No publisher sends the explicit `dimension_scores'.            *)
ThreatDimension(e) ==
  CASE e.type = "anomalous_behavior" -> <<"behavioral", e.score>>
    [] e.type = "threat_intel_alert" -> <<"threat_intel", e.score>>
    [] e.type = "physical_intrusion" -> <<"physical", 500>>
    [] e.type = "insider_threat" ->
         <<"insider", IF e.score = 0 THEN 300 ELSE e.score>>
    [] e.type = "network_intrusion" -> <<"network", 250 * e.sev>>
    [] e.type = "identity_mismatch" -> <<"behavioral", 400>>
    [] e.type = "device_health_fail" -> <<"device", 600>>
    [] OTHER -> <<"unknown", 0>>

\* Which dimension a confident critical finding raises: no agent has "network"
\* or "insider" in its name.
FindingDimension(agent) ==
  IF agent = "IdentityAgent" THEN <<"behavioral", 300>> ELSE <<"threat_intel", 300>>

\* update_dimension, and what it makes of the composite score.
DimsAfter(n, e) ==
  LET set(d, x) == [dims[n] EXCEPT ![d] = AtMost(1000, x)]
      th == ThreatDimension(e)
      fi == FindingDimension(e.agent)
  IN CASE e.bus = "threat" /\ th[2] > 0 -> set(th[1], th[2])
       [] e.bus = "request" /\ e.score > 300 -> set("behavioral", (3 * e.score) \div 10)
       [] e.bus = "finding" /\ e.sev = CRITICAL /\ e.conf > 800 ->
            set(fi[1], dims[n][fi[1]] + fi[2])
       [] OTHER -> dims[n]

Rescored(n, e) ==
  CASE e.bus = "threat" -> ThreatDimension(e)[2] > 0
    [] e.bus = "request" -> e.score > 300
    [] e.bus = "finding" -> e.sev = CRITICAL /\ e.conf > 800

\* add_signal: only threats name a dimension, only findings a confidence.
SignalOf(e) ==
  [dim |-> IF e.bus = "threat" THEN ThreatDimension(e)[1] ELSE None,
   conf |-> IF e.bus = "finding" THEN e.conf ELSE NoConfidence,
   recent |-> TRUE]

(* _apply_corroboration: dimensions named by a signal of the window,       *)
(* "unknown" among them, or scoring above 0.15.                            *)
Active(ds, sg) ==
  {d \in Dimensions : ds[d] > 150} \cup
  {sg[i].dim : i \in {k \in DOMAIN sg : sg[k].recent /\ sg[k].dim # None}}

Corroborated(score, active) ==
  IF Cardinality(active) >= MinSignals THEN score
  ELSE (score * AtLeast(200, Less(1000, 250 * (MinSignals - Cardinality(active)))))
         \div 1000

\* sum(...)
Total(ns) ==
  LET sum[i \in 0..Len(ns)] == IF i = 0 THEN 0 ELSE sum[i - 1] + ns[i]
  IN sum[Len(ns)]

(* _apply_skeptic: the mean confidence of the last ten signals that have   *)
(* one, 0.5 when none has.                                                 *)
MeanConfidence(sg) ==
  LET last == LastN(sg, 10)
      sure == {i \in DOMAIN last : last[i].conf # NoConfidence}
  IN IF sure = {} THEN 500
     ELSE Total([i \in DOMAIN last |-> IF i \in sure THEN last[i].conf ELSE 0])
            \div Cardinality(sure)

Skeptical(score, mean) ==
  IF mean < 500 THEN (score * (1000 - ((500 - mean) * 3) \div 10)) \div 1000
  ELSE score

\* The entity an item is about; metadata's entity_id is not looked at.
ArbiterEntity(e) ==
  CASE e.bus = "threat" -> FirstOf(<<e.user, e.ip, e.device, e.entity>>)
    [] e.bus = "request" -> e.user
    [] e.bus = "finding" -> FirstOf(<<e.user, e.ip, e.device>>)

\* The scores after an item: the new composite score replaces the old one, so
\* an item that moves no dimension cuts what was cut before.
ScoreAfter(n, e) ==
  LET ds == DimsAfter(n, e)
      sg == LastN(Append(signals[n], SignalOf(e)), MaxSignals)
      raw == IF Rescored(n, e) THEN Weighted(ds) ELSE composite[n]
  IN Skeptical(Corroborated(raw, Active(ds, sg)), MeanConfidence(sg))

Alerts(n, e) == RiskLevel(ScoreAfter(n, e)) # LOW /\ n \notin cooling

RiskAlert(n, e) ==
  [Finding("MetaRiskArbiter", "correlated_attack", RiskLevel(ScoreAfter(n, e)),
           ScoreAfter(n, e))
     EXCEPT !.entity = n]

\* What handling e publishes.
ArbiterPublishes(e) ==
  LET n == ArbiterEntity(e)
  IN IF n \in Entities /\ Alerts(n, e) THEN {RiskAlert(n, e)} ELSE {}

(* _on_threat_event, _on_access_request, _on_agent_finding and             *)
(* _evaluate_and_alert.                                                    *)
ArbiterOn(e) ==
  LET n == ArbiterEntity(e)
  IN IF n \in Entities
     THEN /\ dims' = [dims EXCEPT ![n] = DimsAfter(n, e)]
          /\ signals' = [signals EXCEPT
               ![n] = LastN(Append(@, SignalOf(e)), MaxSignals)]
          /\ composite' = [composite EXCEPT ![n] = ScoreAfter(n, e)]
          /\ alerted' = IF Alerts(n, e)
                        THEN [alerted EXCEPT ![n] = DimsAfter(n, e)]
                        ELSE alerted
     ELSE UNCHANGED <<dims, composite, signals, alerted>>

\* The publication has returned: _last_alert_time of its entity.
ArbiterDelivered(e) ==
  cooling' = IF e.agent = "MetaRiskArbiter" THEN cooling \cup {e.entity} ELSE cooling

(* An hour: the window and the cooldown are over, and the decay loop has   *)
(* taken its hundredth from every dimension and recalculated.              *)
ArbiterHour ==
  /\ dims' = [n \in Entities |-> [d \in Dimensions |-> (99 * dims[n][d]) \div 100]]
  /\ composite' = [n \in Entities |-> Weighted(dims'[n])]
  /\ signals' = [n \in Entities |->
       [i \in DOMAIN signals[n] |-> [signals[n][i] EXCEPT !.recent = FALSE]]]
  /\ cooling' = {}
  /\ UNCHANGED alerted

(* The head comment of meta_risk_arbiter.py: "requires at least 3          *)
(* independent signals to escalate above MEDIUM risk".  Every alert, of    *)
(* whatever level, is raised by at least three dimensions that are not     *)
(* zero.  It is not the corroboration that sees to it, which counts a      *)
(* signal of no known dimension as one (326-362), but the weights: two     *)
(* dimensions at their maximum stay below the lowest threshold.            *)
AlertsAreCorroborated ==
  \A n \in Entities : alerted[n] # <<>> =>
    Cardinality({d \in Dimensions : alerted[n][d] > 0}) >= 3
==============================================================================
