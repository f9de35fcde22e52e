---------------------------- MODULE InsiderThreat ----------------------------
(***************************************************************************)
(* The insider threat engine (agent/engines/insider_threat_engine.py):     *)
(* five scores per user, an overall score weighted from them, an alert     *)
(* when it reaches the level "medium" and the user is not in the hour of   *)
(* the cooldown.  The record keeps its scores in attributes named          *)
(* <dimension>_score; the overall score asks for attributes named after    *)
(* the dimensions.  Scores are in thousandths.                             *)
(***************************************************************************)
EXTENDS DetectionEvents

CONSTANT Insiders   \* the ids records are kept for

ASSUME InsiderAssumption == None \notin Insiders

VARIABLES
  attributes,   \* of each record, by name
  risk,         \* overall_score, 0..1000
  monitored,    \* is_monitoring
  mitigated,    \* mitigation_applied
  cautioned     \* users in the hour after an alert

insiderVars == <<attributes, risk, monitored, mitigated, cautioned>>

ScoreNames == {"behavioral_score", "data_exfil_score", "hr_signal_score",
               "physical_score", "peer_compare_score"}

InsiderInit ==
  /\ attributes = [u \in Insiders |-> [a \in ScoreNames |-> 0]]
  /\ risk = [u \in Insiders |-> 0]
  /\ monitored = {} /\ mitigated = {} /\ cautioned = {}

\* getattr(self, name, 0.0)
GetAttr(r, name) == IF name \in DOMAIN r THEN r[name] ELSE 0

\* Mutant: the attributes the record has.
InsiderOverall_Named(r) ==
  (30 * GetAttr(r, "behavioral_score") + 25 * GetAttr(r, "data_exfil_score")
    + 15 * GetAttr(r, "hr_signal_score") + 15 * GetAttr(r, "physical_score")
    + 15 * GetAttr(r, "peer_compare_score")) \div 100

(* _recalculate_overall *)
InsiderOverall(r) ==
  (30 * GetAttr(r, "behavioral") + 25 * GetAttr(r, "data_exfil")
    + 15 * GetAttr(r, "hr_signal") + 15 * GetAttr(r, "physical")
    + 15 * GetAttr(r, "peer_compare")) \div 100

InsiderLevel(score) ==
  CASE score >= 951 -> "severe"
    [] score >= 800 /\ score < 951 -> "critical"
    [] score >= 650 /\ score < 800 -> "high"
    [] score >= 450 /\ score < 650 -> "medium"
    [] score < 450 -> "low"

InsiderOf(e) ==
  IF e.bus = "threat" THEN FirstOf(<<e.user, e.entity>>) ELSE e.user

Sensitive == {"database", "server_room", "data_vault", "admin_console"}

(* What the handlers add to each score.  `hr' is the weight of the HR      *)
(* event, under whichever of its two names.  A peer deviation that is not  *)
(* a number (`deviation': the behavioural engine sends a dictionary)       *)
(* raises after the scores above it have been written, and nothing is      *)
(* recalculated.  Left out are exfil_risk, which no engine sends, and a    *)
(* deviation that is a number, which the UEBA engine would send.           *)
Gain(e) ==
  LET threat == e.bus = "threat"
      sure == e.bus = "finding" /\ e.sev = CRITICAL /\ e.conf > 800
  IN [behavioral_score |->
        CASE threat /\ e.type = "anomalous_behavior" -> e.score \div 5
          [] sure -> 300
          [] OTHER -> 0,
      data_exfil_score |->
        CASE threat -> IF e.volume > 10 THEN 200 ELSE IF e.volume > 5 THEN 100 ELSE 0
          [] e.bus = "request" -> IF e.resource \in Sensitive THEN 50 ELSE 0
          [] e.bus = "finding" -> 0,
      hr_signal_score |-> IF threat THEN (3 * e.hr) \div 10 ELSE 0,
      physical_score |->
        IF threat /\ e.type = "physical_intrusion" /\ e.zone # None THEN 150 ELSE 0,
      peer_compare_score |-> 0]

Updates(e) == \E a \in ScoreNames : Gain(e)[a] # 0

Improved(r, e) ==
  [a \in DOMAIN r |-> IF a \in ScoreNames
                      THEN AtLeast(0, AtMost(1000, r[a] + Gain(e)[a])) ELSE r[a]]

InsiderAlerts(u, e) ==
  /\ Updates(e) /\ ~e.deviation
  /\ InsiderLevel(InsiderOverall(Improved(attributes[u], e))) # "low"
  /\ u \notin cautioned

SevereEnough(u, e) ==
  InsiderLevel(InsiderOverall(Improved(attributes[u], e))) \in {"critical", "severe"}

(* The three handlers with _check_and_alert, whose cooldown starts before  *)
(* the publication.                                                        *)
InsiderOn(e) ==
  LET u == InsiderOf(e)
  IN IF u \notin Insiders \/ ~Updates(e) THEN UNCHANGED insiderVars
     ELSE /\ attributes' = [attributes EXCEPT ![u] = Improved(@, e)]
          /\ risk' = IF e.deviation THEN risk
                     ELSE [risk EXCEPT ![u] = InsiderOverall(attributes'[u])]
          /\ cautioned' = IF InsiderAlerts(u, e) THEN cautioned \cup {u} ELSE cautioned
          /\ monitored' = IF InsiderAlerts(u, e) /\ SevereEnough(u, e)
                          THEN monitored \cup {u} ELSE monitored
          /\ UNCHANGED mitigated

InsiderPublishes(e) ==
  LET u == InsiderOf(e)
      score == InsiderOverall(Improved(attributes[u], e))
  IN IF u \in Insiders /\ InsiderAlerts(u, e)
     THEN {[Threat("insider_threat", IF score >= 800 THEN CRITICAL
                                     ELSE IF score >= 650 THEN HIGH ELSE MEDIUM)
              EXCEPT !.source = "InsiderThreatEngine", !.user = u, !.entity = u,
                     !.score = score]}
     ELSE {}

(* apply_mitigation halves the exfiltration score. *)
ApplyMitigation(u) ==
  /\ mitigated' = mitigated \cup {u}
  /\ attributes' = [attributes EXCEPT
       ![u]["data_exfil_score"] = @ \div 2, ![u]["behavioral_score"] = (7 * @) \div 10]
  /\ risk' = [risk EXCEPT ![u] = InsiderOverall(attributes'[u])]
  /\ UNCHANGED <<monitored, cautioned>>

\* enable_silent_monitoring, disable_silent_monitoring
SetMonitoring(u, on) ==
  /\ monitored' = IF on THEN monitored \cup {u} ELSE monitored \ {u}
  /\ UNCHANGED <<attributes, risk, mitigated, cautioned>>

(* An hour: the decay of a day, and the end of the cooldown. *)
InsiderHour ==
  /\ attributes' = [u \in Insiders |->
       [a \in DOMAIN attributes[u] |-> (97 * attributes[u][a]) \div 100]]
  /\ risk' = [u \in Insiders |-> InsiderOverall(attributes'[u])]
  /\ monitored' = {u \in monitored : risk'[u] >= 450}
  /\ cautioned' = {}
  /\ UNCHANGED mitigated
==============================================================================
