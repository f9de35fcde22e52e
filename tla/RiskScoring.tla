----------------------------- MODULE RiskScoring -----------------------------
(***************************************************************************)
(* The risk scoring engine (agent/engines/risk_scoring_engine.py): a set   *)
(* of factors per entity, their weighted mean, a decay every five minutes, *)
(* and the score of the meta-risk arbiter, which once received replaces    *)
(* the mean.  Scores are in thousandths.                                   *)
(***************************************************************************)
EXTENDS MetaRisk

LOCAL INSTANCE Functions

VARIABLES
  factors,    \* the factors present so far, and their values
  overall,    \* overall_risk
  arbitrated, \* entities whose score is the arbiter's (_has_arbiter_score)
  handled     \* total_events, up to what makes an entity stable; the
              \* engine has a record of an entity when it is not 0

riskVars == <<factors, overall, arbitrated, handled>>

MinEventsForStable == 5

FactorWeight ==
  [identity |-> 20, device |-> 20, network |-> 10, location |-> 10,
   behavioral |-> 15, geo_velocity |-> 10, threat_intel |-> 10, privilege |-> 5]
Factors == DOMAIN FactorWeight

NoFactors == [f \in {} |-> 0]

RiskInit ==
  /\ factors = [n \in Entities |-> NoFactors]
  /\ overall = [n \in Entities |-> 0]
  /\ arbitrated = {}
  /\ handled = [n \in Entities |-> 0]

(* _recalculate_overall: the mean over the factors that are present. *)
Mean(fs) ==
  IF DOMAIN fs = {} THEN 0
  ELSE SumFunction([f \in DOMAIN fs |-> fs[f] * FactorWeight[f]])
         \div SumFunctionOnSet(FactorWeight, DOMAIN fs)

\* Mutant: the factors also overwrite a score that the arbiter has set.
Overall_Unarbitrated(n, fs) == Mean(fs)

Overall(n, fs) == IF n \in arbitrated THEN overall[n] ELSE Mean(fs)

With(fs, f, x) == (f :> AtMost(1000, x)) @@ fs

\* get_risk_level
RiskOf(score) ==
  CASE score >= 900 -> CRITICAL
    [] score >= 700 /\ score < 900 -> HIGH
    [] score >= 400 /\ score < 700 -> MEDIUM
    [] score < 400 -> LOW

ScoreIdentity(e) ==
  AtMost(1000,
    (IF e.type = "identity_mismatch"
     THEN 400 + (IF e.biometric # 0 /\ e.biometric < 500 THEN 300 ELSE 0)
              + (IF None \notin {e.location, e.detected} /\ e.location # e.detected
                 THEN 200 ELSE 0)
     ELSE IF e.type = "insider_threat" THEN 300 ELSE 0)
    + 100 * (e.sev - 1))

ScoreNetwork(e) ==
  IF e.type # "network_intrusion" THEN 0
  ELSE AtMost(1000,
    300 + (CASE e.rate > 10000 -> 300
             [] e.rate > 5000 /\ e.rate <= 10000 -> 200
             [] e.rate <= 5000 -> 0)
        + (IF e.signature \in {"RANSOMWARE_C2", "RCE_EXPLOIT", "DATA_EXFIL"}
           THEN 400 ELSE 0))

ScoreDevice(e) == IF e.type = "device_health_fail" THEN 500 ELSE 0

(* _extract_entities: what a threat says of its user, address and device.  *)
(* Each gets the factor of its kind whatever the threat, so a user's       *)
(* intrusion is identity risk; _derive_risk_from_threat, the fallback for  *)
(* an entity without a factor, is never reached.                           *)
Extracted(e) ==
  {<<e.user, "identity", ScoreIdentity(e)>>, <<e.ip, "network", ScoreNetwork(e)>>,
   <<e.device, "device", ScoreDevice(e)>>}
  \cup (IF e.type = "anomalous_behavior"
        THEN {<<e.user, "behavioral", 250 * e.sev>>} ELSE {})

FactorsAfterThreat(n, e) ==
  LET about == {x \in Extracted(e) : x[1] = n}
  IN [f \in {x[2] : x \in about} |-> (CHOOSE x \in about : x[2] = f)[3]] @@ factors[n]

\* _on_agent_finding: the factor is guessed from the agent's name.
FactorOfAgent(agent) ==
  CASE agent = "IdentityAgent" -> "identity"
    [] agent = "DeviceTrustEngine" -> "device"
    [] OTHER -> "threat_intel"

FindingIncrease(e) ==
  LET base == (3 * e.conf) \div 10
  IN CASE e.sev = CRITICAL -> (3 * base) \div 2
       [] e.sev = HIGH -> (6 * base) \div 5
       [] e.sev < HIGH -> base

Known(f, n) == IF f \in DOMAIN factors[n] THEN factors[n][f] ELSE 0

(* _update_from_meta_risk: the arbiter's own dictionary, read when the      *)
(* finding arrives.  Insider and behavioral share a factor; which of them  *)
(* stands `last' in the dictionary depends on which spoke first.           *)
ArbiterFactors(n, last) ==
  LET known(d, f) == IF dims[n][d] > 0 THEN f :> dims[n][d] ELSE NoFactors
  IN known(last, "behavioral") @@ known("insider", "behavioral")
     @@ known("behavioral", "behavioral") @@ known("threat_intel", "threat_intel")
     @@ known("physical", "location") @@ known("device", "device")
     @@ known("network", "network") @@ factors[n]

FactorsAfter(n, e, last) ==
  CASE e.bus = "threat" -> FactorsAfterThreat(n, e)
    [] e.bus = "request" ->
         IF e.user = n /\ e.network \notin {None, "corporate", "vpn", "trusted"}
         THEN With(factors[n], "network", Known("network", n) + 100)
         ELSE factors[n]
    [] e.bus = "finding" /\ e.agent = "MetaRiskArbiter" ->
         IF e.entity = n THEN ArbiterFactors(n, last) ELSE factors[n]
    [] e.bus = "finding" /\ e.agent # "MetaRiskArbiter" ->
         IF FirstOf(<<e.user, e.ip, e.device>>) = n
         THEN With(factors[n], FactorOfAgent(e.agent),
                   Known(FactorOfAgent(e.agent), n) + FindingIncrease(e))
         ELSE factors[n]

Concerned(e) ==
  Entities \cap
    (CASE e.bus = "threat" -> {e.user, e.ip, e.device}
       [] e.bus = "request" -> {e.user}
       [] e.bus = "finding" /\ e.agent = "MetaRiskArbiter" -> {e.entity}
       [] e.bus = "finding" /\ e.agent # "MetaRiskArbiter" ->
            {FirstOf(<<e.user, e.ip, e.device>>)})

ByArbiter(n, e) == e.agent = "MetaRiskArbiter" /\ e.entity = n

(* The three handlers.  An arbiter's score is taken as it is, and no       *)
(* factor changes it afterwards.                                           *)
RiskOn(e) ==
  \E last \in IF \A n \in Entities : ByArbiter(n, e) =>
                    dims[n]["insider"] = 0 \/ dims[n]["behavioral"] = 0
             THEN {"insider"} ELSE {"insider", "behavioral"} :
    /\ factors' = [n \in Entities |-> FactorsAfter(n, e, last)]
    /\ overall' = [n \in Entities |->
         IF ByArbiter(n, e) THEN AtMost(1000, e.conf) ELSE Overall(n, factors'[n])]
    /\ arbitrated' = arbitrated \cup {n \in Entities : ByArbiter(n, e)}
    /\ handled' = [n \in Entities |->
         IF n \in Concerned(e) THEN AtMost(MinEventsForStable, handled[n] + 1)
         ELSE handled[n]]

(* One pass of the decay loop.  The loss is 1 - rate ** hours with the     *)
(* rates 0.01 to 0.05, so that in the five minutes between two passes a    *)
(* third to a fifth of every factor is lost, the most where risk is least. *)
Remains(score) ==
  CASE RiskOf(score) = LOW -> 681
    [] RiskOf(score) = MEDIUM -> 721
    [] RiskOf(score) = HIGH -> 746
    [] RiskOf(score) = CRITICAL -> 779

\* Factors and score of an entity after the twelve passes of an hour.
Decayed(n) ==
  LET pass[k \in 0..12] ==
        IF k = 0 THEN [fs |-> factors[n], score |-> overall[n]]
        ELSE LET last == pass[k - 1]
                 left == Remains(last.score)
                 fs == [f \in DOMAIN last.fs |-> (last.fs[f] * left) \div 1000]
             IN [fs |-> fs, score |-> Mean(fs)]
  IN pass[12]

\* An hour: the arbiter's entities are skipped.
RiskHour ==
  /\ factors' = [n \in Entities |->
        IF n \in arbitrated THEN factors[n] ELSE Decayed(n).fs]
  /\ overall' = [n \in Entities |->
        IF n \in arbitrated THEN overall[n] ELSE Decayed(n).score]
  /\ UNCHANGED <<arbitrated, handled>>

(* The records are kept in a TTLCache of max_dict_size (10000) entities,   *)
(* each entered when it is made and never again: after a day, or when too  *)
(* many others came, the record is gone, and what is handled next starts a *)
(* new one.  How old a record is and how many others there are is not      *)
(* kept: any record may go at any time.                                    *)
RiskForgets(n) ==
  /\ handled[n] > 0
  /\ factors' = [factors EXCEPT ![n] = NoFactors]
  /\ overall' = [overall EXCEPT ![n] = 0]
  /\ arbitrated' = arbitrated \ {n}
  /\ handled' = [handled EXCEPT ![n] = 0]
=============================================================================
