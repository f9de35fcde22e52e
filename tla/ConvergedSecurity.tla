--------------------------- MODULE ConvergedSecurity ---------------------------
(***************************************************************************)
(* The converged security engine (agent/engines/converged_security_engine.py) *)
(* files every item under the entity it is about and, once a minute, asks  *)
(* four rules of every entity in the order in which it got to know them.   *)
(* An exception in a rule ends the minute's round for the entities that    *)
(* follow.                                                                 *)
(*                                                                         *)
(* A history is kept longer than a bounded run lasts (seven days), and so  *)
(* are the windows of the three rules that can fire (six hours and more).  *)
(* The tailgating rule wants camera signals, which no conversion makes; it *)
(* is what it returns.                                                     *)
(***************************************************************************)
EXTENDS DetectionEvents

CONSTANT Tracked   \* the ids histories are kept for

ASSUME ConvergedAssumption == None \notin Tracked

VARIABLES
  history,    \* signals of each entity, oldest first
  known,      \* _histories: the entities, in the order they were met
  stamped,    \* _last_alert_time: (entity, rule) of the last hour
  warned      \* history: entities that an alert was published on

convergedVars == <<history, known, stamped, warned>>

ConvergedInit ==
  /\ history = [n \in Tracked |-> <<>>]
  /\ known = <<>>
  /\ stamped = {}
  /\ warned = {}

(* _threat_event_to_signal, _access_request_to_signal and                  *)
(* _on_agent_finding: what kind of signal an item makes, about whom.       *)
SignalKind(e) ==
  CASE e.bus = "request" -> "access_request"
    [] e.bus = "finding" -> "report"
    [] e.bus = "threat" ->
         CASE e.type = "identity_mismatch" -> "login"
           [] e.type = "physical_intrusion" -> "physical_access"
           [] e.type = "network_intrusion" -> "network_behavior"
           [] OTHER -> "anomaly"

ConvergedEntity(e) ==
  CASE e.bus = "threat" -> FirstOf(<<e.user, e.ip, e.device>>)
    [] e.bus = "request" -> e.user
    [] e.bus = "finding" -> FirstOf(<<e.entity, e.user, e.ip>>)

ConvergedOn(e) ==
  LET n == ConvergedEntity(e)
  IN /\ IF n \in Tracked
        THEN /\ history' = [history EXCEPT
                  ![n] = Append(@, [kind |-> SignalKind(e), item |-> e])]
             /\ known' = IF \E i \in DOMAIN known : known[i] = n THEN known
                         ELSE Append(known, n)
        ELSE UNCHANGED <<history, known>>
     /\ UNCHANGED <<stamped, warned>>

OfKind(n, kind) == {i \in DOMAIN history[n] : history[n][i].kind = kind}
SignalsOf(n) == {history[n][i] : i \in DOMAIN history[n]}

Last(S) == CHOOSE i \in S : \A j \in S : j <= i

OffHours(e) == e.hour < 7 \/ e.hour > 21

(* _evaluate_ghost_login: the latest login against the latest presence     *)
(* before it.  A login by one who was never seen scores 700, less than the *)
(* threshold.                                                              *)
GhostLogin(n) ==
  LET logins == OfKind(n, "login")
      seenAt == OfKind(n, "physical_access")
      place(e) == FirstOf(<<e.detected, e.location, e.ip>>)
  IN /\ logins # {} /\ seenAt # {}
     /\ Last(logins) > Last(seenAt)
     /\ LET from == place(history[n][Last(logins)].item)
            zone == FirstOf(<<history[n][Last(seenAt)].item.zone,
                              history[n][Last(seenAt)].item.location>>)
        IN from # None /\ zone # None /\ from # zone

Count(P) == Cardinality({i \in DOMAIN P : P[i]})

(* _evaluate_insider: three of five indicators. *)
InsiderIndicators(n) ==
  LET some(kind, Test(_)) == \E s \in SignalsOf(n) : s.kind = kind /\ Test(s.item)
      Spiked(e) == e.type = "insider_threat" /\ e.volume > 5
      Mailed(e) == e.destination = "personal_email"
      Resigned(e) == e.hr > 0
      Touched(e) == e.resource = "sensitive"
  IN Count(<<some("anomaly", Spiked), some("access_request", Touched),
             some("physical_access", OffHours), some("anomaly", Mailed),
             some("anomaly", Resigned)>>)

(* _evaluate_ransomware: three of four indicators. *)
RansomwareIndicators(n) ==
  LET some(kind, Test(_)) == \E s \in SignalsOf(n) : s.kind = kind /\ Test(s.item)
      Tunnels(e) == e.signature = "DNS_TUNNELING"
      Inside(e) == e.dst = "10.0.0.9"
      Recon(e) == e.anomaly = "reconnaissance"
      Tunnelled(e) == (e.vpn /\ e.hour < 7) \/ e.hour > 21
      Remote(e) == e.network = "vpn" /\ OffHours(e)
  IN Count(<<some("network_behavior", Tunnels), some("network_behavior", Inside),
             some("anomaly", Recon),
             some("anomaly", Tunnelled) \/ some("access_request", Remote)>>)

\* A network signal without signature or destination: the rule calls a method
\* of None.
Poisoned(n) ==
  \E s \in SignalsOf(n) :
    s.kind = "network_behavior" /\ None \in {s.item.signature, s.item.dst}

ScoresOf(n) ==
  [ghost_login |-> IF GhostLogin(n) THEN 850 ELSE 0,
   insider |-> IF Len(history[n]) >= 3 /\ InsiderIndicators(n) >= 3
               THEN AtMost(950, 750 + 30 * InsiderIndicators(n)) ELSE 0,
   tailgating |-> 0,
   ransomware |-> IF ~Poisoned(n) /\ RansomwareIndicators(n) >= 3
                  THEN AtMost(950, 800 + 20 * RansomwareIndicators(n)) ELSE 0]

Threshold ==
  [ghost_login |-> 800, insider |-> 750, tailgating |-> 850, ransomware |-> 800]

\* The rules that fire and are not in their cooldown.
Firing(n) ==
  {r \in DOMAIN Threshold :
     ScoresOf(n)[r] >= Threshold[r] /\ <<n, r>> \notin stamped}

TopScore(n) ==
  LET r == CHOOSE x \in Firing(n) :
             \A y \in Firing(n) : ScoresOf(n)[y] <= ScoresOf(n)[x]
  IN ScoresOf(n)[r]

\* _score_to_severity, of a score that has passed a threshold
ConvergedAlert(n) ==
  [Finding("ConvergedSecurityEngine", "correlated_attack",
           IF TopScore(n) >= 900 THEN CRITICAL ELSE HIGH, TopScore(n))
     EXCEPT !.entity = n]

(* _evaluate_entity raises in its last rule, after the others have had     *)
(* their cooldown stamped; _evaluation_loop takes nobody else that round.  *)
Raises(n) == Poisoned(n)

\* The entities a round gets to, the one that ends it included.
Reached ==
  {known[i] : i \in {k \in DOMAIN known : \A j \in 1..(k - 1) : ~Raises(known[j])}}

\* Mutant: only what is critical is published.
ConvergedPublishes_Critical ==
  {f \in {ConvergedAlert(n) : n \in {x \in Reached : ~Raises(x) /\ Firing(x) # {}}} :
     f.sev = CRITICAL}

ConvergedPublishes ==
  {ConvergedAlert(n) : n \in {x \in Reached : ~Raises(x) /\ Firing(x) # {}}}

EvaluationRound ==
  /\ stamped' = stamped \cup UNION {{n} \X Firing(n) : n \in Reached}
  /\ warned' = warned \cup {f.entity : f \in ConvergedPublishes}
  /\ UNCHANGED <<history, known>>

\* An hour: every cooldown is over.
ConvergedHour == stamped' = {} /\ UNCHANGED <<history, known, warned>>

(* A rule's cooldown is taken before its alert is published (375-434).  A  *)
(* cooldown nobody was alerted for belongs to an entity of which the last  *)
(* rule raised: its alert is lost for the hour.                            *)
CooldownMeansAlert == \A p \in stamped : p[1] \in warned \/ Poisoned(p[1])
==============================================================================
