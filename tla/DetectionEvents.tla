--------------------------- MODULE DetectionEvents ---------------------------
(***************************************************************************)
(* What travels on the agent's event bus between the detection engines     *)
(* (core/events.py): ThreatEvents, AccessRequests and AgentFindings, as    *)
(* one record type whose fields are the payload and metadata keys the      *)
(* engines read.  A key that is absent has the value the readers default   *)
(* to.  Scores and confidences are in thousandths, volumes in GB.          *)
(***************************************************************************)
EXTENDS Integers, Sequences, FiniteSets, TLC

LOW == 1
MEDIUM == 2
HIGH == 3
CRITICAL == 4

None == ""

Blank ==
  [bus |-> "threat", type |-> None, sev |-> MEDIUM, source |-> "sensor",
   user |-> None, ip |-> None, device |-> None, entity |-> None,
   score |-> 0,                       \* overall_anomaly_score, avg_confidence
   agent |-> None, conf |-> 0,        \* of a finding
   resource |-> None, role |-> "user", hour |-> 9, volume |-> 0,
   location |-> None, detected |-> None, network |-> None, vpn |-> FALSE,
   token |-> FALSE, biometric |-> 0, pattern |-> FALSE, healthy |-> FALSE,
   zone |-> None, badge |-> FALSE, face |-> FALSE, motion |-> 0,
   signature |-> None, dst |-> None, rate |-> 0, destination |-> None,
   tailgate |-> FALSE,
   past |-> 0,                        \* motion_score, which nobody reads
   anomaly |-> None,                  \* anomaly_type
   deviation |-> FALSE, hr |-> 0]

Threat(type, sev) == [Blank EXCEPT !.type = type, !.sev = sev]

\* An AgentFinding as BaseAgent and the engines build it.
Finding(agent, type, sev, conf) ==
  [Blank EXCEPT !.bus = "finding", !.agent = agent, !.type = type, !.sev = sev,
                !.conf = conf]

FirstOf(names) ==
  IF \E i \in DOMAIN names : names[i] # None
  THEN names[CHOOSE i \in DOMAIN names :
               names[i] # None /\ \A j \in 1..(i - 1) : names[j] = None]
  ELSE None

AtMost(limit, n) == IF n < limit THEN n ELSE limit
AtLeast(limit, n) == IF n > limit THEN n ELSE limit

\* The last n of a list, or all of them
LastN(s, n) == SubSeq(s, AtLeast(1, Len(s) - n + 1), Len(s))

\* What remains of a when b is taken away, never below zero.
Less(a, b) == IF a > b THEN a - b ELSE 0
==============================================================================
