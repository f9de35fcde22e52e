------------------------------ MODULE Detection ------------------------------
(***************************************************************************)
(* The detection engines of the agent on their bus (core/event_bus.py,     *)
(* core/orchestrator.py): what one publishes every other handles, itself   *)
(* included.  asyncio runs the handlers of a publication as tasks, in the  *)
(* order in which publish() made them; a publication made by a handler is  *)
(* queued behind those that wait already, and so is what arrives from      *)
(* outside.  The handlers of one item run without a break between their    *)
(* reads and writes, which makes its delivery one step.                    *)
(*                                                                         *)
(* The bus drops a threat that equals one of the last minute; for this the *)
(* time, the id and the severity of a threat do not count.                 *)
(***************************************************************************)
EXTENDS RiskScoring, ZeroTrustAgent, DeviceTrust, InsiderThreat, UEBA,
        PhysicalSecurity, ConvergedSecurity

CONSTANTS
  Arrivals,     \* what sensors, agents and clients put on the bus
  MaxArrivals,  \* bound: arrivals and calls of the engines' interfaces
  MaxMinutes, MaxIdleHours,  \* bounds; a lost record counts against both
  MaxWaiting,   \* bound on what is on the bus while a record is lost
  CascadeLimit  \* publications that one arrival may lead to

(* What the fields that decide something hold, wherever an item comes      *)
(* from: confidences and scores are not negative, and who asks for access  *)
(* or logs in is a user, or nobody.                                        *)
WellFormed(e) ==
  /\ e.bus \in {"threat", "request", "finding"}
  /\ e.sev \in LOW..CRITICAL
  /\ {e.score, e.conf, e.biometric} \subseteq Nat
  /\ e.bus = "threat" /\ e.type \in {"access_request", "identity_mismatch"} =>
       e.user \in Users \cup {None}

ASSUME ArrivalsAssumption == \A e \in Arrivals : WellFormed(e)

VARIABLES
  pending,      \* publications whose handlers have not run yet, in order
  recent,       \* _recent_event_fingerprints of the last minute
  served,       \* history: items handled since the bus was last silent
  arrivals, minutes, idleHours,  \* so far
  forgotten     \* records that the risk engine's cache has dropped so far

busVars == <<pending, recent, served, arrivals, minutes, idleHours, forgotten>>
vars == <<arbiterVars, riskVars, agentVars, deviceVars, insiderVars, dnaVars,
          uebaVars, physicalVars, convergedVars, busVars>>

Init ==
  /\ ArbiterInit /\ RiskInit /\ AgentInit /\ DeviceInit /\ InsiderInit
  /\ DNAInit /\ UEBAInit /\ PhysicalInit /\ ConvergedInit
  /\ pending = <<>> /\ recent = {} /\ served = 0
  /\ arrivals = 0 /\ minutes = 0 /\ idleHours = 0 /\ forgotten = 0

\* The members of a set of publications, one after the other in some order
\* that is always the same.
InOrder(S) ==
  CHOOSE s \in [1..Cardinality(S) -> S] : {s[i] : i \in DOMAIN s} = S

(* The engines in the order in which the orchestrator starts them. *)
Published(e) ==
  InOrder(AgentPublishes(e)) \o InOrder(DNAPublishes(e))
  \o InOrder(DevicePublishes(e)) \o InOrder(UEBAPublishes(e))
  \o InOrder(PhysicalPublishes(e)) \o InOrder(InsiderPublishes(e))
  \o InOrder(ArbiterPublishes(e))

\* _get_fingerprint
Fingerprint(e) == [e EXCEPT !.sev = MEDIUM]

\* Mutant: the filter is off.
IsDuplicate_Off(e) == FALSE

(* _is_duplicate: threats only. *)
IsDuplicate(e) == e.bus = "threat" /\ Fingerprint(e) \in recent

Remember(e) == IF e.bus = "threat" THEN recent \cup {Fingerprint(e)} ELSE recent

(* publish and the handlers it calls. *)
Deliver ==
  /\ pending # <<>> /\ ~IsDuplicate(Head(pending))
  /\ LET e == Head(pending)
     IN /\ ArbiterOn(e) /\ ArbiterDelivered(e)
        /\ RiskOn(e) /\ AgentOn(e) /\ DeviceOn(e) /\ InsiderOn(e) /\ DNAOn(e)
        /\ UEBAOn(e) /\ PhysicalOn(e) /\ ConvergedOn(e)
        /\ recent' = Remember(e)
        /\ pending' = Tail(pending) \o Published(e)
  /\ served' = IF pending' = <<>> THEN 0 ELSE served + 1
  /\ UNCHANGED <<arrivals, minutes, idleHours, forgotten>>

Others == <<arbiterVars, riskVars, agentVars, insiderVars, dnaVars, uebaVars,
            physicalVars, convergedVars>>

Drop ==
  /\ pending # <<>> /\ IsDuplicate(Head(pending))
  /\ DeviceResumes(Head(pending))
  /\ pending' = Tail(pending)
  /\ served' = IF pending' = <<>> THEN 0 ELSE served + 1
  /\ UNCHANGED <<recent, arrivals, minutes, idleHours, forgotten, Others>>

Arrive ==
  /\ arrivals < MaxArrivals
  /\ \E e \in Arrivals : pending' = Append(pending, e)
  /\ arrivals' = arrivals + 1
  /\ UNCHANGED <<recent, served, minutes, idleHours, forgotten, Others, deviceVars>>

(* A call of the device engine's interface. *)
DeviceCall(Op, publications) ==
  /\ arrivals < MaxArrivals
  /\ Op
  /\ pending' = pending \o InOrder(publications)
  /\ arrivals' = arrivals + 1
  /\ UNCHANGED <<recent, served, minutes, idleHours, forgotten, Others>>

CallDevice ==
  \E d \in Devices :
    \/ \E healthy \in BOOLEAN : DeviceCall(RegisterDevice(d, healthy), {})
    \/ DeviceCall(ApproveDevice(d), {})
    \/ DeviceCall(RejectDevice(d), {})
    \/ DeviceCall(UnquarantineDevice(d), {})
    \/ DeviceCall(UpdateDeviceHealth(d, 285), HealthUpdatePublishes(d, 285))
    \/ DeviceCall(VerifyAlteredDevice(d), VerificationPublishes(d))
    \/ DeviceCall(AlterDevice(d), {})

CallInsider ==
  /\ arrivals < MaxArrivals
  /\ \E u \in Insiders :
       ApplyMitigation(u) \/ \E on \in BOOLEAN : SetMonitoring(u, on)
  /\ arrivals' = arrivals + 1
  /\ UNCHANGED <<pending, recent, served, minutes, idleHours, forgotten, arbiterVars,
                 riskVars, agentVars, deviceVars, dnaVars, uebaVars, physicalVars,
                 convergedVars>>

(* A minute in which nothing else is left to do: fingerprints expire, and  *)
(* the converged engine makes its round.                                   *)
MinutePasses ==
  /\ pending = <<>> /\ minutes + forgotten < MaxMinutes
  /\ minutes' = minutes + 1
  /\ recent' = {}
  /\ EvaluationRound
  /\ pending' = InOrder(ConvergedPublishes)
  /\ UNCHANGED <<served, arrivals, idleHours, forgotten, arbiterVars, riskVars,
                 agentVars, deviceVars, insiderVars, dnaVars, uebaVars, physicalVars>>

(* An hour in which nothing arrives. *)
HourPasses ==
  /\ pending = <<>> /\ idleHours + forgotten < MaxIdleHours
  /\ idleHours' = idleHours + 1
  /\ recent' = {}
  /\ ArbiterHour /\ RiskHour /\ AgentHour /\ DeviceHour /\ InsiderHour
  /\ PhysicalHour /\ ConvergedHour
  /\ pending' = InOrder(HourPublishes)
  /\ UNCHANGED <<served, arrivals, minutes, forgotten, dnaVars, uebaVars>>

(* The risk engine's cache drops a record. *)
RecordExpires ==
  /\ Len(pending) <= MaxWaiting
  /\ minutes + forgotten < MaxMinutes /\ idleHours + forgotten < MaxIdleHours
  /\ \E n \in Entities : RiskForgets(n)
  /\ forgotten' = forgotten + 1
  /\ UNCHANGED <<pending, recent, served, arrivals, minutes, idleHours, arbiterVars,
                 agentVars, deviceVars, insiderVars, dnaVars, uebaVars, physicalVars,
                 convergedVars>>

Next ==
  \/ Deliver \/ Drop \/ Arrive \/ CallDevice \/ CallInsider
  \/ MinutePasses \/ HourPasses \/ RecordExpires

Spec == Init /\ [][Next]_vars

(* "Do not decay arbiter-controlled score; the arbiter handles it"         *)
(* (risk_scoring_engine.py 159-163): the arbiter publishes a score only    *)
(* when it alerts, so as long as the engine's cache keeps its record an    *)
(* entity has the score of its last alert, whatever is handled about it    *)
(* and whatever decays, until another alert about it is handled.  Nothing  *)
(* but the loss of the whole record takes it from the arbiter again.       *)
ArbiterFreezesRisk ==
  [][\A n \in arbitrated :
       \/ /\ n \in arbitrated'
          /\ overall'[n] # overall[n] => pending # <<>> /\ ByArbiter(n, Head(pending))
       \/ handled'[n] = 0]_vars

(* Detectors that run and never find anything: the insider engine's        *)
(* overall score is made of attributes that its record does not have       *)
(* (insider_threat_engine.py 127-135), the behaviour engine's profiles     *)
(* wait for lists that have other names (ueba_engine.py 191-204), the DNA  *)
(* engine compares a request with what it has just learned from it         *)
(* (behavioral_dna_engine.py 331-387), and the physical engine's handler   *)
(* of requests raises (physical_security_engine.py 249).                   *)
SilentDetectors ==
  /\ \A u \in Insiders : risk[u] = 0
  /\ stable = {}
  /\ \A i \in DOMAIN anomalies : anomalies[i].item.bus = "threat"
  /\ compared \subseteq {"threat"}

(* The physical engine's alarms are sightings to itself, the device        *)
(* engine's are failures to itself, and each is published anew whenever it *)
(* is handled.  Only the bus filter ends what they start (event_bus.py     *)
(* 47-61); it does, after a number of publications that the arrivals       *)
(* bound.                                                                  *)
CascadesEnd == served <= CascadeLimit * arrivals
==============================================================================
