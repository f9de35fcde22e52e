--------------------------- MODULE PhysicalSecurity ---------------------------
(***************************************************************************)
(* The physical security engine (agent/engines/physical_security_engine.py) *)
(* keeps what readers and cameras saw of a user, publishes an intrusion    *)
(* for what is wrong with it, and compares it with the user's use of the   *)
(* network.  What it publishes are threats like those it handles: each of  *)
(* its intrusions comes back to it as one more thing seen of the user.     *)
(*                                                                         *)
(* Kept of the physical events is what is read: the last one, and whether  *)
(* it is less than half an hour old.  Every event has the confidence 0.7   *)
(* of one that states none.  The cyber events are stored and never read.   *)
(* Threats with a `physical_context', which nothing sends, are left out.   *)
(***************************************************************************)
EXTENDS DetectionEvents

CONSTANT Persons   \* the ids physical events are kept for

ASSUME PhysicalAssumption == None \notin Persons

VARIABLES
  presence,     \* the last of _physical_events: badge and face
  present,      \* persons seen in the last half hour
  compared      \* history: what a published mismatch was about

physicalVars == <<presence, present, compared>>

PhysicalInit ==
  /\ presence = [u \in Persons |-> <<>>]
  /\ present = {}
  /\ compared = {}

\* restricted_zones, and those with a zone_criticality of three and more
GuardedZones == {"server_room", "server_room_anteroom", "data_vault", "executive_suite"}
ZoneAlarm(zone) == IF zone \in GuardedZones THEN CRITICAL ELSE HIGH

PhysicalPerson(e) == FirstOf(<<e.user, e.entity>>)

Sighting(e) ==
  e.bus = "threat" /\ e.type = "physical_intrusion"
  /\ PhysicalPerson(e) \in Persons /\ e.zone # None

CyberUse(e) ==
  e.bus = "threat" /\ e.type \in {"network_intrusion", "identity_mismatch"}
  /\ e.user \in Persons

\* _publish_physical_anomaly: the motion goes under another name.
PhysicalAnomaly(e, reason, tailgate) ==
  [Threat("physical_intrusion", ZoneAlarm(e.zone)) EXCEPT
     !.source = "PhysicalSecurityEngine", !.user = PhysicalPerson(e),
     !.entity = PhysicalPerson(e), !.zone = e.zone, !.badge = e.badge,
     !.face = e.face, !.past = e.motion, !.tailgate = tailgate, !.resource = reason]

(* _check_physical_anomalies *)
PhysicalAnomalies(e) ==
  (IF e.zone \in GuardedZones /\ ~(e.badge /\ e.face)
   THEN {PhysicalAnomaly(e, "zone", e.tailgate)} ELSE {})
  \cup (IF e.motion > 850 /\ ~e.badge /\ ~e.face
        THEN {PhysicalAnomaly(e, "motion", e.tailgate)} ELSE {})
  \cup (IF e.tailgate THEN {PhysicalAnomaly(e, "tailgate", TRUE)} ELSE {})

Mismatch(e, reason, sev) ==
  [Threat("physical_cyber_mismatch", sev) EXCEPT
     !.source = "PhysicalSecurityEngine", !.user = e.user, !.entity = e.user,
     !.resource = reason]

(* _correlate_physical_cyber, for an item with a resource; a mismatch of   *)
(* identity says nothing about someone never seen.                         *)
Mismatches(e) ==
  CASE presence[e.user] = <<>> ->
         IF e.type = "identity_mismatch" THEN {} ELSE {Mismatch(e, "never seen", HIGH)}
    [] presence[e.user] # <<>> /\ e.user \notin present ->
         {Mismatch(e, "not seen lately",
                   IF FirstOf(<<e.resource, e.signature>>) \in GuardedZones
                   THEN CRITICAL ELSE HIGH)}
    [] presence[e.user] # <<>> /\ e.user \in present ->
         IF presence[e.user].badge /\ presence[e.user].face THEN {}
         ELSE {Mismatch(e, "not authenticated", HIGH)}

(* _on_threat_event, _on_access_request and _on_agent_finding.  An access  *)
(* request raises: it is asked for metadata it does not have, and the bus  *)
(* logs the error.                                                         *)
PhysicalPublishes(e) ==
  (IF Sighting(e) THEN PhysicalAnomalies(e) ELSE {})
  \cup (IF CyberUse(e) THEN Mismatches(e) ELSE {})

PhysicalOn(e) ==
  LET u == PhysicalPerson(e)
  IN /\ presence' = IF Sighting(e)
                    THEN [presence EXCEPT ![u] = [badge |-> e.badge, face |-> e.face]]
                    ELSE presence
     /\ present' = IF Sighting(e) THEN present \cup {u} ELSE present
     /\ compared' = IF \E p \in PhysicalPublishes(e) : p.type = "physical_cyber_mismatch"
                    THEN compared \cup {e.bus} ELSE compared

\* An hour: nobody has been seen in the last half of it.
PhysicalHour == present' = {} /\ UNCHANGED <<presence, compared>>
==============================================================================
