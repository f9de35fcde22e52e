---------------------------- MODULE ZeroTrustAgent ----------------------------
(***************************************************************************)
(* The zero-trust agent (agent/agents/zero_trust_agent.py): it scores each *)
(* access request on identity, device, network, location and behaviour,    *)
(* decides by the weighted mean - or by its count of failed attempts of    *)
(* the user - learns the user's profile from what it saw, opens a session, *)
(* and reports a finding; the other five threats it handles have a score   *)
(* of their own.                                                           *)
(*                                                                         *)
(* The checks that are stubs in the code (token, behavioural biometrics,   *)
(* malicious address, honeypot, segmentation, previous location, privilege *)
(* request, correlation) are what their stubs return.  The monitoring loop *)
(* (clean, re-verify) has no caller; sessions end with the hour of their   *)
(* cache.  Scores are in thousandths, volumes in GB.                       *)
(***************************************************************************)
EXTENDS DetectionEvents

LOCAL INSTANCE Functions

CONSTANTS
  Users,
  BlockLimit   \* failed attempts above which a user is denied: 5

ASSUME ZeroTrustAgentAssumption == BlockLimit \in Nat /\ None \notin Users

Unknown == "unknown"
Subjects == Users \cup {Unknown}

VARIABLES
  hours, places, devicesOf,  \* of a user's profile
  profileRisk,               \* moving average of the scores
  sessions,                  \* active sessions: user and level
  blocked,                   \* _blocked_attempts
  failures,                  \* history: failed identity verifications
  verdict                    \* history: on an access request just handled

agentVars == <<hours, places, devicesOf, profileRisk, sessions, blocked,
               failures, verdict>>

AgentInit ==
  /\ hours = [u \in Subjects |-> 7..18]
  /\ places = [u \in Subjects |-> <<"office", "home", "vpn">>]
  /\ devicesOf = [u \in Subjects |-> <<>>]
  /\ profileRisk = [u \in Subjects |-> 0]
  /\ sessions = {}
  /\ blocked = [u \in Subjects |-> 0]
  /\ failures = [u \in Subjects |-> 0]
  /\ verdict = <<>>

RestrictedZones == {"server_room", "data_vault"}
PrivilegedRoles == {"admin"}

\* payload.get("user_id", "unknown")
Subject(e) == IF e.user = None THEN Unknown ELSE e.user

(* _verify_identity: a failed verification keeps the risk 0.0 it started   *)
(* with, and only a token alone carries the 0.2.                           *)
Verified(e) == e.token \/ e.biometric > 700 \/ e.pattern

IdentityConfidence(e) ==
  CASE e.biometric > 700 -> 900
    [] e.biometric <= 700 /\ e.token -> 800
    [] e.biometric <= 700 /\ ~e.token -> IF e.pattern THEN 700 ELSE 0

IdentityRisk(e) ==
  IF ~e.token THEN 0 ELSE IF e.biometric > 700 THEN 100 ELSE 200

\* _verify_device; no device ever enters _trusted_devices.
DeviceRisk(e) ==
  (IF e.device = None THEN 500 ELSE 600) + (IF e.healthy THEN 0 ELSE 300)

NetworkRisk(e) ==
  LET base == IF e.vpn THEN 100 ELSE 200
  IN CASE e.network \in {"corporate", "trusted"} -> Less(base, 200)
       [] e.network \in {"public", "untrusted"} -> base + 300
       [] OTHER -> base

LocationRisk(u, e) ==
  CASE e.location = None -> 400
    [] e.location \in Range(places[u]) -> 100
    [] e.location \in RestrictedZones \ Range(places[u]) -> 500
    [] OTHER -> IF e.detected \notin {None, e.location} THEN 600 ELSE 300

(* A place, a device the user's profile does not hold                   *)
NewPlace(u, e) == e.location # None /\ e.location \notin Range(places[u])
NewDevice(u, e) == e.device # None /\ e.device \notin Range(devicesOf[u])

(* _analyze_behavioral_anomaly.  The three 0.2 alone add up to a little    *)
(* more than 0.6 in floating point, which decides a comparison below.      *)
Anomaly(u, e) ==
  LET odd(c, x) == IF c THEN x ELSE 0
      sum == odd(e.hour \notin hours[u], 300) + odd(NewPlace(u, e), 300)
           + odd(NewDevice(u, e), 200)
           + odd(e.volume > 1, 200)
           + odd(e.resource \notin {None, "email", "crm", "docs"}, 200)
  IN IF sum = 600 /\ e.hour \in hours[u] THEN 601 ELSE AtMost(1000, sum)

BehaviourRisk(u, e) ==
  LET a == Anomaly(u, e) IN IF a > 600 THEN a ELSE a \div 2

(* _calculate_combined_risk_score: RISK_WEIGHTS has no entry for geography *)
(* and privilege, whose scores count for nothing.                          *)
Combined(u, e) ==
  (30 * IdentityRisk(e) + 25 * DeviceRisk(e) + 15 * NetworkRisk(e)
    + 15 * LocationRisk(u, e) + 15 * BehaviourRisk(u, e)) \div 100

\* _determine_risk_level
LevelOf(score) ==
  CASE score >= 900 -> CRITICAL
    [] score >= 700 /\ score < 900 -> HIGH
    [] score >= 500 /\ score < 700 -> MEDIUM
    [] score < 500 -> LOW

\* Mutant: a limit of one failure less.
OverLimit_Early(u) == blocked[u] >= BlockLimit

OverLimit(u) == blocked[u] > BlockLimit

RequestLevel(u, e) == IF OverLimit(u) THEN CRITICAL ELSE LevelOf(Combined(u, e))
RequestScore(u, e) ==
  AtMost(1000, Combined(u, e) + (IF OverLimit(u) THEN 300 ELSE 0))

Allowed(u, e) == RequestLevel(u, e) # CRITICAL

\* The challenge that goes with a level; access is allowed beside it.
Challenged(u, e) == RequestLevel(u, e) \in {MEDIUM, HIGH}

\* GRANT_TEMP_PRIVILEGE, whatever _check_privileged_access said.
Elevated(u, e) == e.role \in PrivilegedRoles /\ Allowed(u, e)

(* _update_behavioral_profile: the twelve earliest hours, the first five   *)
(* places and the first three devices are kept, so that a full list never  *)
(* learns, and an early hour pushes out the latest.                        *)
Earliest(H, n) == {h \in H : Cardinality({g \in H : g < h}) < n}

Learn(s, x, n) ==
  IF x = None \/ x \in Range(s) THEN s
  ELSE SubSeq(Append(s, x), 1, AtMost(n, Len(s) + 1))

LearnProfile(u, e) ==
  /\ hours' = [hours EXCEPT ![u] = Earliest(@ \cup {e.hour}, 12)]
  /\ places' = [places EXCEPT ![u] = Learn(@, e.location, 5)]
  /\ devicesOf' = [devicesOf EXCEPT ![u] = Learn(@, e.device, 3)]
  /\ profileRisk' = [profileRisk EXCEPT
       ![u] = (7 * @ + 3 * RequestScore(u, e)) \div 10]

(* _handle_access_request *)
HandleAccessRequest(e) ==
  LET u == Subject(e)
  IN /\ LearnProfile(u, e)
     /\ sessions' = IF Allowed(u, e)
                    THEN sessions \cup {[user |-> u, level |-> RequestLevel(u, e)]}
                    ELSE sessions
     /\ blocked' = IF Allowed(u, e) THEN blocked
                   ELSE [blocked EXCEPT ![u] = @ + 1]
     /\ verdict' = [user |-> u, allowed |-> Allowed(u, e),
                    challenged |-> Challenged(u, e), elevated |-> Elevated(u, e)]
     /\ UNCHANGED failures

(* _handle_identity_verification: the counter is never taken back. *)
HandleIdentity(e) ==
  LET u == Subject(e)
  IN /\ IF Verified(e)
        THEN UNCHANGED <<blocked, failures>>
        ELSE /\ blocked' = [blocked EXCEPT ![u] = @ + 1]
             /\ failures' = [failures EXCEPT ![u] = @ + 1]
     /\ verdict' = <<>>
     /\ UNCHANGED <<hours, places, devicesOf, profileRisk, sessions>>

\* can_handle and analyse: the other four only report.
AgentOn(e) ==
  CASE e.bus = "threat" /\ e.type = "access_request" -> HandleAccessRequest(e)
    [] e.bus = "threat" /\ e.type = "identity_mismatch" -> HandleIdentity(e)
    [] OTHER -> UNCHANGED agentVars

\* The sessions' cache is over.
AgentHour ==
  /\ sessions' = {}
  /\ UNCHANGED <<hours, places, devicesOf, profileRisk, blocked, failures, verdict>>

(* The findings, as severity and confidence. *)
AccessFinding(e) ==
  LET u == Subject(e) IN <<RequestLevel(u, e), RequestScore(u, e)>>

IdentityFinding(e) == <<IF Verified(e) THEN MEDIUM ELSE HIGH, IdentityConfidence(e)>>

NetworkFinding(e) == IF e.volume > 10 THEN <<HIGH, 500>> ELSE <<e.sev, 100>>

PhysicalFinding(e) ==
  LET restricted == e.zone \in RestrictedZones
      known == e.badge /\ e.face
  IN CASE restricted /\ ~known -> <<CRITICAL, 900>>
       [] ~restricted /\ ~known -> <<HIGH, 500>>
       [] restricted /\ known /\ e.hour \notin 7..21 -> <<MEDIUM, 300>>
       [] OTHER -> <<e.sev, 0>>

BehaviourFinding(e) ==
  LET a == Anomaly(Subject(e), e) IN <<IF a > 700 THEN HIGH ELSE MEDIUM, a>>

InsiderFinding(e) ==
  CASE e.volume > 1 -> <<HIGH, 600>>
    [] e.volume <= 1 /\ e.destination \in {"external_usb", "unknown_cloud", "personal_email"} ->
         <<HIGH, 700>>
    [] OTHER -> <<e.sev, 0>>

AgentFindingOn(e) ==
  CASE e.type = "access_request" -> AccessFinding(e)
    [] e.type = "identity_mismatch" -> IdentityFinding(e)
    [] e.type = "network_intrusion" -> NetworkFinding(e)
    [] e.type = "physical_intrusion" -> PhysicalFinding(e)
    [] e.type = "anomalous_behavior" -> BehaviourFinding(e)
    [] e.type = "insider_threat" -> InsiderFinding(e)

AgentHandles ==
  {"access_request", "identity_mismatch", "network_intrusion",
   "physical_intrusion", "anomalous_behavior", "insider_threat"}

\* What handling e publishes; a network finding names the address only.
AgentPublishes(e) ==
  IF e.bus # "threat" \/ e.type \notin AgentHandles THEN {}
  ELSE LET f == Finding("ZeroTrustAgent", e.type, AgentFindingOn(e)[1],
                        AgentFindingOn(e)[2])
       IN {IF e.type = "network_intrusion" THEN [f EXCEPT !.ip = IF e.ip = None THEN Unknown ELSE e.ip]
           ELSE [f EXCEPT !.user = Subject(e)]}

(* "CRITICAL - Block" (zero_trust_agent.py 286-297) is reached through the *)
(* counter alone: whatever the request, no sum of the five scores reaches  *)
(* even HIGH, so a user is denied if and only if more than BlockLimit      *)
(* identity verifications of theirs have failed since the agent started -  *)
(* of anyone who claimed their name - and once denied they stay denied.    *)
DeniedByFailuresAlone ==
  [][verdict' # <<>> =>
       (verdict'.allowed <=> failures'[verdict'.user] <= BlockLimit)]_verdict
==============================================================================
