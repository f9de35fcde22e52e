----------------------------- MODULE DeviceTrust -----------------------------
(***************************************************************************)
(* The device trust engine (agent/engines/device_trust_engine.py): the     *)
(* records of registered devices, the quarantine, and the trust that is    *)
(* recalculated from health, fingerprint, anomalies and age.               *)
(*                                                                         *)
(* A quarantine publishes a DEVICE_HEALTH_FAIL about the device, which the *)
(* engine handles like any other; and a finding that quarantined a device  *)
(* recalculates its trust after that publication (DeviceDelivered).        *)
(* register, approve, reject, unquarantine, verify and update are the      *)
(* engine's public interface; nothing in the agent calls it yet.           *)
(* trust_score, which every recalculation overwrites, and the lists of     *)
(* addresses, which nothing reads, are left out.  The records are those of *)
(* a device registered less than a day ago.  Scores are in thousandths.    *)
(***************************************************************************)
EXTENDS DetectionEvents

CONSTANTS
  Devices,
  FingerprintConfidence, \* of this host's fingerprint: 300, or 400 to 900
  MaxAnomalies           \* max_anomalies_before_quarantine: 3

ASSUME DeviceTrustAssumption ==
  /\ FingerprintConfidence \in 0..1000
  /\ MaxAnomalies \in Nat \ {0}
  /\ None \notin Devices

NoRecord == <<>>

VARIABLES
  record,       \* _trusted_devices: health, trusted, quarantined, anomalies
  pendingOf,    \* _pending_devices: awaiting approval
  quarantine,   \* _quarantined_devices, by id
  altered,      \* environment: devices whose hardware is no longer the stored one
  reentered     \* history: registered while their id was in the quarantine

deviceVars == <<record, pendingOf, quarantine, altered, reentered>>

DeviceInit ==
  /\ record = [d \in Devices |-> NoRecord]
  /\ pendingOf = {}
  /\ quarantine = {}
  /\ altered = {}
  /\ reentered = {}

Registered(d) == record[d] # NoRecord

(* _recalculate_trust, for a device registered less than a day ago. *)
OverallTrust(r) ==
  (40 * r.health + 30 * FingerprintConfidence
    + 20 * Less(1000, 100 * r.anomalies) + 10 * 700) \div 100

Recalculated(r) == [r EXCEPT !.trusted = OverallTrust(r) >= 400]

HealthLoss(r) == [r EXCEPT !.health = Less(@, 100)]

\* Mutant: the quarantine is kept in the set of ids only.
Quarantined_IdsOnly(d) ==
  IF d \in quarantine \/ ~Registered(d) THEN record[d]
  ELSE [record[d] EXCEPT !.trusted = FALSE]

(* _quarantine_device: nothing happens when the id is in the set already. *)
Quarantined(d) ==
  IF d \in quarantine \/ ~Registered(d) THEN record[d]
  ELSE [record[d] EXCEPT !.quarantined = TRUE, !.trusted = FALSE]

Alarm(d, reason) ==
  [Threat("device_health_fail", CRITICAL) EXCEPT
     !.source = "DeviceTrustEngine", !.device = d, !.resource = reason]

AlarmUnless(d, reason) == IF d \in quarantine THEN {} ELSE {Alarm(d, reason)}

\* A critical intrusion of a registered device, and the one too many.
Suspicious(e) ==
  e.type = "network_intrusion" /\ e.sev = CRITICAL /\ Registered(e.device)

TooMany(r) == r.anomalies + 1 >= MaxAnomalies

Compromised(e) == e.sev = CRITICAL /\ e.conf > 700

(* _on_threat_event and _on_agent_finding *)
DeviceOn(e) ==
  LET d == e.device
      r == record[d]
      enter == quarantine' = quarantine \cup {d}
      stay == UNCHANGED quarantine
  IN IF d \notin Devices \/ e.bus = "request" THEN UNCHANGED deviceVars
     ELSE /\ CASE e.bus = "threat" /\ e.type = "device_health_fail" ->
                    /\ stay
                    /\ record' = [record EXCEPT
                         ![d] = IF Registered(d) THEN Recalculated(HealthLoss(r)) ELSE r]
               [] e.bus = "threat" /\ Suspicious(e) ->
                    LET q == IF TooMany(r) THEN Quarantined(d) ELSE r
                    IN /\ record' = [record EXCEPT
                            ![d] = [q EXCEPT !.anomalies = @ + 1]]
                       /\ IF TooMany(r) THEN enter ELSE stay
               [] e.bus = "finding" ->
                    IF Compromised(e)
                    THEN enter /\ record' = [record EXCEPT ![d] =
                           IF d \in quarantine /\ Registered(d)
                           THEN Recalculated(r) ELSE Quarantined(d)]
                    ELSE stay /\ record' = [record EXCEPT ![d] =
                           IF Registered(d) THEN Recalculated(r) ELSE r]
               [] OTHER -> UNCHANGED <<record, quarantine>>
          /\ UNCHANGED <<pendingOf, altered, reentered>>

DevicePublishes(e) ==
  IF e.device \notin Devices THEN {}
  ELSE CASE e.bus = "threat" /\ Suspicious(e) /\ TooMany(record[e.device]) ->
              AlarmUnless(e.device, "anomalies")
         [] e.bus = "finding" /\ Compromised(e) -> AlarmUnless(e.device, "finding")
         [] OTHER -> {}

\* The alarm of a quarantine has been dropped as a duplicate; where a finding
\* raised it, the handler goes on with its recalculation.  (After a delivery
\* that is what the alarm has done itself.)
DeviceResumes(e) ==
  /\ record' = IF e.source = "DeviceTrustEngine" /\ e.resource = "finding"
                  /\ Registered(e.device)
               THEN [record EXCEPT ![e.device] = Recalculated(@)]
               ELSE record
  /\ UNCHANGED <<pendingOf, quarantine, altered, reentered>>

(* register_device: `healthy' devices pass all seven checks.  A device is  *)
(* not trusted before its approval - and then its trust is recalculated.   *)
RegisterDevice(d, healthy) ==
  /\ ~Registered(d)
  /\ record' = [record EXCEPT ![d] =
       Recalculated([health |-> IF healthy THEN 1000 ELSE 571, trusted |-> FALSE,
                     quarantined |-> FALSE, anomalies |-> 0])]
  /\ pendingOf' = pendingOf \cup {d}
  /\ reentered' = IF d \in quarantine THEN reentered \cup {d} ELSE reentered
  /\ altered' = altered \ {d}
  /\ UNCHANGED quarantine

ApproveDevice(d) ==
  /\ d \in pendingOf /\ Registered(d)
  /\ pendingOf' = pendingOf \ {d}
  /\ record' = [record EXCEPT ![d] = Recalculated(@)]
  /\ UNCHANGED <<quarantine, altered, reentered>>

\* reject_device removes the record, and leaves the id in the quarantine.
RejectDevice(d) ==
  /\ Registered(d)
  /\ record' = [record EXCEPT ![d] = NoRecord]
  /\ pendingOf' = pendingOf \ {d}
  /\ UNCHANGED <<quarantine, altered, reentered>>

UnquarantineDevice(d) ==
  /\ d \in quarantine
  /\ quarantine' = quarantine \ {d}
  /\ reentered' = reentered \ {d}
  /\ record' = IF Registered(d)
               THEN [record EXCEPT ![d] =
                       Recalculated([@ EXCEPT !.quarantined = FALSE, !.anomalies = 0])]
               ELSE record
  /\ UNCHANGED <<pendingOf, altered>>

\* update_device_health with what is left of the seven checks.
UpdateDeviceHealth(d, health) ==
  LET r == Recalculated([record[d] EXCEPT !.health = health])
      low == health < 400
  IN /\ Registered(d)
     /\ record' = [record EXCEPT ![d] =
          IF low /\ d \notin quarantine
          THEN [r EXCEPT !.quarantined = TRUE, !.trusted = FALSE] ELSE r]
     /\ quarantine' = IF low THEN quarantine \cup {d} ELSE quarantine
     /\ UNCHANGED <<pendingOf, altered, reentered>>

HealthUpdatePublishes(d, health) ==
  IF health < 400 THEN AlarmUnless(d, "health") ELSE {}

(* verify_device on a changed fingerprint: one more anomaly. *)
VerifyAlteredDevice(d) ==
  LET r == record[d]
      q == IF TooMany(r) THEN Quarantined(d) ELSE r
  IN /\ Registered(d) /\ d \in altered /\ d \notin quarantine
     /\ r.trusted /\ ~r.quarantined
     /\ record' = [record EXCEPT ![d] = [q EXCEPT !.anomalies = @ + 1]]
     /\ quarantine' = IF TooMany(r) THEN quarantine \cup {d} ELSE quarantine
     /\ UNCHANGED <<pendingOf, altered, reentered>>

VerificationPublishes(d) ==
  IF TooMany(record[d]) THEN AlarmUnless(d, "fingerprint") ELSE {}

\* The environment: the hardware behind a registered device changes.
AlterDevice(d) ==
  /\ Registered(d)
  /\ altered' = altered \cup {d}
  /\ UNCHANGED <<record, pendingOf, quarantine, reentered>>

(* An hour: _health_check_loop quarantines what has been altered.  (Its    *)
(* decay after thirty idle days is overwritten by its recalculation.)      *)
DeviceHour ==
  LET found == {d \in altered : Registered(d)}
  IN /\ record' = [d \in Devices |-> IF d \in found THEN Quarantined(d) ELSE record[d]]
     /\ quarantine' = quarantine \cup found
     /\ UNCHANGED <<pendingOf, altered, reentered>>

HourPublishes ==
  UNION {AlarmUnless(d, "periodic") : d \in {x \in altered : Registered(x)}}

\* is_device_trusted
IsDeviceTrusted(d) ==
  Registered(d) /\ record[d].trusted /\ ~record[d].quarantined

(* is_device_trusted asks the record, is_device_quarantined the set of ids *)
(* (504-524).  Every alarm and every finding about a quarantined device    *)
(* turns is_trusted on again (439-449), so only the record's own flag      *)
(* keeps a quarantined device from passing for trusted - and it does,      *)
(* unless the device was registered while its id was in quarantine, after  *)
(* a rejection or a finding about it.                                      *)
QuarantineHolds ==
  \A d \in quarantine : IsDeviceTrusted(d) => d \in reentered
==============================================================================
