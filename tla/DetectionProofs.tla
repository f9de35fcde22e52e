---------------------------- MODULE DetectionProofs ----------------------------
(***************************************************************************)
(* For every set of users, devices and items, and every bound: a           *)
(* quarantine holds, no converged cooldown starts unannounced, the         *)
(* arbiter's alerts are corroborated and outlast decay, only failures deny *)
(* a user, the detectors that never find anything never do, and whatever   *)
(* the engines make of each other's publications comes to an end.          *)
(***************************************************************************)
EXTENDS Detection, SequenceTheorems, FiniteSetTheorems, TLAPS

-----------------------------------------------------------------------------
(* The device trust engine *)

Records ==
  [health : Int, trusted : BOOLEAN, quarantined : BOOLEAN, anomalies : Int]

\* A record is that of a device, or none.
KeepsRecords == record \in [Devices -> Records \cup {NoRecord}]

\* Whoever is in the quarantine by id has the flag, or came back into it.
Flagged ==
  \A d \in quarantine :
    d \in Devices /\ Registered(d) => record[d].quarantined \/ d \in reentered

QuarantineInv == quarantine \subseteq Devices /\ KeepsRecords /\ Flagged

\* A record is not what stands for none.
LEMMA ARecordIsSome == NoRecord \notin Records
<1>1. ASSUME NoRecord \in Records PROVE FALSE
  <2>1. DOMAIN NoRecord = {"health", "trusted", "quarantined", "anomalies"}
    BY <1>1 DEF Records
  <2>2. DOMAIN NoRecord = {}
    BY DEF NoRecord
  <2>3. QED
    BY <2>1, <2>2
<1>2. QED
  BY <1>1

LEMMA LessIsInt == \A a, b \in Int : Less(a, b) \in Int
BY DEF Less

LEMMA RecalculatedKeeps ==
  ASSUME NEW r \in Records
  PROVE  /\ Recalculated(r) \in Records
         /\ Recalculated(r).quarantined = r.quarantined
<1> DEFINE sum == 40 * r.health + 30 * FingerprintConfidence
                    + 20 * Less(1000, 100 * r.anomalies) + 10 * 700
           b == sum \div 100 >= 400
<1>1. sum \in Int
  <2>1. r.health \in Int /\ 100 * r.anomalies \in Int /\ FingerprintConfidence \in Int
    BY DeviceTrustAssumption DEF Records
  <2>2. Less(1000, 100 * r.anomalies) \in Int
    BY <2>1 DEF Less
  <2>3. QED
    BY <2>1, <2>2
<1>2. Recalculated(r) = [r EXCEPT !.trusted = b]
  BY Zenon DEF Recalculated, OverallTrust, b, sum
<1> HIDE DEF sum
<1>3. b \in BOOLEAN
  BY <1>1
<1> HIDE DEF b
<1>4. QED
  BY <1>2, <1>3 DEF Records

LEMMA HealthLossKeeps ==
  ASSUME NEW r \in Records
  PROVE  /\ HealthLoss(r) \in Records
         /\ HealthLoss(r).quarantined = r.quarantined
<1> DEFINE h == Less(r.health, 100)
<1>1. h \in Int
  BY DEF h, Less, Records
<1>2. HealthLoss(r) = [r EXCEPT !.health = h]
  BY DEF HealthLoss, h
<1> HIDE DEF h
<1>3. QED
  BY <1>1, <1>2 DEF Records

\* _quarantine_device leaves the flag up, or finds the id in the set already
\* and the record in order.
LEMMA QuarantinedKeeps ==
  ASSUME QuarantineInv, NEW d \in Devices, Registered(d)
  PROVE  /\ Quarantined(d) \in Records
         /\ Quarantined(d).quarantined \/ d \in reentered
<1>1. record[d] \in Records
  BY DEF QuarantineInv, KeepsRecords, Registered
<1>2. d \in quarantine => record[d].quarantined \/ d \in reentered
  BY DEF QuarantineInv, Flagged
<1>3. QED
  BY <1>1, <1>2 DEF Quarantined, Records

\* A step that rewrites the record of one device keeps the invariant if it
\* keeps it for that device.
LEMMA OneRewritten ==
  ASSUME QuarantineInv, NEW d \in Devices, NEW x \in Records \cup {NoRecord},
         record' = [record EXCEPT ![d] = x],
         quarantine' \subseteq quarantine \cup {d},
         reentered \subseteq reentered' \cup {d},
         d \in quarantine' /\ x # NoRecord => x.quarantined \/ d \in reentered'
  PROVE  QuarantineInv'
<1>1. quarantine' \subseteq Devices
  BY DEF QuarantineInv
<1>2. KeepsRecords'
  BY DEF QuarantineInv, KeepsRecords
<1>3. ASSUME NEW c \in quarantine', Registered(c)'
      PROVE  record'[c].quarantined \/ c \in reentered'
  <2>1. CASE c = d
    <3>1. record'[d] = x
      BY DEF QuarantineInv, KeepsRecords
    <3>2. QED
      BY <1>3, <2>1, <3>1 DEF Registered
  <2>2. CASE c # d
    <3>1. record'[c] = record[c] /\ c \in quarantine /\ c \in Devices
      BY <1>1, <2>2 DEF QuarantineInv, KeepsRecords
    <3>2. QED
      BY <1>3, <2>2, <3>1 DEF QuarantineInv, Flagged, Registered
  <2>3. QED
    BY <2>1, <2>2
<1>4. QED
  BY <1>1, <1>2, <1>3 DEF QuarantineInv, Flagged

\* What is left alone keeps the invariant.
LEMMA DevicesStay ==
  QuarantineInv /\ UNCHANGED <<record, quarantine, reentered>> => QuarantineInv'
BY DEF QuarantineInv, KeepsRecords, Flagged, Registered

\* What an anomaly more leaves of a record.
LEMMA OneMoreAnomaly ==
  ASSUME NEW r \in Records
  PROVE  /\ [r EXCEPT !.anomalies = @ + 1] \in Records
         /\ [r EXCEPT !.anomalies = @ + 1].quarantined = r.quarantined
BY DEF Records

\* A registered device has a record, which its flag is part of.
LEMMA RegisteredHas ==
  ASSUME QuarantineInv, NEW d \in Devices
  PROVE  /\ record[d] \in Records \cup {NoRecord}
         /\ Registered(d) => record[d] \in Records
         /\ ~Registered(d) => record[d] = NoRecord
         /\ Registered(d) /\ d \in quarantine =>
              record[d].quarantined \/ d \in reentered
BY DEF QuarantineInv, KeepsRecords, Registered, Flagged

LEMMA HandledItem ==
  ASSUME QuarantineInv, NEW e, DeviceOn(e) PROVE QuarantineInv'
<1> DEFINE d == e.device
           r == record[d]
<1>1. CASE d \notin Devices \/ e.bus = "request"
  BY <1>1, DevicesStay DEF DeviceOn, deviceVars
<1>2. CASE d \in Devices /\ e.bus # "request"
  <2>1. UNCHANGED reentered
    BY <1>2 DEF DeviceOn
  <2>2. CASE e.bus = "threat" /\ e.type = "device_health_fail"
    <3> DEFINE x == IF Registered(d) THEN Recalculated(HealthLoss(r)) ELSE r
    <3>1. record' = [record EXCEPT ![d] = x] /\ quarantine' = quarantine
      BY <1>2, <2>2 DEF DeviceOn, Suspicious
    <3>2. /\ x \in Records \cup {NoRecord}
          /\ d \in quarantine /\ x # NoRecord => x.quarantined \/ d \in reentered
      BY <1>2, RegisteredHas, RecalculatedKeeps, HealthLossKeeps
    <3> HIDE DEF x
    <3>3. QED
      BY <1>2, <2>1, <3>1, <3>2, OneRewritten
  <2>3. CASE e.bus = "threat" /\ Suspicious(e)
    <3> DEFINE q == IF TooMany(r) THEN Quarantined(d) ELSE r
               x == [q EXCEPT !.anomalies = @ + 1]
    <3>0. e.type # "device_health_fail" /\ e.bus # "finding"
      BY <2>3 DEF Suspicious
    <3>1. /\ record' = [record EXCEPT ![d] = x]
          /\ IF TooMany(r) THEN quarantine' = quarantine \cup {d}
             ELSE UNCHANGED quarantine
      BY <1>2, <2>3, <3>0 DEF DeviceOn
    <3>2. Registered(d)
      BY <2>3 DEF Suspicious
    <3>3. /\ q \in Records
          /\ d \in quarantine' => q.quarantined \/ d \in reentered
      BY <1>2, <3>1, <3>2, RegisteredHas, QuarantinedKeeps
    <3> HIDE DEF q
    <3>4. /\ x \in Records
          /\ d \in quarantine' => x.quarantined \/ d \in reentered
      BY <3>3, OneMoreAnomaly
    <3> HIDE DEF x
    <3>5. QED
      BY <1>2, <2>1, <3>1, <3>4, OneRewritten
  <2>4. CASE e.bus = "finding" /\ Compromised(e)
    <3> DEFINE x == IF d \in quarantine /\ Registered(d)
                    THEN Recalculated(r) ELSE Quarantined(d)
    <3>1. record' = [record EXCEPT ![d] = x] /\ quarantine' = quarantine \cup {d}
      BY <1>2, <2>4 DEF DeviceOn
    <3>2. /\ x \in Records \cup {NoRecord}
          /\ x # NoRecord => x.quarantined \/ d \in reentered
      <4>1. CASE d \in quarantine /\ Registered(d)
        BY <1>2, <4>1, RegisteredHas, RecalculatedKeeps
      <4>2. CASE d \notin quarantine /\ Registered(d)
        BY <1>2, <4>2, QuarantinedKeeps
      <4>3. CASE ~Registered(d)
        <5>1. x = NoRecord
          BY <1>2, <4>3, RegisteredHas DEF Quarantined
        <5>2. QED
          BY <5>1
      <4>4. QED
        BY <4>1, <4>2, <4>3
    <3> HIDE DEF x
    <3>3. QED
      BY <1>2, <2>1, <3>1, <3>2, OneRewritten
  <2>5. CASE e.bus = "finding" /\ ~Compromised(e)
    <3> DEFINE x == IF Registered(d) THEN Recalculated(r) ELSE r
    <3>1. record' = [record EXCEPT ![d] = x] /\ quarantine' = quarantine
      BY <1>2, <2>5 DEF DeviceOn
    <3>2. /\ x \in Records \cup {NoRecord}
          /\ d \in quarantine /\ x # NoRecord => x.quarantined \/ d \in reentered
      BY <1>2, RegisteredHas, RecalculatedKeeps
    <3> HIDE DEF x
    <3>3. QED
      BY <1>2, <2>1, <3>1, <3>2, OneRewritten
  <2>6. CASE /\ ~(e.bus = "threat" /\ e.type = "device_health_fail")
             /\ ~(e.bus = "threat" /\ Suspicious(e))
             /\ e.bus # "finding"
    <3>1. UNCHANGED <<record, quarantine>>
      BY <1>2, <2>6 DEF DeviceOn
    <3>2. QED
      BY <2>1, <3>1, DevicesStay
  <2>7. QED
    BY <2>2, <2>3, <2>4, <2>5, <2>6
<1>3. QED
  BY <1>1, <1>2

LEMMA DroppedItem ==
  ASSUME QuarantineInv, NEW e, DeviceResumes(e) PROVE QuarantineInv'
<1> DEFINE d == e.device
           x == Recalculated(record[d])
<1>1. UNCHANGED <<quarantine, reentered>>
  BY DEF DeviceResumes
<1>2. CASE record' = record
  BY <1>1, <1>2, DevicesStay
<1>3. CASE record' = [record EXCEPT ![d] = x] /\ Registered(d)
  <2>1. CASE d \in Devices
    <3>1. x \in Records /\ (d \in quarantine => x.quarantined \/ d \in reentered)
      BY <1>3, <2>1, RegisteredHas, RecalculatedKeeps
    <3> HIDE DEF x
    <3>2. QED
      BY <1>1, <1>3, <2>1, <3>1, OneRewritten
  <2>2. CASE d \notin Devices
    <3>1. record' = record
      BY <1>3, <2>2 DEF QuarantineInv, KeepsRecords
    <3>2. QED
      BY <1>1, <3>1, DevicesStay
  <2>3. QED
    BY <2>1, <2>2
<1>4. QED
  BY <1>2, <1>3 DEF DeviceResumes

LEMMA Called ==
  ASSUME QuarantineInv, NEW d \in Devices
  PROVE  /\ \A healthy \in BOOLEAN : RegisterDevice(d, healthy) => QuarantineInv'
         /\ ApproveDevice(d) => QuarantineInv'
         /\ RejectDevice(d) => QuarantineInv'
         /\ UnquarantineDevice(d) => QuarantineInv'
         /\ \A health \in Int : UpdateDeviceHealth(d, health) => QuarantineInv'
         /\ VerifyAlteredDevice(d) => QuarantineInv'
         /\ AlterDevice(d) => QuarantineInv'
<1> DEFINE r == record[d]
<1>1. ASSUME NEW healthy \in BOOLEAN, RegisterDevice(d, healthy) PROVE QuarantineInv'
  <2> DEFINE new == [health |-> IF healthy THEN 1000 ELSE 571, trusted |-> FALSE,
                     quarantined |-> FALSE, anomalies |-> 0]
             x == Recalculated(new)
  <2>1. new \in Records
    BY DEF Records
  <2>2. /\ record' = [record EXCEPT ![d] = x] /\ quarantine' = quarantine
        /\ reentered' = IF d \in quarantine THEN reentered \cup {d} ELSE reentered
    BY <1>1 DEF RegisterDevice
  <2> HIDE DEF new
  <2>3. x \in Records
    BY <2>1, RecalculatedKeeps
  <2> HIDE DEF x
  <2>4. QED
    BY <2>2, <2>3, OneRewritten
<1>2. ASSUME ApproveDevice(d) PROVE QuarantineInv'
  <2> DEFINE x == Recalculated(r)
  <2>1. /\ record' = [record EXCEPT ![d] = x] /\ UNCHANGED <<quarantine, reentered>>
        /\ Registered(d)
    BY <1>2 DEF ApproveDevice
  <2>2. x \in Records /\ (d \in quarantine => x.quarantined \/ d \in reentered)
    BY <2>1, RegisteredHas, RecalculatedKeeps
  <2> HIDE DEF x
  <2>3. QED
    BY <2>1, <2>2, OneRewritten
<1>3. ASSUME RejectDevice(d) PROVE QuarantineInv'
  BY <1>3, OneRewritten DEF RejectDevice
<1>4. ASSUME UnquarantineDevice(d) PROVE QuarantineInv'
  <2>1. /\ quarantine' = quarantine \ {d}
        /\ reentered' = reentered \ {d}
    BY <1>4 DEF UnquarantineDevice
  <2>2. CASE Registered(d)
    <3> DEFINE bare == [r EXCEPT !.quarantined = FALSE, !.anomalies = 0]
               x == Recalculated(bare)
    <3>1. record' = [record EXCEPT ![d] = x]
      BY <1>4, <2>2 DEF UnquarantineDevice
    <3>2. bare \in Records
      <4> DEFINE down == [r EXCEPT !.quarantined = FALSE]
      <4>1. r \in Records
        BY <2>2, RegisteredHas
      <4> HIDE DEF r
      <4>2. down \in Records
        BY <4>1 DEF Records
      <4>3. [down EXCEPT !.anomalies = 0] \in Records
        <5> HIDE DEF down
        <5>1. QED
          BY <4>2 DEF Records
      <4>4. bare = [down EXCEPT !.anomalies = 0]
        BY <4>1 DEF Records
      <4>5. QED
        BY <4>3, <4>4
    <3> HIDE DEF bare
    <3>3. x \in Records
      BY <3>2, RecalculatedKeeps
    <3> HIDE DEF x
    <3>4. QED
      BY <2>1, <3>1, <3>3, OneRewritten
  <2>3. CASE ~Registered(d)
    <3>1. record' = [record EXCEPT ![d] = r] /\ r \in Records \cup {NoRecord}
      BY <1>4, <2>3, RegisteredHas DEF UnquarantineDevice, QuarantineInv, KeepsRecords
    <3> HIDE DEF r
    <3>2. QED
      BY <2>1, <3>1, OneRewritten
  <2>4. QED
    BY <2>2, <2>3
<1>5. ASSUME NEW health \in Int, UpdateDeviceHealth(d, health) PROVE QuarantineInv'
  <2> DEFINE h == [r EXCEPT !.health = health]
             y == Recalculated(h)
             low == health < 400
             x == IF low /\ d \notin quarantine
                  THEN [y EXCEPT !.quarantined = TRUE, !.trusted = FALSE] ELSE y
  <2>1. /\ record' = [record EXCEPT ![d] = x]
        /\ quarantine' = IF low THEN quarantine \cup {d} ELSE quarantine
        /\ UNCHANGED reentered
        /\ Registered(d)
    BY <1>5 DEF UpdateDeviceHealth
  <2>2. h \in Records /\ (d \in quarantine => h.quarantined \/ d \in reentered)
    BY <2>1, RegisteredHas DEF Records
  <2> HIDE DEF h
  <2>3. y \in Records /\ (d \in quarantine => y.quarantined \/ d \in reentered)
    BY <2>2, RecalculatedKeeps
  <2> HIDE DEF y
  <2>4. x \in Records /\ (d \in quarantine' => x.quarantined \/ d \in reentered)
    <3> HIDE DEF low
    <3>1. CASE low /\ d \notin quarantine
      <4> DEFINE z == [y EXCEPT !.quarantined = TRUE, !.trusted = FALSE]
      <4>1. z \in Records /\ z.quarantined
        BY ONLY <2>3 DEF Records
      <4>2. x = z
        BY <3>1
      <4> HIDE DEF x, z
      <4>3. QED
        BY <4>1, <4>2
    <3>2. CASE low /\ d \in quarantine
      <4>1. x = y
        BY <3>2
      <4> HIDE DEF x
      <4>2. QED
        BY <2>3, <3>2, <4>1
    <3>3. CASE ~low
      <4>1. x = y /\ quarantine' = quarantine
        BY <2>1, <3>3
      <4> HIDE DEF x
      <4>2. QED
        BY <2>3, <4>1
    <3>4. QED
      BY <3>1, <3>2, <3>3
  <2> HIDE DEF x, low
  <2>5. QED
    BY <2>1, <2>4, OneRewritten
<1>6. ASSUME VerifyAlteredDevice(d) PROVE QuarantineInv'
  <2> DEFINE q == IF TooMany(r) THEN Quarantined(d) ELSE r
             x == [q EXCEPT !.anomalies = @ + 1]
  <2>0. record' = [record EXCEPT ![d] = x]
    BY <1>6, Zenon DEF VerifyAlteredDevice
  <2>1. /\ quarantine' = IF TooMany(r) THEN quarantine \cup {d} ELSE quarantine
        /\ UNCHANGED reentered
        /\ Registered(d)
    BY <1>6, Zenon DEF VerifyAlteredDevice
  <2>2. q \in Records /\ (d \in quarantine' => q.quarantined \/ d \in reentered)
    BY <2>1, RegisteredHas, QuarantinedKeeps
  <2> HIDE DEF q
  <2>3. x \in Records /\ (d \in quarantine' => x.quarantined \/ d \in reentered)
    BY <2>2, OneMoreAnomaly
  <2> HIDE DEF x
  <2>4. QED
    BY <2>0, <2>1, <2>3, OneRewritten
<1>7. ASSUME AlterDevice(d) PROVE QuarantineInv'
  BY <1>7, DevicesStay DEF AlterDevice
<1>8. QED
  BY <1>1, <1>2, <1>3, <1>4, <1>5, <1>6, <1>7

LEMMA HourOfDevices ==
  ASSUME QuarantineInv, altered \subseteq Devices, DeviceHour PROVE QuarantineInv'
<1> DEFINE found == {d \in altered : Registered(d)}
<1>1. /\ record' = [d \in Devices |-> IF d \in found THEN Quarantined(d) ELSE record[d]]
      /\ quarantine' = quarantine \cup found
      /\ UNCHANGED reentered
  BY DEF DeviceHour
<1>2. found \subseteq Devices
  OBVIOUS
<1>3. ASSUME NEW d \in found
      PROVE  /\ Quarantined(d) \in Records
             /\ Quarantined(d).quarantined \/ d \in reentered
  BY <1>3, QuarantinedKeeps
<1>4. \A d \in Devices : record[d] \in Records \cup {NoRecord}
  BY RegisteredHas
<1> HIDE DEF found
<1>5. quarantine' \subseteq Devices
  BY <1>1, <1>2 DEF QuarantineInv
<1>6. KeepsRecords'
  BY <1>1, <1>3, <1>4 DEF KeepsRecords
<1>7. ASSUME NEW d \in quarantine', d \in Devices, Registered(d)'
      PROVE  record'[d].quarantined \/ d \in reentered'
  <2>1. CASE d \in found
    BY <1>1, <1>3, <1>7, <2>1
  <2>2. CASE d \notin found
    <3>1. record'[d] = record[d] /\ d \in quarantine
      BY <1>1, <1>7, <2>2
    <3>2. Registered(d)
      BY <1>7, <3>1 DEF Registered
    <3>3. QED
      BY <1>1, <1>7, <3>1, <3>2, RegisteredHas
  <2>3. QED
    BY <2>1, <2>2
<1>8. QED
  BY <1>5, <1>6, <1>7 DEF QuarantineInv, Flagged

DeviceInv == QuarantineInv /\ altered \subseteq Devices

LEMMA DeviceInvInit == Init => DeviceInv
BY DEF Init, DeviceInit, DeviceInv, QuarantineInv, KeepsRecords, Flagged

\* One call about a device touches no other device's hardware.
LEMMA CallAltersOne ==
  ASSUME CallDevice
  PROVE  \E d \in Devices : altered' \in {altered, altered \ {d}, altered \cup {d}}
<1>1. PICK d \in Devices :
        \/ \E healthy \in BOOLEAN : RegisterDevice(d, healthy)
        \/ ApproveDevice(d) \/ RejectDevice(d) \/ UnquarantineDevice(d)
        \/ UpdateDeviceHealth(d, 285) \/ VerifyAlteredDevice(d) \/ AlterDevice(d)
  BY DEF CallDevice, DeviceCall
<1>2. CASE \E healthy \in BOOLEAN : RegisterDevice(d, healthy)
  BY <1>2 DEF RegisterDevice
<1>3. CASE ApproveDevice(d) \/ RejectDevice(d)
  BY <1>3 DEF ApproveDevice, RejectDevice
<1>4. CASE UnquarantineDevice(d)
  BY <1>4 DEF UnquarantineDevice
<1>5. CASE UpdateDeviceHealth(d, 285)
  BY <1>5 DEF UpdateDeviceHealth
<1>6. CASE VerifyAlteredDevice(d)
  BY <1>6 DEF VerifyAlteredDevice
<1>7. CASE AlterDevice(d)
  BY <1>7 DEF AlterDevice
<1>8. QED
  BY <1>1, <1>2, <1>3, <1>4, <1>5, <1>6, <1>7

\* Only a registered device's hardware is ever said to have changed.
LEMMA AlteredAreDevices ==
  ASSUME altered \subseteq Devices, [Next]_vars PROVE altered' \subseteq Devices
<1>1. ASSUME NEW e, DeviceOn(e) \/ DeviceResumes(e) PROVE altered' = altered
  BY <1>1 DEF DeviceOn, DeviceResumes, deviceVars
<1>2. CASE Deliver
  BY <1>1, <1>2 DEF Deliver
<1>3. CASE Drop
  BY <1>1, <1>3 DEF Drop
<1>4. CASE CallDevice
  BY <1>4, CallAltersOne
<1>5. CASE HourPasses
  BY <1>5 DEF HourPasses, DeviceHour
<1>6. CASE Arrive \/ CallInsider \/ MinutePasses \/ RecordExpires \/ UNCHANGED vars
  BY <1>6 DEF Arrive, CallInsider, MinutePasses, RecordExpires, vars, deviceVars
<1>7. QED
  BY <1>2, <1>3, <1>4, <1>5, <1>6 DEF Next

LEMMA DeviceInvStep == DeviceInv /\ [Next]_vars => DeviceInv'
<1> SUFFICES ASSUME QuarantineInv, altered \subseteq Devices, [Next]_vars
             PROVE  QuarantineInv'
  BY AlteredAreDevices DEF DeviceInv
<1>1. CASE Deliver
  BY <1>1, HandledItem DEF Deliver
<1>2. CASE Drop
  BY <1>2, DroppedItem DEF Drop
<1>3. CASE CallDevice
  <2>1. PICK d \in Devices :
          \/ \E healthy \in BOOLEAN : RegisterDevice(d, healthy)
          \/ ApproveDevice(d) \/ RejectDevice(d) \/ UnquarantineDevice(d)
          \/ UpdateDeviceHealth(d, 285) \/ VerifyAlteredDevice(d) \/ AlterDevice(d)
    BY <1>3 DEF CallDevice, DeviceCall
  <2>2. 285 \in Int
    OBVIOUS
  <2>3. QED
    BY <2>1, <2>2, Called
<1>4. CASE HourPasses
  BY <1>4, HourOfDevices DEF HourPasses
<1>5. CASE Arrive \/ CallInsider \/ MinutePasses \/ RecordExpires \/ UNCHANGED vars
  BY <1>5, DevicesStay DEF Arrive, CallInsider, MinutePasses, RecordExpires, vars,
     deviceVars
<1>6. QED
  BY <1>1, <1>2, <1>3, <1>4, <1>5 DEF Next

(* A device that is in the quarantine is not taken for trusted, whatever   *)
(* its own alarms and the findings about it recalculate, unless it was     *)
(* registered while its id was in (device_trust_engine.py 439-449,         *)
(* 504-524).                                                               *)
THEOREM QuarantineAlwaysHolds == Spec => []QuarantineHolds
<1>1. DeviceInv => QuarantineHolds
  BY DEF DeviceInv, QuarantineInv, Flagged, QuarantineHolds, IsDeviceTrusted
<1>2. QED
  BY DeviceInvInit, DeviceInvStep, <1>1, PTL DEF Spec

-----------------------------------------------------------------------------
(* The converged security engine *)

\* Histories are sequences, kept of the tracked.
KeepsHistories ==
  /\ DOMAIN history = Tracked
  /\ \A n \in Tracked : history[n] \in Seq(SignalsOf(n))

KnownAreTracked == known \in Seq(Tracked)

StampedAreTracked == \A p \in stamped : p[1] \in Tracked

ConvergedInv ==
  KeepsHistories /\ KnownAreTracked /\ StampedAreTracked /\ CooldownMeansAlert

Poison(s) == s.kind = "network_behavior" /\ None \in {s.item.signature, s.item.dst}

LEMMA PoisonedByOne == \A n : Poisoned(n) <=> \E s \in SignalsOf(n) : Poison(s)
BY DEF Poisoned, Poison

\* An alert names the entity it is about.
LEMMA AlertNames == \A n : ConvergedAlert(n).entity = n
<1> SUFFICES ASSUME NEW n PROVE ConvergedAlert(n).entity = n
  OBVIOUS
<1>1. "entity" \in DOMAIN Blank
  BY DEF Blank
<1>2. \A a, t, v, c : "entity" \in DOMAIN Finding(a, t, v, c)
  BY <1>1, Zenon DEF Finding
<1> DEFINE f == Finding("ConvergedSecurityEngine", "correlated_attack",
                        IF TopScore(n) >= 900 THEN CRITICAL ELSE HIGH, TopScore(n))
<1>3. ConvergedAlert(n) = [f EXCEPT !.entity = n]
  BY Zenon DEF ConvergedAlert
<1>4. "entity" \in DOMAIN f
  BY <1>2
<1> HIDE DEF f
<1>5. QED
  BY <1>3, <1>4

LEMMA ConvergedInvInit == Init => ConvergedInv
<1> SUFFICES ASSUME Init PROVE ConvergedInv
  OBVIOUS
<1>1. /\ history = [n \in Tracked |-> <<>>] /\ known = <<>> /\ stamped = {}
  BY DEF Init, ConvergedInit
<1>2. QED
  BY <1>1 DEF ConvergedInv, KeepsHistories, KnownAreTracked, StampedAreTracked,
     CooldownMeansAlert, SignalsOf

\* Filing an item: no history loses what poisons it.
LEMMA FiledItem ==
  ASSUME ConvergedInv, NEW e, ConvergedOn(e) PROVE ConvergedInv'
<1> DEFINE n == ConvergedEntity(e)
           s == [kind |-> SignalKind(e), item |-> e]
<1>1. UNCHANGED <<stamped, warned>>
  BY DEF ConvergedOn
<1>2. CASE n \notin Tracked
  <2>1. UNCHANGED <<history, known>>
    BY <1>2 DEF ConvergedOn
  <2>2. QED
    BY <1>1, <2>1 DEF ConvergedInv, KeepsHistories, KnownAreTracked, StampedAreTracked,
       CooldownMeansAlert, SignalsOf, Poisoned
<1>3. CASE n \in Tracked
  <2>1. /\ history' = [history EXCEPT ![n] = Append(history[n], s)]
        /\ known' \in {known, Append(known, n)}
    BY <1>3 DEF ConvergedOn
  <2> HIDE DEF n, s
  <2>2. /\ history[n] \in Seq(SignalsOf(n)) /\ DOMAIN history = Tracked
        /\ history'[n] = Append(history[n], s)
        /\ \A m \in Tracked \ {n} : history'[m] = history[m]
        /\ DOMAIN history' = Tracked
    BY <1>3, <2>1 DEF ConvergedInv, KeepsHistories
  <2>3. SignalsOf(n)' = SignalsOf(n) \cup {s}
    <3> DEFINE h == history[n]
    <3> HIDE DEF h
    <3>1. h \in Seq(SignalsOf(n)) /\ history'[n] = Append(h, s)
      BY <2>2 DEF h
    <3>2. Range(Append(h, s)) = Range(h) \cup {s}
      BY ONLY <3>1, AppendProperties DEF Range
    <3>3. QED
      BY <3>1, <3>2 DEF h, SignalsOf
  <2>4. history'[n] \in Seq(SignalsOf(n) \cup {s})
    BY <2>2, AppendProperties
  <2>5. \A m \in Tracked \ {n} : SignalsOf(m)' = SignalsOf(m)
    BY <2>2 DEF SignalsOf
  <2>6. KeepsHistories'
    BY <1>3, <2>2, <2>3, <2>4, <2>5 DEF ConvergedInv, KeepsHistories
  <2>7. KnownAreTracked'
    BY <1>3, <2>1, AppendProperties DEF ConvergedInv, KnownAreTracked
  <2>8. \A m \in Tracked : Poisoned(m) => Poisoned(m)'
    <3>1. \A m \in Tracked : Poisoned(m)' <=> \E x \in SignalsOf(m)' : Poison(x)
      BY DEF Poisoned, Poison
    <3>2. QED
      BY <2>3, <2>5, <3>1, PoisonedByOne
  <2>9. QED
    BY <1>1, <2>6, <2>7, <2>8
    DEF ConvergedInv, StampedAreTracked, CooldownMeansAlert
<1>4. QED
  BY <1>2, <1>3

\* A round: who is stamped has been alerted on, or poisons it.
LEMMA RoundOfRules ==
  ASSUME ConvergedInv, EvaluationRound PROVE ConvergedInv'
<1>1. UNCHANGED <<history, known>>
  BY DEF EvaluationRound
<1>2. KeepsHistories' /\ KnownAreTracked' /\ \A n : Poisoned(n)' <=> Poisoned(n)
  BY <1>1 DEF ConvergedInv, KeepsHistories, KnownAreTracked, SignalsOf, Poisoned
<1>3. ASSUME NEW p \in stamped', p \notin stamped
      PROVE  p[1] \in Tracked /\ (p[1] \in warned' \/ Poisoned(p[1]))
  <2>1. PICK n \in Reached : p \in {n} \X Firing(n)
    BY <1>3 DEF EvaluationRound
  <2>2. p[1] = n /\ Firing(n) # {}
    BY <2>1
  <2>3. n \in Tracked
    BY ElementOfSeq DEF ConvergedInv, KnownAreTracked, Reached
  <2>4. CASE ~Poisoned(n)
    <3>1. ConvergedAlert(n) \in ConvergedPublishes
      BY <2>2, <2>4 DEF ConvergedPublishes, Raises
    <3>2. ConvergedAlert(n).entity \in warned'
      BY <3>1 DEF EvaluationRound
    <3>3. QED
      BY <2>2, <2>3, <3>2, AlertNames
  <2>5. QED
    BY <2>2, <2>3, <2>4
<1>4. warned \subseteq warned'
  BY DEF EvaluationRound
<1>5. QED
  BY <1>2, <1>3, <1>4 DEF ConvergedInv, StampedAreTracked, CooldownMeansAlert

LEMMA ConvergedInvStep == ConvergedInv /\ [Next]_vars => ConvergedInv'
<1> SUFFICES ASSUME ConvergedInv, [Next]_vars PROVE ConvergedInv'
  OBVIOUS
<1>1. CASE Deliver
  BY <1>1, FiledItem DEF Deliver
<1>2. CASE MinutePasses
  BY <1>2, RoundOfRules DEF MinutePasses
<1>3. CASE HourPasses
  <2>1. ConvergedHour
    BY <1>3 DEF HourPasses
  <2>2. QED
    BY <2>1 DEF ConvergedHour, ConvergedInv, KeepsHistories, KnownAreTracked,
       StampedAreTracked, CooldownMeansAlert, SignalsOf
<1>4. CASE Drop \/ Arrive \/ CallDevice \/ CallInsider \/ RecordExpires \/ UNCHANGED vars
  <2>1. UNCHANGED convergedVars
    BY <1>4 DEF Drop, Arrive, CallDevice, DeviceCall, CallInsider, RecordExpires, Others,
       vars
  <2>2. QED
    BY <2>1 DEF convergedVars, ConvergedInv, KeepsHistories, KnownAreTracked,
       StampedAreTracked, CooldownMeansAlert, SignalsOf, Poisoned
<1>5. QED
  BY <1>1, <1>2, <1>3, <1>4 DEF Next

(* No rule of the converged engine keeps still for an hour about an entity *)
(* nobody was alerted on, unless the entity's last rule raised             *)
(* (converged_security_engine.py 375-434).                                 *)
THEOREM CooldownAlwaysMeansAlert == Spec => []CooldownMeansAlert
<1>1. ConvergedInv => CooldownMeansAlert
  BY DEF ConvergedInv
<1>2. QED
  BY ConvergedInvInit, ConvergedInvStep, <1>1, PTL DEF Spec

-----------------------------------------------------------------------------
(* What the bus carries *)

\* A queue of well-formed items.
Carries(q) == \E S : q \in Seq(S) /\ \A e \in S : WellFormed(e)

\* A finite set of well-formed items: what a handler may publish.
Publishable(S) == IsFiniteSet(S) /\ \A e \in S : WellFormed(e)

LEMMA CarriesNone == Carries(<<>>)
<1> DEFINE S == {}
<1>1. <<>> \in Seq(S)
  BY EmptySeq
<1>2. \A e \in S : WellFormed(e)
  OBVIOUS
<1> HIDE DEF S
<1>3. QED
  BY <1>1, <1>2 DEF Carries

LEMMA CarriesParts ==
  ASSUME NEW q, Carries(q), q # <<>>
  PROVE  WellFormed(Head(q)) /\ Carries(Tail(q))
<1>1. PICK S : q \in Seq(S) /\ \A e \in S : WellFormed(e)
  BY DEF Carries
<1>2. Head(q) \in S /\ Tail(q) \in Seq(S)
  BY <1>1, HeadTailProperties
<1>3. QED
  BY <1>1, <1>2 DEF Carries

LEMMA CarriesBoth ==
  ASSUME NEW q, NEW r, Carries(q), Carries(r) PROVE Carries(q \o r)
<1>1. PICK S : q \in Seq(S) /\ \A e \in S : WellFormed(e)
  BY DEF Carries
<1>2. PICK T : r \in Seq(T) /\ \A e \in T : WellFormed(e)
  BY DEF Carries
<1> DEFINE U == S \cup T
<1>3. q \in Seq(U) /\ r \in Seq(U) /\ \A e \in U : WellFormed(e)
  <2>1. S \subseteq U /\ T \subseteq U
    OBVIOUS
  <2>2. q \in Seq(U) /\ r \in Seq(U)
    BY <1>1, <1>2, <2>1, SeqMonotonic
  <2>3. QED
    BY <1>1, <1>2, <2>2
<1> HIDE DEF U
<1>4. q \o r \in Seq(U)
  BY <1>3, ConcatProperties
<1>5. QED
  BY <1>3, <1>4 DEF Carries

LEMMA CarriesMore ==
  ASSUME NEW q, NEW e, Carries(q), WellFormed(e) PROVE Carries(Append(q, e))
<1>1. PICK S : q \in Seq(S) /\ \A x \in S : WellFormed(x)
  BY DEF Carries
<1> DEFINE U == S \cup {e}
<1>2. q \in Seq(U) /\ e \in U /\ \A x \in U : WellFormed(x)
  <2>1. S \subseteq U
    OBVIOUS
  <2>2. QED
    BY <1>1, <2>1, SeqMonotonic
<1> HIDE DEF U
<1>3. Append(q, e) \in Seq(U)
  BY <1>2, AppendProperties
<1>4. QED
  BY <1>2, <1>3 DEF Carries

\* InOrder makes a sequence of what is finite.
LEMMA InOrderIsSeq == ASSUME NEW S, IsFiniteSet(S) PROVE InOrder(S) \in Seq(S)
<1> DEFINE n == Cardinality(S)
<1>1. n \in Nat /\ ExistsBijection(1..n, S)
  BY FS_CardinalityType
<1>2. PICK f \in [1..n -> S] : {f[i] : i \in DOMAIN f} = S
  <2>1. PICK f \in Bijection(1..n, S) : TRUE
    BY <1>1 DEF ExistsBijection
  <2>2. f \in [1..n -> S] /\ \A x \in S : \E i \in 1..n : f[i] = x
    BY <2>1 DEF Bijection, Surjection
  <2>3. QED
    BY <2>2
<1>3. InOrder(S) \in [1..n -> S]
  BY <1>2 DEF InOrder
<1> HIDE DEF n
<1>4. QED
  BY <1>1, <1>3

LEMMA InOrderCarries ==
  ASSUME NEW S, Publishable(S) PROVE Carries(InOrder(S))
BY InOrderIsSeq DEF Publishable, Carries

\* The fields of a blank item that are asked for.
LEMMA BlankFields ==
  /\ {"bus", "type", "sev", "source", "user", "ip", "device", "entity", "score",
      "agent", "conf", "biometric", "resource", "hour", "deviation", "zone", "badge",
      "face", "past", "tailgate"} \subseteq DOMAIN Blank
  /\ Blank.score = 0 /\ Blank.conf = 0 /\ Blank.biometric = 0
  /\ Blank.agent = None /\ Blank.bus = "threat" /\ Blank.user = None
BY DEF Blank

LEMMA ThreatFields ==
  ASSUME NEW type, NEW sev
  PROVE  LET t == Threat(type, sev)
         IN /\ DOMAIN t = DOMAIN Blank
            /\ t.bus = "threat" /\ t.type = type /\ t.sev = sev
            /\ t.score = 0 /\ t.conf = 0 /\ t.biometric = 0
BY BlankFields DEF Threat

LEMMA FindingFields ==
  ASSUME NEW agent, NEW type, NEW sev, NEW conf
  PROVE  LET f == Finding(agent, type, sev, conf)
         IN /\ DOMAIN f = DOMAIN Blank
            /\ f.bus = "finding" /\ f.type = type /\ f.sev = sev /\ f.conf = conf
            /\ f.score = 0 /\ f.biometric = 0
BY BlankFields DEF Finding

LEMMA Levels == {LOW, MEDIUM, HIGH, CRITICAL} \subseteq LOW..CRITICAL
BY DEF LOW, MEDIUM, HIGH, CRITICAL

LEMMA AlarmWellFormed == \A d, reason : WellFormed(Alarm(d, reason))
<1> SUFFICES ASSUME NEW d, NEW reason PROVE WellFormed(Alarm(d, reason))
  OBVIOUS
<1> DEFINE t == Threat("device_health_fail", CRITICAL)
<1>1. /\ DOMAIN t = DOMAIN Blank
      /\ t.bus = "threat" /\ t.type = "device_health_fail" /\ t.sev = CRITICAL
      /\ t.score = 0 /\ t.conf = 0 /\ t.biometric = 0
  BY ThreatFields
<1>2. Alarm(d, reason) =
        [t EXCEPT !.source = "DeviceTrustEngine", !.device = d, !.resource = reason]
  BY DEF Alarm
<1> HIDE DEF t
<1> DEFINE a == Alarm(d, reason)
<1>3. /\ a.bus = "threat" /\ a.type = "device_health_fail" /\ a.sev = CRITICAL
      /\ a.score = 0 /\ a.conf = 0 /\ a.biometric = 0
  BY <1>1, <1>2
<1> HIDE DEF a
<1>4. WellFormed(a)
  BY <1>3, Levels DEF WellFormed
<1>5. QED
  BY <1>4 DEF a

\* The values of a function on a finite set are finitely many.
LEMMA ImageIsFinite ==
  ASSUME NEW S, IsFiniteSet(S), NEW f, DOMAIN f = S, f = [x \in S |-> f[x]]
  PROVE  IsFiniteSet({f[x] : x \in S})
<1> DEFINE T == {f[x] : x \in S}
<1>1. f \in Surjection(S, T)
  <2>1. f \in [S -> T]
    OBVIOUS
  <2>2. \A t \in T : \E s \in S : f[s] = t
    OBVIOUS
  <2> HIDE DEF T
  <2>3. QED
    BY <2>1, <2>2 DEF Surjection
<1>2. QED
  BY <1>1, FS_Surjection

LEMMA FewAreFinite ==
  /\ IsFiniteSet({})
  /\ \A a : IsFiniteSet({a})
  /\ \A a, b : IsFiniteSet({a, b})
  /\ \A a, b, c : IsFiniteSet({a, b, c})
<1>1. IsFiniteSet({}) /\ \A a : IsFiniteSet({a})
  BY FS_EmptySet, FS_Singleton
<1>2. ASSUME NEW a, NEW b PROVE IsFiniteSet({a, b})
  <2> DEFINE A == {a}
             B == {b}
  <2>1. {a, b} = A \cup B /\ IsFiniteSet(A) /\ IsFiniteSet(B)
    BY <1>1
  <2> HIDE DEF A, B
  <2>2. QED
    BY <2>1, FS_Union
<1>3. ASSUME NEW a, NEW b, NEW c PROVE IsFiniteSet({a, b, c})
  <2> DEFINE A == {a, b}
             B == {c}
  <2>1. {a, b, c} = A \cup B /\ IsFiniteSet(A) /\ IsFiniteSet(B)
    BY <1>1, <1>2
  <2> HIDE DEF A, B
  <2>2. QED
    BY <2>1, FS_Union
<1>4. QED
  BY <1>1, <1>2, <1>3

LEMMA NoneIsPublishable == Publishable({})
BY FewAreFinite DEF Publishable

LEMMA OneIsPublishable ==
  ASSUME NEW e, WellFormed(e) PROVE Publishable({e})
BY FewAreFinite DEF Publishable

LEMMA BothArePublishable ==
  ASSUME NEW S, NEW T, Publishable(S), Publishable(T) PROVE Publishable(S \cup T)
BY FS_Union DEF Publishable

LEMMA AlarmsArePublishable ==
  /\ \A d, reason : Publishable(AlarmUnless(d, reason))
  /\ \A e : Publishable(DevicePublishes(e))
  /\ \A d, health : Publishable(HealthUpdatePublishes(d, health))
  /\ \A d : Publishable(VerificationPublishes(d))
<1>1. \A d, reason : Publishable(AlarmUnless(d, reason))
  BY AlarmWellFormed, NoneIsPublishable, OneIsPublishable, Zenon DEF AlarmUnless
<1>2. ASSUME NEW e PROVE Publishable(DevicePublishes(e))
  <2>1. DevicePublishes(e)
          \in {{}, AlarmUnless(e.device, "anomalies"), AlarmUnless(e.device, "finding")}
    BY DEF DevicePublishes
  <2>2. QED
    BY <1>1, <2>1, NoneIsPublishable
<1>3. QED
  BY <1>1, <1>2, NoneIsPublishable DEF HealthUpdatePublishes, VerificationPublishes

LEMMA AnomalyWellFormed == \A n, e : WellFormed(AnomalyReport(n, e))
<1> SUFFICES ASSUME NEW n, NEW e PROVE WellFormed(AnomalyReport(n, e))
  OBVIOUS
<1> DEFINE v == AnomalySeverity(n, e)
           t == Threat("anomalous_behavior", v)
           a == AnomalyReport(n, e)
<1>1. v \in {MEDIUM, HIGH}
  BY DEF AnomalySeverity
<1> HIDE DEF v
<1>2. /\ DOMAIN t = DOMAIN Blank
      /\ t.bus = "threat" /\ t.type = "anomalous_behavior" /\ t.sev = v
      /\ t.score = 0 /\ t.conf = 0 /\ t.biometric = 0
  BY ThreatFields
<1>3. a = [t EXCEPT !.source = "BehavioralDNAEngine", !.entity = n, !.deviation = TRUE,
                    !.hour = e.hour]
  BY DEF AnomalyReport, v
<1> HIDE DEF t
<1>4. /\ a.bus = "threat" /\ a.type = "anomalous_behavior" /\ a.sev = v
      /\ a.score = 0 /\ a.conf = 0 /\ a.biometric = 0
  BY <1>2, <1>3
<1> HIDE DEF a
<1>5. WellFormed(a)
  BY <1>1, <1>4, Levels DEF WellFormed
<1>6. QED
  BY <1>5 DEF a

LEMMA AnomaliesArePublishable ==
  ASSUME NEW e, WellFormed(e) PROVE Publishable(DNAPublishes(e))
<1> DEFINE S == Anomalous(e)
           f == [n \in S |-> AnomalyReport(n, e)]
<1>1. IsFiniteSet(S)
  <2>1. S \subseteq {e.user, e.ip, e.device} \cup {e.source}
    BY DEF WellFormed, Anomalous, Profiles
  <2>2. IsFiniteSet({e.user, e.ip, e.device} \cup {e.source})
    BY FewAreFinite, FS_Union
  <2>3. QED
    BY <2>1, <2>2, FS_Subset
<1>2. DNAPublishes(e) = {f[n] : n \in S}
  BY DEF DNAPublishes
<1>3. \A x \in DNAPublishes(e) : WellFormed(x)
  BY AnomalyWellFormed DEF DNAPublishes
<1>4. DOMAIN f = S /\ f = [n \in S |-> f[n]]
  OBVIOUS
<1> HIDE DEF S, f
<1>5. QED
  BY <1>1, <1>2, <1>3, <1>4, ImageIsFinite DEF Publishable

LEMMA IntrusionWellFormed ==
  \A e, reason, tailgate : WellFormed(PhysicalAnomaly(e, reason, tailgate))
<1> SUFFICES ASSUME NEW e, NEW reason, NEW tailgate
             PROVE  WellFormed(PhysicalAnomaly(e, reason, tailgate))
  OBVIOUS
<1> DEFINE v == ZoneAlarm(e.zone)
           t == Threat("physical_intrusion", v)
           a == PhysicalAnomaly(e, reason, tailgate)
<1>1. v \in {CRITICAL, HIGH}
  BY DEF ZoneAlarm
<1> HIDE DEF v
<1>2. /\ DOMAIN t = DOMAIN Blank
      /\ t.bus = "threat" /\ t.type = "physical_intrusion" /\ t.sev = v
      /\ t.score = 0 /\ t.conf = 0 /\ t.biometric = 0
  BY ThreatFields
<1>3. a = [t EXCEPT !.source = "PhysicalSecurityEngine", !.user = PhysicalPerson(e),
                    !.entity = PhysicalPerson(e), !.zone = e.zone, !.badge = e.badge,
                    !.face = e.face, !.past = e.motion, !.tailgate = tailgate,
                    !.resource = reason]
  BY DEF PhysicalAnomaly, v
<1> HIDE DEF t
<1>4. /\ a.bus = "threat" /\ a.type = "physical_intrusion" /\ a.sev = v
      /\ a.score = 0 /\ a.conf = 0 /\ a.biometric = 0
  BY <1>2, <1>3
<1> HIDE DEF a
<1>5. WellFormed(a)
  BY <1>1, <1>4, Levels DEF WellFormed
<1>6. QED
  BY <1>5 DEF a

LEMMA MismatchWellFormed ==
  ASSUME NEW e, NEW reason, NEW v \in {HIGH, CRITICAL}
  PROVE  WellFormed(Mismatch(e, reason, v))
<1> DEFINE t == Threat("physical_cyber_mismatch", v)
           a == Mismatch(e, reason, v)
<1>1. /\ DOMAIN t = DOMAIN Blank
      /\ t.bus = "threat" /\ t.type = "physical_cyber_mismatch" /\ t.sev = v
      /\ t.score = 0 /\ t.conf = 0 /\ t.biometric = 0
  BY ThreatFields
<1>2. a = [t EXCEPT !.source = "PhysicalSecurityEngine", !.user = e.user,
                    !.entity = e.user, !.resource = reason]
  BY DEF Mismatch
<1> HIDE DEF t
<1>3. /\ a.bus = "threat" /\ a.type = "physical_cyber_mismatch" /\ a.sev = v
      /\ a.score = 0 /\ a.conf = 0 /\ a.biometric = 0
  BY <1>1, <1>2
<1> HIDE DEF a
<1>4. WellFormed(a)
  BY <1>3, Levels DEF WellFormed
<1>5. QED
  BY <1>4 DEF a

LEMMA IntrusionsArePublishable == \A e : Publishable(PhysicalPublishes(e))
<1> SUFFICES ASSUME NEW e PROVE Publishable(PhysicalPublishes(e))
  OBVIOUS
<1>1. \A reason, tailgate : Publishable({PhysicalAnomaly(e, reason, tailgate)})
  BY IntrusionWellFormed, OneIsPublishable
<1>2. Publishable(PhysicalAnomalies(e))
  <2> DEFINE A == IF e.zone \in GuardedZones /\ ~(e.badge /\ e.face)
                  THEN {PhysicalAnomaly(e, "zone", e.tailgate)} ELSE {}
             B == IF e.motion > 850 /\ ~e.badge /\ ~e.face
                  THEN {PhysicalAnomaly(e, "motion", e.tailgate)} ELSE {}
             C == IF e.tailgate THEN {PhysicalAnomaly(e, "tailgate", TRUE)} ELSE {}
  <2>1. Publishable(A) /\ Publishable(B) /\ Publishable(C)
    BY <1>1, NoneIsPublishable, Zenon
  <2>2. PhysicalAnomalies(e) = (A \cup B) \cup C
    BY DEF PhysicalAnomalies
  <2> HIDE DEF A, B, C
  <2>3. Publishable(A \cup B)
    BY <2>1, BothArePublishable
  <2>4. QED
    BY <2>1, <2>2, <2>3, BothArePublishable
<1>3. Publishable(Mismatches(e))
  <2>1. \A reason : Publishable({Mismatch(e, reason, HIGH)})
                    /\ Publishable({Mismatch(e, reason, CRITICAL)})
    BY MismatchWellFormed, OneIsPublishable
  <2>2. Mismatches(e)
          \in {{}, {Mismatch(e, "never seen", HIGH)},
               {Mismatch(e, "not seen lately", CRITICAL)},
               {Mismatch(e, "not seen lately", HIGH)},
               {Mismatch(e, "not authenticated", HIGH)}}
    BY DEF Mismatches
  <2>3. QED
    BY <2>1, <2>2, NoneIsPublishable
<1> DEFINE A == IF Sighting(e) THEN PhysicalAnomalies(e) ELSE {}
           B == IF CyberUse(e) THEN Mismatches(e) ELSE {}
<1>4. Publishable(A) /\ Publishable(B)
  BY <1>2, <1>3, NoneIsPublishable, Zenon
<1>5. PhysicalPublishes(e) = A \cup B
  BY DEF PhysicalPublishes
<1> HIDE DEF A, B
<1>6. QED
  BY <1>4, <1>5, BothArePublishable

\* An hour's alarms, about finitely many altered devices.
LEMMA HourIsPublishable ==
  ASSUME IsFiniteSet(altered) PROVE Publishable(HourPublishes)
<1> DEFINE S == {x \in altered : Registered(x)}
           T == {Alarm(d, "periodic") : d \in S}
           f == [d \in S |-> Alarm(d, "periodic")]
<1>1. IsFiniteSet(S)
  BY FS_Subset
<1>2. IsFiniteSet(T)
  <2>1. T = {f[d] : d \in S} /\ DOMAIN f = S /\ f = [d \in S |-> f[d]]
    OBVIOUS
  <2> HIDE DEF T, f, S
  <2>2. QED
    BY <1>1, <2>1, ImageIsFinite
<1>3. HourPublishes \subseteq T
  BY DEF HourPublishes, AlarmUnless
<1>4. \A x \in T : WellFormed(x)
  BY AlarmWellFormed
<1> HIDE DEF T
<1>5. QED
  BY <1>2, <1>3, <1>4, FS_Subset DEF Publishable

-----------------------------------------------------------------------------
(* The zero-trust agent *)

LEMMA AtMostBounds ==
  \A l, x \in Int : AtMost(l, x) \in Int /\ AtMost(l, x) <= l /\ AtMost(l, x) <= x
                    /\ (AtMost(l, x) = l \/ AtMost(l, x) = x)
BY DEF AtMost

LEMMA AnomalyBounds == \A u, e : Anomaly(u, e) \in 0..1000
<1> SUFFICES ASSUME NEW u, NEW e PROVE Anomaly(u, e) \in 0..1000
  OBVIOUS
<1> DEFINE odd(c, x) == IF c THEN x ELSE 0
           h == odd(e.hour \notin hours[u], 300)
           l == odd(NewPlace(u, e), 300)
           d == odd(NewDevice(u, e), 200)
           v == odd(e.volume > 1, 200)
           r == odd(e.resource \notin {None, "email", "crm", "docs"}, 200)
           sum == h + l + d + v + r
           usual == e.hour \in hours[u]
           bound == AtMost(1000, sum)
<1>1. Anomaly(u, e) = IF sum = 600 /\ usual THEN 601 ELSE bound
  <2> HIDE DEF usual, bound
  <2>1. QED
    BY Zenon DEF Anomaly, usual, bound
<1>2. sum \in Nat
  <2>1. \A c, x : odd(c, x) \in {x, 0}
    OBVIOUS
  <2>2. h \in {300, 0} /\ l \in {300, 0} /\ d \in {200, 0} /\ v \in {200, 0}
        /\ r \in {200, 0}
    <3> HIDE DEF odd
    <3>1. QED
      BY ONLY <2>1
  <2> HIDE DEF odd, h, l, d, v, r
  <2>3. QED
    BY ONLY <2>2
<1> HIDE DEF usual, sum
<1>3. bound \in 0..1000
  BY ONLY <1>2 DEF AtMost
<1> HIDE DEF bound
<1>4. QED
  BY ONLY <1>1, <1>3

LEMMA BehaviourBounds == \A u, e : BehaviourRisk(u, e) \in 0..1000
<1> SUFFICES ASSUME NEW u, NEW e PROVE BehaviourRisk(u, e) \in 0..1000
  OBVIOUS
<1>1. PICK a \in 0..1000 : a = Anomaly(u, e)
  BY AnomalyBounds
<1>2. BehaviourRisk(u, e) = IF a > 600 THEN a ELSE a \div 2
  BY <1>1 DEF BehaviourRisk
<1>3. QED
  BY <1>2

\* No sum of the five scores comes near CRITICAL.
LEMMA CombinedBounds == \A u, e : Combined(u, e) \in 0..600
<1> SUFFICES ASSUME NEW u, NEW e PROVE Combined(u, e) \in 0..600
  OBVIOUS
<1>1. PICK a \in 0..200 : a = IdentityRisk(e)
  BY DEF IdentityRisk
<1>2. PICK b \in 0..900 : b = DeviceRisk(e)
  BY DEF DeviceRisk
<1>3. PICK c \in 0..500 : c = NetworkRisk(e)
  <2>1. PICK base \in {100, 200} : base = IF e.vpn THEN 100 ELSE 200
    OBVIOUS
  <2>2. NetworkRisk(e) \in {Less(base, 200), base + 300, base}
    BY <2>1 DEF NetworkRisk
  <2>3. Less(base, 200) = 0
    BY DEF Less
  <2>4. QED
    BY <2>2, <2>3
<1>4. PICK d \in 0..600 : d = LocationRisk(u, e)
  <2>1. LocationRisk(u, e) \in {400, 100, 500, 600, 300}
    BY DEF LocationRisk
  <2>2. QED
    BY <2>1
<1>5. PICK x \in 0..1000 : x = BehaviourRisk(u, e)
  BY BehaviourBounds
<1>6. Combined(u, e) = (30 * a + 25 * b + 15 * c + 15 * d + 15 * x) \div 100
  BY <1>1, <1>2, <1>3, <1>4, <1>5 DEF Combined
<1> DEFINE s == 30 * a + 25 * b + 15 * c + 15 * d + 15 * x
<1>7. s \in Int /\ 0 <= s /\ s <= 60000
  <2>1. /\ a \in Int /\ 0 <= a /\ a <= 200
        /\ b \in Int /\ 0 <= b /\ b <= 900
        /\ c \in Int /\ 0 <= c /\ c <= 500
        /\ d \in Int /\ 0 <= d /\ d <= 600
        /\ x \in Int /\ 0 <= x /\ x <= 1000
    OBVIOUS
  <2>2. QED
    BY ONLY <2>1
<1> HIDE DEF s
<1>8. s \div 100 \in 0..600
  BY ONLY <1>7
<1>9. QED
  BY <1>6, <1>8 DEF s

LEMMA LevelBounds == \A s \in Int : LevelOf(s) \in LOW..CRITICAL
BY DEF LevelOf, LOW, MEDIUM, HIGH, CRITICAL

\* A severity, and a confidence that is not negative.
Graded(f) == f[1] \in LOW..CRITICAL /\ f[2] \in Nat

LEMMA FindingsAreGraded ==
  ASSUME NEW e, WellFormed(e), e.type \in AgentHandles
  PROVE  Graded(AgentFindingOn(e))
<1> DEFINE u == Subject(e)
<1>1. e.sev \in LOW..CRITICAL /\ e.biometric \in Nat
  BY DEF WellFormed
<1>2. Graded(AccessFinding(e))
  <2>1. PICK c \in 0..600 : c = Combined(u, e)
    BY CombinedBounds
  <2>2. RequestLevel(u, e) \in LOW..CRITICAL
    BY <2>1, LevelBounds, Levels DEF RequestLevel
  <2>3. RequestScore(u, e) \in Nat
    BY <2>1 DEF RequestScore, AtMost
  <2> HIDE DEF u
  <2>4. QED
    BY <2>2, <2>3 DEF AccessFinding, Graded, u
<1>3. Graded(IdentityFinding(e))
  <2>1. IdentityConfidence(e) \in Nat
    BY <1>1 DEF IdentityConfidence
  <2>2. QED
    BY <2>1, Levels DEF IdentityFinding, Graded
<1>4. Graded(NetworkFinding(e))
  BY <1>1, Levels DEF NetworkFinding, Graded
<1>5. Graded(PhysicalFinding(e))
  <2>1. PhysicalFinding(e)
          \in {<<CRITICAL, 900>>, <<HIGH, 500>>, <<MEDIUM, 300>>, <<e.sev, 0>>}
    BY DEF PhysicalFinding
  <2>2. QED
    BY <1>1, <2>1, Levels DEF Graded
<1>6. Graded(BehaviourFinding(e))
  <2>1. PICK a \in 0..1000 : a = Anomaly(u, e)
    BY AnomalyBounds
  <2>2. BehaviourFinding(e) = <<IF a > 700 THEN HIGH ELSE MEDIUM, a>>
    BY <2>1 DEF BehaviourFinding
  <2>3. QED
    BY <2>2, Levels DEF Graded
<1>7. Graded(InsiderFinding(e))
  <2>1. InsiderFinding(e) \in {<<HIGH, 600>>, <<HIGH, 700>>, <<e.sev, 0>>}
    BY DEF InsiderFinding
  <2>2. QED
    BY <1>1, <2>1, Levels DEF Graded
<1>8. AgentFindingOn(e)
        \in {AccessFinding(e), IdentityFinding(e), NetworkFinding(e), PhysicalFinding(e),
             BehaviourFinding(e), InsiderFinding(e)}
  BY DEF AgentFindingOn, AgentHandles
<1>9. QED
  BY <1>2, <1>3, <1>4, <1>5, <1>6, <1>7, <1>8

LEMMA ReportsArePublishable ==
  ASSUME NEW e, WellFormed(e) PROVE Publishable(AgentPublishes(e))
<1>1. CASE e.bus # "threat" \/ e.type \notin AgentHandles
  BY <1>1, NoneIsPublishable DEF AgentPublishes
<1>2. CASE e.bus = "threat" /\ e.type \in AgentHandles
  <2> DEFINE v == AgentFindingOn(e)[1]
             c == AgentFindingOn(e)[2]
             f == Finding("ZeroTrustAgent", e.type, v, c)
             a == [f EXCEPT !.ip = IF e.ip = None THEN Unknown ELSE e.ip]
             b == [f EXCEPT !.user = Subject(e)]
  <2>1. AgentPublishes(e) = {IF e.type = "network_intrusion" THEN a ELSE b}
    BY <1>2 DEF AgentPublishes
  <2>2. v \in LOW..CRITICAL /\ c \in Nat
    BY <1>2, FindingsAreGraded DEF Graded
  <2> HIDE DEF v, c
  <2>3. /\ DOMAIN f = DOMAIN Blank
        /\ f.bus = "finding" /\ f.type = e.type /\ f.sev = v /\ f.conf = c
        /\ f.score = 0 /\ f.biometric = 0
    BY FindingFields
  <2> HIDE DEF f
  <2>4. ASSUME e.type = "network_intrusion" PROVE WellFormed(a)
    <3>1. /\ a.bus = "finding" /\ a.type = e.type /\ a.sev = v /\ a.conf = c
          /\ a.score = 0 /\ a.biometric = 0
      BY <2>3
    <3> HIDE DEF a
    <3>2. QED
      BY <2>2, <2>4, <3>1 DEF WellFormed
  <2>5. WellFormed(b)
    <3>1. /\ b.bus = "finding" /\ b.type = e.type /\ b.sev = v /\ b.conf = c
          /\ b.score = 0 /\ b.biometric = 0
      BY <2>3
    <3>2. b.user = Subject(e)
      BY <2>3, BlankFields
    <3> HIDE DEF b
    <3>3. QED
      BY <2>2, <3>1, <3>2 DEF WellFormed
  <2>6. QED
    BY <2>1, <2>4, <2>5, OneIsPublishable
<1>3. QED
  BY <1>1, <1>2

-----------------------------------------------------------------------------
(* The meta-risk arbiter: sums and cuts *)

LEMMA LeastOf ==
  ASSUME NEW S, S \subseteq Nat, S # {}
  PROVE  \E m \in S : \A x \in S : m <= x
<1>1. \E m \in S : \A x \in S : ~(<<x, m>> \in OpToRel(<, Nat))
  BY NatLessThanWellFounded, WFMin
<1>2. \A x, m \in Nat : x < m => <<x, m>> \in OpToRel(<, Nat)
  BY DEF OpToRel
<1>3. \E m \in S : \A x \in S : ~(x < m)
  BY <1>1, <1>2
<1>4. QED
  BY <1>3

\* f sums up the first m numbers.
Sums(ns, m, f) == f = [i \in 0..m |-> IF i = 0 THEN 0 ELSE f[i - 1] + ns[i]]

LEMMA SumsExist ==
  ASSUME NEW ns \in Seq(Nat), NEW m \in 0..Len(ns)
  PROVE  \E f : Sums(ns, m, f)
<1> DEFINE Bad == {k \in 0..Len(ns) : ~ \E f : Sums(ns, k, f)}
<1>1. ASSUME Bad # {} PROVE FALSE
  <2>1. Bad \subseteq Nat
    OBVIOUS
  <2>2. PICK k \in Bad : \A x \in Bad : k <= x
    BY <1>1, <2>1, LeastOf
  <2>3. k \in 0..Len(ns) /\ ~ \E f : Sums(ns, k, f)
    OBVIOUS
  <2>4. CASE k = 0
    <3> DEFINE f == [i \in 0..0 |-> 0]
    <3>1. Sums(ns, 0, f)
      BY DEF Sums
    <3>2. QED
      BY <2>3, <2>4, <3>1
  <2>5. CASE k # 0
    <3>0. k \in Int /\ Len(ns) \in Int /\ 0 <= k /\ k <= Len(ns)
      BY <2>3
    <3>1. k - 1 \in 0..Len(ns) /\ k - 1 \notin Bad
      <4> HIDE DEF Bad
      <4>1. QED
        BY <2>2, <2>5, <3>0
    <3>2. PICK f : Sums(ns, k - 1, f)
      BY <3>1
    <3> DEFINE g == [i \in 0..k |-> IF i = k THEN f[k - 1] + ns[k] ELSE f[i]]
    <3>3. \A i \in 0..(k - 1) : f[i] = IF i = 0 THEN 0 ELSE f[i - 1] + ns[i]
      BY <3>2 DEF Sums
    <3>4. /\ DOMAIN g = 0..k
          /\ \A i \in 0..k : g[i] = IF i = 0 THEN 0 ELSE g[i - 1] + ns[i]
      BY <2>3, <2>5, <3>3
    <3>5. g = [i \in 0..k |-> g[i]]
      OBVIOUS
    <3> HIDE DEF g
    <3>6. Sums(ns, k, g)
      BY <3>4, <3>5 DEF Sums
    <3>7. QED
      BY <2>3, <3>6
  <2>6. QED
    BY <2>4, <2>5
<1>2. QED
  BY <1>1

LEMMA TotalIsNat == ASSUME NEW ns \in Seq(Nat) PROVE Total(ns) \in Nat
<1> DEFINE n == Len(ns)
           f == CHOOSE g : Sums(ns, n, g)
           Bad == {i \in 0..n : f[i] \notin Nat}
<1>1. n \in Nat /\ n \in 0..n
  OBVIOUS
<1>2. Total(ns) = f[n]
  BY DEF Total, Sums
<1>3. Sums(ns, n, f)
  BY <1>1, SumsExist
<1> HIDE DEF f
<1>4. \A i \in 0..n : f[i] = IF i = 0 THEN 0 ELSE f[i - 1] + ns[i]
  BY <1>3 DEF Sums
<1>5. ASSUME Bad # {} PROVE FALSE
  <2>1. Bad \subseteq Nat
    BY <1>1
  <2>2. PICK k \in Bad : \A x \in Bad : k <= x
    BY <1>5, <2>1, LeastOf
  <2>3. k # 0
    BY <1>1, <1>4
  <2>4. f[k - 1] \in Nat
    BY <1>1, <2>1, <2>2, <2>3
  <2>5. ns[k] \in Nat
    BY <1>1, <2>3
  <2>6. QED
    BY <1>4, <2>3, <2>4, <2>5
<1>6. QED
  BY <1>1, <1>2, <1>5

Part(s, k) == (s * k) \div 1000

LEMMA PartOf ==
  ASSUME NEW s \in Nat, NEW k \in Int, 0 <= k, k <= 1000
  PROVE  Part(s, k) \in Nat /\ Part(s, k) <= s
<1> DEFINE p == s * k
<1>1. p \in Int /\ 0 <= p /\ p <= 1000 * s
  OBVIOUS
<1> HIDE DEF p
<1>2. p \div 1000 \in Nat /\ p \div 1000 <= s
  BY ONLY <1>1, s \in Nat
<1>3. Part(s, k) = p \div 1000
  BY Zenon DEF p, Part
<1>4. QED
  BY <1>2, <1>3

\* Too little corroboration cuts a score.
LEMMA CorroboratedCuts ==
  ASSUME NEW s \in Nat, NEW A, IsFiniteSet(A)
  PROVE  Corroborated(s, A) \in Nat /\ Corroborated(s, A) <= s
<1> DEFINE c == Cardinality(A)
           k == AtLeast(200, Less(1000, 250 * (MinSignals - c)))
<1>1. c \in Nat /\ MinSignals \in Nat
  BY FS_CardinalityType, MetaRiskAssumption
<1>2. Corroborated(s, A) = IF c >= MinSignals THEN s ELSE Part(s, k)
  BY Zenon DEF Corroborated, c, k, Part
<1> HIDE DEF c
<1>3. CASE c >= MinSignals
  BY <1>2, <1>3
<1>4. CASE c < MinSignals
  <2>1. k \in Int /\ 0 <= k /\ k <= 1000
    BY ONLY <1>1, <1>4 DEF AtLeast, Less
  <2>2. Corroborated(s, A) = Part(s, k)
    BY <1>1, <1>2, <1>4
  <2> HIDE DEF k
  <2>3. Part(s, k) \in Nat /\ Part(s, k) <= s
    BY ONLY <2>1, s \in Nat, PartOf
  <2>4. QED
    BY <2>2, <2>3
<1>5. QED
  BY <1>1, <1>3, <1>4

\* The skeptic cuts a score.
LEMMA SkepticalCuts ==
  ASSUME NEW s \in Nat, NEW m \in Nat
  PROVE  Skeptical(s, m) \in Nat /\ Skeptical(s, m) <= s
<1> DEFINE k == 1000 - ((500 - m) * 3) \div 10
           low == m < 500
<1>1. (k \in Int /\ 0 <= k /\ k <= 1000) \/ ~low
  BY ONLY m \in Nat
<1>2. Skeptical(s, m) = IF low THEN Part(s, k) ELSE s
  BY Zenon DEF Skeptical, Part, k
<1> HIDE DEF k, low
<1>3. CASE low
  <2>1. k \in Int /\ 0 <= k /\ k <= 1000
    BY <1>1, <1>3
  <2>2. Skeptical(s, m) = Part(s, k)
    BY ONLY <1>2, <1>3
  <2>3. Part(s, k) \in Nat /\ Part(s, k) <= s
    BY ONLY <2>1, s \in Nat, PartOf
  <2>4. QED
    BY <2>2, <2>3
<1>4. CASE ~low
  BY ONLY <1>2, <1>4, s \in Nat
<1>5. QED
  BY <1>3, <1>4

LEMMA LastNKeeps ==
  ASSUME NEW S, NEW s \in Seq(S), NEW n \in Nat \ {0}
  PROVE  LastN(s, n) \in Seq(S)
<1> DEFINE a == AtLeast(1, Len(s) - n + 1)
<1>1. a \in Int /\ 1 <= a /\ Len(s) \in Int
  BY DEF AtLeast
<1>2. LastN(s, n) = SubSeq(s, a, Len(s))
  BY DEF LastN
<1> HIDE DEF a
<1>3. \A i \in a..Len(s) : s[i] \in S
  BY <1>1, ElementOfSeq
<1>4. QED
  BY <1>1, <1>2, <1>3, SubSeqProperties

Signal ==
  [dim : Dimensions \cup {"unknown", None}, conf : Nat \cup {NoConfidence},
   recent : BOOLEAN]

LEMMA MeanIsNat == ASSUME NEW sg \in Seq(Signal) PROVE MeanConfidence(sg) \in Nat
<1> DEFINE last == LastN(sg, 10)
           n == Len(last)
           sure == {i \in DOMAIN last : last[i].conf # NoConfidence}
           said == [i \in DOMAIN last |-> IF i \in sure THEN last[i].conf ELSE 0]
<1>1. MeanConfidence(sg) = IF sure = {} THEN 500 ELSE Total(said) \div Cardinality(sure)
  BY Zenon DEF MeanConfidence, last, sure, said
<1>2. last \in Seq(Signal)
  BY LastNKeeps
<1> HIDE DEF last
<1>3. n \in Nat /\ DOMAIN last = 1..n /\ \A i \in 1..n : last[i] \in Signal
  BY <1>2, ElementOfSeq
<1> HIDE DEF n
<1>4. said \in Seq(Nat)
  <2>1. \A i \in 1..n : i \in sure => last[i].conf \in Nat
    BY <1>3 DEF Signal
  <2> HIDE DEF sure
  <2>2. said \in [1..n -> Nat]
    BY <1>3, <2>1
  <2> HIDE DEF said
  <2>3. QED
    BY <1>3, <2>2
<1>5. IsFiniteSet(sure)
  <2>1. IsFiniteSet(1..n)
    BY <1>3, FS_Interval
  <2>2. sure \subseteq 1..n
    BY <1>3
  <2>3. QED
    BY <2>1, <2>2, FS_Subset
<1> HIDE DEF said, sure
<1>6. Total(said) \in Nat
  BY <1>4, TotalIsNat
<1>7. sure # {} => Cardinality(sure) \in Nat \ {0}
  BY <1>5, FS_CardinalityType, FS_EmptySet
<1> DEFINE t == Total(said)
           c == Cardinality(sure)
<1>8. t \in Nat /\ (sure # {} => c \in Nat \ {0})
  BY <1>6, <1>7
<1> HIDE DEF t, c
<1>9. sure # {} => t \div c \in Nat
  BY <1>8
<1>10. QED
  BY <1>1, <1>9 DEF t, c

Scores == [Dimensions -> 0..1000]

ArbiterTypeOK ==
  /\ dims \in [Entities -> Scores]
  /\ composite \in [Entities -> Nat]
  /\ signals \in [Entities -> Seq(Signal)]
  /\ alerted \in [Entities -> Scores \cup {<<>>}]

\* A composite score never exceeds what its dimensions add up to.
CompositeIsBacked == \A n \in Entities : composite[n] <= Weighted(dims[n])

ArbiterInv == ArbiterTypeOK /\ CompositeIsBacked /\ AlertsAreCorroborated

LEMMA WeightedIsNat == \A ds \in Scores : Weighted(ds) \in Nat
<1> SUFFICES ASSUME NEW ds \in Scores PROVE Weighted(ds) \in Nat
  OBVIOUS
<1>1. \A d \in Dimensions : ds[d] \in Nat
  BY DEF Scores
<1> DEFINE s == 20 * (ds["behavioral"] + ds["threat_intel"])
                  + 15 * (ds["physical"] + ds["insider"] + ds["device"] + ds["network"])
<1>2. s \in Nat
  BY <1>1 DEF Dimensions
<1>3. Weighted(ds) = s \div 100
  BY Zenon DEF Weighted, s
<1> HIDE DEF s
<1>4. s \div 100 \in Nat
  BY <1>2
<1>5. QED
  BY <1>3, <1>4

LEMMA DimensionsAreFew == IsFiniteSet(Dimensions)
<1> DEFINE A == {"behavioral", "threat_intel", "physical"}
           B == {"insider", "device", "network"}
<1>1. IsFiniteSet(A) /\ IsFiniteSet(B)
  BY FewAreFinite
<1>2. Dimensions = A \cup B
  BY DEF Dimensions
<1> HIDE DEF A, B
<1>3. QED
  BY <1>1, <1>2, FS_Union

\* Two dimensions at their maximum weigh 400 at most: who reaches the lowest
\* threshold has three that are not zero.
LEMMA ThreeSpeak ==
  ASSUME NEW ds \in Scores, Weighted(ds) >= 450
  PROVE  Cardinality({d \in Dimensions : ds[d] > 0}) >= 3
<1> DEFINE Z == {d \in Dimensions : ds[d] > 0}
           b == ds["behavioral"]
           t == ds["threat_intel"]
           p == ds["physical"]
           i == ds["insider"]
           v == ds["device"]
           w == ds["network"]
           s == 20 * (b + t) + 15 * (p + i + v + w)
<1>1. /\ b \in Int /\ 0 <= b /\ b <= 1000 /\ t \in Int /\ 0 <= t /\ t <= 1000
      /\ p \in Int /\ 0 <= p /\ p <= 1000 /\ i \in Int /\ 0 <= i /\ i <= 1000
      /\ v \in Int /\ 0 <= v /\ v <= 1000 /\ w \in Int /\ 0 <= w /\ w <= 1000
  <2>1. \A d \in Dimensions : ds[d] \in Int /\ 0 <= ds[d] /\ ds[d] <= 1000
    BY DEF Scores
  <2>2. QED
    BY <2>1 DEF Dimensions
<1>2. Weighted(ds) = s \div 100
  BY Zenon DEF Weighted, s, b, t, p, i, v, w
<1>3. /\ "behavioral" \in Z <=> b > 0
      /\ "threat_intel" \in Z <=> t > 0
      /\ "physical" \in Z <=> p > 0
      /\ "insider" \in Z <=> i > 0
      /\ "device" \in Z <=> v > 0
      /\ "network" \in Z <=> w > 0
  BY DEF Dimensions
<1>4. IsFiniteSet(Z)
  BY DimensionsAreFew, FS_Subset
<1>5. \/ b > 0 /\ t > 0 /\ (p > 0 \/ i > 0 \/ v > 0 \/ w > 0)
      \/ (b > 0 \/ t > 0) /\ p > 0 /\ (i > 0 \/ v > 0 \/ w > 0)
      \/ (b > 0 \/ t > 0) /\ i > 0 /\ (v > 0 \/ w > 0)
      \/ (b > 0 \/ t > 0) /\ v > 0 /\ w > 0
      \/ p > 0 /\ i > 0 /\ (v > 0 \/ w > 0)
      \/ v > 0 /\ w > 0 /\ (p > 0 \/ i > 0)
  <2> HIDE DEF Z, b, t, p, i, v, w
  <2>1. s \in Int /\ s >= 45000
    <3>1. s \in Int /\ s \div 100 >= 450
      BY <1>1, <1>2
    <3> HIDE DEF s
    <3>2. QED
      BY ONLY <3>1
  <2>2. QED
    BY ONLY <1>1, <2>1
<1>6. \E x, y, z \in Z : x # y /\ x # z /\ y # z
  <2> HIDE DEF Z, b, t, p, i, v, w
  <2>1. QED
    BY <1>3, <1>5
<1>7. PICK x, y, z \in Z : x # y /\ x # z /\ y # z
  BY <1>6
<1> DEFINE T == {x, y, z}
<1>8. Cardinality(T) = 3
  <2>1. IsFiniteSet({x}) /\ Cardinality({x}) = 1
    BY FS_Singleton
  <2> DEFINE A == {x} \cup {y}
  <2>2. IsFiniteSet(A) /\ Cardinality(A) = 2
    <3> DEFINE S == {x}
    <3>1. y \notin S /\ IsFiniteSet(S) /\ Cardinality(S) = 1
      BY <1>7, <2>1
    <3> HIDE DEF S
    <3>2. IsFiniteSet(S \cup {y}) /\ Cardinality(S \cup {y}) = 2
      BY ONLY <3>1, FS_AddElement
    <3>3. QED
      BY <3>2 DEF S
  <2>3. z \notin A /\ T = A \cup {z}
    BY <1>7
  <2> HIDE DEF A, T
  <2>4. QED
    BY <2>2, <2>3, FS_AddElement
<1>9. T \subseteq Z
  OBVIOUS
<1> HIDE DEF T, Z
<1>10. Cardinality(T) <= Cardinality(Z) /\ Cardinality(Z) \in Nat
  BY <1>4, <1>9, FS_Subset, FS_CardinalityType
<1>11. QED
  BY <1>8, <1>10 DEF Z

LEMMA RiskLevelBounds ==
  \A s \in Nat : RiskLevel(s) \in LOW..CRITICAL /\ (RiskLevel(s) # LOW => s >= 450)
BY DEF RiskLevel, LOW, MEDIUM, HIGH, CRITICAL

LEMMA ThreatDimensionShape ==
  ASSUME NEW e, WellFormed(e)
  PROVE  /\ ThreatDimension(e)[1] \in Dimensions \cup {"unknown"}
         /\ ThreatDimension(e)[2] \in Nat
         /\ ThreatDimension(e)[2] > 0 => ThreatDimension(e)[1] \in Dimensions
<1>1. e.score \in Nat /\ e.sev \in Nat
  BY DEF WellFormed, LOW, CRITICAL
<1>2. ThreatDimension(e) \in
        {<<"behavioral", e.score>>, <<"threat_intel", e.score>>, <<"physical", 500>>,
         <<"insider", 300>>, <<"insider", e.score>>, <<"network", 250 * e.sev>>,
         <<"behavioral", 400>>, <<"device", 600>>, <<"unknown", 0>>}
  BY DEF ThreatDimension
<1>3. QED
  BY <1>1, <1>2 DEF Dimensions

LEMMA DimsAfterShape ==
  ASSUME ArbiterTypeOK, NEW n \in Entities, NEW e, WellFormed(e)
  PROVE  /\ DimsAfter(n, e) \in Scores
         /\ ~Rescored(n, e) => DimsAfter(n, e) = dims[n]
<1> DEFINE set(d, x) == [dims[n] EXCEPT ![d] = AtMost(1000, x)]
           th == ThreatDimension(e)
           fi == FindingDimension(e.agent)
<1>1. dims[n] \in Scores
  BY DEF ArbiterTypeOK
<1>3. \A d \in Dimensions : \A x \in Nat : set(d, x) \in Scores
  <2> HIDE DEF th, fi
  <2>1. ASSUME NEW d \in Dimensions, NEW x \in Nat PROVE set(d, x) \in Scores
    <3> DEFINE y == AtMost(1000, x)
    <3>1. y \in 0..1000
      BY ONLY x \in Nat DEF AtMost
    <3> HIDE DEF y
    <3>2. [dims[n] EXCEPT ![d] = y] \in Scores
      <4> DEFINE R == 0..1000
                 f == dims[n]
      <4>1. f \in [Dimensions -> R]
        BY ONLY <1>1, Zenon DEF Scores
      <4>2. y \in R
        BY ONLY <3>1, Zenon
      <4> HIDE DEF R, f
      <4>3. [f EXCEPT ![d] = y] \in [Dimensions -> R]
        BY ONLY <4>1, <4>2
      <4>4. QED
        BY ONLY <4>3, Zenon DEF R, f, Scores
    <3>3. QED
      BY <3>2 DEF y
  <2>2. QED
    BY <2>1
<1>4. e.bus \in {"threat", "request", "finding"} /\ e.score \in Nat
  BY DEF WellFormed
<1>5. CASE e.bus = "threat"
  <2>1. DimsAfter(n, e) = IF th[2] > 0 THEN set(th[1], th[2]) ELSE dims[n]
    BY <1>5 DEF DimsAfter
  <2>2. Rescored(n, e) = (th[2] > 0)
    BY <1>5 DEF Rescored
  <2> HIDE DEF set, th
  <2>3. QED
    BY <1>1, <1>3, <2>1, <2>2, ThreatDimensionShape DEF th
<1>6. CASE e.bus = "request"
  <2>1. DimsAfter(n, e) =
          IF e.score > 300 THEN set("behavioral", (3 * e.score) \div 10) ELSE dims[n]
    BY <1>6 DEF DimsAfter
  <2>2. Rescored(n, e) = (e.score > 300)
    BY <1>6 DEF Rescored
  <2>3. (3 * e.score) \div 10 \in Nat /\ "behavioral" \in Dimensions
    BY <1>4 DEF Dimensions
  <2> HIDE DEF set
  <2>4. QED
    BY <1>1, <1>3, <2>1, <2>2, <2>3
<1>7. CASE e.bus = "finding"
  <2> DEFINE high == e.sev = CRITICAL /\ e.conf > 800
             x == dims[n][fi[1]] + fi[2]
  <2>1. DimsAfter(n, e) = IF high THEN set(fi[1], x) ELSE dims[n]
    BY <1>7 DEF DimsAfter
  <2>2. Rescored(n, e) = high
    BY <1>7 DEF Rescored
  <2>3. fi[1] \in Dimensions /\ fi[2] \in Nat
    BY DEF FindingDimension, Dimensions
  <2>4. x \in Nat
    <3>1. \A d \in Dimensions : dims[n][d] \in Nat
      <4> DEFINE R == 0..1000
      <4>1. Scores = [Dimensions -> R]
        BY Zenon DEF Scores
      <4>2. R \subseteq Nat
        BY ONLY TRUE
      <4> HIDE DEF R
      <4>3. QED
        BY ONLY <1>1, <4>1, <4>2
    <3> HIDE DEF fi
    <3>2. dims[n][fi[1]] \in Nat
      BY <2>3, <3>1
    <3>3. QED
      BY <2>3, <3>2
  <2> HIDE DEF set, fi, x, high
  <2>5. QED
    BY <1>1, <1>3, <2>1, <2>2, <2>3, <2>4
<1>8. QED
  BY <1>4, <1>5, <1>6, <1>7

LEMMA SignalShape == \A e : WellFormed(e) => SignalOf(e) \in Signal
<1> SUFFICES ASSUME NEW e, WellFormed(e) PROVE SignalOf(e) \in Signal
  OBVIOUS
<1> DEFINE d == IF e.bus = "threat" THEN ThreatDimension(e)[1] ELSE None
           c == IF e.bus = "finding" THEN e.conf ELSE NoConfidence
<1>1. d \in Dimensions \cup {"unknown", None}
  BY ThreatDimensionShape
<1>2. c \in Nat \cup {NoConfidence}
  BY DEF WellFormed
<1>3. SignalOf(e) = [dim |-> d, conf |-> c, recent |-> TRUE]
  BY Zenon DEF SignalOf, d, c
<1> HIDE DEF d, c
<1>4. QED
  BY <1>1, <1>2, <1>3 DEF Signal

LEMMA ActiveIsFinite ==
  ASSUME NEW ds, NEW sg \in Seq(Signal)
  PROVE  IsFiniteSet(Active(ds, sg))
<1> DEFINE D == {d \in Dimensions : ds[d] > 150}
           K == {k \in DOMAIN sg : sg[k].recent /\ sg[k].dim # None}
           f == [i \in K |-> sg[i].dim]
           G == {f[i] : i \in K}
<1>1. Active(ds, sg) = D \cup G
  BY DEF Active
<1>2. IsFiniteSet(D)
  BY DimensionsAreFew, FS_Subset
<1>3. IsFiniteSet(K)
  <2>1. DOMAIN sg = 1..Len(sg) /\ Len(sg) \in Nat
    OBVIOUS
  <2>2. IsFiniteSet(DOMAIN sg)
    BY <2>1, FS_Interval
  <2>3. QED
    BY <2>2, FS_Subset
<1>4. IsFiniteSet(G)
  <2>1. DOMAIN f = K /\ f = [i \in K |-> f[i]]
    OBVIOUS
  <2> HIDE DEF f, K
  <2>2. QED
    BY <1>3, <2>1, ImageIsFinite
<1> HIDE DEF D, G
<1>5. QED
  BY <1>1, <1>2, <1>4, FS_Union

\* The signals of an entity after an item.
After(n, e) == LastN(Append(signals[n], SignalOf(e)), MaxSignals)

LEMMA SignalsAfterItem ==
  ASSUME ArbiterTypeOK, NEW n \in Entities, NEW e, WellFormed(e)
  PROVE  After(n, e) \in Seq(Signal)
<1>1. signals[n] \in Seq(Signal) /\ SignalOf(e) \in Signal
  BY SignalShape DEF ArbiterTypeOK
<1>2. Append(signals[n], SignalOf(e)) \in Seq(Signal)
  BY <1>1
<1>3. QED
  BY <1>2, LastNKeeps, MetaRiskAssumption DEF After

\* Corroboration and the skeptic only ever cut: the new score stays within what
\* the new dimensions add up to.
LEMMA ScoreAfterIsBacked ==
  ASSUME ArbiterInv, NEW n \in Entities, NEW e, WellFormed(e)
  PROVE  ScoreAfter(n, e) \in Nat /\ ScoreAfter(n, e) <= Weighted(DimsAfter(n, e))
<1> DEFINE ds == DimsAfter(n, e)
           raw == IF Rescored(n, e) THEN Weighted(ds) ELSE composite[n]
           cut == Corroborated(raw, Active(ds, After(n, e)))
           mean == MeanConfidence(After(n, e))
<1>1. ScoreAfter(n, e) = Skeptical(cut, mean)
  BY Zenon DEF ScoreAfter, After, ds, raw, cut, mean
<1>2. ds \in Scores /\ (~Rescored(n, e) => ds = dims[n])
  BY DimsAfterShape DEF ArbiterInv
<1>3. Weighted(ds) \in Nat
  BY <1>2, WeightedIsNat
<1>4. raw \in Nat /\ raw <= Weighted(ds)
  <2>1. composite[n] \in Nat /\ composite[n] <= Weighted(dims[n])
    BY DEF ArbiterInv, ArbiterTypeOK, CompositeIsBacked
  <2> HIDE DEF ds
  <2>2. QED
    BY <1>2, <1>3, <2>1
<1>5. After(n, e) \in Seq(Signal)
  BY SignalsAfterItem DEF ArbiterInv
<1>6. cut \in Nat /\ cut <= raw
  <2> HIDE DEF ds, raw
  <2>1. IsFiniteSet(Active(ds, After(n, e)))
    BY <1>5, ActiveIsFinite
  <2>2. QED
    BY <1>4, <2>1, CorroboratedCuts
<1>7. mean \in Nat
  BY <1>5, MeanIsNat
<1> HIDE DEF ds, raw, cut, mean
<1>8. Skeptical(cut, mean) \in Nat /\ Skeptical(cut, mean) <= cut
  BY <1>6, <1>7, SkepticalCuts
<1>9. ScoreAfter(n, e) \in Nat /\ ScoreAfter(n, e) <= Weighted(ds)
  BY <1>1, <1>3, <1>4, <1>6, <1>8
<1>10. QED
  BY <1>9 DEF ds

LEMMA ArbiterInvInit == Init => ArbiterInv
<1> SUFFICES ASSUME Init PROVE ArbiterInv
  OBVIOUS
<1> DEFINE zero == [d \in Dimensions |-> 0]
<1>1. zero \in Scores
  BY DEF Scores
<1>2. Weighted(zero) \in Nat
  BY <1>1, WeightedIsNat
<1> HIDE DEF zero
<1>3. /\ dims = [n \in Entities |-> zero]
      /\ composite = [n \in Entities |-> 0]
      /\ signals = [n \in Entities |-> <<>>]
      /\ alerted = [n \in Entities |-> <<>>]
  BY DEF Init, ArbiterInit, zero
<1>4. <<>> \in Seq(Signal)
  OBVIOUS
<1>5. ArbiterTypeOK
  BY <1>1, <1>3, <1>4 DEF ArbiterTypeOK
<1>6. CompositeIsBacked
  BY <1>2, <1>3 DEF CompositeIsBacked
<1>7. AlertsAreCorroborated
  BY <1>3 DEF AlertsAreCorroborated
<1>8. QED
  BY <1>5, <1>6, <1>7 DEF ArbiterInv

\* An item that the arbiter handles.
LEMMA ArbiterHandles ==
  ASSUME ArbiterInv, NEW e, WellFormed(e), ArbiterOn(e)
  PROVE  ArbiterInv'
<1> DEFINE n == ArbiterEntity(e)
<1>1. CASE n \notin Entities
  <2>1. UNCHANGED <<dims, composite, signals, alerted>>
    BY <1>1 DEF ArbiterOn
  <2>2. QED
    BY <2>1 DEF ArbiterInv, ArbiterTypeOK, CompositeIsBacked, AlertsAreCorroborated
<1>2. CASE n \in Entities
  <2>1. /\ dims' = [dims EXCEPT ![n] = DimsAfter(n, e)]
        /\ signals' = [signals EXCEPT ![n] = After(n, e)]
        /\ composite' = [composite EXCEPT ![n] = ScoreAfter(n, e)]
        /\ alerted' = IF Alerts(n, e) THEN [alerted EXCEPT ![n] = DimsAfter(n, e)]
                      ELSE alerted
    BY <1>2 DEF ArbiterOn, After
  <2> HIDE DEF n
  <2>2. DimsAfter(n, e) \in Scores
    BY <1>2, DimsAfterShape DEF ArbiterInv
  <2>3. After(n, e) \in Seq(Signal)
    BY <1>2, SignalsAfterItem DEF ArbiterInv
  <2>4. ScoreAfter(n, e) \in Nat /\ ScoreAfter(n, e) <= Weighted(DimsAfter(n, e))
    BY <1>2, ScoreAfterIsBacked
  <2>5. ArbiterTypeOK'
    BY <1>2, <2>1, <2>2, <2>3, <2>4 DEF ArbiterInv, ArbiterTypeOK
  <2>6. CompositeIsBacked'
    <3> SUFFICES ASSUME NEW m \in Entities PROVE composite'[m] <= Weighted(dims'[m])
      BY DEF CompositeIsBacked, Weighted
    <3>1. CASE m = n
      BY <1>2, <2>1, <2>4, <3>1 DEF ArbiterInv, ArbiterTypeOK
    <3>2. CASE m # n
      BY <1>2, <2>1, <3>2 DEF ArbiterInv, ArbiterTypeOK, CompositeIsBacked
    <3>3. QED
      BY <3>1, <3>2
  <2>7. AlertsAreCorroborated'
    <3> SUFFICES ASSUME NEW m \in Entities, alerted'[m] # <<>>
                 PROVE  Cardinality({d \in Dimensions : alerted'[m][d] > 0}) >= 3
      BY DEF AlertsAreCorroborated
    <3>1. CASE m = n /\ Alerts(n, e)
      <4>1. alerted'[m] = DimsAfter(n, e)
        BY <1>2, <2>1, <3>1 DEF ArbiterInv, ArbiterTypeOK
      <4>2. ScoreAfter(n, e) >= 450
        BY <2>4, <3>1, RiskLevelBounds DEF Alerts
      <4>3. Weighted(DimsAfter(n, e)) >= 450
        BY <2>2, <2>4, <4>2, WeightedIsNat
      <4>4. QED
        BY <2>2, <4>1, <4>3, ThreeSpeak
    <3>2. CASE ~(m = n /\ Alerts(n, e))
      <4>1. alerted'[m] = alerted[m]
        BY <1>2, <2>1, <3>2 DEF ArbiterInv, ArbiterTypeOK
      <4>2. QED
        BY <4>1 DEF ArbiterInv, AlertsAreCorroborated
    <3>3. QED
      BY <3>1, <3>2
  <2>8. QED
    BY <2>5, <2>6, <2>7 DEF ArbiterInv
<1>3. QED
  BY <1>1, <1>2

\* A decayed score is a score.
LEMMA DecayedScores ==
  ASSUME NEW ds \in Scores
  PROVE  [d \in Dimensions |-> (99 * ds[d]) \div 100] \in Scores
<1>1. \A x \in 0..1000 : (99 * x) \div 100 \in 0..1000
  OBVIOUS
<1>2. QED
  BY <1>1 DEF Scores

LEMMA ArbiterDecays == ASSUME ArbiterInv, ArbiterHour PROVE ArbiterInv'
<1>1. /\ dims' = [n \in Entities |-> [d \in Dimensions |-> (99 * dims[n][d]) \div 100]]
      /\ composite' = [n \in Entities |-> Weighted(dims'[n])]
      /\ signals' = [n \in Entities |->
           [i \in DOMAIN signals[n] |-> [signals[n][i] EXCEPT !.recent = FALSE]]]
      /\ alerted' = alerted
  BY DEF ArbiterHour
<1>2. dims' \in [Entities -> Scores]
  <2>1. \A n \in Entities : dims[n] \in Scores
    BY DEF ArbiterInv, ArbiterTypeOK
  <2>2. \A n \in Entities : [d \in Dimensions |-> (99 * dims[n][d]) \div 100] \in Scores
    BY <2>1, DecayedScores
  <2>3. QED
    BY <1>1, <2>2
<1>3. \A n \in Entities : Weighted(dims'[n]) \in Nat
  BY <1>2, WeightedIsNat
<1>4. signals' \in [Entities -> Seq(Signal)]
  <2> SUFFICES ASSUME NEW n \in Entities
               PROVE  [i \in DOMAIN signals[n] |-> [signals[n][i] EXCEPT !.recent = FALSE]]
                        \in Seq(Signal)
    BY <1>1
  <2>1. signals[n] \in Seq(Signal)
    BY DEF ArbiterInv, ArbiterTypeOK
  <2>2. DOMAIN signals[n] = 1..Len(signals[n]) /\ Len(signals[n]) \in Nat
    BY <2>1
  <2>3. \A i \in DOMAIN signals[n] : signals[n][i] \in Signal
    BY <2>1, <2>2, ElementOfSeq
  <2>4. \A x \in Signal : [x EXCEPT !.recent = FALSE] \in Signal
    BY DEF Signal
  <2>5. [i \in DOMAIN signals[n] |-> [signals[n][i] EXCEPT !.recent = FALSE]]
          \in [1..Len(signals[n]) -> Signal]
    BY <2>2, <2>3, <2>4
  <2>6. QED
    BY <2>2, <2>5
<1>5. ArbiterTypeOK'
  BY <1>1, <1>2, <1>3, <1>4 DEF ArbiterInv, ArbiterTypeOK
<1>6. CompositeIsBacked'
  <2>1. \A n \in Entities : composite'[n] <= Weighted(dims'[n])
    BY <1>1, <1>3
  <2>2. QED
    BY <2>1 DEF CompositeIsBacked, Weighted
<1>7. AlertsAreCorroborated'
  BY <1>1 DEF ArbiterInv, AlertsAreCorroborated
<1>8. QED
  BY <1>5, <1>6, <1>7 DEF ArbiterInv

-----------------------------------------------------------------------------
(* What the other engines publish *)

\* The arbiter's alert.
LEMMA RiskAlertWellFormed ==
  ASSUME ArbiterInv, NEW n \in Entities, NEW e, WellFormed(e)
  PROVE  WellFormed(RiskAlert(n, e))
<1> DEFINE c == ScoreAfter(n, e)
           f == Finding("MetaRiskArbiter", "correlated_attack", RiskLevel(c), c)
           a == RiskAlert(n, e)
<1>1. c \in Nat
  BY ScoreAfterIsBacked
<1>2. a = [f EXCEPT !.entity = n]
  BY Zenon DEF RiskAlert, a, f, c
<1> HIDE DEF c
<1>3. RiskLevel(c) \in LOW..CRITICAL
  BY <1>1, RiskLevelBounds
<1>4. /\ DOMAIN f = DOMAIN Blank
      /\ f.bus = "finding" /\ f.type = "correlated_attack" /\ f.sev = RiskLevel(c)
      /\ f.conf = c /\ f.score = 0 /\ f.biometric = 0
  BY FindingFields
<1> HIDE DEF f
<1>5. /\ a.bus = "finding" /\ a.type = "correlated_attack" /\ a.sev = RiskLevel(c)
      /\ a.conf = c /\ a.score = 0 /\ a.biometric = 0
  BY <1>2, <1>4
<1> HIDE DEF a
<1>6. WellFormed(a)
  BY <1>1, <1>3, <1>5 DEF WellFormed
<1>7. QED
  BY <1>6 DEF a

LEMMA RiskAlertsArePublishable ==
  ASSUME ArbiterInv, NEW e, WellFormed(e) PROVE Publishable(ArbiterPublishes(e))
<1> DEFINE n == ArbiterEntity(e)
<1>1. CASE n \in Entities /\ Alerts(n, e)
  <2>1. ArbiterPublishes(e) = {RiskAlert(n, e)}
    BY <1>1, Zenon DEF ArbiterPublishes, n
  <2> HIDE DEF n
  <2>2. QED
    BY <1>1, <2>1, RiskAlertWellFormed, OneIsPublishable
<1>2. CASE ~(n \in Entities /\ Alerts(n, e))
  <2>1. ArbiterPublishes(e) = {}
    BY <1>2, Zenon DEF ArbiterPublishes, n
  <2>2. QED
    BY <2>1, NoneIsPublishable
<1>3. QED
  BY <1>1, <1>2

\* How many of a rule's indicators hold.
LEMMA CountIsNat == \A P : IsFiniteSet(DOMAIN P) => Count(P) \in Nat
<1> SUFFICES ASSUME NEW P, IsFiniteSet(DOMAIN P) PROVE Count(P) \in Nat
  OBVIOUS
<1> DEFINE S == {i \in DOMAIN P : P[i]}
<1>1. IsFiniteSet(S)
  BY FS_Subset
<1>2. Count(P) = Cardinality(S)
  BY DEF Count
<1> HIDE DEF S
<1>3. QED
  BY <1>1, <1>2, FS_CardinalityType

LEMMA IndicatorsAreNat ==
  \A n : InsiderIndicators(n) \in Nat /\ RansomwareIndicators(n) \in Nat
<1> SUFFICES ASSUME NEW n
             PROVE  InsiderIndicators(n) \in Nat /\ RansomwareIndicators(n) \in Nat
  OBVIOUS
<1>0. \A k \in Nat : IsFiniteSet(1..k)
  BY FS_Interval
<1>1. \A a, b, c, d, x : Count(<<a, b, c, d, x>>) \in Nat
  <2> SUFFICES ASSUME NEW a, NEW b, NEW c, NEW d, NEW x
               PROVE  Count(<<a, b, c, d, x>>) \in Nat
    OBVIOUS
  <2>1. DOMAIN <<a, b, c, d, x>> = 1..5
    OBVIOUS
  <2>2. IsFiniteSet(1..5)
    BY <1>0
  <2>3. QED
    BY <2>1, <2>2, CountIsNat
<1>2. \A a, b, c, d : Count(<<a, b, c, d>>) \in Nat
  <2> SUFFICES ASSUME NEW a, NEW b, NEW c, NEW d PROVE Count(<<a, b, c, d>>) \in Nat
    OBVIOUS
  <2>1. DOMAIN <<a, b, c, d>> = 1..4
    OBVIOUS
  <2>2. IsFiniteSet(1..4)
    BY <1>0
  <2>3. QED
    BY <2>1, <2>2, CountIsNat
<1>3. InsiderIndicators(n) \in Nat
  BY <1>1, Zenon DEF InsiderIndicators
<1>4. RansomwareIndicators(n) \in Nat
  BY <1>2, Zenon DEF RansomwareIndicators
<1>5. QED
  BY <1>3, <1>4

Rules == {"ghost_login", "insider", "tailgating", "ransomware"}

IsScore(x) == x \in Nat /\ x <= 950

LEMMA ScoresAreBounded ==
  \A n : DOMAIN Threshold = Rules /\ \A r \in Rules : IsScore(ScoresOf(n)[r])
<1> SUFFICES ASSUME NEW n
             PROVE  DOMAIN Threshold = Rules /\ \A r \in Rules : IsScore(ScoresOf(n)[r])
  OBVIOUS
<1> DEFINE g == IF GhostLogin(n) THEN 850 ELSE 0
           i == IF Len(history[n]) >= 3 /\ InsiderIndicators(n) >= 3
                THEN AtMost(950, 750 + 30 * InsiderIndicators(n)) ELSE 0
           w == IF ~Poisoned(n) /\ RansomwareIndicators(n) >= 3
                THEN AtMost(950, 800 + 20 * RansomwareIndicators(n)) ELSE 0
<1>1. IsScore(0) /\ IsScore(850)
  BY DEF IsScore
<1>2. IsScore(g)
  BY <1>1, Zenon
<1>3. IsScore(i)
  <2> DEFINE x == InsiderIndicators(n)
             y == AtMost(950, 750 + 30 * x)
             c == Len(history[n]) >= 3 /\ x >= 3
  <2>1. x \in Nat
    BY IndicatorsAreNat
  <2>2. i = IF c THEN y ELSE 0
    BY Zenon
  <2> HIDE DEF x, c, i
  <2>3. IsScore(y)
    BY ONLY <2>1 DEF AtMost, IsScore
  <2> HIDE DEF y
  <2>4. QED
    BY ONLY <1>1, <2>2, <2>3
<1>4. IsScore(w)
  <2> DEFINE x == RansomwareIndicators(n)
             y == AtMost(950, 800 + 20 * x)
             c == ~Poisoned(n) /\ x >= 3
  <2>1. x \in Nat
    BY IndicatorsAreNat
  <2>2. w = IF c THEN y ELSE 0
    BY Zenon
  <2> HIDE DEF x, c, w
  <2>3. IsScore(y)
    BY ONLY <2>1 DEF AtMost, IsScore
  <2> HIDE DEF y
  <2>4. QED
    BY ONLY <1>1, <2>2, <2>3
<1>5. ScoresOf(n) =
        [ghost_login |-> g, insider |-> i, tailgating |-> 0, ransomware |-> w]
  BY Zenon DEF ScoresOf, g, i, w
<1> HIDE DEF g, i, w
<1>6. QED
  BY <1>1, <1>2, <1>3, <1>4, <1>5 DEF Rules, Threshold

\* Of finitely many scores one is highest: there is one.
LEMMA OneIsHighest ==
  ASSUME NEW S, S # {}, NEW f, \A x \in S : f[x] \in Nat,
         NEW m \in Nat, \A x \in S : f[x] <= m
  PROVE  \E x \in S : \A y \in S : f[y] <= f[x]
<1> DEFINE B(k) == \A x \in S : f[x] <= k
           U == {k \in Nat : B(k)}
<1>1. m \in U
  OBVIOUS
<1>2. PICK k \in U : \A j \in U : k <= j
  <2>1. U # {} /\ U \in SUBSET Nat
    BY <1>1
  <2> HIDE DEF U
  <2>2. QED
    BY <2>1, LeastOf
<1>3. \E x \in S : f[x] = k
  <2> SUFFICES ASSUME \A x \in S : f[x] # k PROVE FALSE
    OBVIOUS
  <2>1. \A x \in S : f[x] <= k - 1
    BY <1>2
  <2>2. k - 1 \in Nat
    BY <1>2, <2>1
  <2>3. k - 1 \in U
    BY <2>1, <2>2
  <2>4. QED
    BY <1>2, <2>3
<1>4. QED
  BY <1>2, <1>3

LEMMA ConvergedAlertWellFormed ==
  ASSUME NEW n, Firing(n) # {} PROVE WellFormed(ConvergedAlert(n))
<1> DEFINE c == TopScore(n)
           v == IF c >= 900 THEN CRITICAL ELSE HIGH
           f == Finding("ConvergedSecurityEngine", "correlated_attack", v, c)
           a == ConvergedAlert(n)
           s == ScoresOf(n)
           top == CHOOSE x \in Firing(n) : \A y \in Firing(n) : s[y] <= s[x]
<1>1. Firing(n) \subseteq Rules /\ \A r \in Rules : IsScore(s[r])
  BY ScoresAreBounded DEF Firing
<1>2. c = s[top]
  BY Zenon DEF TopScore
<1> HIDE DEF c, s
<1>3. \E x \in Firing(n) : \A y \in Firing(n) : s[y] <= s[x]
  <2> DEFINE F == Firing(n)
             m == 950
  <2>1. F # {} /\ F \subseteq Rules
    BY <1>1, Zenon
  <2>2. m \in Nat /\ \A x : IsScore(x) => x \in Nat /\ x <= m
    BY ONLY DEF IsScore
  <2> HIDE DEF F, m
  <2>3. \A x \in F : s[x] \in Nat /\ s[x] <= m
    BY <1>1, <2>1, <2>2, Zenon
  <2>4. \E x \in F : \A y \in F : s[y] <= s[x]
    BY <2>1, <2>2, <2>3, OneIsHighest
  <2>5. QED
    BY <2>4 DEF F
<1>4. top \in Firing(n)
  BY <1>3
<1> HIDE DEF top
<1>5. c \in Nat
  <2>1. IsScore(s[top])
    BY <1>1, <1>4, Zenon
  <2>2. QED
    BY ONLY <1>2, <2>1 DEF IsScore
<1>6. a = [f EXCEPT !.entity = n]
  BY Zenon DEF ConvergedAlert, a, f, c, v
<1>7. v \in LOW..CRITICAL
  BY Levels
<1> HIDE DEF v
<1>8. /\ DOMAIN f = DOMAIN Blank
      /\ f.bus = "finding" /\ f.type = "correlated_attack" /\ f.sev = v
      /\ f.conf = c /\ f.score = 0 /\ f.biometric = 0
  BY FindingFields
<1> HIDE DEF f
<1>9. /\ a.bus = "finding" /\ a.type = "correlated_attack" /\ a.sev = v
      /\ a.conf = c /\ a.score = 0 /\ a.biometric = 0
  BY <1>6, <1>8
<1> HIDE DEF a
<1>10. WellFormed(a)
  BY <1>5, <1>7, <1>9 DEF WellFormed
<1>11. QED
  BY <1>10 DEF a

\* A round's alerts, about finitely many known entities.
LEMMA RoundIsPublishable ==
  ASSUME KnownAreTracked PROVE Publishable(ConvergedPublishes)
<1> DEFINE K == {k \in DOMAIN known : \A j \in 1..(k - 1) : ~Raises(known[j])}
           g == [k \in K |-> known[k]]
           S == {x \in Reached : ~Raises(x) /\ Firing(x) # {}}
           f == [n \in S |-> ConvergedAlert(n)]
<1>1. IsFiniteSet(K)
  <2>1. DOMAIN known = 1..Len(known) /\ Len(known) \in Nat
    BY DEF KnownAreTracked
  <2>2. IsFiniteSet(DOMAIN known)
    BY <2>1, FS_Interval
  <2>3. QED
    BY <2>2, FS_Subset
<1>2. Reached = {g[k] : k \in K} /\ DOMAIN g = K /\ g = [k \in K |-> g[k]]
  BY DEF Reached
<1> HIDE DEF g, K
<1>3. IsFiniteSet(Reached)
  BY <1>1, <1>2, ImageIsFinite
<1>4. IsFiniteSet(S)
  BY <1>3, FS_Subset
<1>5. ConvergedPublishes = {f[n] : n \in S} /\ DOMAIN f = S /\ f = [n \in S |-> f[n]]
  BY DEF ConvergedPublishes
<1>6. \A x \in ConvergedPublishes : WellFormed(x)
  BY ConvergedAlertWellFormed DEF ConvergedPublishes
<1> HIDE DEF S, f
<1>7. QED
  BY <1>4, <1>5, <1>6, ImageIsFinite DEF Publishable

-----------------------------------------------------------------------------
(* The detectors that never find anything *)

\* The insider engine's records have the attributes of their class, and no
\* other; the overall score, which asks for others, is zero.
InsiderInv ==
  /\ DOMAIN attributes = Insiders
  /\ \A u \in Insiders : DOMAIN attributes[u] = ScoreNames
  /\ risk = [u \in Insiders |-> 0]

\* The behaviour engine's lists are named after attributes, not metrics.
UEBAInv ==
  /\ DOMAIN measured = Profiled
  /\ \A n \in Profiled : DOMAIN measured[n] = {ListOf[m] : m \in Metrics}
  /\ stable = {}

\* The DNA engine's anomalies are threats.
DNAInv == \E S : anomalies \in Seq(S) /\ \A a \in S : a.item.bus = "threat"

LEMMA NothingIsAskedFor ==
  \A r : DOMAIN r = ScoreNames => InsiderOverall(r) = 0
<1> SUFFICES ASSUME NEW r, DOMAIN r = ScoreNames PROVE InsiderOverall(r) = 0
  OBVIOUS
<1>1. /\ GetAttr(r, "behavioral") = 0 /\ GetAttr(r, "data_exfil") = 0
      /\ GetAttr(r, "hr_signal") = 0 /\ GetAttr(r, "physical") = 0
      /\ GetAttr(r, "peer_compare") = 0
  BY DEF GetAttr, ScoreNames
<1>2. QED
  BY <1>1 DEF InsiderOverall

LEMMA InsiderHandles ==
  ASSUME InsiderInv, NEW e
  PROVE  /\ InsiderOn(e) => InsiderInv'
         /\ InsiderPublishes(e) = {}
<1> DEFINE u == InsiderOf(e)
<1>1. \A r : DOMAIN Improved(r, e) = DOMAIN r
  BY DEF Improved
<1>2. ASSUME u \in Insiders PROVE InsiderOverall(Improved(attributes[u], e)) = 0
  BY <1>1, <1>2, NothingIsAskedFor DEF InsiderInv
<1>3. ASSUME InsiderOn(e) PROVE InsiderInv'
  <2>1. CASE u \notin Insiders \/ ~Updates(e)
    BY <1>3, <2>1 DEF InsiderOn, insiderVars, InsiderInv
  <2>2. CASE u \in Insiders /\ Updates(e)
    <3>1. /\ attributes' = [attributes EXCEPT ![u] = Improved(attributes[u], e)]
          /\ risk' = IF e.deviation THEN risk
                     ELSE [risk EXCEPT ![u] = InsiderOverall(attributes'[u])]
      BY <1>3, <2>2 DEF InsiderOn
    <3> HIDE DEF u
    <3>2. attributes'[u] = Improved(attributes[u], e)
      BY <2>2, <3>1 DEF InsiderInv
    <3>3. /\ DOMAIN attributes' = Insiders
          /\ \A x \in Insiders : DOMAIN attributes'[x] = ScoreNames
      BY <1>1, <2>2, <3>1, <3>2 DEF InsiderInv
    <3>4. InsiderOverall(attributes'[u]) = 0
      BY <2>2, <3>3, NothingIsAskedFor
    <3>5. risk' = [x \in Insiders |-> 0]
      BY <2>2, <3>1, <3>4 DEF InsiderInv
    <3>6. QED
      BY <3>3, <3>5 DEF InsiderInv
  <2>3. QED
    BY <2>1, <2>2
<1>4. InsiderPublishes(e) = {}
  <2>1. ~(u \in Insiders /\ InsiderAlerts(u, e))
    <3> SUFFICES ASSUME u \in Insiders, InsiderAlerts(u, e) PROVE FALSE
      OBVIOUS
    <3>1. InsiderLevel(0) # "low"
      BY <1>2 DEF InsiderAlerts
    <3>2. QED
      BY <3>1 DEF InsiderLevel
  <2>2. QED
    BY <2>1, Zenon DEF InsiderPublishes
<1>5. QED
  BY <1>3, <1>4

LEMMA InsiderCalled ==
  ASSUME InsiderInv, CallInsider PROVE InsiderInv'
<1>1. PICK u \in Insiders : ApplyMitigation(u) \/ \E on \in BOOLEAN : SetMonitoring(u, on)
  BY DEF CallInsider
<1>2. CASE ApplyMitigation(u)
  <2>1. /\ DOMAIN attributes' = Insiders
        /\ \A x \in Insiders : DOMAIN attributes'[x] = ScoreNames
    BY <1>2 DEF ApplyMitigation, InsiderInv
  <2>2. InsiderOverall(attributes'[u]) = 0
    BY <2>1, NothingIsAskedFor
  <2>3. risk' = [x \in Insiders |-> 0]
    BY <1>2, <2>2 DEF ApplyMitigation, InsiderInv
  <2>4. QED
    BY <2>1, <2>3 DEF InsiderInv
<1>3. CASE \E on \in BOOLEAN : SetMonitoring(u, on)
  BY <1>3 DEF SetMonitoring, InsiderInv
<1>4. QED
  BY <1>1, <1>2, <1>3

LEMMA InsiderDecays == ASSUME InsiderInv, InsiderHour PROVE InsiderInv'
<1>1. /\ DOMAIN attributes' = Insiders
      /\ \A x \in Insiders : DOMAIN attributes'[x] = ScoreNames
  BY DEF InsiderHour, InsiderInv
<1>2. \A x \in Insiders : InsiderOverall(attributes'[x]) = 0
  BY <1>1, NothingIsAskedFor
<1>3. risk' = [x \in Insiders |-> 0]
  BY <1>2 DEF InsiderHour
<1>4. QED
  BY <1>1, <1>3 DEF InsiderInv

LEMMA UEBAHandles ==
  ASSUME UEBAInv, NEW e, WellFormed(e)
  PROVE  /\ UEBAOn(e) => UEBAInv'
         /\ UEBAPublishes(e) = {}
<1>1. About(e) \subseteq Profiled
  BY DEF WellFormed, About, Profiles
<1>2. \A r : DOMAIN Longer(r, e) = DOMAIN r
  BY DEF Longer
<1>3. \A n \in Profiled : ~Stabilises(n, e)
  <2> SUFFICES ASSUME NEW n \in Profiled, Stabilises(n, e) PROVE FALSE
    OBVIOUS
  <2>1. PICK m \in Measured(e) : Found(Longer(measured[n], e), m) >= BaselineEvents
    BY DEF Stabilises
  <2>2. m \in Metrics
    BY DEF Measured, Metrics
  <2>3. m \notin DOMAIN Longer(measured[n], e)
    BY <1>2, <2>2 DEF UEBAInv, Metrics, ListOf
  <2>4. Found(Longer(measured[n], e), m) = 0
    BY <2>3 DEF Found
  <2>5. QED
    BY <2>1, <2>4, UEBAAssumption
<1>4. ASSUME UEBAOn(e) PROVE UEBAInv'
  <2>1. stable' = {}
    BY <1>1, <1>3, <1>4 DEF UEBAOn, UEBAInv
  <2>2. DOMAIN measured' = Profiled
    BY <1>4 DEF UEBAOn
  <2>3. \A n \in Profiled : DOMAIN measured'[n] = DOMAIN measured[n]
    BY <1>2, <1>4 DEF UEBAOn
  <2>4. QED
    BY <2>1, <2>2, <2>3 DEF UEBAInv
<1>5. UEBAPublishes(e) = {}
  BY <1>1, <1>3 DEF UEBAPublishes, UEBAInv
<1>6. QED
  BY <1>4, <1>5

\* What a request is unusual by never adds up to an anomaly.
LEMMA OnlyThreatsAreUnusual ==
  ASSUME NEW e, WellFormed(e), e.bus # "threat" PROVE Anomalous(e) = {}
<1>1. \A hs, ns : UnusualRequest(hs, ns, e) <= 60
  BY DEF UnusualRequest
<1>2. \A n : ~IsRequestAnomaly(n, e)
  <2>1. \A hs, ns : UnusualRequest(hs, ns, e) \in Int
    BY DEF UnusualRequest
  <2>2. QED
    BY <1>1, <2>1 DEF IsRequestAnomaly
<1>3. QED
  BY <1>2 DEF WellFormed, Anomalous

LEMMA DNAHandles ==
  ASSUME DNAInv, NEW e, WellFormed(e), DNAOn(e) PROVE DNAInv'
<1>1. e.bus # "threat" => Anomalous(e) = {}
  BY OnlyThreatsAreUnusual
<1> DEFINE a == [about |-> Anomalous(e), item |-> e]
<1>2. anomalies' = IF Anomalous(e) = {} THEN anomalies ELSE Append(anomalies, a)
  BY DEF DNAOn
<1>3. a.item = e
  OBVIOUS
<1> HIDE DEF a
<1>4. CASE Anomalous(e) = {}
  BY <1>2, <1>4 DEF DNAInv
<1>5. CASE Anomalous(e) # {}
  <2>1. PICK S : anomalies \in Seq(S) /\ \A x \in S : x.item.bus = "threat"
    BY DEF DNAInv
  <2> DEFINE U == S \cup {a}
  <2>2. anomalies \in Seq(U) /\ a \in U /\ \A x \in U : x.item.bus = "threat"
    <3>1. S \subseteq U
      OBVIOUS
    <3>2. anomalies \in Seq(U)
      BY <2>1, <3>1, SeqMonotonic
    <3>3. QED
      BY <1>1, <1>3, <1>5, <2>1, <3>2
  <2> HIDE DEF U
  <2>3. anomalies' \in Seq(U)
    BY <1>2, <1>5, <2>2, AppendProperties
  <2>4. QED
    BY <2>2, <2>3 DEF DNAInv
<1>6. QED
  BY <1>4, <1>5

-----------------------------------------------------------------------------
(* The engines on their bus *)

\* What the handlers of a delivery read and write, at once: the item has the
\* shape they rely on because every one of them only publishes such items.
BusInv ==
  /\ Carries(pending)
  /\ IsFiniteSet(altered)
  /\ ArbiterInv /\ ConvergedInv
  /\ InsiderInv /\ UEBAInv /\ DNAInv
  /\ compared \subseteq {"threat"}

LEMMA PublishedIsCarried ==
  ASSUME BusInv, NEW e, WellFormed(e) PROVE Carries(Published(e))
<1> DEFINE a == InOrder(AgentPublishes(e))
           b == InOrder(DNAPublishes(e))
           c == InOrder(DevicePublishes(e))
           d == InOrder(UEBAPublishes(e))
           f == InOrder(PhysicalPublishes(e))
           g == InOrder(InsiderPublishes(e))
           h == InOrder(ArbiterPublishes(e))
<1>1. Carries(a) /\ Carries(b) /\ Carries(c)
  BY ReportsArePublishable, AnomaliesArePublishable, AlarmsArePublishable, InOrderCarries
<1>2. Carries(d) /\ Carries(g)
  <2>1. UEBAPublishes(e) = {} /\ InsiderPublishes(e) = {}
    BY UEBAHandles, InsiderHandles DEF BusInv
  <2>2. QED
    BY <2>1, NoneIsPublishable, InOrderCarries
<1>3. Carries(f) /\ Carries(h)
  BY IntrusionsArePublishable, RiskAlertsArePublishable, InOrderCarries DEF BusInv
<1>4. Published(e) = a \o b \o c \o d \o f \o g \o h
  BY Zenon DEF Published
<1> HIDE DEF a, b, c, d, f, g, h
<1>5. Carries(a \o b \o c)
  BY <1>1, CarriesBoth
<1>6. Carries(a \o b \o c \o d \o f)
  BY <1>2, <1>3, <1>5, CarriesBoth
<1>7. QED
  BY <1>2, <1>3, <1>4, <1>6, CarriesBoth

LEMMA BusInvInit == Init => BusInv
<1> SUFFICES ASSUME Init PROVE BusInv
  OBVIOUS
<1>1. Carries(pending) /\ IsFiniteSet(altered) /\ compared \subseteq {"threat"}
  BY CarriesNone, FewAreFinite DEF Init, DeviceInit, PhysicalInit
<1>2. ArbiterInv /\ ConvergedInv
  BY ArbiterInvInit, ConvergedInvInit
<1>3. InsiderInv
  BY DEF Init, InsiderInit, InsiderInv
<1>4. UEBAInv
  BY DEF Init, UEBAInit, UEBAInv
<1>5. DNAInv
  <2> DEFINE S == {}
  <2>1. anomalies \in Seq(S) /\ \A x \in S : x.item.bus = "threat"
    BY EmptySeq DEF Init, DNAInit
  <2> HIDE DEF S
  <2>2. QED
    BY <2>1 DEF DNAInv
<1>6. QED
  BY <1>1, <1>2, <1>3, <1>4, <1>5 DEF BusInv

\* Only its own actions concern a variable: what the others leave alone.
LEMMA EnginesStay ==
  /\ UNCHANGED arbiterVars /\ ArbiterInv => ArbiterInv'
  /\ UNCHANGED insiderVars /\ InsiderInv => InsiderInv'
  /\ UNCHANGED uebaVars /\ UEBAInv => UEBAInv'
  /\ UNCHANGED dnaVars /\ DNAInv => DNAInv'
<1>1. UNCHANGED arbiterVars /\ ArbiterInv => ArbiterInv'
  BY DEF arbiterVars, ArbiterInv, ArbiterTypeOK, CompositeIsBacked, AlertsAreCorroborated
<1>2. UNCHANGED insiderVars /\ InsiderInv => InsiderInv'
  BY DEF insiderVars, InsiderInv
<1>3. UNCHANGED uebaVars /\ UEBAInv => UEBAInv'
  BY DEF uebaVars, UEBAInv
<1>4. UNCHANGED dnaVars /\ DNAInv => DNAInv'
  BY DEF dnaVars, DNAInv
<1>5. QED
  BY <1>1, <1>2, <1>3, <1>4

LEMMA AlteredStaysFinite ==
  ASSUME IsFiniteSet(altered), [Next]_vars PROVE IsFiniteSet(altered')
<1>1. ASSUME NEW e, DeviceOn(e) \/ DeviceResumes(e) PROVE altered' = altered
  BY <1>1 DEF DeviceOn, DeviceResumes, deviceVars
<1>2. CASE Deliver
  BY <1>1, <1>2 DEF Deliver
<1>3. CASE Drop
  BY <1>1, <1>3 DEF Drop
<1>4. CASE CallDevice
  <2>1. \E d \in Devices : altered' \in {altered, altered \ {d}, altered \cup {d}}
    BY <1>4, CallAltersOne
  <2>2. QED
    BY <2>1, FS_AddElement, FS_RemoveElement
<1>5. CASE HourPasses
  BY <1>5 DEF HourPasses, DeviceHour
<1>6. CASE Arrive \/ CallInsider \/ MinutePasses \/ RecordExpires \/ UNCHANGED vars
  BY <1>6 DEF Arrive, CallInsider, MinutePasses, RecordExpires, vars, deviceVars
<1>7. QED
  BY <1>2, <1>3, <1>4, <1>5, <1>6 DEF Next

\* The bus carries well-formed items only.
LEMMA BusCarries == ASSUME BusInv, [Next]_vars PROVE Carries(pending')
<1>1. CASE Deliver
  <2> DEFINE e == Head(pending)
  <2>1. pending # <<>> /\ pending' = Tail(pending) \o Published(e)
    BY <1>1 DEF Deliver
  <2>2. WellFormed(e) /\ Carries(Tail(pending))
    BY <2>1, CarriesParts DEF BusInv
  <2> HIDE DEF e
  <2>3. Carries(Published(e))
    BY <2>2, PublishedIsCarried
  <2>4. QED
    BY <2>1, <2>2, <2>3, CarriesBoth
<1>2. CASE Drop
  BY <1>2, CarriesParts DEF Drop, BusInv
<1>3. CASE Arrive
  BY <1>3, CarriesMore, ArrivalsAssumption DEF Arrive, BusInv
<1>4. CASE CallDevice
  <2>1. PICK S : Publishable(S) /\ pending' = pending \o InOrder(S)
    BY <1>4, AlarmsArePublishable, NoneIsPublishable DEF CallDevice, DeviceCall
  <2>2. QED
    BY <2>1, InOrderCarries, CarriesBoth DEF BusInv
<1>5. CASE MinutePasses
  BY <1>5, RoundIsPublishable, InOrderCarries DEF MinutePasses, BusInv, ConvergedInv
<1>6. CASE HourPasses
  BY <1>6, HourIsPublishable, InOrderCarries DEF HourPasses, BusInv
<1>7. CASE CallInsider \/ RecordExpires \/ UNCHANGED vars
  BY <1>7 DEF CallInsider, RecordExpires, vars, busVars, BusInv
<1>8. QED
  BY <1>1, <1>2, <1>3, <1>4, <1>5, <1>6, <1>7 DEF Next

\* What a delivery does to the engines.
LEMMA Delivered ==
  ASSUME BusInv, Deliver
  PROVE  /\ ArbiterInv' /\ InsiderInv' /\ UEBAInv' /\ DNAInv'
         /\ compared' \subseteq {"threat"}
<1> DEFINE e == Head(pending)
<1>1. /\ ArbiterOn(e) /\ InsiderOn(e) /\ DNAOn(e) /\ UEBAOn(e) /\ PhysicalOn(e)
  BY DEF Deliver
<1>2. WellFormed(e)
  BY CarriesParts DEF Deliver, BusInv
<1> HIDE DEF e
<1>3. ArbiterInv' /\ InsiderInv' /\ UEBAInv' /\ DNAInv'
  BY <1>1, <1>2, ArbiterHandles, InsiderHandles, UEBAHandles, DNAHandles DEF BusInv
<1>4. compared' \subseteq {"threat"}
  <2>1. compared' \in {compared, compared \cup {e.bus}}
    BY <1>1 DEF PhysicalOn
  <2>2. e.bus # "threat" => PhysicalPublishes(e) = {}
    BY DEF PhysicalPublishes, Sighting, CyberUse
  <2>3. PhysicalPublishes(e) = {} => compared' = compared
    BY <1>1 DEF PhysicalOn
  <2>4. QED
    BY <2>1, <2>2, <2>3 DEF BusInv
<1>5. QED
  BY <1>3, <1>4

LEMMA BusInvStep == BusInv /\ [Next]_vars => BusInv'
<1> SUFFICES ASSUME BusInv, [Next]_vars PROVE BusInv'
  OBVIOUS
<1>1. Carries(pending') /\ IsFiniteSet(altered') /\ ConvergedInv'
  BY BusCarries, AlteredStaysFinite, ConvergedInvStep DEF BusInv
<1>2. /\ ArbiterInv' /\ InsiderInv' /\ UEBAInv' /\ DNAInv'
      /\ compared' \subseteq {"threat"}
  <2>1. CASE Deliver
    BY <2>1, Delivered
  <2>2. CASE HourPasses
    <3>1. /\ ArbiterHour /\ InsiderHour /\ PhysicalHour
          /\ UNCHANGED dnaVars /\ UNCHANGED uebaVars
      BY <2>2 DEF HourPasses
    <3>2. QED
      BY <3>1, ArbiterDecays, InsiderDecays, EnginesStay DEF BusInv, PhysicalHour
  <2>3. CASE CallInsider
    <3>1. UNCHANGED arbiterVars /\ UNCHANGED dnaVars /\ UNCHANGED uebaVars
          /\ UNCHANGED physicalVars
      BY <2>3 DEF CallInsider
    <3>2. QED
      BY <2>3, <3>1, InsiderCalled, EnginesStay DEF BusInv, physicalVars
  <2>4. CASE Drop \/ Arrive \/ CallDevice \/ MinutePasses \/ RecordExpires
             \/ UNCHANGED vars
    <3>1. /\ UNCHANGED arbiterVars /\ UNCHANGED insiderVars /\ UNCHANGED dnaVars
          /\ UNCHANGED uebaVars /\ UNCHANGED physicalVars
      BY <2>4 DEF Drop, Arrive, CallDevice, DeviceCall, MinutePasses, RecordExpires,
         Others, vars
    <3>2. QED
      BY <3>1, EnginesStay DEF BusInv, physicalVars
  <2>5. QED
    BY <2>1, <2>2, <2>3, <2>4 DEF Next
<1>3. QED
  BY <1>1, <1>2 DEF BusInv

(* Whatever arrives and in whatever order, every alert of the arbiter is   *)
(* raised by three dimensions at least: two at their maximum stay below    *)
(* the lowest threshold, and corroboration, skeptic and decay only ever    *)
(* lower a score (meta_risk_arbiter.py 326-381).                           *)
THEOREM AlertsAreAlwaysCorroborated == Spec => []AlertsAreCorroborated
<1>1. BusInv => AlertsAreCorroborated
  BY DEF BusInv, ArbiterInv
<1>2. QED
  BY BusInvInit, BusInvStep, <1>1, PTL DEF Spec

(* The four detectors never find anything, whatever arrives                *)
(* (insider_threat_engine.py 127-135, ueba_engine.py 191-204,              *)
(* behavioral_dna_engine.py 331-387, physical_security_engine.py 249).     *)
THEOREM DetectorsStaySilent == Spec => []SilentDetectors
<1>1. BusInv => SilentDetectors
  <2> SUFFICES ASSUME BusInv PROVE SilentDetectors
    OBVIOUS
  <2>1. \A u \in Insiders : risk[u] = 0
    BY DEF BusInv, InsiderInv
  <2>2. \A i \in DOMAIN anomalies : anomalies[i].item.bus = "threat"
    <3>1. PICK S : anomalies \in Seq(S) /\ \A a \in S : a.item.bus = "threat"
      BY DEF BusInv, DNAInv
    <3>2. \A i \in DOMAIN anomalies : anomalies[i] \in S
      BY <3>1, ElementOfSeq
    <3>3. QED
      BY <3>1, <3>2
  <2>3. QED
    BY <2>1, <2>2 DEF SilentDetectors, BusInv, UEBAInv
<1>2. QED
  BY BusInvInit, BusInvStep, <1>1, PTL DEF Spec

-----------------------------------------------------------------------------
(* Who is denied, and what the arbiter's score outlasts *)

\* Attempts and failures of a user: the count of the agent runs ahead of the
\* failed verifications only after the user has been denied for them.
Counted(b, f) ==
  /\ b \in Nat /\ f \in Nat
  /\ b = f \/ (f > BlockLimit /\ b >= f)

AttemptsInv ==
  /\ DOMAIN blocked = Subjects /\ DOMAIN failures = Subjects
  /\ \A u \in Subjects : Counted(blocked[u], failures[u])

DenialInv == BusInv /\ AttemptsInv

\* No sum of the five scores is critical.
LEMMA DeniedByCount ==
  ASSUME NEW u \in Subjects, NEW e, AttemptsInv
  PROVE  Allowed(u, e) <=> failures[u] <= BlockLimit
<1>1. LevelOf(Combined(u, e)) # CRITICAL
  <2>1. Combined(u, e) \in 0..600
    BY CombinedBounds
  <2>2. \A s \in 0..600 : LevelOf(s) # CRITICAL
    BY DEF LevelOf, LOW, MEDIUM, HIGH, CRITICAL
  <2>3. QED
    BY <2>1, <2>2
<1>2. Allowed(u, e) <=> ~OverLimit(u)
  BY <1>1 DEF Allowed, RequestLevel
<1>3. Counted(blocked[u], failures[u])
  BY DEF AttemptsInv
<1>4. QED
  BY <1>2, <1>3, ZeroTrustAgentAssumption DEF OverLimit, Counted

LEMMA CountedOnce ==
  /\ \A b, f : Counted(b, f) => Counted(b + 1, f + 1)
  /\ \A b, f : Counted(b, f) /\ f > BlockLimit => Counted(b + 1, f)
BY ZeroTrustAgentAssumption DEF Counted

\* Handling an item: the verdict on a request agrees with the failures.
LEMMA AgentHandlesItem ==
  ASSUME AttemptsInv, NEW e, WellFormed(e), AgentOn(e)
  PROVE  /\ AttemptsInv'
         /\ verdict' # verdict /\ verdict' # <<>> =>
              (verdict'.allowed <=> failures'[verdict'.user] <= BlockLimit)
<1> DEFINE u == Subject(e)
<1>1. CASE e.bus = "threat" /\ e.type = "access_request"
  <2>1. /\ blocked' = IF Allowed(u, e) THEN blocked
                      ELSE [blocked EXCEPT ![u] = blocked[u] + 1]
        /\ verdict' = [user |-> u, allowed |-> Allowed(u, e),
                       challenged |-> Challenged(u, e), elevated |-> Elevated(u, e)]
        /\ failures' = failures
    BY <1>1 DEF AgentOn, HandleAccessRequest
  <2>2. u \in Subjects
    BY <1>1 DEF WellFormed, Subject, Subjects
  <2> HIDE DEF u
  <2>3. Allowed(u, e) <=> failures[u] <= BlockLimit
    BY <2>2, DeniedByCount
  <2>4. verdict'.user = u /\ verdict'.allowed = Allowed(u, e)
    BY <2>1
  <2>5. Counted(blocked[u], failures[u])
    BY <2>2 DEF AttemptsInv
  <2>6. ~Allowed(u, e) => Counted(blocked[u] + 1, failures[u])
    BY <2>3, <2>5, CountedOnce, ZeroTrustAgentAssumption DEF Counted
  <2>7. \A x \in Subjects : Counted(blocked'[x], failures'[x])
    BY <2>1, <2>2, <2>6 DEF AttemptsInv
  <2>8. AttemptsInv'
    BY <2>1, <2>7 DEF AttemptsInv, Counted
  <2>9. QED
    BY <2>1, <2>3, <2>4, <2>8
<1>2. CASE e.bus = "threat" /\ e.type = "identity_mismatch"
  <2>1. /\ IF Verified(e) THEN UNCHANGED <<blocked, failures>>
           ELSE /\ blocked' = [blocked EXCEPT ![u] = blocked[u] + 1]
                /\ failures' = [failures EXCEPT ![u] = failures[u] + 1]
        /\ verdict' = <<>>
    BY <1>2 DEF AgentOn, HandleIdentity
  <2>2. u \in Subjects
    BY <1>2 DEF WellFormed, Subject, Subjects
  <2> HIDE DEF u
  <2>3. \A x \in Subjects : Counted(blocked'[x], failures'[x])
    BY <2>1, <2>2, CountedOnce DEF AttemptsInv
  <2>4. AttemptsInv'
    BY <2>1, <2>3 DEF AttemptsInv, Counted
  <2>5. QED
    BY <2>1, <2>4
<1>3. CASE ~(e.bus = "threat" /\ e.type \in {"access_request", "identity_mismatch"})
  <2>1. UNCHANGED agentVars
    BY <1>3 DEF AgentOn
  <2>2. QED
    BY <2>1 DEF agentVars, AttemptsInv, Counted
<1>4. QED
  BY <1>1, <1>2, <1>3

LEMMA DenialStep ==
  ASSUME DenialInv, [Next]_vars
  PROVE  /\ AttemptsInv'
         /\ verdict' # verdict /\ verdict' # <<>> =>
              (verdict'.allowed <=> failures'[verdict'.user] <= BlockLimit)
<1>1. CASE Deliver
  <2> DEFINE e == Head(pending)
  <2>1. WellFormed(e) /\ AgentOn(e)
    BY <1>1, CarriesParts DEF Deliver, DenialInv, BusInv
  <2> HIDE DEF e
  <2>2. QED
    BY <2>1, AgentHandlesItem DEF DenialInv
<1>2. CASE ~Deliver
  <2>1. UNCHANGED <<blocked, failures, verdict>>
    BY <1>2 DEF Next, Drop, Arrive, CallDevice, DeviceCall, CallInsider, MinutePasses,
       HourPasses, AgentHour, RecordExpires, Others, agentVars, vars
  <2>2. QED
    BY <2>1 DEF DenialInv, AttemptsInv, Counted
<1>3. QED
  BY <1>1, <1>2

(* A request is denied if and only if more than BlockLimit verifications   *)
(* of its user's identity have failed, whatever the request                *)
(* (zero_trust_agent.py 286-297).                                          *)
THEOREM AlwaysDeniedByFailuresAlone == Spec => DeniedByFailuresAlone
<1>1. Init => DenialInv
  <2> SUFFICES ASSUME Init PROVE AttemptsInv
    BY BusInvInit DEF DenialInv
  <2>1. QED
    BY DEF Init, AgentInit, AttemptsInv, Counted
<1>2. DenialInv /\ [Next]_vars => DenialInv'
  BY BusInvStep, DenialStep DEF DenialInv
<1>3. DenialInv /\ [Next]_vars =>
        [verdict' # <<>> =>
           (verdict'.allowed <=> failures'[verdict'.user] <= BlockLimit)]_verdict
  BY DenialStep
<1>4. QED
  BY <1>1, <1>2, <1>3, PTL DEF Spec, DeniedByFailuresAlone

RiskRecords ==
  DOMAIN overall = Entities /\ DOMAIN handled = Entities /\ arbitrated \subseteq Entities

\* What may become of an entity whose score is the arbiter's.
ArbiterRules(n) ==
  \/ /\ n \in arbitrated'
     /\ overall'[n] # overall[n] => pending # <<>> /\ ByArbiter(n, Head(pending))
  \/ handled'[n] = 0

LEMMA ScoreFreezes ==
  ASSUME RiskRecords, [Next]_vars
  PROVE  RiskRecords' /\ \A n \in arbitrated : ArbiterRules(n)
<1>1. CASE Deliver
  <2> DEFINE e == Head(pending)
  <2>1. pending # <<>> /\ RiskOn(e)
    BY <1>1 DEF Deliver
  <2> HIDE DEF e
  <2>2. arbitrated' = arbitrated \cup {n \in Entities : ByArbiter(n, e)}
        /\ DOMAIN overall' = Entities /\ DOMAIN handled' = Entities
    BY <2>1 DEF RiskOn
  <2>3. \A n \in arbitrated : overall'[n] # overall[n] => ByArbiter(n, e)
    BY <2>1 DEF RiskOn, Overall, RiskRecords
  <2>4. QED
    BY <2>1, <2>2, <2>3 DEF e, RiskRecords, ArbiterRules
<1>2. CASE HourPasses
  <2>1. RiskHour
    BY <1>2 DEF HourPasses
  <2>2. arbitrated' = arbitrated /\ handled' = handled /\ DOMAIN overall' = Entities
    BY <2>1 DEF RiskHour
  <2>3. \A n \in arbitrated : overall'[n] = overall[n]
    BY <2>1 DEF RiskHour, RiskRecords
  <2>4. QED
    BY <2>2, <2>3 DEF RiskRecords, ArbiterRules
<1>3. CASE RecordExpires
  <2>1. PICK n \in Entities : RiskForgets(n)
    BY <1>3 DEF RecordExpires
  <2>2. /\ overall' = [overall EXCEPT ![n] = 0] /\ arbitrated' = arbitrated \ {n}
        /\ handled' = [handled EXCEPT ![n] = 0]
    BY <2>1 DEF RiskForgets
  <2>3. RiskRecords' /\ handled'[n] = 0
    BY <2>2 DEF RiskRecords
  <2>4. \A m \in arbitrated : m # n => m \in arbitrated' /\ overall'[m] = overall[m]
    BY <2>2 DEF RiskRecords
  <2>5. QED
    BY <2>3, <2>4 DEF ArbiterRules
<1>4. CASE ~Deliver /\ ~HourPasses /\ ~RecordExpires
  <2>1. UNCHANGED <<overall, arbitrated, handled>>
    BY <1>4 DEF Next, Drop, Arrive, CallDevice, DeviceCall, CallInsider, MinutePasses,
       Others, riskVars, vars
  <2>2. QED
    BY <2>1 DEF RiskRecords, ArbiterRules
<1>5. QED
  BY <1>1, <1>2, <1>3, <1>4

(* As long as its record is kept, the score an entity had at the arbiter's *)
(* last alert outlasts the factors it came from: neither decay nor items   *)
(* change it until the next alert (risk_scoring_engine.py 159-163).  The   *)
(* cache's limit of a day and of 10000 entities is the only way back       *)
(* (210, 367-373).                                                         *)
THEOREM ArbiterAlwaysFreezesRisk == Spec => ArbiterFreezesRisk
<1>1. Init => RiskRecords
  BY DEF Init, RiskInit, RiskRecords
<1>2. RiskRecords /\ [Next]_vars => RiskRecords'
  BY ScoreFreezes
<1>3. RiskRecords /\ [Next]_vars =>
        [\A n \in arbitrated :
           \/ /\ n \in arbitrated'
              /\ overall'[n] # overall[n] =>
                   pending # <<>> /\ ByArbiter(n, Head(pending))
           \/ handled'[n] = 0]_vars
  BY ScoreFreezes DEF ArbiterRules
<1>4. QED
  BY <1>1, <1>2, <1>3, PTL DEF Spec, ArbiterFreezesRisk

-----------------------------------------------------------------------------
(* Sums *)

\* Induction up to a number.
LEMMA UpTo ==
  ASSUME NEW n \in Nat, NEW S, 0 \in S, \A k \in 1..n : k - 1 \in S => k \in S
  PROVE  \A k \in 0..n : k \in S
<1> DEFINE Bad == {k \in 0..n : k \notin S}
<1>1. ASSUME Bad # {} PROVE FALSE
  <2>1. Bad \subseteq Nat
    OBVIOUS
  <2>2. PICK k \in Bad : \A x \in Bad : k <= x
    BY <1>1, <2>1, LeastOf
  <2>3. k \in 1..n /\ k - 1 \in 0..n
    OBVIOUS
  <2>4. k - 1 \in S
    <3>1. k - 1 \notin Bad
      <4> HIDE DEF Bad
      <4>1. QED
        BY <2>2, <2>3
    <3>2. QED
      BY <2>3, <3>1
  <2>5. QED
    BY <2>3, <2>4
<1>2. QED
  BY <1>1

\* g adds up the first n of the numbers ns.
AddsUp(g, n, ns) ==
  /\ g[0] = 0
  /\ \A i \in 1..n : g[i] = g[i - 1] + ns[i]
  /\ \A i \in 0..n : g[i] \in Nat

LEMMA RunningSums ==
  ASSUME NEW ns \in Seq(Nat)
  PROVE  \E g : Total(ns) = g[Len(ns)] /\ AddsUp(g, Len(ns), ns)
<1> DEFINE n == Len(ns)
           f == CHOOSE g : Sums(ns, n, g)
           Good == {i \in 0..n : f[i] \in Nat}
<1>1. n \in Nat /\ n \in 0..n /\ \A i \in 1..n : ns[i] \in Nat
  OBVIOUS
<1>2. Total(ns) = f[n]
  BY DEF Total, Sums
<1>3. Sums(ns, n, f)
  BY <1>1, SumsExist
<1> HIDE DEF f, n
<1>4. \A i \in 0..n : f[i] = IF i = 0 THEN 0 ELSE f[i - 1] + ns[i]
  BY <1>3 DEF Sums
<1>5. f[0] = 0 /\ \A i \in 1..n : f[i] = f[i - 1] + ns[i]
  BY <1>1, <1>4
<1>6. 0 \in Good /\ \A k \in 1..n : k - 1 \in Good => k \in Good
  <2>1. 0 \in Good
    BY <1>1, <1>5
  <2>2. ASSUME NEW k \in 1..n, k - 1 \in Good PROVE k \in Good
    <3>1. k \in 0..n /\ f[k] = f[k - 1] + ns[k] /\ ns[k] \in Nat
      BY <1>1, <1>5
    <3>2. f[k - 1] \in Nat
      BY <2>2
    <3>3. QED
      BY <3>1, <3>2
  <2>3. QED
    BY <2>1, <2>2
<1> HIDE DEF Good
<1>7. \A k \in 0..n : k \in Good
  BY <1>1, <1>6, UpTo
<1>8. AddsUp(f, n, ns)
  BY <1>5, <1>7 DEF AddsUp, Good
<1>9. QED
  BY <1>2, <1>8 DEF n

LEMMA TotalOfBoth ==
  ASSUME NEW r \in Seq(Nat), NEW s \in Seq(Nat)
  PROVE  r \o s \in Seq(Nat) /\ Total(r \o s) = Total(r) + Total(s)
<1> DEFINE m == Len(r)
           n == Len(s)
           t == r \o s
<1>1. m \in Nat /\ n \in Nat
  OBVIOUS
<1>2. /\ t \in Seq(Nat) /\ Len(t) = m + n
      /\ \A i \in 1..m : t[i] = r[i]
      /\ \A i \in 1..n : t[m + i] = s[i]
  BY ConcatProperties
<1>3. \A i \in 1..n : s[i] \in Nat
  OBVIOUS
<1>4. PICK f : Total(r) = f[m] /\ AddsUp(f, m, r)
  BY RunningSums
<1>5. PICK g : Total(s) = g[n] /\ AddsUp(g, n, s)
  BY RunningSums
<1> HIDE DEF t
<1>6. PICK h : Total(t) = h[m + n] /\ AddsUp(h, m + n, t)
  BY <1>2, RunningSums
<1> DEFINE A == {i \in 0..m : h[i] = f[i]}
           B == {i \in 0..n : h[m + i] = f[m] + g[i]}
<1> HIDE DEF m, n
<1>7. 0 \in A /\ \A k \in 1..m : k - 1 \in A => k \in A
  <2>1. 0 \in A
    BY <1>1, <1>4, <1>6 DEF AddsUp
  <2>2. ASSUME NEW k \in 1..m, k - 1 \in A PROVE k \in A
    <3>1. k \in 1..(m + n) /\ k \in 0..m
      BY <1>1
    <3>2. h[k] = h[k - 1] + t[k] /\ f[k] = f[k - 1] + r[k]
      BY <1>4, <1>6, <3>1 DEF AddsUp
    <3>3. t[k] = r[k] /\ h[k - 1] = f[k - 1]
      BY <1>2, <2>2
    <3>4. QED
      BY <3>1, <3>2, <3>3
  <2>3. QED
    BY <2>1, <2>2
<1>8. h[m] = f[m] /\ f[m] \in Nat
  <2>1. \A k \in 0..m : k \in A
    <3> HIDE DEF A
    <3>1. QED
      BY <1>1, <1>7, UpTo
  <2>2. m \in 0..m
    BY <1>1
  <2>3. QED
    BY <1>4, <2>1, <2>2 DEF AddsUp
<1>9. 0 \in B /\ \A k \in 1..n : k - 1 \in B => k \in B
  <2>1. 0 \in B
    BY <1>1, <1>5, <1>8 DEF AddsUp
  <2>2. ASSUME NEW k \in 1..n, k - 1 \in B PROVE k \in B
    <3>1. /\ m + k \in 1..(m + n) /\ (m + k) - 1 = m + (k - 1)
          /\ k \in 0..n /\ k - 1 \in 0..n
      BY <1>1
    <3>2. h[m + k] = h[(m + k) - 1] + t[m + k]
      BY <1>6, <3>1 DEF AddsUp
    <3>3. h[m + k] = h[m + (k - 1)] + s[k]
      BY <1>2, <3>1, <3>2
    <3>4. g[k] = g[k - 1] + s[k] /\ g[k - 1] \in Nat /\ s[k] \in Nat
      BY <1>3, <1>5, <3>1 DEF AddsUp
    <3>5. h[m + (k - 1)] = f[m] + g[k - 1]
      BY <2>2
    <3>6. h[m + k] = f[m] + g[k]
      BY ONLY <1>8, <3>3, <3>4, <3>5
    <3>7. QED
      BY <3>1, <3>6
  <2>3. QED
    BY <2>1, <2>2
<1>10. h[m + n] = f[m] + g[n]
  <2>1. \A k \in 0..n : k \in B
    <3> HIDE DEF B
    <3>1. QED
      BY <1>1, <1>9, UpTo
  <2>2. n \in 0..n
    BY <1>1
  <2>3. QED
    BY <2>1, <2>2
<1>11. QED
  BY <1>2, <1>4, <1>5, <1>6, <1>10 DEF t

LEMMA TotalIsMonotonic ==
  ASSUME NEW r \in Seq(Nat), NEW s \in Seq(Nat), Len(r) = Len(s),
         \A i \in 1..Len(r) : r[i] <= s[i]
  PROVE  Total(r) <= Total(s)
<1> DEFINE n == Len(r)
<1>1. n \in Nat /\ \A i \in 1..n : r[i] \in Nat /\ s[i] \in Nat /\ r[i] <= s[i]
  OBVIOUS
<1>2. PICK f : Total(r) = f[n] /\ AddsUp(f, n, r)
  BY RunningSums
<1>3. PICK g : Total(s) = g[n] /\ AddsUp(g, n, s)
  BY RunningSums
<1> DEFINE S == {i \in 0..n : f[i] <= g[i]}
<1> HIDE DEF n
<1>4. 0 \in S /\ \A k \in 1..n : k - 1 \in S => k \in S
  <2>1. 0 \in S
    BY <1>1, <1>2, <1>3 DEF AddsUp
  <2>2. ASSUME NEW k \in 1..n, k - 1 \in S PROVE k \in S
    <3>1. k \in 0..n /\ k - 1 \in 0..n /\ f[k - 1] <= g[k - 1]
      BY <1>1, <2>2
    <3> DEFINE a == f[k - 1]
               b == g[k - 1]
               c == r[k]
               d == s[k]
    <3>2. f[k] = a + c /\ a \in Nat /\ g[k] = b + d /\ b \in Nat /\ a <= b
      BY <1>2, <1>3, <3>1 DEF AddsUp
    <3>3. c \in Nat /\ d \in Nat /\ c <= d
      BY <1>1
    <3> HIDE DEF a, b, c, d
    <3>4. f[k] <= g[k]
      BY ONLY <3>2, <3>3
    <3>5. QED
      BY <3>1, <3>4
  <2>3. QED
    BY <2>1, <2>2
<1>5. n \in S
  <2> HIDE DEF S
  <2>1. \A k \in 0..n : k \in S
    BY <1>1, <1>4, UpTo
  <2>2. QED
    BY <1>1, <2>1
<1>6. QED
  BY <1>2, <1>3, <1>5

LEMMA TotalIsBounded ==
  ASSUME NEW s \in Seq(Nat), NEW m \in Nat, \A i \in 1..Len(s) : s[i] <= m
  PROVE  Total(s) <= Len(s) * m
<1> DEFINE n == Len(s)
<1>1. n \in Nat /\ \A i \in 1..n : s[i] \in Nat /\ s[i] <= m
  OBVIOUS
<1>2. PICK g : Total(s) = g[n] /\ AddsUp(g, n, s)
  BY RunningSums
<1> DEFINE S == {i \in 0..n : g[i] <= i * m}
<1> HIDE DEF n
<1>3. 0 \in S /\ \A k \in 1..n : k - 1 \in S => k \in S
  <2>1. 0 \in S
    BY <1>1, <1>2 DEF AddsUp
  <2>2. ASSUME NEW k \in 1..n, k - 1 \in S PROVE k \in S
    <3>1. k \in 0..n /\ k - 1 \in 0..n /\ g[k - 1] <= (k - 1) * m
      BY <1>1, <2>2
    <3>2. g[k] = g[k - 1] + s[k] /\ g[k - 1] \in Nat /\ s[k] \in Nat /\ s[k] <= m
      BY <1>1, <1>2, <3>1 DEF AddsUp
    <3>3. k * m = (k - 1) * m + m /\ (k - 1) * m \in Nat /\ k * m \in Nat
      BY <3>1
    <3> DEFINE a == (k - 1) * m
               b == k * m
               c == g[k - 1]
    <3>4. c <= a /\ b = a + m /\ a \in Nat /\ b \in Nat /\ c \in Nat
      BY <3>1, <3>2, <3>3
    <3>5. g[k] = c + s[k] /\ s[k] \in Nat /\ s[k] <= m
      BY <3>2
    <3> HIDE DEF a, b, c
    <3>6. g[k] <= b
      BY ONLY m \in Nat, <3>4, <3>5
    <3>7. QED
      BY <3>1, <3>6 DEF b
  <2>3. QED
    BY <2>1, <2>2
<1>4. n \in S
  <2> HIDE DEF S
  <2>1. \A k \in 0..n : k \in S
    BY <1>1, <1>3, UpTo
  <2>2. QED
    BY <1>1, <2>1
<1>5. QED
  BY <1>2, <1>4 DEF n

-----------------------------------------------------------------------------
(* What an item may still lead to *)

Repeated(e, R) == e.bus = "threat" /\ Fingerprint(e) \in R

Named(e) == {e.user, e.ip, e.device} \ {None}

\* What the engines publish about one another's findings: an anomaly, an
\* alarm, a mismatch.  Nothing in it is unusual.
Notice(e) ==
  /\ e.bus = "threat" /\ e.volume = 0
  /\ e.type \in {"anomalous_behavior", "device_health_fail", "physical_cyber_mismatch"}

\* What the physical engine publishes of a sighting, which is one again.
Echo(e) ==
  e.bus = "threat" /\ e.volume = 0 /\ e.type = "physical_intrusion" /\ e.motion = 0

\* The echoes of a sighting that the filter does not know when it is handled.
Fresh(e, R) ==
  {Fingerprint(y) : y \in PhysicalAnomalies(e)} \ (R \cup {Fingerprint(e)})

EchoWeight(n) == IF n = 0 THEN 6 ELSE IF n = 1 THEN 16 ELSE 36

Heaviest == 128

\* At least the number of deliveries an item leads to, its own included, when
\* R is what the filter remembers.
Weight(e, R) ==
  IF Repeated(e, R) THEN 1
  ELSE IF e.bus = "finding"
       THEN IF Named(e) = {} THEN 1 ELSE IF e.device \notin Devices THEN 2 ELSE 6
  ELSE IF e.bus = "request" THEN 2
  ELSE IF Notice(e) THEN 4
  ELSE IF Echo(e) THEN EchoWeight(Cardinality(Fresh(e, R)))
  ELSE Heaviest

Weights(q, R) == [i \in 1..Len(q) |-> Weight(q[i], R)]
Load(q, R) == Total(Weights(q, R))

LEMMA WeightBounds ==
  \A e, R : Weight(e, R) \in Nat /\ 1 <= Weight(e, R) /\ Weight(e, R) <= Heaviest
<1> SUFFICES ASSUME NEW e, NEW R
             PROVE  Weight(e, R) \in Nat /\ 1 <= Weight(e, R) /\ Weight(e, R) <= Heaviest
  OBVIOUS
<1>1. EchoWeight(Cardinality(Fresh(e, R))) \in {6, 16, 36}
  BY DEF EchoWeight
<1>2. Weight(e, R) \in {1, 2, 4, 6, 16, 36, 128}
  BY <1>1 DEF Weight, Heaviest
<1>3. QED
  BY <1>2 DEF Heaviest

LEMMA AtMostTwo ==
  ASSUME NEW a, NEW b, NEW S, S \subseteq {a, b}
  PROVE  IsFiniteSet(S) /\ Cardinality(S) \in Nat /\ Cardinality(S) <= 2
<1> DEFINE P == {a}
           Q == {a, b}
<1>1. Q = P \cup {b}
  OBVIOUS
<1>2. IsFiniteSet(P) /\ Cardinality(P) = 1 /\ IsFiniteSet(Q)
  BY FS_Singleton, FewAreFinite
<1> HIDE DEF P, Q
<1>3. Cardinality(Q) \in {1, 2}
  BY <1>1, <1>2, FS_AddElement
<1>4. IsFiniteSet(S) /\ Cardinality(S) <= Cardinality(Q)
  BY <1>2, FS_Subset DEF Q
<1>5. Cardinality(S) \in Nat
  BY <1>4, FS_CardinalityType
<1>6. QED
  BY <1>3, <1>4, <1>5

LEMMA AtMostThree ==
  ASSUME NEW a, NEW b, NEW c, NEW S, S \subseteq {a, b, c}
  PROVE  IsFiniteSet(S) /\ Cardinality(S) \in Nat /\ Cardinality(S) <= 3
<1> DEFINE Q == {a, b}
           T == {a, b, c}
<1>1. T = Q \cup {c} /\ Q \subseteq {a, b}
  OBVIOUS
<1>2. IsFiniteSet(Q) /\ Cardinality(Q) \in Nat /\ Cardinality(Q) <= 2
  <2> HIDE DEF Q
  <2>1. QED
    BY <1>1, AtMostTwo
<1>0. S \subseteq T
  OBVIOUS
<1> HIDE DEF Q, T
<1>3. IsFiniteSet(T) /\ Cardinality(T) \in Nat /\ Cardinality(T) <= 3
  BY <1>1, <1>2, FS_AddElement
<1>4. IsFiniteSet(S) /\ Cardinality(S) <= Cardinality(T)
  BY <1>0, <1>3, FS_Subset
<1>5. Cardinality(S) \in Nat
  BY <1>4, FS_CardinalityType
<1>6. QED
  BY <1>3, <1>4, <1>5

\* What is published of a sighting: for its zone, its motion, who followed.
LEMMA AnomaliesOf ==
  ASSUME NEW e
  PROVE  LET a == PhysicalAnomaly(e, "zone", e.tailgate)
             b == PhysicalAnomaly(e, "motion", e.tailgate)
             c == PhysicalAnomaly(e, "tailgate", TRUE)
         IN /\ PhysicalAnomalies(e) \subseteq {a, b, c}
            /\ e.motion = 0 => PhysicalAnomalies(e) \subseteq {a, c}
<1> DEFINE a == PhysicalAnomaly(e, "zone", e.tailgate)
           b == PhysicalAnomaly(e, "motion", e.tailgate)
           c == PhysicalAnomaly(e, "tailgate", TRUE)
           S == PhysicalAnomalies(e)
           moved == e.motion > 850 /\ ~e.badge /\ ~e.face
           A == IF e.zone \in GuardedZones /\ ~(e.badge /\ e.face) THEN {a} ELSE {}
           B == IF moved THEN {b} ELSE {}
           C == IF e.tailgate THEN {c} ELSE {}
<1>1. S = A \cup B \cup C
  BY Zenon DEF PhysicalAnomalies
<1>2. e.motion = 0 => ~moved
  OBVIOUS
<1> HIDE DEF a, b, c, S, moved
<1>3. A \subseteq {a} /\ B \subseteq {b} /\ C \subseteq {c} /\ (~moved => B = {})
  BY Zenon
<1> HIDE DEF A, B, C
<1>4. S \subseteq {a, b, c} /\ (e.motion = 0 => S \subseteq {a, c})
  BY <1>1, <1>2, <1>3
<1>5. QED
  BY <1>4 DEF a, b, c, S

\* There are three echoes at most.
LEMMA EchoesAreFew ==
  ASSUME NEW e
  PROVE  /\ IsFiniteSet(PhysicalAnomalies(e)) /\ Cardinality(PhysicalAnomalies(e)) <= 3
         /\ \A R : IsFiniteSet(Fresh(e, R))
<1> DEFINE S == PhysicalAnomalies(e)
<1>1. \E a, b, c : S \subseteq {a, b, c}
  <2>1. S \subseteq {PhysicalAnomaly(e, "zone", e.tailgate),
                     PhysicalAnomaly(e, "motion", e.tailgate),
                     PhysicalAnomaly(e, "tailgate", TRUE)}
    BY AnomaliesOf
  <2> HIDE DEF S
  <2>2. QED
    BY <2>1, Zenon
<1>0. PICK a, b, c : S \subseteq {a, b, c}
  BY <1>1
<1> HIDE DEF S
<1>2. IsFiniteSet(S) /\ Cardinality(S) <= 3
  BY <1>0, AtMostThree
<1>3. ASSUME NEW R PROVE IsFiniteSet(Fresh(e, R))
  <2>1. Fresh(e, R) \subseteq {Fingerprint(a), Fingerprint(b), Fingerprint(c)}
    <3> SUFFICES ASSUME NEW y \in S
                 PROVE  Fingerprint(y) \in {Fingerprint(a), Fingerprint(b), Fingerprint(c)}
      BY DEF Fresh, S
    <3>1. y = a \/ y = b \/ y = c
      BY <1>0
    <3>2. QED
      BY <3>1
  <2>2. QED
    BY <2>1, AtMostThree
<1>4. QED
  BY <1>2, <1>3 DEF S

LEMMA FewerEchoesWeighLess ==
  \A m, n \in Nat : m <= n => EchoWeight(m) <= EchoWeight(n)
BY DEF EchoWeight

\* The more the filter remembers, the less is left to happen.
LEMMA WeightFalls ==
  ASSUME NEW e, NEW R, NEW S, R \subseteq S
  PROVE  Weight(e, S) <= Weight(e, R)
<1>1. CASE Repeated(e, S)
  <2>1. Weight(e, S) = 1
    BY <1>1, Zenon DEF Weight
  <2>2. QED
    BY <2>1, WeightBounds
<1>2. CASE ~Repeated(e, S)
  <2>1. ~Repeated(e, R)
    BY <1>2 DEF Repeated
  <2> DEFINE m == Cardinality(Fresh(e, S))
             n == Cardinality(Fresh(e, R))
  <2>2. EchoWeight(m) <= EchoWeight(n)
    <3>1. Fresh(e, S) \subseteq Fresh(e, R)
      BY DEF Fresh
    <3>2. IsFiniteSet(Fresh(e, R)) /\ IsFiniteSet(Fresh(e, S))
      BY EchoesAreFew
    <3>3. m <= n /\ m \in Nat /\ n \in Nat
      BY <3>1, <3>2, FS_Subset, FS_CardinalityType
    <3> HIDE DEF m, n
    <3>4. QED
      BY <3>3, FewerEchoesWeighLess
  <2> DEFINE C == e.bus # "finding" /\ e.bus # "request" /\ ~Notice(e) /\ Echo(e)
  <2>3. C => Weight(e, S) = EchoWeight(m) /\ Weight(e, R) = EchoWeight(n)
    BY <1>2, <2>1, Zenon DEF Weight
  <2>4. ~C => Weight(e, S) = Weight(e, R)
    BY <1>2, <2>1, Zenon DEF Weight
  <2>5. Weight(e, S) \in Nat
    BY WeightBounds
  <2> HIDE DEF C, m, n
  <2>6. QED
    BY <2>2, <2>3, <2>4, <2>5
<1>3. QED
  BY <1>1, <1>2

LEMMA WeightsAreNat ==
  ASSUME NEW q, Carries(q)
  PROVE  /\ \A R : Weights(q, R) \in Seq(Nat) /\ Len(Weights(q, R)) = Len(q)
                   /\ \A i \in 1..Len(q) : Weights(q, R)[i] = Weight(q[i], R)
         /\ Len(q) \in Nat
<1>1. Len(q) \in Nat
  BY DEF Carries
<1>2. ASSUME NEW R
      PROVE  /\ Weights(q, R) \in Seq(Nat) /\ Len(Weights(q, R)) = Len(q)
             /\ \A i \in 1..Len(q) : Weights(q, R)[i] = Weight(q[i], R)
  <2> DEFINE n == Len(q)
  <2>1. \A i \in 1..n : Weight(q[i], R) \in Nat
    BY WeightBounds
  <2>2. Weights(q, R) = [i \in 1..n |-> Weight(q[i], R)]
    BY DEF Weights
  <2>3. QED
    BY <1>1, <2>1, <2>2
<1>3. QED
  BY <1>1, <1>2

LEMMA LoadIsNat == ASSUME NEW q, Carries(q), NEW R PROVE Load(q, R) \in Nat
BY WeightsAreNat, TotalIsNat DEF Load

LEMMA LoadOfNone == \A R : Load(<<>>, R) = 0
<1> SUFFICES ASSUME NEW R PROVE Load(<<>>, R) = 0
  OBVIOUS
<1>1. Weights(<<>>, R) \in Seq(Nat) /\ Len(Weights(<<>>, R)) = 0
  <2>1. Carries(<<>>)
    BY CarriesNone
  <2>2. Len(<<>>) = 0
    OBVIOUS
  <2>3. QED
    BY <2>1, <2>2, WeightsAreNat
<1>2. PICK g : /\ Total(Weights(<<>>, R)) = g[Len(Weights(<<>>, R))]
               /\ AddsUp(g, Len(Weights(<<>>, R)), Weights(<<>>, R))
  BY <1>1, RunningSums
<1>3. QED
  BY <1>1, <1>2 DEF Load, AddsUp

LEMMA LoadOfBoth ==
  ASSUME NEW q, NEW r, Carries(q), Carries(r), NEW R
  PROVE  Load(q \o r, R) = Load(q, R) + Load(r, R)
<1> DEFINE u == Weights(q, R)
           v == Weights(r, R)
           w == Weights(q \o r, R)
<1>1. /\ u \in Seq(Nat) /\ Len(u) = Len(q) /\ Len(q) \in Nat
      /\ \A i \in 1..Len(q) : u[i] = Weight(q[i], R)
  BY WeightsAreNat
<1>2. /\ v \in Seq(Nat) /\ Len(v) = Len(r) /\ Len(r) \in Nat
      /\ \A i \in 1..Len(r) : v[i] = Weight(r[i], R)
  BY WeightsAreNat
<1>3. /\ w \in Seq(Nat) /\ Len(w) = Len(q \o r)
      /\ \A i \in 1..Len(q \o r) : w[i] = Weight((q \o r)[i], R)
  BY WeightsAreNat, CarriesBoth
<1>4. /\ Len(q \o r) = Len(q) + Len(r)
      /\ \A i \in 1..Len(q) + Len(r) :
           (q \o r)[i] = IF i <= Len(q) THEN q[i] ELSE r[i - Len(q)]
  BY DEF Carries
<1>5. /\ u \o v \in Seq(Nat) /\ Len(u \o v) = Len(q) + Len(r)
      /\ \A i \in 1..Len(q) + Len(r) :
           (u \o v)[i] = IF i <= Len(q) THEN u[i] ELSE v[i - Len(q)]
  <2>1. u \in Seq(Nat) /\ v \in Seq(Nat) /\ Len(u) = Len(q) /\ Len(v) = Len(r)
    BY <1>1, <1>2
  <2> HIDE DEF u, v
  <2>2. /\ u \o v \in Seq(Nat) /\ Len(u \o v) = Len(u) + Len(v)
        /\ \A i \in 1..Len(u) + Len(v) :
             (u \o v)[i] = IF i <= Len(u) THEN u[i] ELSE v[i - Len(u)]
    BY ONLY <2>1, ConcatProperties
  <2>3. QED
    BY <2>1, <2>2, Zenon
<1>6. Load(q, R) = Total(u) /\ Load(r, R) = Total(v) /\ Load(q \o r, R) = Total(w)
  BY DEF Load
<1> DEFINE m == Len(q)
           n == Len(r)
           t == q \o r
           x == u \o v
<1>7. Total(x) = Total(u) + Total(v)
  BY <1>1, <1>2, TotalOfBoth
<1> HIDE DEF u, v, w
<1>0. w \in Seq(Nat) /\ x \in Seq(Nat) /\ Len(w) = m + n /\ Len(x) = m + n
  <2>1. Len(w) = Len(t) /\ Len(t) = m + n
    BY <1>3, <1>4, Zenon
  <2>2. w \in Seq(Nat) /\ x \in Seq(Nat) /\ Len(x) = m + n
    BY <1>3, <1>5, Zenon
  <2>3. QED
    BY <2>1, <2>2, Zenon
<1> HIDE DEF m, n, t, x
<1>8. \A i \in 1..m + n : w[i] = x[i]
  <2> SUFFICES ASSUME NEW i \in 1..m + n PROVE w[i] = x[i]
    OBVIOUS
  <2>1. CASE i <= m
    <3>1. i \in 1..m
      BY <1>1, <2>1 DEF m
    <3>2. w[i] = Weight(q[i], R) /\ x[i] = u[i]
      BY <1>3, <1>4, <1>5, <2>1 DEF m, n, t, x
    <3>3. QED
      BY <1>1, <3>1, <3>2 DEF m
  <2>2. CASE ~(i <= m)
    <3>1. i - m \in 1..n
      BY <1>1, <1>2, <2>2 DEF m, n
    <3>2. w[i] = Weight(r[i - m], R) /\ x[i] = v[i - m]
      BY <1>3, <1>4, <1>5, <2>2 DEF m, n, t, x
    <3>3. QED
      BY <1>2, <3>1, <3>2 DEF n
  <2>3. QED
    BY <2>1, <2>2
<1>9. w = x
  BY <1>0, <1>8, SeqEqual
<1>10. QED
  BY <1>6, <1>7, <1>9

LEMMA CarriesOne == \A e : WellFormed(e) => Carries(<<e>>)
<1> SUFFICES ASSUME NEW e, WellFormed(e) PROVE Carries(<<e>>)
  OBVIOUS
<1> DEFINE S == {e}
<1>1. <<e>> \in Seq(S) /\ \A x \in S : WellFormed(x)
  OBVIOUS
<1> HIDE DEF S
<1>2. QED
  BY <1>1, Zenon DEF Carries

LEMMA LoadOfOne ==
  ASSUME NEW e, WellFormed(e), NEW R PROVE Load(<<e>>, R) = Weight(e, R)
<1> DEFINE w == Weights(<<e>>, R)
<1>1. Carries(<<e>>) /\ Len(<<e>>) = 1 /\ <<e>>[1] = e
  BY CarriesOne
<1>2. w \in Seq(Nat) /\ Len(w) = 1 /\ w[1] = Weight(e, R)
  <2> DEFINE q == <<e>>
  <2>1. 1 \in 1..1 /\ Carries(q) /\ Len(q) = 1 /\ q[1] = e
    BY <1>1
  <2>2. w = Weights(q, R)
    OBVIOUS
  <2> HIDE DEF q, w
  <2>3. QED
    BY <2>1, <2>2, WeightsAreNat
<1> HIDE DEF w
<1>3. PICK g : Total(w) = g[Len(w)] /\ AddsUp(g, Len(w), w)
  BY <1>2, RunningSums
<1>4. g[0] = 0 /\ g[1] = g[1 - 1] + w[1]
  BY <1>2, <1>3 DEF AddsUp
<1>5. Total(w) = w[1]
  BY <1>2, <1>3, <1>4, WeightBounds
<1>6. QED
  BY <1>2, <1>5 DEF Load, w

LEMMA LoadOfHead ==
  ASSUME NEW q, Carries(q), q # <<>>, NEW R
  PROVE  Load(q, R) = Weight(Head(q), R) + Load(Tail(q), R)
<1> DEFINE h == Head(q)
           t == Tail(q)
<1>1. WellFormed(h) /\ Carries(t)
  BY CarriesParts
<1>2. q = <<h>> \o t
  BY DEF Carries
<1>3. Carries(<<h>>)
  BY <1>1, CarriesOne
<1> HIDE DEF h, t
<1>4. Load(<<h>> \o t, R) = Load(<<h>>, R) + Load(t, R)
  BY <1>1, <1>3, LoadOfBoth
<1>5. Load(<<h>>, R) = Weight(h, R)
  BY <1>1, LoadOfOne
<1>6. QED
  BY <1>2, <1>4, <1>5 DEF h, t

LEMMA LoadFalls ==
  ASSUME NEW q, Carries(q), NEW R, NEW S, R \subseteq S
  PROVE  Load(q, S) <= Load(q, R)
<1> DEFINE u == Weights(q, S)
           v == Weights(q, R)
           n == Len(q)
<1>1. /\ u \in Seq(Nat) /\ v \in Seq(Nat) /\ Len(u) = n /\ Len(v) = n
      /\ \A i \in 1..n : u[i] = Weight(q[i], S) /\ v[i] = Weight(q[i], R)
  BY WeightsAreNat
<1> HIDE DEF u, v
<1>2. \A i \in 1..Len(u) : u[i] <= v[i]
  BY <1>1, WeightFalls
<1> HIDE DEF n
<1>3. Total(u) <= Total(v)
  BY <1>1, <1>2, TotalIsMonotonic
<1>4. QED
  BY <1>3 DEF Load, u, v

\* A handler that publishes a few items of a weight.
LEMMA LoadOfFew ==
  ASSUME NEW S, Publishable(S), NEW c \in Nat, Cardinality(S) <= c,
         NEW m \in Nat, NEW R, \A x \in S : Weight(x, R) <= m
  PROVE  Load(InOrder(S), R) <= c * m
<1> DEFINE q == InOrder(S)
           n == Cardinality(S)
           w == Weights(q, R)
<1>1. IsFiniteSet(S) /\ n \in Nat
  BY FS_CardinalityType DEF Publishable
<1>2. q \in Seq(S) /\ Carries(q)
  BY <1>1, InOrderIsSeq, InOrderCarries
<1>3. Len(q) = n
  <2>1. PICK f \in [1..n -> S] : {f[i] : i \in DOMAIN f} = S
    <3>1. PICK f \in Bijection(1..n, S) : TRUE
      BY <1>1, FS_CardinalityType DEF ExistsBijection
    <3>2. f \in [1..n -> S] /\ \A x \in S : \E i \in 1..n : f[i] = x
      BY <3>1 DEF Bijection, Surjection
    <3>3. QED
      BY <3>2
  <2>2. q \in [1..n -> S]
    BY <2>1 DEF InOrder
  <2>3. QED
    BY <1>1, <2>2
<1> HIDE DEF q, n
<1>4. /\ w \in Seq(Nat) /\ Len(w) = n
      /\ \A i \in 1..n : w[i] = Weight(q[i], R) /\ q[i] \in S
  BY <1>2, <1>3, WeightsAreNat
<1> HIDE DEF w
<1>5. \A i \in 1..Len(w) : w[i] <= m
  BY <1>4
<1>6. Total(w) <= n * m
  BY <1>4, <1>5, TotalIsBounded
<1>7. n * m <= c * m
  <2>1. PICK k \in Nat : c = n + k
    <3>1. c - n \in Nat /\ c = n + (c - n)
      BY <1>1 DEF n
    <3>2. QED
      BY <3>1
  <2>2. (n + k) * m = n * m + k * m /\ k * m \in Nat /\ n * m \in Nat
    BY <1>1
  <2>3. QED
    BY <2>1, <2>2
<1>8. Total(w) \in Nat /\ n * m \in Nat /\ c * m \in Nat
  BY <1>1, <1>4, TotalIsNat
<1>9. QED
  BY <1>6, <1>7, <1>8 DEF Load, w, q

-----------------------------------------------------------------------------
(* How much the engines publish of an item *)

LEMMA ThreatIsBlank ==
  ASSUME NEW type, NEW sev
  PROVE  LET t == Threat(type, sev)
         IN /\ DOMAIN t = DOMAIN Blank /\ t.bus = "threat" /\ t.type = type
            /\ t.volume = 0 /\ t.motion = 0
            /\ t.user = None /\ t.ip = None /\ t.device = None
<1>1. /\ Blank.bus = "threat" /\ Blank.volume = 0 /\ Blank.motion = 0
      /\ Blank.user = None /\ Blank.ip = None /\ Blank.device = None
  BY DEF Blank
<1>2. QED
  BY <1>1, BlankFields DEF Threat

LEMMA FindingIsBlank ==
  ASSUME NEW agent, NEW type, NEW sev, NEW conf
  PROVE  LET f == Finding(agent, type, sev, conf)
         IN /\ DOMAIN f = DOMAIN Blank /\ f.bus = "finding"
            /\ f.user = None /\ f.ip = None /\ f.device = None
<1>1. Blank.user = None /\ Blank.ip = None /\ Blank.device = None
  BY DEF Blank
<1>2. QED
  BY <1>1, BlankFields DEF Finding

LEMMA LightWeights ==
  ASSUME NEW x, NEW R
  PROVE  /\ x.bus = "finding" /\ x.device \notin Devices => Weight(x, R) <= 2
         /\ x.bus = "finding" /\ Named(x) = {} => Weight(x, R) <= 1
         /\ Notice(x) => Weight(x, R) <= 4
         /\ Echo(x) => Weight(x, R) <= 36
<1>1. ASSUME x.bus = "finding", x.device \notin Devices PROVE Weight(x, R) <= 2
  <2>1. Weight(x, R) \in {1, 2}
    BY <1>1, Zenon DEF Weight, Repeated
  <2>2. QED
    BY <2>1
<1>2. ASSUME x.bus = "finding", Named(x) = {} PROVE Weight(x, R) <= 1
  <2>1. Weight(x, R) = 1
    BY <1>2, Zenon DEF Weight
  <2>2. QED
    BY <2>1
<1>3. ASSUME Notice(x) PROVE Weight(x, R) <= 4
  <2>1. x.bus # "finding" /\ x.bus # "request"
    BY <1>3 DEF Notice
  <2>2. Weight(x, R) \in {1, 4}
    BY <1>3, <2>1, Zenon DEF Weight
  <2>3. QED
    BY <2>2
<1>4. ASSUME Echo(x) PROVE Weight(x, R) <= 36
  <2>1. x.bus # "finding" /\ x.bus # "request" /\ ~Notice(x)
    BY <1>4 DEF Notice, Echo
  <2>2. EchoWeight(Cardinality(Fresh(x, R))) \in {6, 16, 36}
    BY DEF EchoWeight
  <2>3. Weight(x, R) \in {1, EchoWeight(Cardinality(Fresh(x, R)))}
    BY <1>4, <2>1, Zenon DEF Weight
  <2>4. QED
    BY <2>2, <2>3
<1>5. QED
  BY <1>1, <1>2, <1>3, <1>4

\* At most c items of weight m at most.
Few(S, c, m, R) ==
  Publishable(S) /\ Cardinality(S) <= c /\ \A x \in S : Weight(x, R) <= m

LEMMA NoneIsFew == \A c, m \in Nat : \A R : Few({}, c, m, R)
<1>1. Publishable({}) /\ Cardinality({}) = 0
  BY NoneIsPublishable, FS_EmptySet
<1> DEFINE S == {}
<1>2. \A x \in S : FALSE
  OBVIOUS
<1>3. Publishable(S) /\ Cardinality(S) = 0
  BY <1>1
<1> HIDE DEF S
<1>4. QED
  BY <1>2, <1>3 DEF Few, S

LEMMA OneIsFew ==
  ASSUME NEW x, WellFormed(x), NEW R, NEW m, Weight(x, R) <= m
  PROVE  Few({x}, 1, m, R)
BY OneIsPublishable, FS_Singleton DEF Few

\* The zero-trust agent reports on a user or an address.
LEMMA AgentFew ==
  ASSUME NEW e, WellFormed(e)
  PROVE  /\ \A R : Few(AgentPublishes(e), 1, 2, R)
         /\ e.bus # "threat" => AgentPublishes(e) = {}
<1>1. CASE e.bus # "threat" \/ e.type \notin AgentHandles
  <2>1. AgentPublishes(e) = {}
    BY <1>1 DEF AgentPublishes
  <2>2. QED
    BY <2>1, NoneIsFew
<1>2. CASE e.bus = "threat" /\ e.type \in AgentHandles
  <2> DEFINE f == Finding("ZeroTrustAgent", e.type, AgentFindingOn(e)[1],
                          AgentFindingOn(e)[2])
             a == [f EXCEPT !.ip = IF e.ip = None THEN Unknown ELSE e.ip]
             b == [f EXCEPT !.user = Subject(e)]
             x == IF e.type = "network_intrusion" THEN a ELSE b
  <2>1. AgentPublishes(e) = {x}
    BY <1>2 DEF AgentPublishes
  <2>2. WellFormed(x)
    BY <2>1, ReportsArePublishable DEF Publishable
  <2>3. DOMAIN f = DOMAIN Blank /\ f.bus = "finding" /\ f.device = None
    BY FindingIsBlank
  <2> HIDE DEF f
  <2>4. x.bus = "finding" /\ x.device = None
    BY <2>3
  <2> HIDE DEF x
  <2>5. \A R : Weight(x, R) <= 2
    BY <2>4, LightWeights, DeviceTrustAssumption
  <2>6. QED
    BY <1>2, <2>1, <2>2, <2>5, OneIsFew
<1>3. QED
  BY <1>1, <1>2

\* The arbiter's alert names nobody in the fields the engines look at.
LEMMA ArbiterFew ==
  ASSUME ArbiterInv, NEW e, WellFormed(e)
  PROVE  /\ \A R : Few(ArbiterPublishes(e), 1, 1, R)
         /\ e.bus = "finding" /\ Named(e) = {} => ArbiterPublishes(e) = {}
<1> DEFINE n == ArbiterEntity(e)
<1>1. CASE n \in Entities /\ Alerts(n, e)
  <2> DEFINE c == ScoreAfter(n, e)
             f == Finding("MetaRiskArbiter", "correlated_attack", RiskLevel(c), c)
             x == RiskAlert(n, e)
  <2>1. ArbiterPublishes(e) = {x}
    BY <1>1, Zenon DEF ArbiterPublishes, n
  <2>2. WellFormed(x)
    BY <1>1, RiskAlertWellFormed
  <2>3. x = [f EXCEPT !.entity = n]
    BY Zenon DEF RiskAlert, x, f, c
  <2> HIDE DEF n, c
  <2>4. /\ DOMAIN f = DOMAIN Blank /\ f.bus = "finding"
        /\ f.user = None /\ f.ip = None /\ f.device = None
    BY FindingIsBlank
  <2> HIDE DEF f
  <2>5. x.bus = "finding" /\ Named(x) = {}
    <3>1. x.bus = "finding" /\ x.user = None /\ x.ip = None /\ x.device = None
      BY <2>3, <2>4
    <3> HIDE DEF x
    <3>2. QED
      BY <3>1 DEF Named
  <2> HIDE DEF x
  <2>6. \A R : Weight(x, R) <= 1
    BY <2>5, LightWeights
  <2>7. QED
    <3>1. \A R : Few(ArbiterPublishes(e), 1, 1, R)
      BY <2>1, <2>2, <2>6, OneIsFew
    <3>2. ~(e.bus = "finding" /\ Named(e) = {})
      <4> SUFFICES ASSUME e.bus = "finding", Named(e) = {} PROVE FALSE
        OBVIOUS
      <4>1. e.user = None /\ e.ip = None /\ e.device = None
        BY DEF Named
      <4>2. n = None
        BY <4>1 DEF n, ArbiterEntity, FirstOf
      <4>3. QED
        BY <1>1, <4>2, MetaRiskAssumption
    <3>3. QED
      BY <3>1, <3>2
<1>2. CASE ~(n \in Entities /\ Alerts(n, e))
  <2>1. ArbiterPublishes(e) = {}
    BY <1>2, Zenon DEF ArbiterPublishes, n
  <2>2. QED
    BY <2>1, NoneIsFew
<1>3. QED
  BY <1>1, <1>2

LEMMA ImageIsNoLarger ==
  ASSUME NEW S, IsFiniteSet(S), NEW f, DOMAIN f = S, f = [x \in S |-> f[x]]
  PROVE  /\ IsFiniteSet({f[x] : x \in S})
         /\ Cardinality({f[x] : x \in S}) <= Cardinality(S)
<1> DEFINE T == {f[x] : x \in S}
<1>1. f \in Surjection(S, T)
  <2>1. f \in [S -> T]
    OBVIOUS
  <2>2. \A t \in T : \E s \in S : f[s] = t
    OBVIOUS
  <2> HIDE DEF T
  <2>3. QED
    BY <2>1, <2>2 DEF Surjection
<1> HIDE DEF T
<1>2. IsFiniteSet(T) /\ Cardinality(T) <= Cardinality(S)
  BY <1>1, FS_Surjection
<1>3. QED
  BY <1>2 DEF T

\* Without a volume of data there is no anomaly: an odd hour and an odd
\* network are not enough.
LEMMA QuietIsUsual ==
  ASSUME NEW e, e.bus = "threat", e.volume = 0 PROVE Anomalous(e) = {}
<1>1. \A n : AnomalyScore(n, e) \in Int /\ AnomalyScore(n, e) <= 60
  <2> SUFFICES ASSUME NEW n
               PROVE  AnomalyScore(n, e) \in Int /\ AnomalyScore(n, e) <= 60
    OBVIOUS
  <2> DEFINE A == e.hour \notin LearnHour(dnaHours[n], e.hour)
             B == e.volume > 0 /\ Spike(LearnVolume(volumes[n], e.volume), e.volume)
             C == e.network # None /\ dnaNetworks[n] # <<>>
                  /\ \A i \in DOMAIN dnaNetworks[n] : dnaNetworks[n][i] # e.network
  <2>1. AnomalyScore(n, e)
          = (IF A THEN 40 ELSE 0) + (IF B THEN 50 ELSE 0) + (IF C THEN 20 ELSE 0)
    BY Zenon DEF AnomalyScore
  <2>2. ~B
    OBVIOUS
  <2> HIDE DEF A, B, C
  <2>3. QED
    BY <2>1, <2>2
<1>2. \A n : ~IsAnomaly(n, e)
  BY <1>1 DEF IsAnomaly
<1>3. QED
  BY <1>2 DEF Anomalous

\* The DNA engine reports on the names of an item, or on its source.
LEMMA DNAFew ==
  ASSUME NEW e, WellFormed(e)
  PROVE  /\ \A R : Few(DNAPublishes(e), 3, 4, R)
         /\ e.bus # "threat" \/ e.volume = 0 => DNAPublishes(e) = {}
<1> DEFINE S == Anomalous(e)
           f == [n \in S |-> AnomalyReport(n, e)]
<1>1. e.bus # "threat" \/ e.volume = 0 => DNAPublishes(e) = {}
  BY OnlyThreatsAreUnusual, QuietIsUsual DEF DNAPublishes
<1>2. IsFiniteSet(S) /\ Cardinality(S) \in Nat /\ Cardinality(S) <= 3
  <2>1. CASE e.bus # "threat"
    BY <2>1, OnlyThreatsAreUnusual, FS_EmptySet
  <2>2. CASE e.bus = "threat"
    <3>1. \/ S \subseteq {e.user, e.ip, e.device}
          \/ S \subseteq {e.source, e.source, e.source}
      BY <2>2 DEF Anomalous, Profiles
    <3> HIDE DEF S
    <3>2. QED
      BY <3>1, AtMostThree
  <2>3. QED
    BY <2>1, <2>2
<1>3. DNAPublishes(e) = {f[n] : n \in S} /\ DOMAIN f = S /\ f = [n \in S |-> f[n]]
  BY DEF DNAPublishes
<1>4. \A x \in DNAPublishes(e) : Notice(x)
  <2> SUFFICES ASSUME NEW n PROVE Notice(AnomalyReport(n, e))
    BY DEF DNAPublishes
  <2> DEFINE v == AnomalySeverity(n, e)
             t == Threat("anomalous_behavior", v)
             x == AnomalyReport(n, e)
  <2>1. x = [t EXCEPT !.source = "BehavioralDNAEngine", !.entity = n, !.deviation = TRUE,
                      !.hour = e.hour]
    BY DEF AnomalyReport
  <2> HIDE DEF v, x
  <2>2. /\ DOMAIN t = DOMAIN Blank /\ t.bus = "threat" /\ t.type = "anomalous_behavior"
        /\ t.volume = 0
    BY ThreatIsBlank
  <2> HIDE DEF t
  <2>3. x.bus = "threat" /\ x.type = "anomalous_behavior" /\ x.volume = 0
    BY <2>1, <2>2
  <2>4. QED
    BY <2>3 DEF Notice, x
<1> HIDE DEF S, f
<1>5. Cardinality(DNAPublishes(e)) <= 3
  <2>1. IsFiniteSet(DNAPublishes(e)) /\ Cardinality(DNAPublishes(e)) <= Cardinality(S)
    BY <1>2, <1>3, ImageIsNoLarger
  <2>2. Cardinality(DNAPublishes(e)) \in Nat
    BY <2>1, FS_CardinalityType
  <2>3. QED
    BY <1>2, <2>1, <2>2
<1>6. QED
  BY <1>1, <1>4, <1>5, LightWeights, AnomaliesArePublishable DEF Few

\* The device engine's alarm of a quarantine.
LEMMA AlarmFew ==
  \A d, reason : \A R : Few(AlarmUnless(d, reason), 1, 4, R)
<1> SUFFICES ASSUME NEW d, NEW reason, NEW R PROVE Few(AlarmUnless(d, reason), 1, 4, R)
  OBVIOUS
<1> DEFINE t == Threat("device_health_fail", CRITICAL)
           x == Alarm(d, reason)
<1>1. x = [t EXCEPT !.source = "DeviceTrustEngine", !.device = d, !.resource = reason]
  BY DEF Alarm
<1>2. /\ DOMAIN t = DOMAIN Blank /\ t.bus = "threat" /\ t.type = "device_health_fail"
      /\ t.volume = 0
  BY ThreatIsBlank
<1>3. WellFormed(x)
  BY AlarmWellFormed
<1> HIDE DEF t
<1>4. Notice(x)
  <2>1. x.bus = "threat" /\ x.type = "device_health_fail" /\ x.volume = 0
    BY <1>1, <1>2
  <2> HIDE DEF x
  <2>2. QED
    BY <2>1 DEF Notice
<1>5. AlarmUnless(d, reason) \in {{}, {x}}
  BY DEF AlarmUnless
<1> HIDE DEF x
<1>6. Few({x}, 1, 4, R)
  BY <1>3, <1>4, LightWeights, OneIsFew
<1>7. QED
  BY <1>5, <1>6, NoneIsFew

LEMMA DeviceFew ==
  ASSUME NEW e, WellFormed(e)
  PROVE  /\ \A R : Few(DevicePublishes(e), 1, 4, R)
         /\ \/ e.device \notin Devices
            \/ e.bus = "request"
            \/ e.bus = "threat" /\ e.type # "network_intrusion"
            => DevicePublishes(e) = {}
<1>1. DevicePublishes(e)
        \in {{}, AlarmUnless(e.device, "anomalies"), AlarmUnless(e.device, "finding")}
  BY DEF DevicePublishes
<1>2. \A R : Few(DevicePublishes(e), 1, 4, R)
  BY <1>1, AlarmFew, NoneIsFew
<1>3. CASE e.device \notin Devices
  BY <1>2, <1>3 DEF DevicePublishes
<1>4. CASE e.bus = "request"
  BY <1>2, <1>4 DEF DevicePublishes
<1>5. CASE e.bus = "threat" /\ e.type # "network_intrusion"
  BY <1>2, <1>5 DEF DevicePublishes, Suspicious
<1>6. QED
  BY <1>2, <1>3, <1>4, <1>5

LEMMA FirstOfTwins == \A p : FirstOf(<<p, p>>) = p
<1> SUFFICES ASSUME NEW p PROVE FirstOf(<<p, p>>) = p
  OBVIOUS
<1> DEFINE s == <<p, p>>
<1>1. DOMAIN s = {1, 2} /\ s[1] = p /\ s[2] = p
  OBVIOUS
<1> HIDE DEF s
<1>2. CASE p = None
  <2>1. ~ \E i \in DOMAIN s : s[i] # None
    BY <1>1, <1>2
  <2>2. QED
    BY <1>2, <2>1, Zenon DEF FirstOf, s
<1>3. CASE p # None
  <2> DEFINE i == CHOOSE i \in DOMAIN s :
                    s[i] # None /\ \A j \in 1..(i - 1) : s[j] = None
  <2>1. 1 \in DOMAIN s /\ s[1] # None /\ \A j \in 1..(1 - 1) : s[j] = None
    BY <1>1, <1>3
  <2>2. i \in DOMAIN s
    BY <2>1
  <2>3. FirstOf(s) = s[i]
    BY <2>1, Zenon DEF FirstOf
  <2> HIDE DEF i
  <2>4. QED
    BY <1>1, <2>2, <2>3 DEF s
<1>4. QED
  BY <1>2, <1>3

\* What an intrusion says of the sighting it was published for.
SaysOf(x, e, tailgate) ==
  /\ Echo(x) /\ PhysicalPerson(x) = PhysicalPerson(e)
  /\ x.zone = e.zone /\ x.badge = e.badge /\ x.face = e.face
  /\ x.tailgate = tailgate

LEMMA EchoShape ==
  ASSUME NEW e, NEW reason, NEW tailgate
  PROVE  SaysOf(PhysicalAnomaly(e, reason, tailgate), e, tailgate)
<1> DEFINE t == Threat("physical_intrusion", ZoneAlarm(e.zone))
           p == PhysicalPerson(e)
           x == PhysicalAnomaly(e, reason, tailgate)
<1>1. x = [t EXCEPT !.source = "PhysicalSecurityEngine", !.user = p, !.entity = p,
                    !.zone = e.zone, !.badge = e.badge, !.face = e.face,
                    !.past = e.motion, !.tailgate = tailgate, !.resource = reason]
  BY DEF PhysicalAnomaly
<1>2. /\ DOMAIN t = DOMAIN Blank /\ t.bus = "threat" /\ t.type = "physical_intrusion"
      /\ t.volume = 0 /\ t.motion = 0
  BY ThreatIsBlank
<1> HIDE DEF t, p
<1>3. /\ x.bus = "threat" /\ x.type = "physical_intrusion" /\ x.volume = 0
      /\ x.motion = 0
  BY <1>1, <1>2
<1>4. /\ x.user = p /\ x.entity = p /\ x.tailgate = tailgate
      /\ x.zone = e.zone /\ x.badge = e.badge /\ x.face = e.face
  BY <1>1, <1>2, BlankFields
<1> HIDE DEF x
<1>5. PhysicalPerson(x) = p
  BY <1>4, FirstOfTwins DEF PhysicalPerson
<1>6. QED
  <2>1. SaysOf(x, e, tailgate)
    BY <1>3, <1>4, <1>5 DEF SaysOf, Echo, p
  <2>2. QED
    BY <2>1 DEF x

LEMMA AnomaliesAreEchoes ==
  ASSUME NEW e, NEW x \in PhysicalAnomalies(e)
  PROVE  /\ \E tailgate : SaysOf(x, e, tailgate)
         /\ Echo(x)
<1>1. \E reason, tailgate : x = PhysicalAnomaly(e, reason, tailgate)
  BY AnomaliesOf, Zenon
<1>2. PICK reason, tailgate : x = PhysicalAnomaly(e, reason, tailgate)
  BY <1>1
<1>3. SaysOf(x, e, tailgate)
  BY <1>2, EchoShape
<1>4. QED
  BY <1>3 DEF SaysOf

\* An echo's echoes are those of what it is an echo of.
LEMMA EchoesEcho ==
  ASSUME NEW e, e.motion = 0, NEW x \in PhysicalAnomalies(e)
  PROVE  PhysicalAnomalies(x) = PhysicalAnomalies(e)
<1> DEFINE zone(z, on) == PhysicalAnomaly(z, "zone", on)
           tail(z) == PhysicalAnomaly(z, "tailgate", TRUE)
           guarded == e.zone \in GuardedZones /\ ~(e.badge /\ e.face)
<1>1. \A z : z.motion = 0 =>
        PhysicalAnomalies(z)
          = (IF z.zone \in GuardedZones /\ ~(z.badge /\ z.face)
             THEN {zone(z, z.tailgate)} ELSE {})
            \cup (IF z.tailgate THEN {tail(z)} ELSE {})
  BY DEF PhysicalAnomalies
<1>2. \/ x = zone(e, e.tailgate)
      \/ e.tailgate /\ x = tail(e)
  BY <1>1
<1>3. /\ PhysicalPerson(x) = PhysicalPerson(e) /\ x.motion = 0
      /\ x.zone = e.zone /\ x.badge = e.badge /\ x.face = e.face
  <2>1. \E on : SaysOf(x, e, on)
    BY AnomaliesAreEchoes
  <2>2. QED
    BY <2>1 DEF SaysOf, Echo
<1>4. x.tailgate = e.tailgate
  <2>1. CASE x = zone(e, e.tailgate)
    <3>1. SaysOf(x, e, e.tailgate)
      BY <2>1, EchoShape
    <3>2. QED
      BY <3>1 DEF SaysOf
  <2>2. CASE e.tailgate /\ x = tail(e)
    <3>1. SaysOf(x, e, TRUE)
      BY <2>2, EchoShape
    <3>2. QED
      BY <2>2, <3>1 DEF SaysOf
  <2>3. QED
    BY <1>2, <2>1, <2>2
<1>5. \A reason, on : PhysicalAnomaly(x, reason, on) = PhysicalAnomaly(e, reason, on)
  BY <1>3, Zenon DEF PhysicalAnomaly
<1> HIDE DEF zone, tail
<1>6. zone(x, x.tailgate) = zone(e, e.tailgate) /\ tail(x) = tail(e)
  BY <1>4, <1>5, Zenon DEF zone, tail
<1>7. QED
  BY <1>1, <1>3, <1>4, <1>6, Zenon

\* Of an echo that is not repeated, the echoes are fewer than before.
LEMMA EchoFew ==
  ASSUME NEW e, Echo(e), NEW R, NEW S, S = R \cup {Fingerprint(e)}
  PROVE  LET n == Cardinality(Fresh(e, R))
         IN /\ n \in Nat /\ n <= 2
            /\ Few(PhysicalPublishes(e), 2, IF n = 0 THEN 1 ELSE EchoWeight(n - 1), S)
<1> DEFINE F == Fresh(e, R)
           n == Cardinality(F)
           m == IF n = 0 THEN 1 ELSE EchoWeight(n - 1)
           A == PhysicalAnomalies(e)
<1>0. e.motion = 0 /\ e.bus = "threat" /\ e.type = "physical_intrusion"
  BY DEF Echo
<1>1. \E a, b : A \subseteq {a, b}
  <2> DEFINE a == PhysicalAnomaly(e, "zone", e.tailgate)
             b == PhysicalAnomaly(e, "tailgate", TRUE)
  <2>1. A \subseteq {a, b}
    BY <1>0, AnomaliesOf
  <2> HIDE DEF a, b, A
  <2>2. QED
    BY <2>1, Zenon
<1>2. PICK a, b : A \subseteq {a, b}
  BY <1>1
<1>3. IsFiniteSet(A) /\ Cardinality(A) \in Nat /\ Cardinality(A) <= 2
  <2> HIDE DEF A
  <2>1. QED
    BY <1>2, AtMostTwo
<1>4. IsFiniteSet(F) /\ n \in Nat /\ n <= 2
  <2> HIDE DEF A
  <2>1. F \subseteq {Fingerprint(a), Fingerprint(b)}
    <3> SUFFICES ASSUME NEW y \in A PROVE Fingerprint(y) \in {Fingerprint(a), Fingerprint(b)}
      BY DEF Fresh, A
    <3>1. y = a \/ y = b
      BY <1>2
    <3>2. QED
      BY <3>1
  <2> HIDE DEF F
  <2>2. QED
    BY <2>1, AtMostTwo
<1>5. ASSUME NEW x \in A PROVE Weight(x, S) <= m
  <2>1. Echo(x) /\ PhysicalAnomalies(x) = A
    <3>1. Echo(x)
      BY AnomaliesAreEchoes
    <3>2. QED
      BY <1>0, <3>1, EchoesEcho
  <2>2. m \in Nat /\ 1 <= m
    BY <1>4 DEF EchoWeight
  <2>3. CASE Repeated(x, S)
    <3>1. Weight(x, S) = 1
      BY <2>3, Zenon DEF Weight
    <3>2. QED
      BY <2>2, <3>1
  <2>4. CASE ~Repeated(x, S)
    <3> DEFINE k == Cardinality(Fresh(x, S))
    <3>1. Weight(x, S) = EchoWeight(k)
      <4>1. x.bus # "finding" /\ x.bus # "request" /\ ~Notice(x)
        BY <2>1 DEF Notice, Echo
      <4>2. QED
        BY <2>1, <2>4, <4>1, Zenon DEF Weight
    <3>2. Fingerprint(x) \in F /\ Fresh(x, S) = F \ {Fingerprint(x)}
      <4>1. Fingerprint(x) \notin S
        BY <2>1, <2>4 DEF Repeated, Echo
      <4> DEFINE P == {Fingerprint(y) : y \in A}
                 fx == Fingerprint(x)
      <4>2. F = P \ S /\ Fresh(x, S) = P \ (S \cup {fx}) /\ fx \in P /\ fx \notin S
        BY <2>1, <4>1 DEF Fresh
      <4> HIDE DEF F, P, fx
      <4>3. fx \in F /\ Fresh(x, S) = F \ {fx}
        BY <4>2
      <4>4. QED
        BY <4>3 DEF fx
    <3> HIDE DEF F
    <3>3. k = n - 1
      BY <1>4, <3>2, FS_RemoveElement
    <3>4. n # 0
      BY <1>4, <3>2, FS_EmptySet
    <3> HIDE DEF k, n
    <3>5. m = EchoWeight(k)
      BY <3>3, <3>4
    <3> HIDE DEF m
    <3>6. QED
      BY <2>2, <3>1, <3>5
  <2>5. QED
    BY <2>3, <2>4
<1>6. PhysicalPublishes(e) = A \/ PhysicalPublishes(e) = {}
  BY <1>0 DEF PhysicalPublishes, CyberUse
<1>7. Publishable(PhysicalPublishes(e))
  BY IntrusionsArePublishable
<1> HIDE DEF A, m
<1>8. Cardinality(PhysicalPublishes(e)) <= 2
  BY <1>3, <1>6, FS_EmptySet
<1>9. \A x \in PhysicalPublishes(e) : Weight(x, S) <= m
  BY <1>5, <1>6
<1>10. Few(PhysicalPublishes(e), 2, m, S)
  BY <1>7, <1>8, <1>9 DEF Few
<1>11. QED
  BY <1>4, <1>10 DEF m

LEMMA PhysicalFew ==
  ASSUME NEW e
  PROVE  /\ \A R : Few(PhysicalPublishes(e), 3, 36, R)
         /\ e.bus # "threat" \/ Notice(e) => PhysicalPublishes(e) = {}
<1>1. Publishable(PhysicalPublishes(e))
  BY IntrusionsArePublishable
<1>2. CASE e.bus = "threat" /\ e.type = "physical_intrusion"
  <2> DEFINE A == PhysicalAnomalies(e)
  <2>1. PhysicalPublishes(e) = A \/ PhysicalPublishes(e) = {}
    BY <1>2 DEF PhysicalPublishes, CyberUse
  <2>2. \A x \in A : Echo(x)
    BY AnomaliesAreEchoes
  <2>3. Cardinality(A) <= 3
    BY EchoesAreFew
  <2> HIDE DEF A
  <2>4. Cardinality(PhysicalPublishes(e)) <= 3
    BY <2>1, <2>3, FS_EmptySet
  <2>5. \A R : \A x \in PhysicalPublishes(e) : Weight(x, R) <= 36
    BY <2>1, <2>2, LightWeights
  <2>6. ~Notice(e)
    BY <1>2 DEF Notice
  <2>7. QED
    BY <1>1, <1>2, <2>4, <2>5, <2>6 DEF Few
<1>3. CASE ~(e.bus = "threat" /\ e.type = "physical_intrusion") /\ CyberUse(e)
  <2>1. PhysicalPublishes(e) = Mismatches(e)
    BY <1>3 DEF PhysicalPublishes, Sighting
  <2>2. \/ Mismatches(e) = {}
        \/ \E reason, v : Mismatches(e) = {Mismatch(e, reason, v)}
    BY DEF Mismatches
  <2>3. Cardinality(PhysicalPublishes(e)) \in {0, 1}
    BY <2>1, <2>2, FS_EmptySet, FS_Singleton
  <2>4. \A reason, v : Notice(Mismatch(e, reason, v))
    <3> SUFFICES ASSUME NEW reason, NEW v PROVE Notice(Mismatch(e, reason, v))
      OBVIOUS
    <3> DEFINE t == Threat("physical_cyber_mismatch", v)
               x == Mismatch(e, reason, v)
    <3>1. x = [t EXCEPT !.source = "PhysicalSecurityEngine", !.user = e.user,
                        !.entity = e.user, !.resource = reason]
      BY DEF Mismatch
    <3>2. /\ DOMAIN t = DOMAIN Blank /\ t.bus = "threat"
          /\ t.type = "physical_cyber_mismatch" /\ t.volume = 0
      BY ThreatIsBlank
    <3> HIDE DEF t
    <3>3. x.bus = "threat" /\ x.type = "physical_cyber_mismatch" /\ x.volume = 0
      BY <3>1, <3>2
    <3> HIDE DEF x
    <3>4. QED
      BY <3>3 DEF Notice, x
  <2>5. \A x \in PhysicalPublishes(e) : Notice(x)
    BY <2>1, <2>2, <2>4
  <2>6. \A R : \A x \in PhysicalPublishes(e) : Weight(x, R) <= 4 /\ Weight(x, R) \in Nat
    BY <2>5, LightWeights, WeightBounds
  <2>7. \A R : \A x \in PhysicalPublishes(e) : Weight(x, R) <= 36
    BY <2>6
  <2>8. e.bus = "threat" /\ ~Notice(e)
    BY <1>3 DEF Notice, CyberUse
  <2>9. QED
    BY <1>1, <2>3, <2>7, <2>8 DEF Few
<1>4. CASE ~(e.bus = "threat" /\ e.type = "physical_intrusion") /\ ~CyberUse(e)
  <2>1. PhysicalPublishes(e) = {}
    BY <1>4 DEF PhysicalPublishes, Sighting
  <2>2. QED
    BY <2>1, NoneIsFew
<1>5. QED
  BY <1>2, <1>3, <1>4

-----------------------------------------------------------------------------
(* A delivery uses up what the item may lead to *)

LEMMA LoadOfPublished ==
  ASSUME BusInv, NEW e, WellFormed(e), NEW S
  PROVE  /\ Load(Published(e), S)
              = Load(InOrder(AgentPublishes(e)), S) + Load(InOrder(DNAPublishes(e)), S)
                + Load(InOrder(DevicePublishes(e)), S)
                + Load(InOrder(PhysicalPublishes(e)), S)
                + Load(InOrder(ArbiterPublishes(e)), S)
         /\ Load(InOrder(AgentPublishes(e)), S) \in Nat
         /\ Load(InOrder(DNAPublishes(e)), S) \in Nat
         /\ Load(InOrder(DevicePublishes(e)), S) \in Nat
         /\ Load(InOrder(PhysicalPublishes(e)), S) \in Nat
         /\ Load(InOrder(ArbiterPublishes(e)), S) \in Nat
<1> DEFINE a == InOrder(AgentPublishes(e))
           b == InOrder(DNAPublishes(e))
           c == InOrder(DevicePublishes(e))
           d == InOrder({})
           f == InOrder(PhysicalPublishes(e))
           h == InOrder(ArbiterPublishes(e))
<1>1. Carries(a) /\ Carries(b) /\ Carries(c)
  BY ReportsArePublishable, AnomaliesArePublishable, AlarmsArePublishable, InOrderCarries
<1>2. Carries(d) /\ Load(d, S) = 0
  <2>1. Carries(d)
    BY NoneIsPublishable, InOrderCarries
  <2>2. Load(d, S) <= 0 * 0
    <3>1. Publishable({}) /\ Cardinality({}) = 0
      BY NoneIsPublishable, FS_EmptySet
    <3> DEFINE E == {}
    <3>2. \A x \in E : Weight(x, S) <= 0
      OBVIOUS
    <3>3. Publishable(E) /\ Cardinality(E) <= 0 /\ d = InOrder(E)
      BY <3>1
    <3> HIDE DEF E, d
    <3>4. QED
      BY <3>2, <3>3, LoadOfFew
  <2> HIDE DEF d
  <2>3. QED
    BY <2>1, <2>2, LoadIsNat
<1>3. Carries(f) /\ Carries(h)
  BY IntrusionsArePublishable, RiskAlertsArePublishable, InOrderCarries DEF BusInv
<1>4. Published(e) = a \o b \o c \o d \o f \o d \o h
  <2>1. UEBAPublishes(e) = {} /\ InsiderPublishes(e) = {}
    BY UEBAHandles, InsiderHandles DEF BusInv
  <2>2. QED
    BY <2>1, Zenon DEF Published
<1>0. Load(Published(e), S) = Load(a \o b \o c \o d \o f \o d \o h, S)
  BY <1>4, Zenon
<1> HIDE DEF a, b, c, d, f, h
<1>5. Carries(a \o b) /\ Load(a \o b, S) = Load(a, S) + Load(b, S)
  BY <1>1, CarriesBoth, LoadOfBoth
<1>6. Carries(a \o b \o c) /\ Load(a \o b \o c, S) = Load(a \o b, S) + Load(c, S)
  BY <1>1, <1>5, CarriesBoth, LoadOfBoth
<1>7. /\ Carries(a \o b \o c \o d)
      /\ Load(a \o b \o c \o d, S) = Load(a \o b \o c, S) + Load(d, S)
  BY <1>2, <1>6, CarriesBoth, LoadOfBoth
<1>8. /\ Carries(a \o b \o c \o d \o f)
      /\ Load(a \o b \o c \o d \o f, S) = Load(a \o b \o c \o d, S) + Load(f, S)
  BY <1>3, <1>7, CarriesBoth, LoadOfBoth
<1>9. /\ Carries(a \o b \o c \o d \o f \o d)
      /\ Load(a \o b \o c \o d \o f \o d, S) = Load(a \o b \o c \o d \o f, S) + Load(d, S)
  BY <1>2, <1>8, CarriesBoth, LoadOfBoth
<1>10. Load(a \o b \o c \o d \o f \o d \o h, S)
         = Load(a \o b \o c \o d \o f \o d, S) + Load(h, S)
  BY <1>3, <1>9, LoadOfBoth
<1>11. /\ Load(a, S) \in Nat /\ Load(b, S) \in Nat /\ Load(c, S) \in Nat
       /\ Load(f, S) \in Nat /\ Load(h, S) \in Nat
  BY <1>1, <1>3, LoadIsNat
<1>12. Load(Published(e), S) = Load(a, S) + Load(b, S) + Load(c, S) + Load(f, S) + Load(h, S)
  BY <1>0, <1>2, <1>5, <1>6, <1>7, <1>8, <1>9, <1>10, <1>11
<1>13. QED
  BY <1>11, <1>12 DEF a, b, c, f, h

LEMMA LoadOfTheFew ==
  ASSUME NEW T, NEW c \in Nat, NEW m \in Nat, NEW S, Few(T, c, m, S)
  PROVE  Load(InOrder(T), S) <= c * m
BY LoadOfFew DEF Few

LEMMA LoadOfNoItem == \A S : Load(InOrder({}), S) <= 0
<1> SUFFICES ASSUME NEW S PROVE Load(InOrder({}), S) <= 0
  OBVIOUS
<1>1. Few({}, 0, 0, S)
  BY NoneIsFew
<1> DEFINE T == {}
<1>2. Few(T, 0, 0, S)
  BY <1>1
<1> HIDE DEF T
<1>3. Load(InOrder(T), S) <= 0 * 0
  BY <1>2, LoadOfTheFew
<1>4. QED
  BY <1>3 DEF T

\* Every engine's share of what a delivery publishes.
LEMMA Shares ==
  ASSUME BusInv, NEW e, WellFormed(e), NEW S
  PROVE  /\ Load(InOrder(AgentPublishes(e)), S) <= IF e.bus = "threat" THEN 2 ELSE 0
         /\ Load(InOrder(DNAPublishes(e)), S)
              <= IF e.bus = "threat" /\ e.volume # 0 THEN 12 ELSE 0
         /\ Load(InOrder(DevicePublishes(e)), S)
              <= IF \/ e.device \notin Devices \/ e.bus = "request"
                    \/ e.bus = "threat" /\ e.type # "network_intrusion"
                 THEN 0 ELSE 4
         /\ Load(InOrder(PhysicalPublishes(e)), S)
              <= IF e.bus # "threat" \/ Notice(e) THEN 0 ELSE 108
         /\ Load(InOrder(ArbiterPublishes(e)), S)
              <= IF e.bus = "finding" /\ Named(e) = {} THEN 0 ELSE 1
<1>1. Load(InOrder(AgentPublishes(e)), S) <= IF e.bus = "threat" THEN 2 ELSE 0
  <2> DEFINE T == AgentPublishes(e)
  <2>1. Few(T, 1, 2, S) /\ (e.bus # "threat" => T = {})
    BY AgentFew
  <2> HIDE DEF T
  <2>2. Load(InOrder(T), S) <= 1 * 2
    BY <2>1, LoadOfTheFew
  <2>3. QED
    BY <2>1, <2>2, LoadOfNoItem DEF T
<1>2. Load(InOrder(DNAPublishes(e)), S) <= IF e.bus = "threat" /\ e.volume # 0 THEN 12 ELSE 0
  <2> DEFINE T == DNAPublishes(e)
  <2>1. Few(T, 3, 4, S) /\ (e.bus # "threat" \/ e.volume = 0 => T = {})
    BY DNAFew
  <2> HIDE DEF T
  <2>2. Load(InOrder(T), S) <= 3 * 4
    BY <2>1, LoadOfTheFew
  <2>3. QED
    BY <2>1, <2>2, LoadOfNoItem DEF T
<1>3. Load(InOrder(DevicePublishes(e)), S)
        <= IF \/ e.device \notin Devices \/ e.bus = "request"
              \/ e.bus = "threat" /\ e.type # "network_intrusion"
           THEN 0 ELSE 4
  <2> DEFINE T == DevicePublishes(e)
             Q == \/ e.device \notin Devices \/ e.bus = "request"
                  \/ e.bus = "threat" /\ e.type # "network_intrusion"
  <2>1. Few(T, 1, 4, S) /\ (Q => T = {})
    BY DeviceFew
  <2> HIDE DEF T, Q
  <2>2. Load(InOrder(T), S) <= 1 * 4
    BY <2>1, LoadOfTheFew
  <2>3. Load(InOrder(T), S) <= IF Q THEN 0 ELSE 4
    BY <2>1, <2>2, LoadOfNoItem
  <2>4. QED
    BY <2>3 DEF T, Q
<1>4. Load(InOrder(PhysicalPublishes(e)), S)
        <= IF e.bus # "threat" \/ Notice(e) THEN 0 ELSE 108
  <2> DEFINE T == PhysicalPublishes(e)
  <2>1. Few(T, 3, 36, S) /\ (e.bus # "threat" \/ Notice(e) => T = {})
    BY PhysicalFew
  <2> HIDE DEF T
  <2>2. Load(InOrder(T), S) <= 3 * 36
    BY <2>1, LoadOfTheFew
  <2>3. QED
    BY <2>1, <2>2, LoadOfNoItem DEF T
<1>5. Load(InOrder(ArbiterPublishes(e)), S)
        <= IF e.bus = "finding" /\ Named(e) = {} THEN 0 ELSE 1
  <2> DEFINE T == ArbiterPublishes(e)
  <2>1. Few(T, 1, 1, S) /\ (e.bus = "finding" /\ Named(e) = {} => T = {})
    BY ArbiterFew DEF BusInv
  <2> HIDE DEF T
  <2>2. Load(InOrder(T), S) <= 1 * 1
    BY <2>1, LoadOfTheFew
  <2>3. QED
    BY <2>1, <2>2, LoadOfNoItem DEF T
<1>6. QED
  BY <1>1, <1>2, <1>3, <1>4, <1>5

\* Handling an item leads to no more than its weight says.
LEMMA DeliveryLoad ==
  ASSUME BusInv, NEW e, WellFormed(e), NEW R, ~Repeated(e, R),
         NEW S, e.bus = "threat" => S = R \cup {Fingerprint(e)}
  PROVE  Load(Published(e), S) + 1 <= Weight(e, R)
<1> DEFINE a == Load(InOrder(AgentPublishes(e)), S)
           b == Load(InOrder(DNAPublishes(e)), S)
           c == Load(InOrder(DevicePublishes(e)), S)
           f == Load(InOrder(PhysicalPublishes(e)), S)
           h == Load(InOrder(ArbiterPublishes(e)), S)
           p == Load(Published(e), S)
           w == Weight(e, R)
           k == Cardinality(Fresh(e, R))
           m == IF k = 0 THEN 1 ELSE EchoWeight(k - 1)
<1>1. /\ p = a + b + c + f + h
      /\ a \in Nat /\ b \in Nat /\ c \in Nat /\ f \in Nat /\ h \in Nat
  BY LoadOfPublished
<1>2. /\ a <= IF e.bus = "threat" THEN 2 ELSE 0
      /\ b <= IF e.bus = "threat" /\ e.volume # 0 THEN 12 ELSE 0
      /\ c <= IF \/ e.device \notin Devices \/ e.bus = "request"
                 \/ e.bus = "threat" /\ e.type # "network_intrusion"
              THEN 0 ELSE 4
      /\ f <= IF e.bus # "threat" \/ Notice(e) THEN 0 ELSE 108
      /\ h <= IF e.bus = "finding" /\ Named(e) = {} THEN 0 ELSE 1
  BY Shares
<1>3. ASSUME Echo(e) PROVE f <= 2 * m /\ k \in Nat /\ k <= 2
  <2>1. S = R \cup {Fingerprint(e)}
    BY <1>3 DEF Echo
  <2>2. k \in Nat /\ k <= 2 /\ Few(PhysicalPublishes(e), 2, m, S)
    BY <1>3, <2>1, EchoFew
  <2>3. m \in Nat
    BY <2>2 DEF EchoWeight
  <2> HIDE DEF k, m
  <2>4. f <= 2 * m
    BY <2>2, <2>3, LoadOfTheFew
  <2>5. QED
    BY <2>2, <2>4
<1> HIDE DEF a, b, c, f, h
<1>4. CASE e.bus = "finding"
  <2>1. w = IF Named(e) = {} THEN 1 ELSE IF e.device \notin Devices THEN 2 ELSE 6
    BY <1>4, Zenon DEF Weight
  <2> HIDE DEF p, w
  <2>2. a <= 0 /\ b <= 0 /\ f <= 0
    BY <1>2, <1>4
  <2>3. Named(e) = {} => h <= 0 /\ c <= 0
    <3>1. Named(e) = {} => e.device \notin Devices
      BY DeviceTrustAssumption DEF Named
    <3>2. QED
      BY <1>2, <1>4, <3>1
  <2>4. h <= 1 /\ c <= 4 /\ (e.device \notin Devices => c <= 0)
    BY <1>1, <1>2, <1>4
  <2>5. QED
    BY <1>1, <2>1, <2>2, <2>3, <2>4 DEF p, w
<1>5. CASE e.bus = "request"
  <2>1. w = 2
    BY <1>5, Zenon DEF Weight, Repeated
  <2> HIDE DEF p, w
  <2>2. a <= 0 /\ b <= 0 /\ c <= 0 /\ f <= 0 /\ h <= 1
    BY <1>2, <1>5
  <2>3. QED
    BY <1>1, <2>1, <2>2 DEF p, w
<1>6. CASE e.bus = "threat" /\ Notice(e)
  <2>1. w = 4
    BY <1>6, Zenon DEF Weight
  <2> HIDE DEF p, w
  <2>2. e.volume = 0 /\ e.type # "network_intrusion"
    BY <1>6 DEF Notice
  <2>3. a <= 2 /\ b <= 0 /\ c <= 0 /\ f <= 0 /\ h <= 1
    BY <1>2, <1>6, <2>2
  <2>4. QED
    BY <1>1, <2>1, <2>3 DEF p, w
<1>7. CASE e.bus = "threat" /\ ~Notice(e) /\ Echo(e)
  <2>1. w = EchoWeight(k)
    BY <1>7, Zenon DEF Weight
  <2> HIDE DEF p, w
  <2>2. e.volume = 0 /\ e.type # "network_intrusion"
    BY <1>7 DEF Echo
  <2>3. a <= 2 /\ b <= 0 /\ c <= 0 /\ h <= 1
    BY <1>2, <1>7, <2>2
  <2>4. f <= 2 * m /\ k \in {0, 1, 2}
    BY <1>3, <1>7
  <2> HIDE DEF k
  <2>5. 2 * m + 4 = EchoWeight(k)
    BY <2>4 DEF EchoWeight
  <2>6. w \in Nat /\ m \in Nat
    BY <2>1, <2>4 DEF EchoWeight
  <2> HIDE DEF m
  <2>7. QED
    BY <1>1, <2>1, <2>3, <2>4, <2>5, <2>6 DEF p, w
<1>8. CASE e.bus = "threat" /\ ~Notice(e) /\ ~Echo(e)
  <2>1. w = 128
    BY <1>8, Zenon DEF Weight, Heaviest
  <2> HIDE DEF p, w
  <2>2. a <= 2 /\ b <= 12 /\ c <= 4 /\ f <= 108 /\ h <= 1
    BY <1>1, <1>2, <1>8
  <2>3. QED
    BY <1>1, <2>1, <2>2 DEF p, w
<1>9. QED
  BY <1>4, <1>5, <1>6, <1>7, <1>8 DEF WellFormed

-----------------------------------------------------------------------------
(* Whom the items name *)

Labels(e) == {e.user, e.ip, e.device, e.entity, e.source}

\* What the engines put there themselves.
OwnLabels ==
  {None, Unknown, "sensor", "PhysicalSecurityEngine", "DeviceTrustEngine",
   "BehavioralDNAEngine"}

Speaks(S, M) == \A e \in S : Labels(e) \subseteq M

\* A queue in which nothing else than M is named.
NamesOnly(q, M) == \E S : q \in Seq(S) /\ Speaks(S, M)

LEMMA FirstOfThem ==
  ASSUME NEW M, None \in M, NEW n \in Nat, NEW s, DOMAIN s = 1..n,
         \A i \in 1..n : s[i] \in M
  PROVE  FirstOf(s) \in M
<1> DEFINE P == {i \in 1..n : s[i] # None}
           i == CHOOSE i \in DOMAIN s : s[i] # None /\ \A j \in 1..(i - 1) : s[j] = None
<1>1. CASE P = {}
  <2>1. ~ \E k \in DOMAIN s : s[k] # None
    BY <1>1
  <2>2. QED
    BY <2>1, Zenon DEF FirstOf
<1>2. CASE P # {}
  <2>1. P \subseteq Nat
    OBVIOUS
  <2>2. PICK k \in P : \A x \in P : k <= x
    BY <1>2, <2>1, LeastOf
  <2>3. k \in DOMAIN s /\ s[k] # None /\ \A j \in 1..(k - 1) : s[j] = None
    BY <2>2
  <2>4. i \in DOMAIN s
    BY <2>3
  <2>5. FirstOf(s) = s[i]
    BY <2>3, Zenon DEF FirstOf
  <2> HIDE DEF i
  <2>6. QED
    BY <2>4, <2>5
<1>3. QED
  BY <1>1, <1>2

\* Whom an engine takes an item to be about is named in it.
LEMMA AboutTheNamed ==
  ASSUME NEW e, WellFormed(e), NEW M, OwnLabels \subseteq M, Labels(e) \subseteq M
  PROVE  /\ ArbiterEntity(e) \in M /\ ConvergedEntity(e) \in M
         /\ PhysicalPerson(e) \in M
<1>0. /\ None \in M
      /\ e.user \in M /\ e.ip \in M /\ e.device \in M /\ e.entity \in M
  BY DEF OwnLabels, Labels
<1> DEFINE s == <<e.user, e.ip, e.device, e.entity>>
           t == <<e.user, e.ip, e.device>>
           u == <<e.entity, e.user, e.ip>>
           v == <<e.user, e.entity>>
<1>1. FirstOf(s) \in M
  <2>1. DOMAIN s = 1..4 /\ \A i \in 1..4 : s[i] \in M
    BY <1>0
  <2> HIDE DEF s
  <2>2. QED
    BY <1>0, <2>1, FirstOfThem
<1>2. FirstOf(t) \in M
  <2>1. DOMAIN t = 1..3 /\ \A i \in 1..3 : t[i] \in M
    BY <1>0
  <2> HIDE DEF t
  <2>2. QED
    BY <1>0, <2>1, FirstOfThem
<1>3. FirstOf(u) \in M
  <2>1. DOMAIN u = 1..3 /\ \A i \in 1..3 : u[i] \in M
    BY <1>0
  <2> HIDE DEF u
  <2>2. QED
    BY <1>0, <2>1, FirstOfThem
<1>4. FirstOf(v) \in M
  <2>1. DOMAIN v = 1..2 /\ \A i \in 1..2 : v[i] \in M
    BY <1>0
  <2> HIDE DEF v
  <2>2. QED
    BY <1>0, <2>1, FirstOfThem
<1>5. e.bus = "threat" \/ e.bus = "request" \/ e.bus = "finding"
  BY DEF WellFormed
<1>6. ArbiterEntity(e) \in {FirstOf(s), e.user, FirstOf(t)}
  BY <1>5 DEF ArbiterEntity
<1>7. ConvergedEntity(e) \in {FirstOf(t), e.user, FirstOf(u)}
  BY <1>5 DEF ConvergedEntity
<1>8. PhysicalPerson(e) = FirstOf(v)
  BY DEF PhysicalPerson
<1> HIDE DEF s, t, u, v
<1>9. QED
  BY <1>0, <1>1, <1>2, <1>3, <1>4, <1>6, <1>7, <1>8

LEMMA NamesOnlyParts ==
  ASSUME NEW q, NEW M, NamesOnly(q, M), q # <<>>
  PROVE  Labels(Head(q)) \subseteq M /\ NamesOnly(Tail(q), M)
<1>1. PICK S : q \in Seq(S) /\ Speaks(S, M)
  BY DEF NamesOnly
<1>2. Head(q) \in S /\ Tail(q) \in Seq(S)
  BY <1>1, HeadTailProperties
<1>3. QED
  BY <1>1, <1>2 DEF NamesOnly, Speaks

LEMMA NamesOnlyBoth ==
  ASSUME NEW q, NEW r, NEW M, NamesOnly(q, M), NamesOnly(r, M)
  PROVE  NamesOnly(q \o r, M)
<1>1. PICK S : q \in Seq(S) /\ Speaks(S, M)
  BY DEF NamesOnly
<1>2. PICK T : r \in Seq(T) /\ Speaks(T, M)
  BY DEF NamesOnly
<1> DEFINE U == S \cup T
<1>3. q \in Seq(U) /\ r \in Seq(U) /\ Speaks(U, M)
  <2>1. S \subseteq U /\ T \subseteq U
    OBVIOUS
  <2>2. q \in Seq(U) /\ r \in Seq(U)
    BY <1>1, <1>2, <2>1, SeqMonotonic
  <2>3. QED
    BY <1>1, <1>2, <2>2 DEF Speaks
<1> HIDE DEF U
<1>4. q \o r \in Seq(U)
  BY <1>3, ConcatProperties
<1>5. QED
  BY <1>3, <1>4 DEF NamesOnly

\* Whoever may name M may name more.
LEMMA NamesOnlyMore ==
  ASSUME NEW q, NEW M, NEW N, NamesOnly(q, M), M \subseteq N PROVE NamesOnly(q, N)
BY DEF NamesOnly, Speaks

LEMMA InOrderNamesOnly ==
  ASSUME NEW S, IsFiniteSet(S), NEW M, Speaks(S, M) PROVE NamesOnly(InOrder(S), M)
BY InOrderIsSeq DEF NamesOnly

LEMMA NamesOnlyOne ==
  ASSUME NEW e, NEW M, Labels(e) \subseteq M PROVE NamesOnly(<<e>>, M)
<1> DEFINE S == {e}
<1>1. <<e>> \in Seq(S) /\ Speaks(S, M)
  BY DEF Speaks
<1> HIDE DEF S
<1>2. QED
  BY <1>1, Zenon DEF NamesOnly

\* What stands in a new threat or finding until its publisher names somebody.
Nameless(x) ==
  /\ DOMAIN x = DOMAIN Blank
  /\ x.user = None /\ x.ip = None /\ x.device = None /\ x.entity = None
  /\ x.source = "sensor"

LEMMA NewItemsAreNameless ==
  /\ \A type, sev : Nameless(Threat(type, sev))
  /\ \A agent, type, sev, conf : Nameless(Finding(agent, type, sev, conf))
<1>1. /\ Blank.user = None /\ Blank.ip = None /\ Blank.device = None
      /\ Blank.entity = None /\ Blank.source = "sensor"
  BY DEF Blank
<1>2. ASSUME NEW type, NEW sev PROVE Nameless(Threat(type, sev))
  BY <1>1, BlankFields DEF Threat, Nameless
<1>3. ASSUME NEW agent, NEW type, NEW sev, NEW conf
      PROVE  Nameless(Finding(agent, type, sev, conf))
  BY <1>1, BlankFields DEF Finding, Nameless
<1>4. QED
  BY <1>2, <1>3

LEMMA AgentSpeaks ==
  ASSUME NEW e, NEW M, OwnLabels \subseteq M, Labels(e) \subseteq M
  PROVE  Speaks(AgentPublishes(e), M)
<1> DEFINE f == Finding("ZeroTrustAgent", e.type, AgentFindingOn(e)[1],
                        AgentFindingOn(e)[2])
           address == IF e.ip = None THEN Unknown ELSE e.ip
           a == [f EXCEPT !.ip = address]
           b == [f EXCEPT !.user = Subject(e)]
           x == IF e.type = "network_intrusion" THEN a ELSE b
<1>1. AgentPublishes(e) \subseteq {x}
  BY DEF AgentPublishes
<1>2. Nameless(f)
  BY NewItemsAreNameless
<1>3. address \in M /\ Subject(e) \in M /\ {None, "sensor"} \subseteq M
  BY DEF Subject, Labels, OwnLabels
<1> HIDE DEF f, address
<1>4. Labels(a) \subseteq M /\ Labels(b) \subseteq M
  <2>1. /\ a.user \in M /\ a.ip \in M /\ a.device \in M /\ a.entity \in M /\ a.source \in M
        /\ b.user \in M /\ b.ip \in M /\ b.device \in M /\ b.entity \in M /\ b.source \in M
    BY <1>2, <1>3, BlankFields DEF Nameless
  <2> HIDE DEF a, b
  <2>2. QED
    BY <2>1 DEF Labels
<1> HIDE DEF a, b
<1>5. Labels(x) \subseteq M
  BY <1>4
<1> HIDE DEF x
<1>6. QED
  BY <1>1, <1>5 DEF Speaks

LEMMA DNASpeaks ==
  ASSUME NEW e, WellFormed(e), NEW M, OwnLabels \subseteq M, Labels(e) \subseteq M
  PROVE  Speaks(DNAPublishes(e), M)
<1>1. Anomalous(e) \subseteq M
  <2>1. CASE e.bus = "threat"
    BY <2>1 DEF Anomalous, Profiles, Labels
  <2>2. CASE e.bus # "threat"
    BY <2>2, OnlyThreatsAreUnusual
  <2>3. QED
    BY <2>1, <2>2
<1>2. ASSUME NEW n \in M PROVE Labels(AnomalyReport(n, e)) \subseteq M
  <2> DEFINE v == AnomalySeverity(n, e)
             t == Threat("anomalous_behavior", v)
             x == AnomalyReport(n, e)
  <2>1. x = [t EXCEPT !.source = "BehavioralDNAEngine", !.entity = n, !.deviation = TRUE,
                      !.hour = e.hour]
    BY DEF AnomalyReport
  <2> HIDE DEF v, x
  <2>2. Nameless(t)
    BY NewItemsAreNameless
  <2> HIDE DEF t
  <2>3. {None, "BehavioralDNAEngine"} \subseteq M
    BY DEF OwnLabels
  <2>4. x.user \in M /\ x.ip \in M /\ x.device \in M /\ x.entity \in M /\ x.source \in M
    BY <2>1, <2>2, <2>3, BlankFields DEF Nameless
  <2>5. QED
    BY <2>4 DEF Labels, x
<1>3. QED
  BY <1>1, <1>2 DEF DNAPublishes, Speaks

\* An alarm about a device names the device.
LEMMA AlarmSpeaks ==
  ASSUME NEW M, OwnLabels \subseteq M, NEW d \in M, NEW reason
  PROVE  Speaks(AlarmUnless(d, reason), M)
<1> DEFINE t == Threat("device_health_fail", CRITICAL)
           x == Alarm(d, reason)
<1>1. x = [t EXCEPT !.source = "DeviceTrustEngine", !.device = d, !.resource = reason]
  BY DEF Alarm
<1>2. AlarmUnless(d, reason) \subseteq {x}
  BY DEF AlarmUnless
<1>3. Nameless(t)
  BY NewItemsAreNameless
<1> HIDE DEF t, x
<1>4. {None, "DeviceTrustEngine"} \subseteq M
  BY DEF OwnLabels
<1>5. x.user \in M /\ x.ip \in M /\ x.device \in M /\ x.entity \in M /\ x.source \in M
  BY <1>1, <1>3, <1>4, BlankFields DEF Nameless
<1>6. QED
  BY <1>2, <1>5 DEF Labels, Speaks

LEMMA DeviceSpeaks ==
  ASSUME NEW e, NEW M, OwnLabels \subseteq M, Labels(e) \subseteq M
  PROVE  Speaks(DevicePublishes(e), M)
<1>1. DevicePublishes(e)
        \in {{}, AlarmUnless(e.device, "anomalies"), AlarmUnless(e.device, "finding")}
  BY DEF DevicePublishes
<1>2. e.device \in M
  BY DEF Labels
<1>3. Speaks({}, M)
  BY DEF Speaks
<1>4. QED
  BY <1>1, <1>2, <1>3, AlarmSpeaks

\* The physical engine names the person seen.
LEMMA PhysicalSpeaks ==
  ASSUME NEW e, WellFormed(e), NEW M, OwnLabels \subseteq M, Labels(e) \subseteq M
  PROVE  Speaks(PhysicalPublishes(e), M)
<1>0. PhysicalPerson(e) \in M /\ e.user \in M
      /\ {None, "PhysicalSecurityEngine"} \subseteq M
  BY AboutTheNamed DEF Labels, OwnLabels
<1>1. ASSUME NEW reason, NEW on PROVE Labels(PhysicalAnomaly(e, reason, on)) \subseteq M
  <2> DEFINE t == Threat("physical_intrusion", ZoneAlarm(e.zone))
             p == PhysicalPerson(e)
             x == PhysicalAnomaly(e, reason, on)
  <2>1. x = [t EXCEPT !.source = "PhysicalSecurityEngine", !.user = p, !.entity = p,
                      !.zone = e.zone, !.badge = e.badge, !.face = e.face,
                      !.past = e.motion, !.tailgate = on, !.resource = reason]
    BY DEF PhysicalAnomaly
  <2>2. Nameless(t) /\ p \in M
    BY <1>0, NewItemsAreNameless
  <2> HIDE DEF t, p, x
  <2>3. x.user \in M /\ x.ip \in M /\ x.device \in M /\ x.entity \in M /\ x.source \in M
    BY <1>0, <2>1, <2>2, BlankFields DEF Nameless
  <2>4. QED
    BY <2>3 DEF Labels, x
<1>2. ASSUME NEW reason, NEW v PROVE Labels(Mismatch(e, reason, v)) \subseteq M
  <2> DEFINE t == Threat("physical_cyber_mismatch", v)
             u == e.user
             x == Mismatch(e, reason, v)
  <2>1. x = [t EXCEPT !.source = "PhysicalSecurityEngine", !.user = u,
                      !.entity = u, !.resource = reason]
    BY DEF Mismatch
  <2>2. Nameless(t) /\ u \in M
    BY <1>0, NewItemsAreNameless
  <2> HIDE DEF t, u, x
  <2>3. x.user \in M /\ x.ip \in M /\ x.device \in M /\ x.entity \in M /\ x.source \in M
    BY <1>0, <2>1, <2>2, BlankFields DEF Nameless
  <2>4. QED
    BY <2>3 DEF Labels, x
<1>3. \A x \in PhysicalAnomalies(e) : Labels(x) \subseteq M
  <2>1. \A x \in PhysicalAnomalies(e) : \E reason, on : x = PhysicalAnomaly(e, reason, on)
    BY AnomaliesOf, Zenon
  <2>2. QED
    BY <1>1, <2>1
<1>4. \A x \in Mismatches(e) : Labels(x) \subseteq M
  <2>1. \/ Mismatches(e) = {}
        \/ \E reason, v : Mismatches(e) = {Mismatch(e, reason, v)}
    BY DEF Mismatches
  <2>2. QED
    BY <1>2, <2>1
<1>5. QED
  BY <1>3, <1>4 DEF PhysicalPublishes, Speaks

\* The arbiter's alert names the entity that scored.
LEMMA ArbiterSpeaks ==
  ASSUME NEW e, WellFormed(e), NEW M, OwnLabels \subseteq M, Labels(e) \subseteq M
  PROVE  Speaks(ArbiterPublishes(e), M)
<1> DEFINE n == ArbiterEntity(e)
           c == ScoreAfter(n, e)
           f == Finding("MetaRiskArbiter", "correlated_attack", RiskLevel(c), c)
           x == RiskAlert(n, e)
<1>1. ArbiterPublishes(e) \subseteq {x}
  <2>1. ArbiterPublishes(e) = {x} \/ ArbiterPublishes(e) = {}
    BY Zenon DEF ArbiterPublishes, n, x
  <2> HIDE DEF x
  <2>2. QED
    BY <2>1
<1>2. x = [f EXCEPT !.entity = n]
  BY Zenon DEF RiskAlert, x, f, c
<1>3. n \in M /\ {None, "sensor"} \subseteq M
  BY AboutTheNamed DEF OwnLabels
<1> HIDE DEF n, c, x
<1>4. Nameless(f)
  BY NewItemsAreNameless
<1> HIDE DEF f
<1>5. x.user \in M /\ x.ip \in M /\ x.device \in M /\ x.entity \in M /\ x.source \in M
  BY <1>2, <1>3, <1>4, BlankFields DEF Nameless
<1>6. QED
  BY <1>1, <1>5 DEF Labels, Speaks

LEMMA PublishedNames ==
  ASSUME BusInv, NEW e, WellFormed(e), NEW M, OwnLabels \subseteq M, Labels(e) \subseteq M
  PROVE  NamesOnly(Published(e), M)
<1> DEFINE a == InOrder(AgentPublishes(e))
           b == InOrder(DNAPublishes(e))
           c == InOrder(DevicePublishes(e))
           d == InOrder({})
           f == InOrder(PhysicalPublishes(e))
           h == InOrder(ArbiterPublishes(e))
<1>1. NamesOnly(a, M) /\ NamesOnly(b, M) /\ NamesOnly(c, M)
  <2>1. /\ Speaks(AgentPublishes(e), M) /\ Speaks(DNAPublishes(e), M)
        /\ Speaks(DevicePublishes(e), M)
    BY AgentSpeaks, DNASpeaks, DeviceSpeaks
  <2>2. /\ IsFiniteSet(AgentPublishes(e)) /\ IsFiniteSet(DNAPublishes(e))
        /\ IsFiniteSet(DevicePublishes(e))
    BY ReportsArePublishable, AnomaliesArePublishable, AlarmsArePublishable DEF Publishable
  <2>3. QED
    BY <2>1, <2>2, InOrderNamesOnly
<1>2. NamesOnly(d, M)
  <2>1. Speaks({}, M) /\ IsFiniteSet({})
    BY FS_EmptySet DEF Speaks
  <2>2. QED
    BY <2>1, InOrderNamesOnly
<1>3. NamesOnly(f, M) /\ NamesOnly(h, M)
  <2>1. Speaks(PhysicalPublishes(e), M) /\ Speaks(ArbiterPublishes(e), M)
    BY PhysicalSpeaks, ArbiterSpeaks
  <2>2. IsFiniteSet(PhysicalPublishes(e)) /\ IsFiniteSet(ArbiterPublishes(e))
    BY IntrusionsArePublishable, RiskAlertsArePublishable DEF Publishable, BusInv
  <2>3. QED
    BY <2>1, <2>2, InOrderNamesOnly
<1>4. Published(e) = a \o b \o c \o d \o f \o d \o h
  <2>1. UEBAPublishes(e) = {} /\ InsiderPublishes(e) = {}
    BY UEBAHandles, InsiderHandles DEF BusInv
  <2>2. QED
    BY <2>1, Zenon DEF Published
<1> HIDE DEF a, b, c, d, f, h
<1>5. NamesOnly(a \o b \o c \o d, M)
  BY <1>1, <1>2, NamesOnlyBoth
<1>6. NamesOnly(a \o b \o c \o d \o f \o d, M)
  BY <1>2, <1>3, <1>5, NamesOnlyBoth
<1>7. QED
  BY <1>3, <1>4, <1>6, NamesOnlyBoth

\* What the periodic work publishes, and how much it weighs: the entities that
\* the converged engine knows and the altered devices are named, too.
LEMMA RoundIsFew ==
  ASSUME BusInv, NEW M, IsFiniteSet(M), OwnLabels \subseteq M,
         \A i \in DOMAIN known : known[i] \in M
  PROVE  /\ \A R : Few(ConvergedPublishes, Cardinality(M), 1, R)
         /\ Speaks(ConvergedPublishes, M)
         /\ known = <<>> => ConvergedPublishes = {}
<1> DEFINE S == {x \in Reached : ~Raises(x) /\ Firing(x) # {}}
           f == [n \in S |-> ConvergedAlert(n)]
<1>1. Publishable(ConvergedPublishes)
  BY RoundIsPublishable DEF BusInv, ConvergedInv
<1>2. S \subseteq M /\ (known = <<>> => S = {})
  BY DEF Reached
<1>3. ConvergedPublishes = {f[n] : n \in S} /\ DOMAIN f = S /\ f = [n \in S |-> f[n]]
  BY DEF ConvergedPublishes
<1>4. IsFiniteSet(S) /\ Cardinality(S) <= Cardinality(M) /\ Cardinality(M) \in Nat
      /\ Cardinality(S) \in Nat
  BY <1>2, FS_Subset, FS_CardinalityType
<1>5. \A x \in ConvergedPublishes : \E n \in S : x = ConvergedAlert(n)
  BY DEF ConvergedPublishes
<1>6. ASSUME NEW n \in M
      PROVE  /\ ConvergedAlert(n).bus = "finding" /\ Named(ConvergedAlert(n)) = {}
             /\ Labels(ConvergedAlert(n)) \subseteq M
  <2> DEFINE c == TopScore(n)
             v == IF c >= 900 THEN CRITICAL ELSE HIGH
             t == Finding("ConvergedSecurityEngine", "correlated_attack", v, c)
             x == ConvergedAlert(n)
  <2>1. x = [t EXCEPT !.entity = n]
    BY DEF ConvergedAlert
  <2> HIDE DEF c, v, x
  <2>2. Nameless(t) /\ t.bus = "finding"
    BY NewItemsAreNameless, FindingIsBlank
  <2>3. {None, "sensor"} \subseteq M
    BY DEF OwnLabels
  <2> HIDE DEF t
  <2>4. /\ x.bus = "finding" /\ x.user = None /\ x.ip = None /\ x.device = None
        /\ x.entity \in M /\ x.source \in M
    BY <2>1, <2>2, <2>3, BlankFields DEF Nameless
  <2>5. QED
    BY <2>3, <2>4 DEF Labels, Named, x
<1> HIDE DEF S, f
<1>7. Cardinality(ConvergedPublishes) <= Cardinality(M)
  <2>1. /\ IsFiniteSet(ConvergedPublishes)
        /\ Cardinality(ConvergedPublishes) <= Cardinality(S)
    BY <1>3, <1>4, ImageIsNoLarger
  <2>2. Cardinality(ConvergedPublishes) \in Nat
    BY <2>1, FS_CardinalityType
  <2>3. QED
    BY <1>4, <2>1, <2>2
<1>8. \A x \in ConvergedPublishes : /\ x.bus = "finding" /\ Named(x) = {}
                                    /\ Labels(x) \subseteq M
  BY <1>2, <1>5, <1>6
<1>9. \A R : \A x \in ConvergedPublishes : Weight(x, R) <= 1
  BY <1>8, LightWeights
<1>10. known = <<>> => ConvergedPublishes = {}
  BY <1>2, <1>5
<1>11. QED
  BY <1>1, <1>7, <1>8, <1>9, <1>10 DEF Few, Speaks

LEMMA HourIsFew ==
  ASSUME NEW M, IsFiniteSet(M), OwnLabels \subseteq M, altered \subseteq M
  PROVE  /\ \A R : Few(HourPublishes, Cardinality(M), 4, R)
         /\ Speaks(HourPublishes, M)
         /\ altered = {} => HourPublishes = {}
<1> DEFINE S == {x \in altered : Registered(x)}
           f == [d \in S |-> Alarm(d, "periodic")]
           T == {f[d] : d \in S}
<1>0. IsFiniteSet(altered)
  BY FS_Subset
<1>1. Publishable(HourPublishes)
  BY <1>0, HourIsPublishable
<1>2. S \subseteq M /\ (altered = {} => S = {})
  OBVIOUS
<1>3. IsFiniteSet(S) /\ Cardinality(S) <= Cardinality(M) /\ Cardinality(M) \in Nat
      /\ Cardinality(S) \in Nat
  BY <1>2, FS_Subset, FS_CardinalityType
<1>4. HourPublishes \subseteq T /\ (S = {} => HourPublishes = {})
  BY DEF HourPublishes, AlarmUnless
<1>5. \A x \in HourPublishes : \E d \in S : x \in AlarmUnless(d, "periodic")
  BY DEF HourPublishes
<1>6. DOMAIN f = S /\ f = [d \in S |-> f[d]]
  OBVIOUS
<1> HIDE DEF S, f
<1>7. IsFiniteSet(T) /\ Cardinality(T) <= Cardinality(S)
  BY <1>3, <1>6, ImageIsNoLarger
<1> HIDE DEF T
<1>8. Cardinality(HourPublishes) <= Cardinality(M)
  <2>1. Cardinality(HourPublishes) <= Cardinality(T) /\ Cardinality(T) \in Nat
        /\ Cardinality(HourPublishes) \in Nat
    BY <1>4, <1>7, FS_Subset, FS_CardinalityType
  <2>2. QED
    BY <1>3, <1>7, <2>1
<1>9. \A x \in HourPublishes : Labels(x) \subseteq M
  BY <1>2, <1>5, AlarmSpeaks DEF Speaks
<1>10. \A R : \A x \in HourPublishes : Weight(x, R) <= 4
  BY <1>5, AlarmFew DEF Few
<1>11. QED
  BY <1>1, <1>2, <1>4, <1>8, <1>9, <1>10 DEF Few, Speaks

\* M holds every name that is in use.
NamesIn(M) ==
  /\ OwnLabels \subseteq M /\ NamesOnly(pending, M)
  /\ \A i \in DOMAIN known : known[i] \in M
  /\ altered \subseteq M

\* An arrival brings five names at most.
IsOfSize(M, a) == IsFiniteSet(M) /\ Cardinality(M) <= 6 + 5 * a

NamesInv == \E M : NamesIn(M) /\ IsOfSize(M, arrivals)

LEMMA KnownNames ==
  ASSUME BusInv, NEW e, WellFormed(e), ConvergedOn(e), NEW M, OwnLabels \subseteq M,
         Labels(e) \subseteq M, \A i \in DOMAIN known : known[i] \in M
  PROVE  \A i \in DOMAIN known' : known'[i] \in M
<1>1. known \in Seq(Tracked)
  BY DEF BusInv, ConvergedInv, KnownAreTracked
<1>2. known' = known \/ known' = Append(known, ConvergedEntity(e))
  BY DEF ConvergedOn
<1>3. ConvergedEntity(e) \in M
  BY AboutTheNamed
<1> DEFINE n == ConvergedEntity(e)
<1> HIDE DEF n
<1>4. \A i \in DOMAIN Append(known, n) : Append(known, n)[i] \in M
  BY <1>1, <1>3 DEF n
<1>5. QED
  BY <1>2, <1>4 DEF n

\* Without a new arrival nobody new is named.
LEMMA NamesStay ==
  ASSUME BusInv, NEW M, IsFiniteSet(M), NamesIn(M),
         \/ Deliver \/ Drop \/ CallInsider \/ MinutePasses \/ HourPasses
         \/ RecordExpires \/ UNCHANGED vars
  PROVE  NamesIn(M)'
<1>1. CASE Deliver
  <2> DEFINE e == Head(pending)
  <2>1. pending # <<>> /\ pending' = Tail(pending) \o Published(e)
        /\ ConvergedOn(e) /\ DeviceOn(e)
    BY <1>1 DEF Deliver
  <2>2. WellFormed(e) /\ Labels(e) \subseteq M /\ NamesOnly(Tail(pending), M)
    BY <2>1, CarriesParts, NamesOnlyParts DEF BusInv, NamesIn
  <2> HIDE DEF e
  <2>3. OwnLabels \subseteq M
    BY DEF NamesIn
  <2>4. NamesOnly(pending', M)
    BY <2>1, <2>2, <2>3, PublishedNames, NamesOnlyBoth
  <2>5. \A i \in DOMAIN known' : known'[i] \in M
    BY <2>1, <2>2, KnownNames DEF NamesIn
  <2>6. altered' = altered
    BY <2>1 DEF DeviceOn, deviceVars
  <2>7. QED
    BY <2>4, <2>5, <2>6 DEF NamesIn
<1>2. CASE Drop
  <2>1. pending # <<>> /\ pending' = Tail(pending) /\ altered' = altered /\ known' = known
    BY <1>2 DEF Drop, DeviceResumes, Others, convergedVars
  <2>2. NamesOnly(pending', M)
    BY <2>1, NamesOnlyParts DEF NamesIn
  <2>3. QED
    BY <2>1, <2>2 DEF NamesIn
<1>3. CASE MinutePasses
  <2>1. pending' = InOrder(ConvergedPublishes) /\ altered' = altered /\ known' = known
    BY <1>3 DEF MinutePasses, EvaluationRound, deviceVars
  <2>2. Speaks(ConvergedPublishes, M) /\ IsFiniteSet(ConvergedPublishes)
    BY RoundIsFew DEF NamesIn, Few, Publishable
  <2>3. NamesOnly(pending', M)
    BY <2>1, <2>2, InOrderNamesOnly
  <2>4. QED
    BY <2>1, <2>3 DEF NamesIn
<1>4. CASE HourPasses
  <2>1. pending' = InOrder(HourPublishes) /\ altered' = altered /\ known' = known
    BY <1>4 DEF HourPasses, ConvergedHour, DeviceHour
  <2>2. Speaks(HourPublishes, M) /\ IsFiniteSet(HourPublishes)
    BY HourIsFew DEF NamesIn, Few, Publishable
  <2>3. NamesOnly(pending', M)
    BY <2>1, <2>2, InOrderNamesOnly
  <2>4. QED
    BY <2>1, <2>3 DEF NamesIn
<1>5. CASE CallInsider \/ RecordExpires \/ UNCHANGED vars
  BY <1>5 DEF CallInsider, RecordExpires, vars, busVars, deviceVars, convergedVars,
     NamesIn
<1>6. QED
  BY <1>1, <1>2, <1>3, <1>4, <1>5

\* A set of k members at most.
Numbers(X, k) == IsFiniteSet(X) /\ Cardinality(X) <= k

LEMMA OneMore ==
  ASSUME NEW X, NEW k \in Nat, Numbers(X, k), NEW x PROVE Numbers(X \cup {x}, k + 1)
<1>1. IsFiniteSet(X) /\ Cardinality(X) <= k /\ Cardinality(X) \in Nat
  BY FS_CardinalityType DEF Numbers
<1>2. /\ IsFiniteSet(X \cup {x})
      /\ Cardinality(X \cup {x}) \in {Cardinality(X), Cardinality(X) + 1}
  BY <1>1, FS_AddElement
<1> DEFINE Y == X \cup {x}
<1> HIDE DEF Y
<1>3. IsFiniteSet(Y) /\ Cardinality(Y) <= k + 1
  BY <1>1, <1>2 DEF Y
<1>4. QED
  BY <1>3 DEF Numbers, Y

LEMMA FiveMore ==
  ASSUME NEW M, NEW k \in Nat, Numbers(M, k), NEW p, NEW q, NEW r, NEW s, NEW t
  PROVE  Numbers(M \cup {p, q, r, s, t}, k + 5)
<1> DEFINE M1 == M \cup {p}
           M2 == M1 \cup {q}
           M3 == M2 \cup {r}
           M4 == M3 \cup {s}
           M5 == M4 \cup {t}
<1> HIDE DEF M1, M2, M3, M4, M5
<1>2. M \cup {p, q, r, s, t} = M5
  <2> DEFINE N == M \cup {p, q, r, s, t}
  <2>1. \A x : x \in M5 <=> x \in M \/ x \in {p, q, r, s, t}
    BY Zenon DEF M1, M2, M3, M4, M5
  <2>2. \A x : x \in N <=> x \in M \/ x \in {p, q, r, s, t}
    OBVIOUS
  <2> HIDE DEF N
  <2>3. N = M5
    BY ONLY <2>1, <2>2
  <2>4. QED
    BY <2>3 DEF N
<1>3. k + 1 \in Nat /\ Numbers(M1, k + 1)
  <2>1. k + 1 \in Nat
    OBVIOUS
  <2>2. Numbers(M1, k + 1)
    BY OneMore DEF M1
  <2>3. QED
    BY <2>1, <2>2
<1>4. k + 2 \in Nat /\ (k + 1) + 1 = k + 2
  OBVIOUS
<1>5. Numbers(M2, k + 2)
  BY <1>3, <1>4, OneMore DEF M2
<1>6. k + 3 \in Nat /\ (k + 2) + 1 = k + 3
  OBVIOUS
<1>7. Numbers(M3, k + 3)
  BY <1>4, <1>5, <1>6, OneMore DEF M3
<1>8. k + 4 \in Nat /\ (k + 3) + 1 = k + 4
  OBVIOUS
<1>9. Numbers(M4, k + 4)
  BY <1>6, <1>7, <1>8, OneMore DEF M4
<1>10. (k + 4) + 1 = k + 5
  OBVIOUS
<1>11. Numbers(M5, k + 5)
  BY <1>8, <1>9, <1>10, OneMore DEF M5
<1>12. QED
  BY <1>2, <1>11

\* What M may grow by with an arrival.
LEMMA MoreNames ==
  ASSUME NEW M, NEW a \in Nat, IsOfSize(M, a), NEW p, NEW q, NEW r, NEW s, NEW t
  PROVE  IsOfSize(M \cup {p, q, r, s, t}, a + 1)
<1> DEFINE k == 6 + 5 * a
           N == M \cup {p, q, r, s, t}
<1>1. k \in Nat /\ Numbers(M, k) /\ 6 + 5 * (a + 1) = k + 5
  BY DEF IsOfSize, Numbers
<1> HIDE DEF k
<1>2. Numbers(N, k + 5)
  BY <1>1, FiveMore
<1> HIDE DEF N
<1>3. IsOfSize(N, a + 1)
  BY <1>1, <1>2 DEF IsOfSize, Numbers
<1>4. QED
  BY <1>3 DEF N

\* What a call of the device engine's interface publishes.
LEMMA CallIsFew ==
  ASSUME CallDevice
  PROVE  /\ arrivals' = arrivals + 1 /\ UNCHANGED <<recent, served, known>>
         /\ \E d, reason : pending' = pending \o InOrder(AlarmUnless(d, reason))
                           \/ pending' = pending \o InOrder({})
<1>1. PICK d \in Devices :
        \E S \in {{}, HealthUpdatePublishes(d, 285), VerificationPublishes(d)} :
          /\ arrivals' = arrivals + 1 /\ pending' = pending \o InOrder(S)
          /\ UNCHANGED <<recent, served, Others>>
  BY DEF CallDevice, DeviceCall
<1>2. PICK S \in {{}, HealthUpdatePublishes(d, 285), VerificationPublishes(d)} :
        /\ arrivals' = arrivals + 1 /\ pending' = pending \o InOrder(S)
        /\ UNCHANGED <<recent, served, Others>>
  BY <1>1
<1>3. \E reason : S \in {{}, AlarmUnless(d, reason)}
  BY <1>2 DEF HealthUpdatePublishes, VerificationPublishes
<1>4. known' = known
  BY <1>2 DEF Others, convergedVars
<1>5. QED
  BY <1>2, <1>3, <1>4

LEMMA NamesInvStep ==
  ASSUME BusInv, arrivals \in Nat, NamesInv, [Next]_vars PROVE NamesInv'
<1>1. PICK M : NamesIn(M) /\ IsOfSize(M, arrivals)
  BY DEF NamesInv
<1>2. IsFiniteSet(M) /\ OwnLabels \subseteq M
  BY <1>1 DEF IsOfSize, NamesIn
<1>3. CASE \/ Deliver \/ Drop \/ MinutePasses \/ HourPasses
           \/ RecordExpires \/ UNCHANGED vars
  <2>1. arrivals' = arrivals
    BY <1>3 DEF Deliver, Drop, MinutePasses, HourPasses, RecordExpires, vars, busVars
  <2>2. NamesIn(M)'
    BY <1>1, <1>2, <1>3, NamesStay
  <2>3. QED
    BY <1>1, <2>1, <2>2 DEF NamesInv
<1>4. CASE CallInsider
  <2>1. arrivals' = arrivals + 1
    BY <1>4 DEF CallInsider
  <2>2. NamesIn(M)'
    BY <1>1, <1>2, <1>4, NamesStay
  <2>3. IsOfSize(M, arrivals + 1)
    <3> DEFINE n == Cardinality(M)
               k == arrivals
    <3>1. n \in Nat /\ n <= 6 + 5 * k /\ k \in Nat
      BY <1>1, <1>2, FS_CardinalityType DEF IsOfSize
    <3> HIDE DEF n, k
    <3>2. n <= 6 + 5 * (k + 1)
      BY ONLY <3>1
    <3>3. QED
      BY <1>2, <3>2 DEF IsOfSize, n, k
  <2>4. QED
    BY <2>1, <2>2, <2>3 DEF NamesInv
<1>5. CASE Arrive
  <2>1. PICK e \in Arrivals : pending' = Append(pending, e)
    BY <1>5 DEF Arrive
  <2>2. arrivals' = arrivals + 1 /\ altered' = altered /\ known' = known
    BY <1>5 DEF Arrive, Others, deviceVars, convergedVars
  <2> DEFINE N == M \cup {e.user, e.ip, e.device, e.entity, e.source}
  <2>3. IsOfSize(N, arrivals + 1)
    BY <1>1, MoreNames
  <2>4. Labels(e) \subseteq N /\ M \subseteq N
    BY DEF Labels
  <2> HIDE DEF N
  <2>5. pending' = pending \o <<e>>
    BY <2>1, AppendIsConcat DEF BusInv, Carries
  <2>6. NamesOnly(pending', N)
    BY <1>1, <2>4, <2>5, NamesOnlyMore, NamesOnlyOne, NamesOnlyBoth DEF NamesIn
  <2>7. NamesIn(N)'
    BY <1>1, <2>2, <2>4, <2>6 DEF NamesIn
  <2>8. QED
    BY <2>2, <2>3, <2>7 DEF NamesInv
<1>6. CASE CallDevice
  <2>1. PICK d, reason : pending' = pending \o InOrder(AlarmUnless(d, reason))
                         \/ pending' = pending \o InOrder({})
    BY <1>6, CallIsFew
  <2>2. arrivals' = arrivals + 1 /\ known' = known
    BY <1>6, CallIsFew
  <2>3. PICK c \in Devices : altered' \in {altered, altered \ {c}, altered \cup {c}}
    BY <1>6, CallAltersOne
  <2> DEFINE N == M \cup {c, d, d, d, d}
  <2>4. IsOfSize(N, arrivals + 1)
    BY <1>1, MoreNames
  <2>5. c \in N /\ d \in N /\ M \subseteq N
    OBVIOUS
  <2> HIDE DEF N
  <2>6. NamesOnly(InOrder(AlarmUnless(d, reason)), N) /\ NamesOnly(InOrder({}), N)
    <3>1. Speaks(AlarmUnless(d, reason), N) /\ Speaks({}, N)
      BY <1>2, <2>5, AlarmSpeaks DEF Speaks
    <3>2. IsFiniteSet(AlarmUnless(d, reason)) /\ IsFiniteSet({})
      BY AlarmFew, FS_EmptySet DEF Few, Publishable
    <3>3. QED
      BY <3>1, <3>2, InOrderNamesOnly
  <2>7. NamesOnly(pending', N)
    BY <1>1, <2>1, <2>5, <2>6, NamesOnlyMore, NamesOnlyBoth DEF NamesIn
  <2>8. NamesIn(N)'
    BY <1>1, <2>2, <2>3, <2>5, <2>7 DEF NamesIn
  <2>9. QED
    BY <2>2, <2>4, <2>8 DEF NamesInv
<1>7. QED
  BY <1>3, <1>4, <1>5, <1>6 DEF Next

-----------------------------------------------------------------------------
(* Every cascade ends *)

\* What has been handled since the last silence, with what it may still lead
\* to, is paid for by the arrivals.  Before the first of them nothing is known.
LoadInv ==
  /\ arrivals \in Nat /\ served \in Nat
  /\ served + Load(pending, recent) <= Heaviest * arrivals
  /\ pending = <<>> => served = 0
  /\ arrivals = 0 => known = <<>> /\ altered = {}

CascadeInv == BusInv /\ NamesInv /\ LoadInv

\* served counts on, or starts over.
LEMMA ServedOrSilent ==
  ASSUME NEW n \in Nat, NEW k \in Nat, NEW a \in Nat, n + 1 + k <= Heaviest * a,
         served' = IF pending' = <<>> THEN 0 ELSE n + 1
  PROVE  /\ served' \in Nat /\ served' + k <= Heaviest * a
         /\ pending' = <<>> => served' = 0
BY DEF Heaviest

LEMMA LoadOfDeliver ==
  ASSUME BusInv, LoadInv, Deliver
  PROVE  served + 1 + Load(pending', recent') <= Heaviest * arrivals
<1> DEFINE e == Head(pending)
           t == Tail(pending)
           p == Published(e)
           S == Remember(e)
<1>1. /\ pending # <<>> /\ pending' = t \o p /\ ~IsDuplicate(e) /\ recent' = S
  BY DEF Deliver
<1>2. WellFormed(e) /\ Carries(t) /\ Carries(p)
  BY <1>1, CarriesParts, PublishedIsCarried DEF BusInv
<1>3. ~Repeated(e, recent) /\ recent \subseteq S
      /\ (e.bus = "threat" => S = recent \cup {Fingerprint(e)})
  BY <1>1 DEF IsDuplicate, Repeated, Remember
<1>4. Load(pending, recent) = Weight(e, recent) + Load(t, recent)
  BY <1>1, LoadOfHead DEF BusInv
<1> HIDE DEF e, t, S
<1>5. Load(p, S) + 1 <= Weight(e, recent)
  BY <1>2, <1>3, DeliveryLoad
<1> HIDE DEF p
<1>6. Load(t, S) <= Load(t, recent)
  BY <1>2, <1>3, LoadFalls
<1>7. Load(pending', recent') = Load(t, S) + Load(p, S)
  BY <1>1, <1>2, LoadOfBoth
<1>8. /\ Load(t, S) \in Nat /\ Load(p, S) \in Nat /\ Load(t, recent) \in Nat
      /\ Weight(e, recent) \in Nat
  BY <1>2, LoadIsNat, WeightBounds
<1> DEFINE x == Load(t, S)
           y == Load(p, S)
           z == Load(t, recent)
           w == Weight(e, recent)
           b == Heaviest * arrivals
<1>9. /\ x \in Nat /\ y \in Nat /\ z \in Nat /\ w \in Nat /\ y + 1 <= w /\ x <= z
      /\ served \in Nat /\ served + (w + z) <= b /\ b \in Nat
  BY <1>4, <1>5, <1>6, <1>8 DEF LoadInv, Heaviest
<1> HIDE DEF x, y, z, w, b
<1>10. served + 1 + (x + y) <= b
  BY ONLY <1>9
<1>11. QED
  BY <1>7, <1>10 DEF x, y, b

LEMMA LoadOfDrop ==
  ASSUME BusInv, LoadInv, Drop
  PROVE  served + 1 + Load(pending', recent') <= Heaviest * arrivals
<1> DEFINE w == Weight(Head(pending), recent)
           z == Load(Tail(pending), recent)
           b == Heaviest * arrivals
<1>1. pending # <<>> /\ pending' = Tail(pending) /\ recent' = recent
  BY DEF Drop
<1>2. Load(pending, recent) = w + z
  BY <1>1, LoadOfHead DEF BusInv
<1>3. z \in Nat /\ w \in Nat /\ 1 <= w
  BY <1>1, CarriesParts, LoadIsNat, WeightBounds DEF BusInv
<1>4. served \in Nat /\ served + (w + z) <= b /\ b \in Nat
  BY <1>2 DEF LoadInv, Heaviest
<1> HIDE DEF w, z, b
<1>5. served + 1 + z <= b
  BY ONLY <1>3, <1>4
<1>6. QED
  BY <1>1, <1>5 DEF z, b

\* An arrival pays for itself.
LEMMA LoadOfArrive ==
  ASSUME BusInv, LoadInv, Arrive \/ CallDevice
  PROVE  /\ served' = served /\ arrivals' = arrivals + 1
         /\ Load(pending', recent') <= Load(pending, recent) + Heaviest
         /\ pending' = <<>> => pending = <<>>
<1>1. /\ served' = served /\ arrivals' = arrivals + 1 /\ recent' = recent
      /\ \E r : /\ pending' = pending \o r /\ Carries(r)
                /\ Load(r, recent) <= Heaviest
  <2>1. CASE Arrive
    <3>1. PICK e \in Arrivals : pending' = Append(pending, e)
      BY <2>1 DEF Arrive
    <3>2. pending' = pending \o <<e>>
      BY <3>1, AppendIsConcat DEF BusInv, Carries
    <3>3. WellFormed(e)
      BY ArrivalsAssumption
    <3>4. Carries(<<e>>) /\ Load(<<e>>, recent) <= Heaviest
      BY <3>3, CarriesOne, LoadOfOne, WeightBounds
    <3>5. QED
      BY <2>1, <3>2, <3>4 DEF Arrive
  <2>2. CASE CallDevice
    <3>1. PICK d, reason : pending' = pending \o InOrder(AlarmUnless(d, reason))
                           \/ pending' = pending \o InOrder({})
      BY <2>2, CallIsFew
    <3>2. arrivals' = arrivals + 1 /\ served' = served /\ recent' = recent
      BY <2>2, CallIsFew
    <3>3. Few(AlarmUnless(d, reason), 1, 4, recent) /\ Few({}, 1, 4, recent)
      BY AlarmFew, NoneIsFew
    <3>4. ASSUME NEW T, Few(T, 1, 4, recent)
          PROVE  Carries(InOrder(T)) /\ Load(InOrder(T), recent) <= Heaviest
      <4>1. Carries(InOrder(T))
        BY <3>4, InOrderCarries DEF Few
      <4>2. Load(InOrder(T), recent) <= 1 * 4 /\ Load(InOrder(T), recent) \in Nat
        BY <3>4, <4>1, LoadOfTheFew, LoadIsNat
      <4>3. QED
        BY <4>1, <4>2 DEF Heaviest
    <3>5. QED
      BY <3>1, <3>2, <3>3, <3>4
  <2>3. QED
    BY <2>1, <2>2
<1>2. PICK r : pending' = pending \o r /\ Carries(r) /\ Load(r, recent) <= Heaviest
  BY <1>1
<1>3. Load(pending', recent') = Load(pending, recent) + Load(r, recent)
  BY <1>1, <1>2, LoadOfBoth DEF BusInv
<1>4. Load(pending, recent) \in Nat /\ Load(r, recent) \in Nat
  BY <1>2, LoadIsNat DEF BusInv
<1>5. pending' = <<>> => pending = <<>>
  <2>1. PICK S, T : pending \in Seq(S) /\ r \in Seq(T)
    BY <1>2 DEF BusInv, Carries
  <2>2. Len(pending \o r) = Len(pending) + Len(r)
        /\ Len(pending) \in Nat /\ Len(r) \in Nat
    BY <2>1
  <2>3. pending' = <<>> => Len(pending) = 0
    BY <1>2, <2>2
  <2>4. QED
    BY <2>1, <2>3, EmptySeq
<1>6. QED
  BY <1>1, <1>2, <1>3, <1>4, <1>5 DEF Heaviest

\* What the periodic work publishes names what arrived.
LEMMA LoadOfPeriods ==
  ASSUME CascadeInv, MinutePasses \/ HourPasses
  PROVE  /\ served' = 0 /\ arrivals' = arrivals
         /\ Load(pending', recent') <= Heaviest * arrivals
<1>1. PICK M : NamesIn(M) /\ IsOfSize(M, arrivals)
  BY DEF CascadeInv, NamesInv
<1>2. /\ IsFiniteSet(M) /\ OwnLabels \subseteq M /\ altered \subseteq M
      /\ \A i \in DOMAIN known : known[i] \in M
  BY <1>1 DEF IsOfSize, NamesIn
<1>3. served' = 0 /\ arrivals' = arrivals
  BY DEF MinutePasses, HourPasses, CascadeInv, LoadInv
<1>4. pending' = InOrder(ConvergedPublishes) \/ pending' = InOrder(HourPublishes)
  BY DEF MinutePasses, HourPasses
<1> DEFINE n == Cardinality(M)
           a == arrivals
<1>5. n \in Nat /\ a \in Nat /\ n <= 6 + 5 * a
  BY <1>1, <1>2, FS_CardinalityType DEF IsOfSize, CascadeInv, LoadInv
<1>6. ASSUME NEW T, NEW m \in {1, 4}, \A R : Few(T, n, m, R), a = 0 => T = {}
      PROVE  \A R : Load(InOrder(T), R) <= Heaviest * a
  <2> SUFFICES ASSUME NEW R PROVE Load(InOrder(T), R) <= Heaviest * a
    OBVIOUS
  <2>1. Carries(InOrder(T)) /\ Load(InOrder(T), R) \in Nat
    BY <1>6, InOrderCarries, LoadIsNat DEF Few
  <2> HIDE DEF n, a
  <2>2. CASE a = 0
    <3>1. Load(InOrder(T), R) <= 0
      BY <1>6, <2>2, LoadOfNoItem
    <3>2. QED
      BY <2>2, <3>1 DEF Heaviest
  <2>3. CASE a # 0
    <3> DEFINE x == Load(InOrder(T), R)
    <3>1. x <= n * m
      BY <1>5, <1>6, LoadOfTheFew
    <3> HIDE DEF x
    <3>2. n * m <= n * 4
      BY ONLY <1>5, m \in {1, 4}
    <3>3. x <= n * 4 /\ x \in Nat
      BY <1>5, <2>1, <3>1, <3>2 DEF x
    <3>4. x <= 128 * a
      BY ONLY <1>5, <2>3, <3>3
    <3>5. QED
      BY <3>4 DEF x, Heaviest
  <2>4. QED
    BY <2>2, <2>3
<1>7. \A R : Load(InOrder(ConvergedPublishes), R) <= Heaviest * a
  <2>1. (\A R : Few(ConvergedPublishes, n, 1, R)) /\ (a = 0 => ConvergedPublishes = {})
    BY <1>2, RoundIsFew DEF CascadeInv, LoadInv
  <2>2. QED
    BY <1>6, <2>1
<1>8. \A R : Load(InOrder(HourPublishes), R) <= Heaviest * a
  <2>1. (\A R : Few(HourPublishes, n, 4, R)) /\ (a = 0 => HourPublishes = {})
    BY <1>2, HourIsFew DEF CascadeInv, LoadInv
  <2>2. QED
    BY <1>6, <2>1
<1>9. QED
  BY <1>3, <1>4, <1>7, <1>8

LEMMA CascadeInvInit == Init => CascadeInv
<1> SUFFICES ASSUME Init PROVE CascadeInv
  OBVIOUS
<1>1. /\ pending = <<>> /\ recent = {} /\ served = 0 /\ arrivals = 0
      /\ known = <<>> /\ altered = {}
  BY DEF Init, DeviceInit, ConvergedInit
<1>2. LoadInv
  BY <1>1, LoadOfNone DEF LoadInv, Heaviest
<1>3. NamesInv
  <2> DEFINE M == {None} \cup {Unknown, "sensor", "PhysicalSecurityEngine",
                              "DeviceTrustEngine", "BehavioralDNAEngine"}
  <2>1. Numbers({None}, 1)
    BY FS_Singleton DEF Numbers
  <2>2. Numbers(M, 1 + 5)
    BY <2>1, FiveMore
  <2>3. OwnLabels \subseteq M
    BY DEF OwnLabels
  <2> HIDE DEF M
  <2>4. IsOfSize(M, 0)
    BY <2>2 DEF Numbers, IsOfSize
  <2>5. NamesOnly(<<>>, M)
    <3>1. Speaks({}, M) /\ <<>> \in Seq({})
      BY EmptySeq DEF Speaks
    <3>2. QED
      BY <3>1 DEF NamesOnly
  <2>6. NamesIn(M)
    BY <1>1, <2>3, <2>5 DEF NamesIn
  <2>7. QED
    BY <1>1, <2>4, <2>6 DEF NamesInv
<1>4. QED
  BY <1>2, <1>3, BusInvInit DEF CascadeInv

LEMMA LoadInvStep ==
  ASSUME CascadeInv, [Next]_vars PROVE LoadInv'
<1>0. /\ BusInv /\ LoadInv /\ arrivals \in Nat /\ served \in Nat
      /\ Carries(pending') /\ Load(pending', recent') \in Nat
  BY BusCarries, LoadIsNat DEF CascadeInv, LoadInv
<1> DEFINE k == Load(pending', recent')
<1>1. CASE Deliver \/ Drop
  <2>1. served + 1 + k <= Heaviest * arrivals
    BY <1>0, <1>1, LoadOfDeliver, LoadOfDrop
  <2>2. arrivals' = arrivals
        /\ served' = IF pending' = <<>> THEN 0 ELSE served + 1
    BY <1>1 DEF Deliver, Drop
  <2> HIDE DEF k
  <2>3. k \in Nat
    BY <1>0 DEF k
  <2>4. /\ served' \in Nat /\ served' + k <= Heaviest * arrivals
        /\ pending' = <<>> => served' = 0
    BY <1>0, <2>1, <2>2, <2>3, ServedOrSilent
  <2>5. arrivals # 0
    BY <1>0, <2>1, <2>3 DEF Heaviest
  <2>6. QED
    BY <1>0, <2>2, <2>4, <2>5 DEF LoadInv, k
<1>2. CASE Arrive \/ CallDevice
  <2>1. /\ served' = served /\ arrivals' = arrivals + 1
        /\ k <= Load(pending, recent) + Heaviest
    BY <1>0, <1>2, LoadOfArrive
  <2> DEFINE l == Load(pending, recent)
  <2>2. served + l <= Heaviest * arrivals /\ l \in Nat
    BY <1>0, LoadIsNat DEF LoadInv, BusInv
  <2>3. k \in Nat /\ k <= l + Heaviest
    BY <1>0, <2>1
  <2> HIDE DEF k, l
  <2>4. served + k <= Heaviest * (arrivals + 1)
    BY <1>0, <2>2, <2>3 DEF Heaviest
  <2>5. pending' = <<>> => served = 0
    BY <1>0, <1>2, LoadOfArrive DEF LoadInv
  <2>6. QED
    BY <1>0, <2>1, <2>4, <2>5 DEF LoadInv, k
<1>3. CASE MinutePasses \/ HourPasses
  <2>1. /\ served' = 0 /\ arrivals' = arrivals /\ k <= Heaviest * arrivals
    BY <1>3, LoadOfPeriods
  <2>2. known' = known /\ altered' = altered
    BY <1>3 DEF MinutePasses, HourPasses, EvaluationRound, ConvergedHour, DeviceHour,
                deviceVars
  <2>3. k \in Nat
    BY <1>0
  <2> HIDE DEF k
  <2>4. served' + k <= Heaviest * arrivals
    BY <2>1, <2>3
  <2>5. QED
    BY <1>0, <2>1, <2>2, <2>4 DEF LoadInv, k
<1>4. CASE CallInsider
  <2>1. /\ arrivals' = arrivals + 1
        /\ UNCHANGED <<pending, recent, served>>
    BY <1>4 DEF CallInsider
  <2> DEFINE l == Load(pending, recent)
  <2>2. served + l <= Heaviest * arrivals /\ l \in Nat
    BY <1>0, LoadIsNat DEF LoadInv, BusInv
  <2> HIDE DEF l
  <2>3. served + l <= Heaviest * (arrivals + 1)
    BY <1>0, <2>2 DEF Heaviest
  <2>4. QED
    BY <1>0, <2>1, <2>3 DEF LoadInv, l
<1>5. CASE RecordExpires \/ UNCHANGED vars
  BY <1>0, <1>5 DEF LoadInv, RecordExpires, vars, busVars, convergedVars, deviceVars
<1>6. QED
  BY <1>1, <1>2, <1>3, <1>4, <1>5 DEF Next

LEMMA CascadeInvStep == CascadeInv /\ [Next]_vars => CascadeInv'
<1> SUFFICES ASSUME CascadeInv, [Next]_vars PROVE CascadeInv'
  OBVIOUS
<1>1. BusInv'
  BY BusInvStep DEF CascadeInv
<1>2. NamesInv'
  BY NamesInvStep DEF CascadeInv, LoadInv
<1>3. QED
  BY <1>1, <1>2, LoadInvStep DEF CascadeInv

(* Whatever arrives, and however the engines call and answer one another   *)
(* over the bus: what is published between two silences is bounded by what *)
(* arrived from outside.  For a run the limit is measured; 128 is enough   *)
(* for every set of users, devices and items.  It is the filter of the bus *)
(* that sees to it (event_bus.py 47-61): an intrusion the physical engine  *)
(* published is a sighting to itself, of which it publishes only what it   *)
(* published before, so that each echo that passes has fewer new ones.     *)
THEOREM CascadesAlwaysEnd ==
  ASSUME CascadeLimit \in Nat, CascadeLimit >= Heaviest
  PROVE  Spec => []CascadesEnd
<1>1. ASSUME CascadeInv PROVE CascadesEnd
  <2> DEFINE a == arrivals
             k == Load(pending, recent)
             c == CascadeLimit
  <2>1. /\ k \in Nat /\ a \in Nat /\ served \in Nat /\ served + k <= 128 * a
    BY <1>1, LoadIsNat DEF CascadeInv, LoadInv, BusInv, Heaviest
  <2>2. c \in Nat /\ c >= 128
    BY DEF Heaviest
  <2> HIDE DEF a, k, c
  <2>3. 128 * a <= c * a
    <3>1. PICK d \in Nat : c = 128 + d
      <4>1. c - 128 \in Nat /\ c = 128 + (c - 128)
        BY ONLY <2>2
      <4>2. QED
        BY <4>1
    <3>2. (128 + d) * a = 128 * a + d * a /\ d * a \in Nat
      BY ONLY <2>1, d \in Nat
    <3>3. QED
      BY <2>1, <3>1, <3>2
  <2>4. c * a \in Nat
    BY <2>1, <2>2
  <2> DEFINE p == c * a
  <2> HIDE DEF p
  <2>5. served <= p
    BY <2>1, <2>3, <2>4 DEF p
  <2>6. QED
    BY <2>5 DEF CascadesEnd, p, c, a
<1>2. QED
  BY CascadeInvInit, CascadeInvStep, <1>1, PTL DEF Spec
==============================================================================
