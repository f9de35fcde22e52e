---- MODULE MCDetection ----
(* One user, one laptop, one address, and the items that tell the engines'  *)
(* cases apart.                                                             *)
EXTENDS Detection

Alice == "alice"
Laptop == "laptop"
Address == "10.0.0.7"

MCArrivals ==
  {\* a loud anomaly, and loud intelligence
   [Threat("anomalous_behavior", HIGH) EXCEPT !.user = Alice, !.score = 1000,
      !.volume = 6, !.anomaly = "reconnaissance"],
   [Threat("threat_intel_alert", CRITICAL) EXCEPT !.user = Alice, !.score = 1000],
   \* an intrusion on the laptop of a user, complete and not
   [Threat("network_intrusion", CRITICAL) EXCEPT !.user = Alice, !.device = Laptop,
      !.signature = "DNS_TUNNELING", !.dst = "10.0.0.9", !.hour = 23, !.rate = 20000],
   [Threat("network_intrusion", HIGH) EXCEPT !.user = Alice, !.ip = Address,
      !.signature = "RCE_EXPLOIT"],
   \* a badge in a guarded zone without a face; a login from elsewhere
   [Threat("physical_intrusion", HIGH) EXCEPT !.user = Alice, !.zone = "server_room",
      !.badge = TRUE, !.tailgate = TRUE, !.hour = 23],
   [Threat("identity_mismatch", HIGH) EXCEPT !.user = Alice, !.location = "office",
      !.detected = "abroad", !.biometric = 300],
   \* a leaver's copy to a private mailbox
   [Threat("insider_threat", HIGH) EXCEPT !.user = Alice, !.volume = 20, !.hour = 3,
      !.destination = "personal_email", !.hr = 1000],
   \* requests, as a threat and as a request
   [Threat("access_request", MEDIUM) EXCEPT !.user = Alice, !.role = "admin",
      !.network = "public", !.hour = 3, !.resource = "database"],
   [Blank EXCEPT !.bus = "request", !.user = Alice, !.network = "vpn",
      !.hour = 23, !.resource = "sensitive"],
   \* an agent is sure of a compromised laptop
   [Finding("CyberThreatAgent", "network_intrusion", CRITICAL, 900) EXCEPT
      !.device = Laptop]}
====
