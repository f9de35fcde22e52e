---------------------------- MODULE MCZeroTrust ----------------------------
(* Model-checking instance of ZeroTrust: three requests of one user, two of  *)
(* them privileged, all from places and networks with the worst scores.      *)
EXTENDS ZeroTrust

RequestSet == {"r1", "r2", "r3"}

OneUser == [r \in RequestSet |-> "ann"]
DeviceMap == [r \in RequestSet |-> "10.0.0.9"]
RoleMap == [r \in RequestSet |-> IF r = "r3" THEN "user" ELSE "privileged"]
WorstNetwork == [r \in RequestSet |-> 500]
WorstLocation == [r \in RequestSet |-> 600]
=============================================================================
