----------------------------- MODULE MCTriGate -----------------------------
(* Model-checking instance of TriGate: a probe, and two logins of one        *)
(* fingerprint on two devices at two places, all by the same entity.         *)
EXTENDS TriGate

NetProbe(k, s) ==
  [type |-> "network", entity |-> "host", key |-> k, signal |-> s,
   critical |-> FALSE, score |-> 0, device |-> None, place |-> None, depth |-> 0]

Login(n, dev, pl) ==
  [type |-> "identity", entity |-> "host", key |-> "k2", signal |-> "normal",
   critical |-> FALSE, score |-> n, device |-> dev, place |-> pl, depth |-> 1]

EventSet == {"n1", "i1", "i2"}

ProfileMap == [e \in EventSet |->
  CASE e = "n1" -> NetProbe("k1", "suspicious")
    [] e = "i1" -> Login(50, "laptop", "home")
    [] OTHER -> Login(50, "phone", "away")]
=============================================================================
