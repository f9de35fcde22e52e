------------------------------ MODULE MCResponse ------------------------------
(* An administrator and an analyst; a playbook of two actions that asks    *)
(* and one of one action that does not; four findings of one event.        *)
EXTENDS Response

MCPlaybooks ==
  <<[severity |-> 3, kinds |-> {"ransomware"}, mode |-> "approval", actions |-> 2],
    [severity |-> 2, kinds |-> {"ransomware", "bruteforce"}, mode |-> "auto", actions |-> 1]>>

MCAlerts == {[severity |-> 3, kind |-> "ransomware"], [severity |-> 2, kind |-> "bruteforce"]}

MCFindings ==
  {[event |-> "e", locks |-> TRUE, loud |-> TRUE, number |-> 1],
   [event |-> "e", locks |-> TRUE, loud |-> FALSE, number |-> 2],
   [event |-> "e", locks |-> FALSE, loud |-> TRUE, number |-> 3],
   [event |-> "e", locks |-> TRUE, loud |-> TRUE, number |-> 4]}
===============================================================================
