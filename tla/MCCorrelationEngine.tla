------------------------ MODULE MCCorrelationEngine ------------------------
(* Model-checking instance of CorrelationEngine: the first four patterns of *)
(* the table, which overlap on every type, and five findings.               *)
EXTENDS CorrelationEngine, TLC

TypeSet == {"network", "physical", "identity", "insider"}

FindingSet == {"n1", "p1", "i1", "s1", "n2"}

TypeMap == [f \in FindingSet |->
  CASE f \in {"n1", "n2"} -> "network"
    [] f = "p1" -> "physical"
    [] f = "i1" -> "identity"
    [] OTHER -> "insider"]

\* n1 is HIGH, everything else MEDIUM.
WeightMap == [f \in FindingSet |->
  IF f = "n1" THEN 3 ELSE 2]

BornMap == [f \in FindingSet |->
  CASE f = "n1" -> 1 [] f = "p1" -> 2 [] f = "i1" -> 3
    [] f = "s1" -> 4 [] OTHER -> 5]

PatternTable == <<
  [types |-> {"network", "physical"}, min |-> 3],
  [types |-> {"identity", "network"}, min |-> 2],
  [types |-> {"insider", "physical"}, min |-> 2],
  [types |-> {"network", "identity", "physical"}, min |-> 3]>>
=============================================================================
