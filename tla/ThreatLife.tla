----------------------------- MODULE ThreatLife -----------------------------
(***************************************************************************)
(* What becomes of a threat event, with no bus, tasks, sleeps or scores in *)
(* it: it is filtered beside an admitted twin, or screened; then cleared,  *)
(* held for a second look or confirmed; what is confirmed is answered and  *)
(* executed, once.  A second look clears or confirms, and may lose the     *)
(* event, but only while its entity is at high risk and only if it did not *)
(* come from the network.                                                  *)
(***************************************************************************)
CONSTANTS Events, Entities, EntityOf, KeyOf, FromNetwork

VARIABLES
  stage,   \* where each event is
  atRisk   \* entities with a high composite score

lifeVars == <<stage, atRisk>>

Init ==
  /\ stage = [e \in Events |-> "new"]
  /\ atRisk = {}

Move(e, s) ==
  /\ stage' = [stage EXCEPT ![e] = s]
  /\ UNCHANGED atRisk

Filter(e) ==
  /\ stage[e] = "new"
  /\ \E f \in Events : KeyOf[f] = KeyOf[e] /\ stage[f] \notin {"new", "filtered"}
  /\ Move(e, "filtered")

Admit(e) == stage[e] = "new" /\ Move(e, "screened")

Screen(e) ==
  /\ stage[e] = "screened"
  /\ \E s \in {"cleared", "held", "confirmed"} : Move(e, s)

Examine(e) ==
  /\ stage[e] = "held"
  /\ \E s \in {"cleared", "confirmed"} : Move(e, s)

Lose(e) ==
  /\ stage[e] = "held"
  /\ EntityOf[e] \in atRisk /\ e \notin FromNetwork
  /\ Move(e, "lost")

Answer(e) == stage[e] = "confirmed" /\ Move(e, "answered")

Execute(e) == stage[e] = "answered" /\ Move(e, "executed")

Assess ==
  /\ atRisk' \in SUBSET Entities
  /\ UNCHANGED stage

Next ==
  \/ \E e \in Events :
       \/ Filter(e) \/ Admit(e) \/ Screen(e) \/ Examine(e)
       \/ Lose(e) \/ Answer(e) \/ Execute(e)
  \/ Assess

Spec == Init /\ [][Next]_lifeVars
==============================================================================
