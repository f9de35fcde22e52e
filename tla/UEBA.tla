--------------------------------- MODULE UEBA ---------------------------------
(***************************************************************************)
(* The user and entity behaviour engine (agent/engines/ueba_engine.py): a  *)
(* profile per entity with a list of measurements for each metric, the     *)
(* statistics that make a profile stable, and an anomaly check that waits  *)
(* for a stable profile.  _update_stats looks its list up under the name   *)
(* of the metric; the lists have other names.                              *)
(*                                                                         *)
(* Behind the stable profile the z-scores and their weights are abstracted *)
(* to: the check reports.  Lists are kept as their lengths.                *)
(***************************************************************************)
EXTENDS BehavioralDNA

CONSTANT BaselineEvents   \* MIN_EVENTS_FOR_BASELINE

ASSUME UEBAAssumption == BaselineEvents \in Nat \ {0}

Metrics == {"data_volume", "lateral", "after_hours", "sensitive"}

\* The attribute that holds a metric's measurements.
ListOf ==
  [data_volume |-> "data_volume_gb", lateral |-> "lateral_destinations",
   after_hours |-> "after_hours_index", sensitive |-> "sensitive_access_count"]

VARIABLES
  measured,    \* length of each list attribute, capped at BaselineEvents
  counted,     \* total_events, capped likewise
  stable       \* profiles with is_stable

uebaVars == <<measured, counted, stable>>

UEBAInit ==
  /\ measured = [n \in Profiled |-> [l \in {ListOf[m] : m \in Metrics} |-> 0]]
  /\ counted = [n \in Profiled |-> 0]
  /\ stable = {}

SensitiveResources == {"server_room", "data_vault"}

(* The metrics an item is measured by: _update_profile_from_event and      *)
(* _update_profile_from_request.                                           *)
Measured(e) ==
  {"after_hours"}
  \cup (IF e.bus = "threat" /\ e.volume > 0 THEN {"data_volume"} ELSE {})
  \cup (IF e.bus = "threat" /\ {e.dst, e.destination} # {None} THEN {"lateral"} ELSE {})
  \cup (IF (IF e.bus = "threat" THEN FirstOf(<<e.resource, e.zone>>) ELSE e.resource)
             \in SensitiveResources
        THEN {"sensitive"} ELSE {})

\* The list that _update_stats finds: getattr(self, attr, []), its length.
Found(lists, metric) == IF metric \in DOMAIN lists THEN lists[metric] ELSE 0

Longer(lists, e) ==
  [l \in DOMAIN lists |->
     IF \E m \in Measured(e) : ListOf[m] = l
     THEN AtMost(BaselineEvents, lists[l] + 1) ELSE lists[l]]

Stabilises(n, e) ==
  /\ AtMost(BaselineEvents, counted[n] + 1) = BaselineEvents
  /\ \E m \in Measured(e) : Found(Longer(measured[n], e), m) >= BaselineEvents

About(e) ==
  CASE e.bus = "threat" -> Profiles(e)
    [] e.bus = "request" -> Profiled \cap {e.user}
    [] e.bus = "finding" -> {}

(* _on_threat_event, _on_access_request and _on_agent_finding. *)
UEBAOn(e) ==
  /\ measured' = [n \in Profiled |->
       IF n \in About(e) THEN Longer(measured[n], e) ELSE measured[n]]
  /\ counted' = [n \in Profiled |->
       IF n \in About(e) THEN AtMost(BaselineEvents, counted[n] + 1) ELSE counted[n]]
  /\ stable' = stable \cup {n \in About(e) : Stabilises(n, e)}

(* _check_anomalies *)
UEBAPublishes(e) ==
  {[Threat("anomalous_behavior", MEDIUM) EXCEPT
      !.source = "UEBAEngine", !.entity = n, !.score = 500, !.hour = e.hour]
     : n \in {x \in About(e) : x \in stable \/ Stabilises(x, e)}}
==============================================================================
