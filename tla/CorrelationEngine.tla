-------------------------- MODULE CorrelationEngine --------------------------
(***************************************************************************)
(* The cross-domain correlation engine                                     *)
(* (agent/engines/correlation_engine.py).  Every AgentFinding starts a     *)
(* task that evicts old findings, buffers the new one under its threat     *)
(* type, and walks the pattern table.  The walk awaits the event bus each  *)
(* time a pattern fires, and clears the pattern's buffers only afterwards, *)
(* so other findings are ingested, and evaluated, in between.              *)
(*                                                                         *)
(* Code between two awaits is one action.  Confidence, entity index and    *)
(* the MetaRiskArbiter list are left out: the engine writes them and       *)
(* never reads them back when it decides.                                  *)
(***************************************************************************)
EXTENDS Naturals, Sequences

CONSTANTS
  Findings,     \* findings that may be published, each once
  Types,        \* threat types
  Weights,      \* severity weights, 1..4 in the code
  TypeOf,       \* threat type of a finding
  Weight,       \* severity weight of a finding
  Born,         \* its timestamp; later findings may be published earlier
  Patterns,     \* _PATTERNS: sequence of [types, min]
  MaxCutoff     \* bound on the clock

ASSUME EngineAssumption ==
  /\ Weights \subseteq Nat
  /\ TypeOf \in [Findings -> Types]
  /\ Weight \in [Findings -> Weights]
  /\ Born \in [Findings -> Nat \ {0}]
  /\ \A f, g \in Findings : Born[f] = Born[g] => f = g
  /\ Patterns \in Seq([types : SUBSET Types, min : Weights])
  /\ \A i \in 1..Len(Patterns) : Patterns[i].types # {}
  /\ MaxCutoff \in Nat

VARIABLES
  cutoff,      \* now - _WINDOW_SECONDS: findings born later are fresh
  ingested,    \* findings published so far
  buffer,      \* self._buffer
  at,          \* pattern whose alert a task is publishing, 0 if none
  active,      \* active_types as the task computed it
  alerts,      \* history: alerts published, [by, pat, linked]
  concurrent,  \* history: two tasks were once in flight together
  seen,        \* history: findings buffered when a task in flight began its walk
  swept,       \* history: types whose buffers an alert has cleared since then
  late         \* history: findings ingested since a task's alert in flight

history == <<seen, swept, late>>
vars == <<cutoff, ingested, buffer, at, active, alerts, concurrent, history>>

Pats == 1..Len(Patterns)
InFlight == {f \in Findings : at[f] # 0}
Expired(f) == Born[f] <= cutoff

\* Mutant: sorted without reverse=True.
Matched_Oldest(buf, i) ==
  {f \in Findings :
     \E t \in Patterns[i].types :
       f \in buf[t] /\ \A g \in buf[t] : Born[f] <= Born[g]}

\* The most recent finding of each required type that has one.
Matched(buf, i) ==
  {f \in Findings :
     \E t \in Patterns[i].types :
       f \in buf[t] /\ \A g \in buf[t] : Born[g] <= Born[f]}

\* Mutant: one of the required types is enough.
Fires_AnyType(buf, act, i) ==
  /\ Patterns[i].types \cap act # {}
  /\ \E f \in Matched(buf, i) : Weight[f] >= Patterns[i].min

\* active_types is a snapshot; the buffers are read as they are now.
Fires(buf, act, i) ==
  /\ Patterns[i].types \subseteq act
  /\ \E f \in Matched(buf, i) : Weight[f] >= Patterns[i].min

Held(buf) == {f \in Findings : f \in buf[TypeOf[f]]}

ActiveTypes(buf) == {t \in Types : buf[t] # {}}

Evicted(buf) == [t \in Types |-> {f \in buf[t] : ~Expired(f)}]

Buffered(buf, f) == [buf EXCEPT ![TypeOf[f]] = @ \cup {f}]

Cleared(buf, i) == [t \in Types |-> IF t \in Patterns[i].types THEN {} ELSE buf[t]]

Init ==
  /\ cutoff = 0
  /\ ingested = {}
  /\ buffer = [t \in Types |-> {}]
  /\ at = [f \in Findings |-> 0]
  /\ active = [f \in Findings |-> {}]
  /\ alerts = {}
  /\ concurrent = FALSE
  /\ seen = [f \in Findings |-> {}]
  /\ swept = [f \in Findings |-> {}]
  /\ late = [f \in Findings |-> {}]

-----------------------------------------------------------------------------
(* The rest of the walk, from pattern k to the next pattern that fires.     *)

Publish(f, buf, act, i) ==
  /\ at' = [at EXCEPT ![f] = i]
  /\ active' = [active EXCEPT ![f] = act]
  /\ alerts' = alerts \cup {[by |-> f, pat |-> i, linked |-> Matched(buf, i)]}

Finish(f) ==
  /\ at' = [at EXCEPT ![f] = 0]
  /\ active' = [active EXCEPT ![f] = {}]
  /\ UNCHANGED alerts

\* Mutant: the walk stops at the first pattern that does not fire.
Walk_StopsEarly(f, buf, act, k) ==
  IF k \in Pats /\ Fires(buf, act, k) THEN Publish(f, buf, act, k) ELSE Finish(f)

Walk(f, buf, act, k) ==
  \/ \E i \in Pats :
       /\ i >= k
       /\ Fires(buf, act, i)
       /\ \A j \in Pats : k <= j /\ j < i => ~Fires(buf, act, j)
       /\ Publish(f, buf, act, i)
  \/ /\ \A i \in Pats : i >= k => ~Fires(buf, act, i)
     /\ Finish(f)

\* Mutant: active_types is computed before the eviction.
Ingest_StaleSnapshot(f) ==
  /\ f \notin ingested
  /\ ingested' = ingested \cup {f}
  /\ LET buf == Buffered(Evicted(buffer), f)
     IN  /\ buffer' = buf
         /\ Walk(f, buf, ActiveTypes(Buffered(buffer, f)), 1)
         /\ seen' = [seen EXCEPT ![f] = IF at'[f] = 0 THEN {} ELSE Held(buf)]
  /\ late' = [g \in Findings |-> IF at[g] = 0 THEN {} ELSE late[g] \cup {f}]
  /\ concurrent' = (concurrent \/ InFlight # {})
  /\ UNCHANGED <<cutoff, swept>>

\* _ingest up to its first await.
Ingest(f) ==
  /\ f \notin ingested
  /\ ingested' = ingested \cup {f}
  /\ LET buf == Buffered(Evicted(buffer), f)
     IN  /\ buffer' = buf
         /\ Walk(f, buf, ActiveTypes(buf), 1)
         /\ seen' = [seen EXCEPT ![f] = IF at'[f] = 0 THEN {} ELSE Held(buf)]
  /\ late' = [g \in Findings |-> IF at[g] = 0 THEN {} ELSE late[g] \cup {f}]
  /\ concurrent' = (concurrent \/ InFlight # {})
  /\ UNCHANGED <<cutoff, swept>>

\* The alert of pattern at[f] is out: clear its buffers and walk on.
Resume(f) ==
  /\ at[f] # 0
  /\ LET buf == Cleared(buffer, at[f])
     IN  /\ buffer' = buf
         /\ Walk(f, buf, active[f], at[f] + 1)
  /\ seen' = [seen EXCEPT ![f] = IF at'[f] = 0 THEN {} ELSE @]
  /\ swept' = [g \in Findings |->
                 IF at'[g] = 0 THEN {} ELSE swept[g] \cup Patterns[at[f]].types]
  /\ late' = [late EXCEPT ![f] = {}]
  /\ UNCHANGED <<cutoff, ingested, concurrent>>

Tick ==
  /\ cutoff < MaxCutoff
  /\ cutoff' = cutoff + 1
  /\ UNCHANGED <<ingested, buffer, at, active, alerts, concurrent, history>>

Next ==
  \/ \E f \in Findings : Ingest(f) \/ Resume(f)
  \/ Tick

Spec == Init /\ [][Next]_vars

-----------------------------------------------------------------------------
Alert == [by : Findings, pat : Pats, linked : SUBSET Findings]

TypeOK ==
  /\ cutoff \in Nat
  /\ ingested \subseteq Findings
  /\ buffer \in [Types -> SUBSET Findings]
  /\ at \in [Findings -> Pats \cup {0}]
  /\ active \in [Findings -> SUBSET Types]
  /\ alerts \subseteq Alert
  /\ concurrent \in BOOLEAN
  /\ seen \in [Findings -> SUBSET Findings]
  /\ swept \in [Findings -> SUBSET Types]
  /\ late \in [Findings -> SUBSET Findings]

Complete(buf, i) == Fires(buf, ActiveTypes(buf), i)

(* No pattern is left complete and unreported when the engine is idle: late  *)
(* arrivals, evictions and the clears of other tasks never leave behind the  *)
(* full evidence of a pattern that nobody will evaluate (lines 252-282).     *)
NothingMissedWhenIdle ==
  InFlight = {} => \A i \in Pats : ~Complete(buffer, i)

(* Findings ingested one at a time are linked at most once: clearing the     *)
(* buffers keeps a finding out of every later alert (lines 280-282).         *)
LinkedOnceWhenSequential ==
  ~concurrent =>
    \A x, y \in alerts : x # y => x.linked \cap y.linked = {}

LinkedTypes(al) == {TypeOf[f] : f \in al.linked}

(* An alert may lack evidence for one of its types only if findings of that  *)
(* type were buffered when its own task counted them, and since then the     *)
(* alert of some pattern of that type has cleared them, or all of them have  *)
(* expired (lines 253-270: active_types is computed once).                   *)
MissingEvidenceIsAccountedFor ==
  [][\A al \in alerts' \ alerts :
       \A t \in Patterns[al.pat].types \ LinkedTypes(al) :
         LET had == {g \in seen'[al.by] : TypeOf[g] = t}
         IN  /\ had # {}
             /\ t \in swept'[al.by] \/ \A g \in had : Expired(g)]_vars

(* A fresh finding leaves the buffers only when a task whose alert names its *)
(* type walks on, and goes unlinked by that alert only when the alert linked *)
(* a younger finding of the type, or when the finding came in while the      *)
(* alert was being published (lines 259-282: matched is read before the      *)
(* await, the buffers are emptied after it).                                 *)
UnlinkedLossIsOldOrLate ==
  [][\A g \in Held(buffer) \ Held(buffer') :
       \/ Expired(g)
       \/ \E al \in alerts :
            /\ at[al.by] = al.pat /\ at'[al.by] # al.pat
            /\ TypeOf[g] \in Patterns[al.pat].types
            /\ \/ g \in late[al.by]
               \/ \E h \in al.linked : TypeOf[h] = TypeOf[g] /\ Born[g] <= Born[h]]_vars

(* The header promises alerts on linked evidence across domains (lines 4-13): *)
(* an alert links a finding of every type its pattern names.                 *)
AlertsLinkAllDomains ==
  \A al \in alerts : LinkedTypes(al) = Patterns[al.pat].types
=============================================================================
