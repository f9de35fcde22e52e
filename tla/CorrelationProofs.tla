-------------------------- MODULE CorrelationProofs --------------------------
(***************************************************************************)
(* For every set of findings and every pattern table: when no evaluation   *)
(* is in flight, no pattern has its full evidence in the buffers; findings *)
(* ingested one at a time are linked once; evidence that an alert lacks    *)
(* was there when its task began and has been cleared or has expired since *)
(* then; and what a clear throws away unlinked is old or late.             *)
(***************************************************************************)
EXTENDS CorrelationEngine, SequenceTheorems, TLAPS

\* Somebody will still look at pattern j, or is about to clear part of it.
Covered(j) ==
  \E f \in InFlight :
    \/ at[f] < j /\ Patterns[j].types \subseteq active[f]
    \/ Patterns[at[f]].types \cap Patterns[j].types # {}

CompleteIsCovered == \A j \in Pats : Complete(buffer, j) => Covered(j)

EngineInv == TypeOK /\ CompleteIsCovered

-----------------------------------------------------------------------------
(* Every entry of the pattern table names at least one known threat type.   *)
LEMMA PatternShape ==
  ASSUME NEW i \in Pats
  PROVE  Patterns[i].types \subseteq Types /\ Patterns[i].types # {} /\ i \in Nat
<1>1. i \in 1..Len(Patterns) /\ Len(Patterns) \in Nat
  BY EngineAssumption DEF EngineAssumption, Pats
<1>2. Patterns[i] \in [types : SUBSET Types, min : Weights]
  <2>1. Patterns \in Seq([types : SUBSET Types, min : Weights])
    BY EngineAssumption DEF EngineAssumption
  <2>2. QED
    BY <1>1, <2>1, ElementOfSeq
<1>3. Patterns[i].types \subseteq Types
  BY <1>2
<1>4. QED
  BY <1>1, <1>3, EngineAssumption DEF EngineAssumption

(* Buffers that agree on a pattern's types fire it alike. *)
LEMMA FiresLocally ==
  ASSUME NEW i \in Pats, NEW b1, NEW b2, NEW act,
         \A t \in Patterns[i].types : b1[t] = b2[t]
  PROVE  Fires(b1, act, i) = Fires(b2, act, i)
<1>1. Matched(b1, i) = Matched(b2, i)
  BY DEF Matched
<1>2. QED
  BY <1>1 DEF Fires

(* The matched findings are findings. *)
LEMMA MatchedType ==
  ASSUME NEW buf, NEW i
  PROVE  Matched(buf, i) \in SUBSET Findings
BY DEF Matched

(* A walk over typed buffers keeps the task table and the alerts typed. *)
LEMMA WalkType ==
  ASSUME TypeOK, NEW f \in Findings, NEW buf, NEW act \in SUBSET Types,
         NEW k, Walk(f, buf, act, k)
  PROVE  /\ at' \in [Findings -> Pats \cup {0}]
         /\ active' \in [Findings -> SUBSET Types]
         /\ alerts' \subseteq Alert
<1>1. CASE \E i \in Pats : Publish(f, buf, act, i)
  <2>1. PICK i \in Pats : Publish(f, buf, act, i)
    BY <1>1
  <2>2. [by |-> f, pat |-> i, linked |-> Matched(buf, i)] \in Alert
    BY MatchedType DEF Alert
  <2>3. QED
    BY <2>1, <2>2 DEF TypeOK, Publish
<1>2. CASE Finish(f)
  BY <1>2 DEF TypeOK, Finish
<1>3. QED
  BY <1>1, <1>2 DEF Walk

(* So do the walk and its step keep the history typed. *)
LEMMA HistoryType ==
  ASSUME TypeOK, NEW f \in Findings, Ingest(f) \/ Resume(f)
  PROVE  /\ seen' \in [Findings -> SUBSET Findings]
         /\ swept' \in [Findings -> SUBSET Types]
         /\ late' \in [Findings -> SUBSET Findings]
<1>1. /\ seen \in [Findings -> SUBSET Findings]
      /\ swept \in [Findings -> SUBSET Types]
      /\ late \in [Findings -> SUBSET Findings]
  BY DEF TypeOK
<1>2. CASE Ingest(f)
  BY <1>1, <1>2 DEF Ingest, Held
<1>3. CASE Resume(f)
  <2>1. Patterns[at[f]].types \subseteq Types
    BY <1>3, PatternShape DEF Resume, TypeOK
  <2>2. seen' \in [Findings -> SUBSET Findings] /\ late' \in [Findings -> SUBSET Findings]
    BY <1>1, <1>3 DEF Resume
  <2>3. swept' \in [Findings -> SUBSET Types]
    BY <1>1, <1>3, <2>1 DEF Resume
  <2>4. QED
    BY <2>2, <2>3
<1>4. QED
  BY <1>2, <1>3

LEMMA TypeInit == Init => TypeOK
<1>1. SUFFICES ASSUME Init PROVE TypeOK
  OBVIOUS
<1>2. buffer \in [Types -> SUBSET Findings]
  BY <1>1 DEF Init
<1>3. at \in [Findings -> Pats \cup {0}]
  BY <1>1 DEF Init
<1>4. active \in [Findings -> SUBSET Types]
  BY <1>1 DEF Init
<1>5. alerts \subseteq Alert
  BY <1>1 DEF Init
<1>6. QED
  BY <1>1, <1>2, <1>3, <1>4, <1>5 DEF Init, TypeOK

LEMMA TypeStep == TypeOK /\ [Next]_vars => TypeOK'
<1>1. SUFFICES ASSUME TypeOK, [Next]_vars PROVE TypeOK'
  OBVIOUS
<1>2. ASSUME NEW f \in Findings, Ingest(f) PROVE TypeOK'
  <2>1. TypeOf[f] \in Types
    BY EngineAssumption DEF EngineAssumption
  <2>2. Evicted(buffer) \in [Types -> SUBSET Findings]
    BY <1>1 DEF TypeOK, Evicted
  <2>3. Buffered(Evicted(buffer), f) \in [Types -> SUBSET Findings]
    BY <2>1, <2>2 DEF Buffered
  <2>4. ActiveTypes(Buffered(Evicted(buffer), f)) \in SUBSET Types
    BY DEF ActiveTypes
  <2>5. QED
    BY <1>1, <1>2, <2>3, <2>4, WalkType, HistoryType DEF Ingest, TypeOK
<1>3. ASSUME NEW f \in Findings, Resume(f) PROVE TypeOK'
  <2>1. Cleared(buffer, at[f]) \in [Types -> SUBSET Findings]
    BY <1>1 DEF TypeOK, Cleared
  <2>2. active[f] \in SUBSET Types
    BY <1>1 DEF TypeOK
  <2>3. QED
    BY <1>1, <1>3, <2>1, <2>2, WalkType, HistoryType DEF Resume, TypeOK
<1>4. CASE Tick
  BY <1>1, <1>4, EngineAssumption DEF TypeOK, Tick, EngineAssumption, history
<1>5. CASE UNCHANGED vars
  BY <1>1, <1>5 DEF TypeOK, vars, history
<1>6. QED
  BY <1>1, <1>2, <1>3, <1>4, <1>5 DEF Next

-----------------------------------------------------------------------------
(* A pattern that a walk still had to visit and that fires is visited: the  *)
(* walk stops at it or before it.                                           *)
LEMMA WalkCovers ==
  ASSUME TypeOK, NEW f \in Findings, NEW buf, NEW act, NEW k \in Nat,
         Walk(f, buf, act, k),
         NEW j \in Pats, j >= k, Fires(buf, act, j)
  PROVE  Covered(j)'
<1>1. PICK i \in Pats :
        /\ \A h \in Pats : k <= h /\ h < i => ~Fires(buf, act, h)
        /\ Publish(f, buf, act, i)
  BY DEF Walk
<1>2. i <= j /\ i \in Nat /\ j \in Nat /\ i # 0
  BY <1>1, EngineAssumption DEF Pats, EngineAssumption
<1>3. at'[f] = i /\ active'[f] = act /\ f \in InFlight'
  BY <1>1, <1>2 DEF Publish, TypeOK, InFlight
<1>4. CASE i = j
  <2>1. Patterns[i].types \cap Patterns[j].types # {}
    BY <1>4, PatternShape
  <2>2. QED
    BY <1>3, <2>1 DEF Covered
<1>5. CASE i < j
  <2>1. Patterns[j].types \subseteq act
    BY DEF Fires
  <2>2. QED
    BY <1>3, <1>5, <2>1 DEF Covered
<1>6. QED
  BY <1>2, <1>4, <1>5

LEMMA CoveredStep == EngineInv /\ [Next]_vars => EngineInv'
<1>1. SUFFICES ASSUME EngineInv, [Next]_vars, NEW j \in Pats,
                      Complete(buffer', j)
               PROVE  Covered(j)'
  BY TypeStep DEF EngineInv, CompleteIsCovered, Complete, Fires, Matched,
                  ActiveTypes, Pats
<1>2. ASSUME NEW f \in Findings, Ingest(f) PROVE Covered(j)'
  <2>1. Walk(f, buffer', ActiveTypes(buffer'), 1)
    BY <1>2 DEF Ingest
  <2>2. Fires(buffer', ActiveTypes(buffer'), j) /\ j >= 1
    BY <1>1, PatternShape DEF Complete, Pats
  <2>3. QED
    BY <1>1, <2>1, <2>2, WalkCovers DEF EngineInv
<1>3. ASSUME NEW f \in Findings, Resume(f) PROVE Covered(j)'
  <2>1. /\ buffer' = Cleared(buffer, at[f])
        /\ Walk(f, buffer', active[f], at[f] + 1)
        /\ at[f] \in Pats /\ at[f] \in Nat
    BY <1>1, <1>3, PatternShape DEF Resume, EngineInv, TypeOK
  <2>2. Patterns[j].types \cap Patterns[at[f]].types = {}
    <3>1. \A t \in Patterns[j].types : t \in Types /\ buffer'[t] # {}
      BY <1>1 DEF Complete, Fires, ActiveTypes
    <3>2. QED
      BY <2>1, <3>1 DEF Cleared
  <2>3. \A t \in Patterns[j].types : buffer'[t] = buffer[t] /\ t \in Types
    BY <2>1, <2>2, PatternShape DEF Cleared
  <2>4. Complete(buffer, j)
    <3>1. Fires(buffer, ActiveTypes(buffer'), j)
      BY <1>1, <2>3, FiresLocally DEF Complete
    <3>2. QED
      BY <2>3, <3>1 DEF Complete, Fires, ActiveTypes
  <2>5. PICK g \in InFlight :
          \/ at[g] < j /\ Patterns[j].types \subseteq active[g]
          \/ Patterns[at[g]].types \cap Patterns[j].types # {}
    BY <1>1, <2>4 DEF EngineInv, CompleteIsCovered, Covered
  <2>6. CASE g = f
    <3>1. at[f] < j /\ Patterns[j].types \subseteq active[f]
      BY <2>2, <2>5, <2>6
    <3>2. Fires(buffer', active[f], j)
      BY <1>1, <3>1 DEF Complete, Fires
    <3>3. j >= at[f] + 1
      BY <2>1, <3>1, PatternShape
    <3>4. at[f] + 1 \in Nat
      BY <2>1
    <3>5. QED
      BY <1>1, <2>1, <3>2, <3>3, <3>4, WalkCovers DEF EngineInv
  <2>7. CASE g # f
    <3>1. at'[g] = at[g] /\ active'[g] = active[g] /\ g \in InFlight'
      BY <1>1, <2>1, <2>5, <2>7 DEF Walk, Publish, Finish, InFlight,
                                    EngineInv, TypeOK
    <3>2. QED
      BY <2>5, <3>1 DEF Covered
  <2>8. QED
    BY <2>6, <2>7
<1>4. ASSUME UNCHANGED <<buffer, at, active>> PROVE Covered(j)'
  BY <1>1, <1>4 DEF EngineInv, CompleteIsCovered, Covered, InFlight
<1>5. QED
  BY <1>1, <1>2, <1>3, <1>4 DEF Next, Tick, vars

(* When the engine is idle, no pattern is complete in its buffers. *)
THEOREM NothingMissed == Spec => []NothingMissedWhenIdle
<1>1. Init => EngineInv
  <2>1. Init => CompleteIsCovered
    BY PatternShape DEF Init, CompleteIsCovered, Complete, Fires, ActiveTypes
  <2>2. QED
    BY <2>1, TypeInit DEF EngineInv
<1>2. EngineInv => NothingMissedWhenIdle
  BY DEF EngineInv, CompleteIsCovered, Covered, NothingMissedWhenIdle
<1>3. QED
  BY <1>1, <1>2, CoveredStep, PTL DEF Spec

(* Type correctness of the correlation engine. *)
THEOREM TypeCorrect == Spec => []TypeOK
BY TypeInit, TypeStep, PTL DEF Spec

-----------------------------------------------------------------------------
(* One evaluation at a time. *)

\* A finding is buffered under its own type, once it is ingested.
Homes(buf, known) == \A t \in Types : \A g \in buf[t] : TypeOf[g] = t /\ g \in known

Disjoint == \A x, y \in alerts : x # y => x.linked \cap y.linked = {}

\* What an alert linked is out of the buffers, or about to be cleared from them.
Used ==
  \A x \in alerts : \A g \in x.linked :
    /\ g \in ingested
    /\ \/ g \notin buffer[TypeOf[g]]
       \/ \E f \in InFlight : TypeOf[g] \in Patterns[at[f]].types

SequentialInv ==
  /\ Homes(buffer, ingested)
  /\ ~concurrent => Used /\ Disjoint /\ \A f, g \in InFlight : f = g

(* A walk over buffers that hold nothing linked before links nothing twice. *)
LEMMA WalkLinksOnce ==
  ASSUME TypeOK, NEW f \in Findings, NEW buf, NEW act, NEW k, Walk(f, buf, act, k),
         buffer' = buf, Homes(buf, ingested'), InFlight \subseteq {f}, Disjoint,
         \A x \in alerts : \A g \in x.linked : g \in ingested' /\ g \notin buf[TypeOf[g]]
  PROVE  Used' /\ Disjoint' /\ \A g, h \in InFlight' : g = h
<1>1. CASE Finish(f)
  <2>1. \A g \in Findings : g # f => at'[g] = at[g]
    BY <1>1 DEF Finish, TypeOK
  <2>2. \A g, h \in InFlight' : g = h
    BY <2>1 DEF InFlight
  <2>3. alerts' = alerts
    BY <1>1 DEF Finish
  <2>4. Used' /\ Disjoint'
    BY <2>3 DEF Used, Disjoint
  <2>5. QED
    BY <2>2, <2>4
<1>2. ASSUME NEW i \in Pats, Publish(f, buf, act, i)
      PROVE  Used' /\ Disjoint' /\ \A g, h \in InFlight' : g = h
  <2>1. /\ at'[f] = i /\ i # 0
        /\ \A g \in Findings : g # f => at'[g] = at[g]
    BY <1>2, PatternShape DEF Publish, TypeOK, Pats
  <2>2. f \in InFlight' /\ \A g, h \in InFlight' : g = h
    BY <2>1 DEF InFlight
  <2>3. PICK new : /\ new = [by |-> f, pat |-> i, linked |-> Matched(buf, i)]
                   /\ alerts' = alerts \cup {new}
    BY <1>2 DEF Publish
  <2>4. new.linked = Matched(buf, i)
    BY <2>3
  <2>5. ASSUME NEW g \in new.linked
        PROVE  /\ g \in ingested' /\ g \in buf[TypeOf[g]]
               /\ TypeOf[g] \in Patterns[i].types
    <3>1. PICK t \in Patterns[i].types : g \in buf[t]
      BY <2>4, <2>5 DEF Matched
    <3>2. t \in Types
      BY PatternShape
    <3>3. TypeOf[g] = t /\ g \in ingested'
      BY <3>1, <3>2 DEF Homes
    <3>4. QED
      BY <3>1, <3>3
  <2>6. Used'
    <3>1. ASSUME NEW x \in alerts', NEW g \in x.linked
          PROVE  /\ g \in ingested'
                 /\ \/ g \notin buffer'[TypeOf[g]]
                    \/ \E h \in InFlight' : TypeOf[g] \in Patterns[at'[h]].types
      <4>1. CASE x \in alerts
        BY <3>1, <4>1
      <4>2. CASE x = new
        BY <2>1, <2>2, <2>5, <3>1, <4>2
      <4>3. QED
        BY <2>3, <4>1, <4>2
    <3>2. QED
      BY <3>1 DEF Used
  <2>7. \A x \in alerts : x.linked \cap new.linked = {}
    BY <2>5
  <2>8. Disjoint'
    BY <2>3, <2>7 DEF Disjoint
  <2>9. QED
    BY <2>2, <2>6, <2>8
<1>3. QED
  BY <1>1, <1>2 DEF Walk

LEMMA SequentialStep == TypeOK /\ SequentialInv /\ [Next]_vars => SequentialInv'
<1>1. SUFFICES ASSUME TypeOK, SequentialInv, [Next]_vars PROVE SequentialInv'
  OBVIOUS
<1>2. ASSUME NEW f \in Findings, Ingest(f) PROVE SequentialInv'
  <2> DEFINE buf == Buffered(Evicted(buffer), f)
  <2>1. /\ buffer' = buf /\ Walk(f, buf, ActiveTypes(buf), 1) /\ f \notin ingested
        /\ ingested' = ingested \cup {f}
        /\ concurrent' = (concurrent \/ InFlight # {})
    BY <1>2 DEF Ingest
  <2>2. TypeOf[f] \in Types
    BY EngineAssumption DEF EngineAssumption
  <2>3. \A t \in Types : buf[t] \subseteq buffer[t] \cup (IF t = TypeOf[f] THEN {f} ELSE {})
    BY <2>2 DEF Buffered, Evicted
  <2>4. Homes(buf, ingested')
    BY <1>1, <2>1, <2>3 DEF SequentialInv, Homes
  <2>5. Homes(buffer', ingested')
    BY <2>1, <2>4
  <2>6. CASE ~concurrent'
    <3>1. InFlight = {} /\ Used /\ Disjoint
      BY <1>1, <2>1, <2>6 DEF SequentialInv
    <3>2. ASSUME NEW x \in alerts, NEW g \in x.linked
          PROVE  g \in ingested' /\ g \notin buf[TypeOf[g]]
      <4>1. g \in ingested /\ g \notin buffer[TypeOf[g]]
        BY <3>1 DEF Used
      <4>2. TypeOf[g] \in Types
        BY <1>1, <4>1, EngineAssumption DEF TypeOK, EngineAssumption
      <4>3. QED
        BY <2>1, <2>3, <4>1, <4>2
    <3>3. InFlight \subseteq {f}
      BY <3>1
    <3>4. Used' /\ Disjoint' /\ \A g, h \in InFlight' : g = h
      BY <1>1, <2>1, <2>4, <3>1, <3>2, <3>3, WalkLinksOnce
    <3>5. QED
      BY <2>5, <3>4 DEF SequentialInv
  <2>7. QED
    BY <2>5, <2>6 DEF SequentialInv
<1>3. ASSUME NEW f \in Findings, Resume(f) PROVE SequentialInv'
  <2> DEFINE buf == Cleared(buffer, at[f])
  <2>1. /\ buffer' = buf /\ Walk(f, buf, active[f], at[f] + 1) /\ f \in InFlight
        /\ UNCHANGED <<ingested, concurrent>>
    BY <1>3 DEF Resume, InFlight
  <2>2. \A t \in Types : buf[t] = IF t \in Patterns[at[f]].types THEN {} ELSE buffer[t]
    BY DEF Cleared
  <2>3. Homes(buf, ingested')
    BY <1>1, <2>1, <2>2 DEF SequentialInv, Homes
  <2>4. Homes(buffer', ingested')
    BY <2>1, <2>3
  <2>5. CASE ~concurrent
    <3>1. InFlight \subseteq {f} /\ Used /\ Disjoint
      BY <1>1, <2>1, <2>5 DEF SequentialInv
    <3>2. ASSUME NEW x \in alerts, NEW g \in x.linked
          PROVE  g \in ingested' /\ g \notin buf[TypeOf[g]]
      <4>1. /\ g \in ingested
            /\ g \notin buffer[TypeOf[g]] \/ TypeOf[g] \in Patterns[at[f]].types
        BY <3>1 DEF Used
      <4>2. TypeOf[g] \in Types
        BY <1>1, <4>1, EngineAssumption DEF TypeOK, EngineAssumption
      <4>3. QED
        BY <2>1, <2>2, <4>1, <4>2
    <3>3. Used' /\ Disjoint' /\ \A g, h \in InFlight' : g = h
      BY <1>1, <2>1, <2>3, <3>1, <3>2, WalkLinksOnce
    <3>4. QED
      BY <2>4, <3>3 DEF SequentialInv
  <2>6. QED
    BY <2>1, <2>4, <2>5 DEF SequentialInv
<1>4. CASE UNCHANGED <<ingested, buffer, at, alerts, concurrent>>
  BY <1>1, <1>4 DEF SequentialInv, Homes, Used, Disjoint, InFlight
<1>5. QED
  BY <1>1, <1>2, <1>3, <1>4 DEF Next, Tick, vars

(* While findings are ingested one at a time, no finding is linked by two  *)
(* alerts (lines 252-282).                                                 *)
THEOREM LinkedOnce == Spec => []LinkedOnceWhenSequential
<1>1. Init => SequentialInv
  BY DEF Init, SequentialInv, Homes, Used, Disjoint, InFlight
<1>2. SequentialInv => LinkedOnceWhenSequential
  BY DEF SequentialInv, Disjoint, LinkedOnceWhenSequential
<1>3. QED
  BY <1>1, <1>2, TypeInit, TypeStep, SequentialStep, PTL DEF Spec

-----------------------------------------------------------------------------
(* Evidence that an alert lacks, and findings that a clear throws away. *)

\* Every buffer that holds findings has a youngest one.
Ordered(buf) ==
  \A t \in Types : buf[t] # {} => \E f \in buf[t] : \A g \in buf[t] : Born[g] <= Born[f]

\* A task in flight saw a finding of every type it counts on.
Counted == \A f \in InFlight : \A t \in active[f] : \E g \in seen[f] : TypeOf[g] = t

\* What it saw is still buffered unless it was swept or has expired.
Kept ==
  \A f \in InFlight : \A g \in seen[f] :
    TypeOf[g] \in swept[f] \/ g \in buffer[TypeOf[g]] \/ Expired(g)

\* The alert al accounts for g: it linked g or a younger one, or g came later.
Spoken(al, g) ==
  \/ g \in late[al.by]
  \/ \E h \in al.linked : TypeOf[h] = TypeOf[g] /\ Born[g] <= Born[h]

\* The alert of a task in flight is out and accounts for what its clear will take.
Announced ==
  \A f \in InFlight : \E al \in alerts :
    /\ al.by = f /\ al.pat = at[f]
    /\ \A t \in Patterns[at[f]].types : \A g \in buffer[t] : Spoken(al, g)

EvidenceInv ==
  /\ TypeOK
  /\ Homes(buffer, ingested)
  /\ Ordered(buffer)
  /\ Counted
  /\ Kept
  /\ Announced

(* Eviction keeps the youngest of what it keeps, and the new finding is      *)
(* compared with it.                                                         *)
LEMMA OrderedIngest ==
  ASSUME TypeOK, Ordered(buffer), NEW f \in Findings
  PROVE  Ordered(Buffered(Evicted(buffer), f))
<1> DEFINE old == Evicted(buffer)
           new == Buffered(old, f)
<1>1. /\ Born \in [Findings -> Nat] /\ TypeOf[f] \in Types /\ cutoff \in Nat
      /\ \A t \in Types : buffer[t] \subseteq Findings
  BY EngineAssumption DEF EngineAssumption, TypeOK
<1>2. \A t \in Types : old[t] = {g \in buffer[t] : ~Expired(g)}
  BY DEF Evicted
<1>3. Ordered(old)
  <2>1. ASSUME NEW t \in Types, NEW h \in old[t]
        PROVE  \E g \in old[t] : \A k \in old[t] : Born[k] <= Born[g]
    <3>1. PICK g \in buffer[t] : \A k \in buffer[t] : Born[k] <= Born[g]
      BY <1>2, <2>1 DEF Ordered
    <3>2. h \in buffer[t] /\ ~(Born[h] <= cutoff) /\ Born[h] <= Born[g]
      BY <1>2, <2>1, <3>1 DEF Expired
    <3>3. Born[h] \in Nat /\ Born[g] \in Nat
      BY <1>1, <3>1, <3>2
    <3>4. ~Expired(g)
      BY <1>1, <3>2, <3>3 DEF Expired
    <3>5. g \in old[t] /\ \A k \in old[t] : Born[k] <= Born[g]
      BY <1>2, <3>1, <3>4
    <3>6. QED
      BY <3>5
  <2>2. QED
    BY <2>1 DEF Ordered
<1>4. \A t \in Types : new[t] = IF t = TypeOf[f] THEN old[t] \cup {f} ELSE old[t]
  BY <1>1 DEF Buffered, Evicted
<1>5. \A t \in Types : old[t] \subseteq Findings
  BY <1>1, <1>2
<1> HIDE DEF old, new
<1>6. ASSUME NEW t \in Types, new[t] # {}
      PROVE  \E g \in new[t] : \A k \in new[t] : Born[k] <= Born[g]
  <2>1. CASE t # TypeOf[f]
    <3>1. new[t] = old[t]
      BY <1>4, <2>1
    <3>2. PICK g \in old[t] : \A k \in old[t] : Born[k] <= Born[g]
      BY <1>3, <1>6, <3>1 DEF Ordered
    <3>3. g \in new[t] /\ \A k \in new[t] : Born[k] <= Born[g]
      BY <3>1, <3>2
    <3>4. QED
      BY <3>3
  <2>2. CASE t = TypeOf[f] /\ old[t] = {}
    <3>1. new[t] = {f}
      BY <1>4, <2>2
    <3>2. Born[f] \in Nat
      BY <1>1
    <3>3. f \in new[t] /\ \A k \in new[t] : Born[k] <= Born[f]
      BY <3>1, <3>2
    <3>4. QED
      BY <3>3
  <2>3. CASE t = TypeOf[f] /\ old[t] # {}
    <3>1. PICK g \in old[t] : \A k \in old[t] : Born[k] <= Born[g]
      BY <1>3, <2>3 DEF Ordered
    <3>2. \A k \in old[t] \cup {f} : Born[k] \in Nat
      BY <1>1, <1>5
    <3>3. new[t] = old[t] \cup {f}
      BY <1>4, <2>3
    <3>4. CASE Born[f] <= Born[g]
      BY <3>1, <3>3, <3>4
    <3>5. CASE ~(Born[f] <= Born[g])
      <4>1. \A k \in old[t] : Born[k] <= Born[f]
        BY <3>1, <3>2, <3>5
      <4>2. QED
        BY <3>2, <3>3, <4>1
    <3>6. QED
      BY <3>4, <3>5
  <2>4. QED
    BY <2>1, <2>2, <2>3
<1>7. Ordered(new)
  BY <1>6 DEF Ordered
<1>8. QED
  BY <1>7 DEF new, old

(* An alert links a finding of every type that has one in the buffers. *)
LEMMA LinksWhatIsThere ==
  ASSUME NEW buf, NEW known, buf \in [Types -> SUBSET Findings],
         Homes(buf, known), Ordered(buf),
         NEW i \in Pats, NEW t \in Patterns[i].types, buf[t] # {}
  PROVE  \E f \in Matched(buf, i) : TypeOf[f] = t
<1>1. t \in Types
  BY PatternShape
<1>2. PICK f \in buf[t] : \A g \in buf[t] : Born[g] <= Born[f]
  BY <1>1 DEF Ordered
<1>3. f \in Findings /\ TypeOf[f] = t
  BY <1>1, <1>2 DEF Homes
<1>4. f \in Matched(buf, i)
  BY <1>2, <1>3 DEF Matched
<1>5. QED
  BY <1>3, <1>4

(* What a step of task f publishes. *)
LEMMA WalkPublishes ==
  ASSUME TypeOK, NEW f \in Findings, NEW buf, NEW act, NEW k \in Nat,
         Walk(f, buf, act, k)
  PROVE  \/ alerts' = alerts /\ at'[f] = 0
         \/ \E i \in Pats :
              /\ i >= k /\ Fires(buf, act, i)
              /\ at'[f] = i /\ i # 0 /\ active'[f] = act
              /\ alerts' = alerts \cup {[by |-> f, pat |-> i, linked |-> Matched(buf, i)]}
<1>1. /\ at \in [Findings -> Pats \cup {0}]
      /\ active \in [Findings -> SUBSET Types]
  BY DEF TypeOK
<1>2. CASE Finish(f)
  BY <1>1, <1>2 DEF Finish
<1>3. ASSUME NEW i \in Pats, i >= k, Fires(buf, act, i), Publish(f, buf, act, i)
      PROVE  \E j \in Pats :
               /\ j >= k /\ Fires(buf, act, j)
               /\ at'[f] = j /\ j # 0 /\ active'[f] = act
               /\ alerts' = alerts \cup {[by |-> f, pat |-> j, linked |-> Matched(buf, j)]}
  <2>1. i # 0
    BY PatternShape DEF Pats
  <2>2. /\ at'[f] = i /\ active'[f] = act
        /\ alerts' = alerts \cup {[by |-> f, pat |-> i, linked |-> Matched(buf, i)]}
    BY <1>1, <1>3 DEF Publish
  <2>3. QED
    BY <1>3, <2>1, <2>2
<1>4. QED
  BY <1>2, <1>3 DEF Walk

(* And what it leaves alone. *)
LEMMA WalkOthers ==
  ASSUME TypeOK, NEW f \in Findings, NEW buf, NEW act, NEW k, Walk(f, buf, act, k)
  PROVE  /\ alerts \subseteq alerts'
         /\ \A g \in Findings \ {f} : at'[g] = at[g] /\ active'[g] = active[g]
BY DEF Walk, Publish, Finish, TypeOK

(* A new alert accounts for everything its walk found in the buffers. *)
LEMMA MatchedSpeaks ==
  ASSUME NEW buf, NEW known, buf \in [Types -> SUBSET Findings],
         Homes(buf, known), Ordered(buf),
         NEW i \in Pats, NEW t \in Patterns[i].types, NEW g \in buf[t]
  PROVE  \E h \in Matched(buf, i) : TypeOf[h] = TypeOf[g] /\ Born[g] <= Born[h]
<1>1. t \in Types
  BY PatternShape
<1>2. PICK h \in buf[t] : \A k \in buf[t] : Born[k] <= Born[h]
  BY <1>1 DEF Ordered
<1>3. h \in Findings /\ TypeOf[h] = t /\ TypeOf[g] = t
  BY <1>1, <1>2 DEF Homes
<1>4. h \in Matched(buf, i)
  BY <1>2, <1>3 DEF Matched
<1>5. QED
  BY <1>2, <1>3, <1>4

(* The alert that a step leaves in flight for its own task. *)
LEMMA WalkAnnounces ==
  ASSUME TypeOK, NEW f \in Findings, NEW buf, NEW act, NEW k \in Nat,
         Walk(f, buf, act, k), buffer' = buf, NEW known,
         buf \in [Types -> SUBSET Findings], Homes(buf, known), Ordered(buf),
         f \in InFlight'
  PROVE  \E al \in alerts' :
           /\ al.by = f /\ al.pat = at'[f]
           /\ \A t \in Patterns[at'[f]].types : \A g \in buffer'[t] : Spoken(al, g)'
<1>1. PICK i \in Pats :
        /\ at'[f] = i
        /\ alerts' = alerts \cup {[by |-> f, pat |-> i, linked |-> Matched(buf, i)]}
  BY WalkPublishes DEF InFlight
<1>2. PICK al : al = [by |-> f, pat |-> i, linked |-> Matched(buf, i)]
  OBVIOUS
<1>3. al \in alerts' /\ al.by = f /\ al.pat = i /\ al.linked = Matched(buf, i)
  BY <1>1, <1>2
<1>4. ASSUME NEW t \in Patterns[i].types, NEW g \in buf[t]
      PROVE  \E h \in al.linked : TypeOf[h] = TypeOf[g] /\ Born[g] <= Born[h]
  BY <1>3, <1>4, MatchedSpeaks
<1>5. \A t \in Patterns[i].types : \A g \in buf[t] : Spoken(al, g)'
  BY <1>4 DEF Spoken
<1>6. QED
  BY <1>1, <1>3, <1>5

\* The bodies of the two properties.
Explained ==
  \A al \in alerts' \ alerts :
    \A t \in Patterns[al.pat].types \ LinkedTypes(al) :
      LET had == {g \in seen'[al.by] : TypeOf[g] = t}
      IN  /\ had # {}
          /\ t \in swept'[al.by] \/ \A g \in had : Expired(g)

OldOrLate ==
  \A g \in Held(buffer) \ Held(buffer') :
    \/ Expired(g)
    \/ \E al \in alerts :
         /\ at[al.by] = al.pat /\ at'[al.by] # al.pat
         /\ TypeOf[g] \in Patterns[al.pat].types
         /\ \/ g \in late[al.by]
            \/ \E h \in al.linked : TypeOf[h] = TypeOf[g] /\ Born[g] <= Born[h]

\* What a step has to show, beside types.
EvidenceStepped ==
  /\ Homes(buffer, ingested)' /\ Ordered(buffer)'
  /\ Counted' /\ Kept' /\ Announced'
  /\ Explained /\ OldOrLate

LEMMA IngestEvidence ==
  ASSUME EvidenceInv, NEW f \in Findings, Ingest(f)
  PROVE  EvidenceStepped
<1> DEFINE buf == Buffered(Evicted(buffer), f)
<1>1. /\ buffer' = buf /\ Walk(f, buf, ActiveTypes(buf), 1)
      /\ f \notin ingested /\ ingested' = ingested \cup {f}
      /\ seen' = [seen EXCEPT ![f] = IF at'[f] = 0 THEN {} ELSE Held(buf)]
      /\ late' = [g \in Findings |-> IF at[g] = 0 THEN {} ELSE late[g] \cup {f}]
      /\ UNCHANGED <<cutoff, swept>>
  BY DEF Ingest
<1>2. /\ TypeOK /\ Homes(buffer, ingested) /\ Ordered(buffer)
      /\ Counted /\ Kept /\ Announced
  BY DEF EvidenceInv
<1>3. TypeOf[f] \in Types /\ \A g \in Findings : TypeOf[g] \in Types
  BY EngineAssumption DEF EngineAssumption
<1>4. \A t \in Types : buf[t] = {g \in buffer[t] : ~Expired(g)}
                                  \cup (IF t = TypeOf[f] THEN {f} ELSE {})
  BY <1>3 DEF Buffered, Evicted
<1>5. Ordered(buf)
  BY <1>2, OrderedIngest
<1>6. buf \in [Types -> SUBSET Findings]
  <2>1. buffer \in [Types -> SUBSET Findings]
    BY <1>2 DEF TypeOK
  <2>2. QED
    BY <2>1, <1>3 DEF Buffered, Evicted
<1>7. \A t \in ActiveTypes(buf) : buf[t] # {} /\ t \in Types
  BY DEF ActiveTypes
<1> HIDE DEF buf
<1>8. Homes(buf, ingested')
  BY <1>1, <1>2, <1>4 DEF Homes
<1>9. /\ alerts \subseteq alerts'
      /\ \A g \in Findings \ {f} : at'[g] = at[g] /\ active'[g] = active[g]
                                   /\ seen'[g] = seen[g]
  BY <1>1, <1>2, WalkOthers DEF TypeOK
<1>10. \A g \in InFlight' : g # f => g \in InFlight
  BY <1>9 DEF InFlight
<1>11. f \in InFlight' => seen'[f] = Held(buf)
  BY <1>1, <1>2 DEF InFlight, TypeOK
<1>12. f \in InFlight' => active'[f] = ActiveTypes(buf)
  BY <1>1, <1>2, WalkPublishes DEF InFlight
<1>13. Counted'
  <2>1. ASSUME f \in InFlight', NEW t \in active'[f]
        PROVE  \E g \in seen'[f] : TypeOf[g] = t
    <3>1. buf[t] # {} /\ t \in Types
      BY <1>7, <1>12, <2>1
    <3>2. PICK g \in buf[t] : g \in Findings /\ TypeOf[g] = t
      BY <1>6, <1>8, <3>1 DEF Homes
    <3>3. QED
      BY <1>11, <2>1, <3>2 DEF Held
  <2>2. QED
    BY <1>2, <1>9, <1>10, <2>1 DEF Counted, InFlight
<1>14. Kept'
  <2>1. ASSUME NEW h \in InFlight', NEW g \in seen'[h]
        PROVE  TypeOf[g] \in swept'[h] \/ g \in buffer'[TypeOf[g]] \/ Expired(g)'
    <3>1. CASE h = f
      BY <1>1, <1>11, <2>1, <3>1 DEF Held
    <3>2. CASE h # f
      <4>1. h \in InFlight /\ g \in seen[h] /\ g \in Findings
        BY <1>2, <1>9, <1>10, <2>1, <3>2 DEF InFlight, TypeOK
      <4>2. TypeOf[g] \in swept[h] \/ g \in buffer[TypeOf[g]] \/ Expired(g)
        BY <1>2, <4>1 DEF Kept
      <4>3. TypeOf[g] \in Types
        BY <1>3, <4>1
      <4>4. QED
        BY <1>1, <1>4, <4>2, <4>3 DEF Expired
    <3>3. QED
      BY <3>1, <3>2
  <2>2. QED
    BY <2>1 DEF Kept
<1>15. Announced'
  <2>1. ASSUME NEW h \in InFlight', h # f
        PROVE  \E al \in alerts' :
                 /\ al.by = h /\ al.pat = at'[h]
                 /\ \A t \in Patterns[at'[h]].types : \A g \in buffer'[t] : Spoken(al, g)'
    <3>1. h \in InFlight /\ h \in Findings /\ at'[h] = at[h] /\ at[h] \in Pats
      BY <1>2, <1>9, <1>10, <2>1 DEF InFlight, TypeOK
    <3>2. PICK al \in alerts :
            /\ al.by = h /\ al.pat = at[h]
            /\ \A t \in Patterns[at[h]].types : \A g \in buffer[t] : Spoken(al, g)
      BY <1>2, <3>1 DEF Announced
    <3>3. late'[h] = late[h] \cup {f}
      BY <1>1, <3>1 DEF InFlight
    <3>4. ASSUME NEW t \in Patterns[at[h]].types, NEW g \in buf[t]
          PROVE  Spoken(al, g)'
      <4>1. t \in Types
        BY <3>1, PatternShape
      <4>2. g = f \/ g \in buffer[t]
        BY <1>4, <3>4, <4>1
      <4>3. CASE g = f
        BY <3>2, <3>3, <4>3 DEF Spoken
      <4>4. CASE g \in buffer[t]
        BY <3>2, <3>3, <4>4 DEF Spoken
      <4>5. QED
        BY <4>2, <4>3, <4>4
    <3>5. QED
      BY <1>1, <1>9, <3>1, <3>2, <3>4
  <2>2. f \in InFlight' =>
          \E al \in alerts' :
            /\ al.by = f /\ al.pat = at'[f]
            /\ \A t \in Patterns[at'[f]].types : \A g \in buffer'[t] : Spoken(al, g)'
    BY <1>1, <1>2, <1>5, <1>6, <1>8, WalkAnnounces
  <2>3. QED
    BY <2>1, <2>2 DEF Announced
<1>16. Explained
  <2>1. ASSUME NEW al \in alerts' \ alerts, NEW t \in Patterns[al.pat].types
        PROVE  t \in LinkedTypes(al)
    <3>1. PICK i \in Pats :
            /\ Fires(buf, ActiveTypes(buf), i)
            /\ alerts' = alerts \cup {[by |-> f, pat |-> i, linked |-> Matched(buf, i)]}
      BY <1>1, <1>2, <2>1, WalkPublishes
    <3>2. al.pat = i /\ al.linked = Matched(buf, i)
      BY <2>1, <3>1
    <3>3. buf[t] # {}
      BY <1>7, <2>1, <3>1, <3>2 DEF Fires
    <3>4. \E g \in Matched(buf, i) : TypeOf[g] = t
      BY <1>5, <1>6, <1>8, <2>1, <3>2, <3>3, LinksWhatIsThere
    <3>5. QED
      BY <3>2, <3>4 DEF LinkedTypes
  <2>2. QED
    BY <2>1 DEF Explained
<1>17. OldOrLate
  <2>1. ASSUME NEW g \in Held(buffer) \ Held(buffer') PROVE Expired(g)
    <3>1. g \in Findings /\ g \in buffer[TypeOf[g]] /\ g \notin buf[TypeOf[g]]
      BY <1>1, <2>1 DEF Held
    <3>2. QED
      BY <1>3, <1>4, <3>1
  <2>2. QED
    BY <2>1 DEF OldOrLate
<1>18. QED
  BY <1>1, <1>5, <1>8, <1>13, <1>14, <1>15, <1>16, <1>17 DEF EvidenceStepped

LEMMA ResumeEvidence ==
  ASSUME EvidenceInv, NEW f \in Findings, Resume(f)
  PROVE  EvidenceStepped
<1> DEFINE buf == Cleared(buffer, at[f])
<1>1. /\ buffer' = buf /\ Walk(f, buf, active[f], at[f] + 1) /\ f \in InFlight
      /\ seen' = [seen EXCEPT ![f] = IF at'[f] = 0 THEN {} ELSE @]
      /\ swept' = [g \in Findings |->
                     IF at'[g] = 0 THEN {} ELSE swept[g] \cup Patterns[at[f]].types]
      /\ late' = [late EXCEPT ![f] = {}]
      /\ UNCHANGED <<ingested, cutoff>>
  BY DEF Resume, InFlight
<1>2. /\ TypeOK /\ Homes(buffer, ingested) /\ Ordered(buffer)
      /\ Counted /\ Kept /\ Announced
  BY DEF EvidenceInv
<1>3. /\ \A g \in Findings : TypeOf[g] \in Types
      /\ at[f] \in Pats /\ at[f] + 1 \in Nat /\ at[f] \in Nat
  <2>1. at[f] \in Pats
    BY <1>1, <1>2 DEF InFlight, TypeOK
  <2>2. QED
    BY <2>1, PatternShape, EngineAssumption DEF EngineAssumption
<1>4. \A t \in Types : buf[t] = IF t \in Patterns[at[f]].types THEN {} ELSE buffer[t]
  BY DEF Cleared
<1>5. buf \in [Types -> SUBSET Findings]
  <2>1. buffer \in [Types -> SUBSET Findings]
    BY <1>2 DEF TypeOK
  <2>2. QED
    BY <2>1 DEF Cleared
<1> HIDE DEF buf
<1>6. \A t \in Types : buf[t] = {} \/ buf[t] = buffer[t]
  BY <1>4
<1>7. Homes(buf, ingested)
  BY <1>2, <1>6 DEF Homes
<1>8. Ordered(buf)
  <2>1. ASSUME NEW t \in Types, buf[t] # {}
        PROVE  \E g \in buf[t] : \A h \in buf[t] : Born[h] <= Born[g]
    <3>1. buf[t] = buffer[t]
      BY <1>6, <2>1
    <3>2. \E g \in buffer[t] : \A h \in buffer[t] : Born[h] <= Born[g]
      BY <1>2, <2>1, <3>1 DEF Ordered
    <3>3. QED
      BY <3>1, <3>2
  <2>2. QED
    BY <2>1 DEF Ordered
<1>9. /\ alerts \subseteq alerts'
      /\ \A g \in Findings \ {f} : at'[g] = at[g] /\ active'[g] = active[g]
                                   /\ seen'[g] = seen[g] /\ late'[g] = late[g]
  BY <1>1, <1>2, WalkOthers DEF TypeOK
<1>10. \A g \in InFlight' : g \in InFlight /\ g \in Findings /\ seen'[g] = seen[g]
  BY <1>1, <1>2, <1>9 DEF InFlight, TypeOK
<1>11. \A g \in InFlight' : swept'[g] = swept[g] \cup Patterns[at[f]].types
  BY <1>1 DEF InFlight
<1>12. \A g \in InFlight' : active'[g] = active[g]
  <2>1. f \in InFlight' => active'[f] = active[f]
    BY <1>1, <1>2, <1>3, WalkPublishes DEF InFlight
  <2>2. QED
    BY <1>9, <1>10, <2>1
<1>13. Counted'
  BY <1>2, <1>10, <1>12 DEF Counted
<1>14. Kept'
  <2>1. ASSUME NEW h \in InFlight', NEW g \in seen'[h]
        PROVE  TypeOf[g] \in swept'[h] \/ g \in buffer'[TypeOf[g]] \/ Expired(g)'
    <3>1. h \in InFlight /\ g \in seen[h]
      BY <1>10, <2>1
    <3>2. TypeOf[g] \in Types
      BY <1>2, <1>3, <3>1 DEF InFlight, TypeOK
    <3>3. TypeOf[g] \in swept[h] \/ g \in buffer[TypeOf[g]] \/ Expired(g)
      BY <1>2, <3>1 DEF Kept
    <3>4. QED
      BY <1>1, <1>4, <1>11, <2>1, <3>2, <3>3 DEF Expired
  <2>2. QED
    BY <2>1 DEF Kept
<1>15. Announced'
  <2>1. ASSUME NEW h \in InFlight', h # f
        PROVE  \E al \in alerts' :
                 /\ al.by = h /\ al.pat = at'[h]
                 /\ \A t \in Patterns[at'[h]].types : \A g \in buffer'[t] : Spoken(al, g)'
    <3>1. h \in InFlight /\ h \in Findings /\ at'[h] = at[h] /\ at[h] \in Pats
          /\ late'[h] = late[h]
      BY <1>2, <1>9, <1>10, <2>1 DEF InFlight, TypeOK
    <3>2. PICK al \in alerts :
            /\ al.by = h /\ al.pat = at[h]
            /\ \A t \in Patterns[at[h]].types : \A g \in buffer[t] : Spoken(al, g)
      BY <1>2, <3>1 DEF Announced
    <3>3. ASSUME NEW t \in Patterns[at[h]].types, NEW g \in buf[t]
          PROVE  Spoken(al, g)'
      <4>1. t \in Types
        BY <3>1, PatternShape
      <4>2. g \in buffer[t]
        BY <1>6, <3>3, <4>1
      <4>3. Spoken(al, g)
        BY <3>2, <4>2
      <4>4. QED
        BY <3>1, <3>2, <4>3 DEF Spoken
    <3>4. QED
      BY <1>1, <1>9, <3>1, <3>2, <3>3
  <2>2. f \in InFlight' =>
          \E al \in alerts' :
            /\ al.by = f /\ al.pat = at'[f]
            /\ \A t \in Patterns[at'[f]].types : \A g \in buffer'[t] : Spoken(al, g)'
    BY <1>1, <1>2, <1>3, <1>5, <1>7, <1>8, WalkAnnounces
  <2>3. QED
    BY <2>1, <2>2 DEF Announced
<1>16. Explained
  <2>1. ASSUME NEW al \in alerts' \ alerts,
               NEW t \in Patterns[al.pat].types, t \notin LinkedTypes(al)
        PROVE  /\ \E g \in seen'[al.by] : TypeOf[g] = t
               /\ \/ t \in swept'[al.by]
                  \/ \A g \in seen'[al.by] : TypeOf[g] = t => Expired(g)
    <3>1. PICK i \in Pats :
            /\ Fires(buf, active[f], i) /\ at'[f] = i /\ i # 0
            /\ alerts' = alerts \cup {[by |-> f, pat |-> i, linked |-> Matched(buf, i)]}
      BY <1>1, <1>2, <1>3, <2>1, WalkPublishes
    <3>2. al.by = f /\ al.pat = i /\ al.linked = Matched(buf, i)
      BY <2>1, <3>1
    <3>3. f \in InFlight' /\ t \in active[f] /\ t \in Types
      BY <2>1, <3>1, <3>2, PatternShape DEF InFlight, Fires
    <3>4. buf[t] = {}
      BY <1>5, <1>7, <1>8, <2>1, <3>2, LinksWhatIsThere DEF LinkedTypes
    <3>5. \E g \in seen'[f] : TypeOf[g] = t
      BY <1>1, <1>2, <1>10, <3>3 DEF Counted
    <3>6. ASSUME t \notin swept'[f], NEW g \in seen'[f], TypeOf[g] = t
          PROVE  Expired(g)
      <4>1. t \notin swept[f] /\ t \notin Patterns[at[f]].types /\ g \in seen[f]
        BY <1>10, <1>11, <3>3, <3>6
      <4>2. buffer[t] = {}
        BY <1>4, <3>3, <3>4, <4>1
      <4>3. QED
        BY <1>1, <1>2, <3>6, <4>1, <4>2 DEF Kept
    <3>7. QED
      BY <3>2, <3>5, <3>6
  <2>2. QED
    BY <2>1 DEF Explained
<1>17. OldOrLate
  <2>1. PICK al \in alerts :
          /\ al.by = f /\ al.pat = at[f]
          /\ \A t \in Patterns[at[f]].types : \A g \in buffer[t] : Spoken(al, g)
    BY <1>1, <1>2 DEF Announced
  <2>2. at'[f] # at[f]
    BY <1>1, <1>2, <1>3, WalkPublishes DEF InFlight
  <2>3. ASSUME NEW g \in Held(buffer) \ Held(buffer')
        PROVE  TypeOf[g] \in Patterns[at[f]].types /\ g \in buffer[TypeOf[g]]
    <3>1. g \in Findings /\ g \in buffer[TypeOf[g]] /\ g \notin buf[TypeOf[g]]
      BY <1>1, <2>3 DEF Held
    <3>2. QED
      BY <1>3, <1>4, <3>1
  <2>4. QED
    BY <2>1, <2>2, <2>3 DEF OldOrLate, Spoken
<1>18. QED
  BY <1>1, <1>7, <1>8, <1>13, <1>14, <1>15, <1>16, <1>17 DEF EvidenceStepped

LEMMA EvidenceStep == EvidenceInv /\ [Next]_vars => EvidenceInv' /\ Explained /\ OldOrLate
<1>1. SUFFICES ASSUME EvidenceInv, [Next]_vars PROVE EvidenceStepped
  BY TypeStep DEF EvidenceInv, EvidenceStepped
<1>2. /\ TypeOK /\ Homes(buffer, ingested) /\ Ordered(buffer)
      /\ Counted /\ Kept /\ Announced
  BY <1>1 DEF EvidenceInv
<1>3. CASE Tick
  <2>1. UNCHANGED <<ingested, buffer, at, active, alerts, history>>
        /\ cutoff' = cutoff + 1 /\ cutoff \in Nat
    BY <1>2, <1>3 DEF Tick, TypeOK
  <2>2. Kept'
    <3>1. ASSUME NEW h \in InFlight, NEW g \in seen[h], Expired(g)
          PROVE  Expired(g)'
      <4>1. Born[g] \in Nat
        BY <1>2, <3>1, EngineAssumption DEF EngineAssumption, InFlight, TypeOK
      <4>2. QED
        BY <2>1, <3>1, <4>1 DEF Expired
    <3>2. QED
      BY <1>2, <2>1, <3>1 DEF Kept, InFlight, history
  <2>3. QED
    BY <1>2, <2>1, <2>2 DEF EvidenceStepped, Homes, Ordered, Counted, Announced, Spoken,
                            InFlight, Explained, OldOrLate, Held, history
<1>4. CASE UNCHANGED vars
  BY <1>2, <1>4 DEF EvidenceStepped, Homes, Ordered, Counted, Kept, Announced, Spoken, vars,
                    InFlight, Explained, OldOrLate, Held, Expired, history
<1>5. QED
  BY <1>1, <1>3, <1>4, IngestEvidence, ResumeEvidence DEF Next

LEMMA EvidenceInit == Init => EvidenceInv
BY TypeInit DEF Init, EvidenceInv, Homes, Ordered, Counted, Kept, Announced, InFlight

(* An alert lacks evidence for one of its types only if findings of the type *)
(* were buffered when its own task counted them, and since then an alert of  *)
(* that type cleared them or they all expired (lines 253-282).               *)
THEOREM MissingEvidenceExplained == Spec => MissingEvidenceIsAccountedFor
<1>1. EvidenceInv /\ [Next]_vars => EvidenceInv'
  BY EvidenceStep
<1>2. EvidenceInv /\ [Next]_vars => Explained
  BY EvidenceStep
<1>3. QED
  BY <1>1, <1>2, EvidenceInit, PTL DEF Spec, MissingEvidenceIsAccountedFor, Explained

(* A fresh finding goes from the buffers unlinked only when the alert that   *)
(* clears it linked a younger finding of its type, or when it came in while  *)
(* that alert was being published (lines 259-282).                           *)
THEOREM UnlinkedLossExplained == Spec => UnlinkedLossIsOldOrLate
<1>1. EvidenceInv /\ [Next]_vars => EvidenceInv'
  BY EvidenceStep
<1>2. EvidenceInv /\ [Next]_vars => OldOrLate
  BY EvidenceStep
<1>3. QED
  BY <1>1, <1>2, EvidenceInit, PTL DEF Spec, UnlinkedLossIsOldOrLate, OldOrLate
===============================================================================
