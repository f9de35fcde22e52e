---------------------------- MODULE TriGateProofs ----------------------------
(***************************************************************************)
(* For every set of events, whatever their payloads, and for every width   *)
(* of the windows: Gate 1's burst filter never filters anything, what it   *)
(* suppresses has an admitted twin, an event is answered at most once, and *)
(* only if a gate confirmed it, offenders are counted exactly, Gate 2      *)
(* forgets no hold that still counts, and the pipeline as a whole          *)
(* implements the life of an event that ThreatLife describes.              *)
(***************************************************************************)
EXTENDS TriGate, FiniteSetTheorems, TLAPS

LEMMA ProfileType ==
  ASSUME NEW e \in Events
  PROVE  /\ Profile[e].key \in Keys /\ Entity(e) \in Entities
         /\ Profile[e].type \in Types /\ Profile[e].critical \in BOOLEAN
         /\ Profile[e].device \in Devices \cup {None}
         /\ Profile[e].place \in Places \cup {None}
BY TriGateAssumption DEF TriGateAssumption, Entity

-----------------------------------------------------------------------------
(* Gate 1's two time lists. *)

ListsOK ==
  /\ clock \in Nat
  /\ recent \in [Keys -> SUBSET Nat]
  /\ burst \in [Keys -> SUBSET Nat]

\* Tracked times are past, admissions lie DupWindow apart, and an admission
\* that still counts as a duplicate is in both lists.
Spaced ==
  \A k \in Keys :
    /\ \A t \in burst[k] : t <= clock
    /\ \A t, u \in burst[k] : t < u => t + DupWindow <= u
    /\ \A t \in burst[k] : t > clock - DupWindow => t \in recent[k]

ListsInv == ListsOK /\ Spaced

(* A list that holds no duplicate leaves at most one time in the burst      *)
(* window.                                                                   *)
LEMMA AtMostOneInWindow ==
  ASSUME ListsInv, NEW k \in Keys, Younger(recent[k], DupWindow) = {}
  PROVE  Cardinality(Younger(burst[k], BurstWindow)) < MaxBurst
<1> DEFINE W == Younger(burst[k], BurstWindow)
<1>1. /\ DupWindow \in Nat /\ BurstWindow \in Nat /\ BurstWindow <= 2 * DupWindow
      /\ MaxBurst \in Nat /\ MaxBurst >= 2
  BY TriGateAssumption DEF TriGateAssumption
<1>2. /\ clock \in Nat /\ burst[k] \subseteq Nat
      /\ \A t, u \in burst[k] : t < u => t + DupWindow <= u
      /\ \A t \in burst[k] : t > clock - DupWindow => t \in recent[k]
  BY DEF ListsInv, ListsOK, Spaced
<1>3. \A t \in burst[k] : t <= clock - DupWindow
  BY <1>1, <1>2 DEF Younger
<1>4. \A t, u \in W : ~(t < u)
  BY <1>1, <1>2, <1>3 DEF Younger
<1>5. \A t, u \in W : t = u
  BY <1>2, <1>4 DEF Younger
<1>6. CASE W = {}
  BY <1>1, <1>6, FS_EmptySet
<1>7. CASE W # {}
  <2>1. PICK t \in W : TRUE
    BY <1>7
  <2>2. W = {t}
    BY <1>5, <2>1
  <2>3. Cardinality(W) = 1
    BY <2>2, FS_Singleton
  <2>4. QED
    BY <1>1, <2>3
<1>8. QED
  BY <1>6, <1>7

LEMMA ListsStep == ListsInv /\ [Next]_vars => ListsInv'
<1>1. SUFFICES ASSUME ListsInv, [Next]_vars PROVE ListsInv'
  OBVIOUS
<1>2. DupWindow \in Nat \ {0} /\ BurstWindow \in Nat /\ MaxClock \in Nat
  BY TriGateAssumption DEF TriGateAssumption
<1>3. ASSUME NEW e \in Events, Arrive(e) PROVE ListsInv'
  <2> DEFINE k == Profile[e].key
             dup == Younger(recent[k], DupWindow)
             flood == Younger(burst[k], BurstWindow)
  <2>1. k \in Keys /\ clock' = clock /\ Admit(e)
    BY <1>3, ProfileType DEF Arrive
  <2>2. dup \subseteq recent[k] /\ flood \subseteq burst[k]
    BY DEF Younger
  <2>3. \A t \in recent[k] : t > clock - DupWindow => t \in dup
    BY DEF Younger
  <2>4. CASE dup # {} \/ Cardinality(flood) >= MaxBurst
    <3>1. /\ recent' = [recent EXCEPT ![k] = dup]
          /\ burst' = burst \/ burst' = [burst EXCEPT ![k] = flood]
      BY <2>1, <2>4 DEF Admit
    <3>2. ListsOK'
      BY <1>1, <2>1, <2>2, <3>1 DEF ListsInv, ListsOK
    <3>3. \A j \in Keys : burst'[j] \subseteq burst[j]
      BY <1>1, <2>1, <2>2, <3>1 DEF ListsInv, ListsOK
    <3>4. \A j \in Keys : \A t \in recent[j] :
            t > clock - DupWindow => t \in recent'[j]
      BY <1>1, <2>1, <2>3, <3>1 DEF ListsInv, ListsOK
    <3>5. Spaced'
      BY <1>1, <2>1, <3>3, <3>4 DEF ListsInv, Spaced
    <3>6. QED
      BY <3>2, <3>5 DEF ListsInv
  <2>5. CASE dup = {} /\ ~(Cardinality(flood) >= MaxBurst)
    <3>1. /\ recent' = [recent EXCEPT ![k] = dup \cup {clock}]
          /\ burst' = [burst EXCEPT ![k] = flood \cup {clock}]
      BY <2>1, <2>5 DEF Admit
    <3>2. ListsOK'
      BY <1>1, <2>1, <2>2, <3>1 DEF ListsInv, ListsOK
    <3>3. \A j \in Keys \ {k} : burst'[j] = burst[j] /\ recent'[j] = recent[j]
      BY <1>1, <2>1, <3>1 DEF ListsInv, ListsOK
    <3>4. burst'[k] = flood \cup {clock} /\ recent'[k] = {clock}
      BY <1>1, <2>1, <2>5, <3>1 DEF ListsInv, ListsOK
    <3>5. \A t \in flood : t \in Nat /\ t + DupWindow <= clock
      <4>1. burst[k] \subseteq Nat
        BY <1>1, <2>1 DEF ListsInv, ListsOK
      <4>2. \A t \in burst[k] : t > clock - DupWindow => t \in recent[k]
        BY <1>1, <2>1 DEF ListsInv, Spaced
      <4>3. \A t \in burst[k] : t \in Nat /\ ~(t > clock - DupWindow)
        BY <2>3, <2>5, <4>1, <4>2
      <4>4. clock \in Nat
        BY <1>1 DEF ListsInv, ListsOK
      <4>5. \A t \in burst[k] : t \in Nat /\ t + DupWindow <= clock
        BY <1>2, <4>3, <4>4
      <4>6. QED
        BY <2>2, <4>5
    <3>6. Spaced'
      <4>1. ASSUME NEW j \in Keys, j # k
            PROVE /\ \A t \in burst'[j] : t <= clock'
                  /\ \A t, u \in burst'[j] : t < u => t + DupWindow <= u
                  /\ \A t \in burst'[j] : t > clock' - DupWindow => t \in recent'[j]
        BY <1>1, <2>1, <3>3, <4>1 DEF ListsInv, Spaced
      <4>2. \A t, u \in burst'[k] : t < u => t + DupWindow <= u
        BY <1>1, <1>2, <2>1, <2>2, <3>4, <3>5 DEF ListsInv, ListsOK, Spaced
      <4>3. \A t \in burst'[k] : t <= clock' /\ (t > clock' - DupWindow => t \in recent'[k])
        BY <1>1, <1>2, <2>1, <3>4, <3>5 DEF ListsInv, ListsOK
      <4>4. QED
        BY <4>1, <4>2, <4>3 DEF Spaced
    <3>7. QED
      BY <3>2, <3>6 DEF ListsInv
  <2>6. QED
    BY <2>4, <2>5
<1>4. CASE Tick
  <2>1. clock' = clock + 1 /\ recent' = recent /\ burst' = burst
    BY <1>4 DEF Tick, gate1
  <2>2. \A k \in Keys : burst[k] \subseteq Nat
    BY <1>1 DEF ListsInv, ListsOK
  <2>3. QED
    BY <1>1, <1>2, <2>1, <2>2 DEF ListsInv, ListsOK, Spaced
<1>5. ASSUME UNCHANGED <<clock, recent, burst>> PROVE ListsInv'
  BY <1>1, <1>5 DEF ListsInv, ListsOK, Spaced
<1>6. ASSUME NEW e \in Events, Gate1(e) PROVE UNCHANGED <<clock, recent, burst>>
  BY <1>6 DEF Gate1
<1>7. ASSUME NEW t \in tasks, Gate2(t) \/ Gate3(t) \/ Bridge(t)
      PROVE UNCHANGED <<clock, recent, burst>>
  BY <1>7 DEF Gate2, Gate3, Bridge, gate1
<1>8. ASSUME NEW x \in Entities, MetaRisk(x) PROVE UNCHANGED <<clock, recent, burst>>
  BY <1>8 DEF MetaRisk, gate1
<1>9. QED
  BY <1>1, <1>3, <1>4, <1>5, <1>6, <1>7, <1>8 DEF Next, vars, gate1

(* The burst filter of Gate 1 is dead code behind its duplicate filter. *)
THEOREM BurstFilterIsIdle == Spec => []BurstLimitUnreached
<1>1. Init => ListsInv
  BY DEF Init, ListsInv, ListsOK, Spaced
<1>2. ListsInv => BurstLimitUnreached
  BY AtMostOneInWindow DEF BurstLimitUnreached
<1>3. QED
  BY <1>1, <1>2, ListsStep, PTL DEF Spec

-----------------------------------------------------------------------------
(* Types *)

LEMMA PublishType ==
  ASSUME TypeOK, NEW done, NEW d \in Decision, Publish(done, d)
  PROVE  decisions' \subseteq Decision /\ tasks' \subseteq [gate : 2..4, of : Decision]
<1>1. Woken(d) \subseteq [gate : 2..4, of : Decision]
  BY DEF Woken
<1>2. QED
  BY <1>1 DEF TypeOK, Publish

LEMMA TypeInit == Init => TypeOK
<1>1. SUFFICES ASSUME Init PROVE TypeOK
  OBVIOUS
<1>2. recent \in [Keys -> SUBSET Nat] /\ burst \in [Keys -> SUBSET Nat]
  BY <1>1 DEF Init
<1>3. /\ trusted \in [Entities -> Devices \cup {None}]
      /\ lastPlace \in [Entities -> Places \cup {None}]
  BY <1>1 DEF Init
<1>4. /\ session \in [Entities -> SUBSET Decision]
      /\ meta \in [Entities -> 0..10] /\ hits \in [Entities -> Nat]
  BY <1>1 DEF Init
<1>5. registry \in [Types \X Entities -> Nat]
  BY <1>1 DEF Init
<1>6. /\ admittedAt \in [Events -> Nat] /\ droppedAt \in [Events -> Nat]
      /\ executed \in [Events -> Nat]
  BY <1>1 DEF Init
<1>7. QED
  BY <1>1, <1>2, <1>3, <1>4, <1>5, <1>6 DEF Init, TypeOK

LEMMA TypeStep == TypeOK /\ [Next]_vars => TypeOK'
<1>1. SUFFICES ASSUME TypeOK, [Next]_vars PROVE TypeOK'
  OBVIOUS
<1>2. ASSUME NEW e \in Events, Arrive(e) PROVE TypeOK'
  <2>1. Profile[e].key \in Keys /\ clock \in Nat
    BY <1>1, ProfileType DEF TypeOK
  <2>2. /\ Younger(recent[Profile[e].key], DupWindow) \subseteq Nat
        /\ Younger(burst[Profile[e].key], BurstWindow) \subseteq Nat
    BY <1>1, <2>1 DEF TypeOK, Younger
  <2>3. recent' \in [Keys -> SUBSET Nat] /\ burst' \in [Keys -> SUBSET Nat]
    <3> DEFINE k == Profile[e].key
               D == Younger(recent[k], DupWindow)
               F == Younger(burst[k], BurstWindow)
    <3>1. /\ \E R \in {D, D \cup {clock}} : recent' = [recent EXCEPT ![k] = R]
          /\ burst' = burst
             \/ \E B \in {F, F \cup {clock}} : burst' = [burst EXCEPT ![k] = B]
      BY <1>2 DEF Arrive, Admit
    <3>2. k \in Keys /\ {D, D \cup {clock}, F, F \cup {clock}} \subseteq SUBSET Nat
      BY <2>1, <2>2
    <3>3. recent \in [Keys -> SUBSET Nat] /\ burst \in [Keys -> SUBSET Nat]
      BY <1>1 DEF TypeOK
    <3> HIDE DEF k, D, F
    <3>4. QED
      BY <3>1, <3>2, <3>3
  <2>4. /\ admittedAt' \in [Events -> Nat] /\ droppedAt' \in [Events -> Nat]
        /\ perimeter' \subseteq Events /\ arrived' \subseteq Events
    BY <1>1, <1>2, <2>1 DEF TypeOK, Arrive, Admit
  <2>5. QED
    BY <1>1, <1>2, <2>3, <2>4 DEF TypeOK, Arrive, gate2, gate3
<1>3. ASSUME NEW e \in Events, Gate1(e) PROVE TypeOK'
  <2>1. PICK v \in Verdicts, c \in BOOLEAN :
          Publish({}, [gate |-> 1, event |-> e, verdict |-> v, critical |-> c,
                       at |-> clock, repeat |-> 0])
    BY <1>3 DEF Gate1
  <2>2. [gate |-> 1, event |-> e, verdict |-> v, critical |-> c,
         at |-> clock, repeat |-> 0] \in Decision
    BY <1>1 DEF TypeOK, Decision
  <2>3. decisions' \subseteq Decision /\ tasks' \subseteq [gate : 2..4, of : Decision]
    BY <1>1, <2>1, <2>2, PublishType
  <2>4. /\ trusted' \in [Entities -> Devices \cup {None}]
        /\ lastPlace' \in [Entities -> Places \cup {None}]
    BY <1>1, <1>3, ProfileType DEF TypeOK, Gate1
  <2>5. QED
    BY <1>1, <1>3, <2>3, <2>4 DEF TypeOK, Gate1, gate2, gate3
<1>4. ASSUME NEW t \in tasks, Gate2(t) PROVE TypeOK'
  <2> DEFINE d == t.of
             x == Entity(d.event)
  <2>1. d \in Decision /\ d.event \in Events /\ x \in Entities /\ d.critical \in BOOLEAN
    BY <1>1, ProfileType DEF TypeOK, Decision
  <2>2. session' \in [Entities -> SUBSET Decision]
    BY <1>1, <1>4, <2>1 DEF TypeOK, Gate2, UpdateSession
  <2>3. decisions' \subseteq Decision /\ tasks' \subseteq [gate : 2..4, of : Decision]
    <3>1. CASE tasks' = tasks \ {t} /\ UNCHANGED decisions
      BY <1>1, <3>1 DEF TypeOK
    <3>2. ASSUME NEW off \in BOOLEAN, NEW n, NEW m,
                 Publish({t},
                   [gate |-> 2, event |-> d.event,
                    verdict |-> IF Escalates(Profile[d.event], n, off, m) THEN "escalate"
                                ELSE IF Blocks(Profile[d.event], n, off, m) THEN "block"
                                ELSE "pass",
                    critical |-> StaysCritical(Profile[d.event], n, off, m, d.critical),
                    at |-> 0, repeat |-> 0])
          PROVE decisions' \subseteq Decision /\ tasks' \subseteq [gate : 2..4, of : Decision]
      <4>1. StaysCritical(Profile[d.event], n, off, m, d.critical) \in BOOLEAN
        BY <2>1 DEF StaysCritical
      <4>2. (IF Escalates(Profile[d.event], n, off, m) THEN "escalate"
             ELSE IF Blocks(Profile[d.event], n, off, m) THEN "block" ELSE "pass")
               \in Verdicts
        BY DEF Verdicts
      <4>3. QED
        BY <1>1, <2>1, <3>2, <4>1, <4>2, PublishType DEF Decision
    <3>3. QED
      BY <1>4, <3>1, <3>2 DEF Gate2
  <2>4. QED
    BY <1>1, <1>4, <2>2, <2>3 DEF TypeOK, Gate2, gate1, gate3
<1>5. ASSUME NEW t \in tasks, Gate3(t) PROVE TypeOK'
  <2> DEFINE d == t.of
             x == Entity(d.event)
  <2>1. /\ d \in Decision /\ d.event \in Events /\ x \in Entities
        /\ d.critical \in BOOLEAN /\ Profile[d.event].type \in Types
    BY <1>1, ProfileType DEF TypeOK, Decision
  <2>2. hits[x] + 1 \in Nat /\ hits' \in [Entities -> Nat]
    BY <1>1, <1>5, <2>1 DEF TypeOK, Gate3, Counted
  <2>3. registry' \in [Types \X Entities -> Nat]
    BY <1>1, <1>5, <2>1 DEF TypeOK, Gate3
  <2>4. Hardened(d, hits[x] + 1) \in BOOLEAN
    BY <2>1 DEF Hardened
  <2>5. [gate |-> 3, event |-> d.event, verdict |-> "block",
         critical |-> Hardened(d, hits[x] + 1), at |-> 0,
         repeat |-> hits[x] + 1] \in Decision
    BY <2>1, <2>2, <2>4 DEF Decision, Verdicts
  <2>6. decisions' \subseteq Decision /\ tasks' \subseteq [gate : 2..4, of : Decision]
    BY <1>1, <1>5, <2>5, PublishType DEF Gate3
  <2>7. QED
    BY <1>1, <1>5, <2>2, <2>3, <2>6 DEF TypeOK, Gate3, gate1, gate2
<1>6. ASSUME NEW t \in tasks, Bridge(t) PROVE TypeOK'
  <2>1. t.of.event \in Events
    BY <1>1 DEF TypeOK, Decision
  <2>2. executed' \in [Events -> Nat]
    BY <1>1, <1>6, <2>1 DEF TypeOK, Bridge
  <2>3. QED
    BY <1>1, <1>6, <2>2 DEF TypeOK, Bridge, gate1, gate2, gate3
<1>7. ASSUME NEW x \in Entities, MetaRisk(x) PROVE TypeOK'
  <2>1. MetaScores \cup {0} \subseteq 0..10
    BY TriGateAssumption DEF TriGateAssumption
  <2>2. meta' \in [Entities -> 0..10]
    BY <1>1, <1>7, <2>1 DEF TypeOK, MetaRisk
  <2>3. QED
    BY <1>1, <1>7, <2>2 DEF TypeOK, MetaRisk, gate1, gate3
<1>8. CASE Tick
  BY <1>1, <1>8 DEF TypeOK, Tick, gate1, gate2, gate3
<1>9. CASE UNCHANGED vars
  BY <1>1, <1>9 DEF TypeOK, vars, gate1, gate2, gate3
<1>10. QED
  BY <1>1, <1>2, <1>3, <1>4, <1>5, <1>6, <1>7, <1>8, <1>9 DEF Next

(* Type correctness of the pipeline. *)
THEOREM TypeCorrect == Spec => []TypeOK
BY TypeInit, TypeStep, PTL DEF Spec

-----------------------------------------------------------------------------
(* What suppresses an event. *)

\* A time in the duplicate list is the admission of an event with that key.
Tracked ==
  \A k \in Keys : \A t \in recent[k] :
    t > 0 /\ t <= clock /\ \E f \in Events : Profile[f].key = k /\ admittedAt[f] = t

Unmet == \A e \in Events \ arrived : admittedAt[e] = 0

SuppressedInv == clock > 0 /\ Tracked /\ Unmet /\ SuppressionIsBounded

LEMMA SuppressedStays ==
  ASSUME TypeOK, SuppressedInv, clock' \in Nat, clock' >= clock,
         UNCHANGED <<arrived, recent, admittedAt, droppedAt>>
  PROVE  SuppressedInv'
<1>1. Tracked'
  <2>1. ASSUME NEW k \in Keys, NEW t \in recent'[k]
        PROVE  /\ t > 0 /\ t <= clock'
               /\ \E f \in Events : Profile[f].key = k /\ admittedAt'[f] = t
    <3>1. t \in Nat /\ clock \in Nat /\ t > 0 /\ t <= clock
      BY <2>1 DEF TypeOK, SuppressedInv, Tracked
    <3>2. QED
      BY <2>1, <3>1 DEF SuppressedInv, Tracked
  <2>2. QED
    BY <2>1 DEF Tracked
<1>2. Unmet' /\ SuppressionIsBounded'
  BY DEF SuppressedInv, Unmet, SuppressionIsBounded
<1>3. QED
  BY <1>1, <1>2 DEF TypeOK, SuppressedInv

LEMMA SuppressedArrive ==
  ASSUME TypeOK, ListsInv, SuppressedInv, NEW e \in Events, Arrive(e)
  PROVE  SuppressedInv'
<1> DEFINE k == Profile[e].key
           dup == Younger(recent[k], DupWindow)
           flood == Younger(burst[k], BurstWindow)
<1>1. /\ k \in Keys /\ clock' = clock /\ Admit(e) /\ e \notin arrived
      /\ arrived' = arrived \cup {e} /\ clock \in Nat /\ clock > 0
      /\ DupWindow \in Nat /\ DupWindow > 0
  BY ProfileType, TriGateAssumption DEF Arrive, TypeOK, SuppressedInv, TriGateAssumption
<1>2. admittedAt[e] = 0
  BY <1>1 DEF SuppressedInv, Unmet
<1>3. /\ recent \in [Keys -> SUBSET Nat] /\ admittedAt \in [Events -> Nat]
      /\ droppedAt \in [Events -> Nat]
  BY DEF TypeOK
<1>4. Tracked /\ SuppressionIsBounded
  BY DEF SuppressedInv
<1>5. CASE dup # {} \/ Cardinality(flood) >= MaxBurst
  <2>1. /\ recent' = [recent EXCEPT ![k] = dup] /\ admittedAt' = admittedAt
        /\ droppedAt' = [droppedAt EXCEPT ![e] = clock]
    BY <1>1, <1>5 DEF Admit
  <2>2. dup # {}
    <3>1. dup = {} => Cardinality(flood) < MaxBurst /\ ~(Cardinality(flood) >= MaxBurst)
      <4>1. MaxBurst \in Nat
        BY TriGateAssumption DEF TriGateAssumption
      <4>2. ASSUME dup = {} PROVE Cardinality(flood) < MaxBurst /\ Cardinality(flood) \in Nat
        <5>1. burst[k] \subseteq 0..clock
          BY <1>1 DEF ListsInv, ListsOK, Spaced
        <5>2. IsFiniteSet(burst[k])
          BY <1>1, <5>1, FS_Interval, FS_Subset
        <5>3. flood \subseteq burst[k]
          BY DEF Younger
        <5>4. Cardinality(flood) \in Nat
          BY <5>2, <5>3, FS_Subset, FS_CardinalityType
        <5>5. QED
          BY <1>1, <4>2, <5>4, AtMostOneInWindow
      <4>3. QED
        BY <4>1, <4>2
    <3>2. QED
      BY <1>5, <3>1
  <2>3. PICK t \in recent[k] : t > clock - DupWindow
    BY <2>2 DEF Younger
  <2>4. PICK f \in Events : Profile[f].key = k /\ admittedAt[f] = t /\ t > 0 /\ t <= clock
    BY <1>1, <1>4, <2>3 DEF Tracked
  <2>5. t \in Nat /\ t \in (clock - DupWindow + 1)..clock
    BY <1>1, <1>3, <2>3, <2>4
  <2>6. \A j \in Keys : recent'[j] \subseteq recent[j]
    BY <1>3, <2>1 DEF Younger
  <2>7. Tracked'
    BY <1>1, <1>4, <2>1, <2>6 DEF Tracked
  <2>8. SuppressionIsBounded'
    <3>1. ASSUME NEW x \in Events, droppedAt'[x] > 0
          PROVE  \E g \in Events :
                   /\ Profile[g].key = Profile[x].key
                   /\ admittedAt'[g] \in (droppedAt'[x] - DupWindow + 1)..droppedAt'[x]
                   /\ admittedAt'[g] > 0
      <4>1. CASE x = e
        BY <1>3, <2>1, <2>4, <2>5, <4>1
      <4>2. CASE x # e
        BY <1>3, <1>4, <2>1, <3>1, <4>2 DEF SuppressionIsBounded
      <4>3. QED
        BY <4>1, <4>2
    <3>2. QED
      BY <3>1 DEF SuppressionIsBounded
  <2>9. Unmet'
    BY <1>1, <2>1 DEF SuppressedInv, Unmet
  <2>10. QED
    BY <1>1, <2>7, <2>8, <2>9 DEF SuppressedInv
<1>6. CASE ~(dup # {} \/ Cardinality(flood) >= MaxBurst)
  <2>1. /\ recent' = [recent EXCEPT ![k] = dup \cup {clock}] /\ droppedAt' = droppedAt
        /\ admittedAt' = [admittedAt EXCEPT ![e] = clock]
    BY <1>1, <1>6 DEF Admit
  <2>2. \A f \in Events : admittedAt[f] > 0 => admittedAt'[f] = admittedAt[f]
    BY <1>2, <1>3, <2>1
  <2>3. ASSUME NEW j \in Keys, NEW t \in recent'[j]
        PROVE  /\ t > 0 /\ t <= clock'
               /\ \E f \in Events : Profile[f].key = j /\ admittedAt'[f] = t
    <3>1. CASE t \in recent[j]
      BY <1>1, <1>4, <2>2, <3>1 DEF Tracked
    <3>2. CASE t \notin recent[j]
      <4>1. j = k /\ t = clock
        BY <1>3, <2>1, <2>3, <3>2 DEF Younger
      <4>2. admittedAt'[e] = clock
        BY <1>3, <2>1
      <4>3. QED
        BY <1>1, <4>1, <4>2
    <3>3. QED
      BY <3>1, <3>2
  <2>4. SuppressionIsBounded'
    BY <1>4, <2>1, <2>2 DEF SuppressionIsBounded
  <2>5. Unmet'
    BY <1>1, <1>3, <2>1 DEF SuppressedInv, Unmet
  <2>6. QED
    BY <1>1, <2>3, <2>4, <2>5 DEF SuppressedInv, Tracked
<1>7. QED
  BY <1>5, <1>6

LEMMA SuppressedStep ==
  TypeOK /\ ListsInv /\ SuppressedInv /\ [Next]_vars => SuppressedInv'
<1>1. SUFFICES ASSUME TypeOK, ListsInv, SuppressedInv, [Next]_vars PROVE SuppressedInv'
  OBVIOUS
<1>2. clock \in Nat
  BY <1>1 DEF TypeOK
<1>3. ASSUME NEW e \in Events, Arrive(e) PROVE SuppressedInv'
  BY <1>1, <1>3, SuppressedArrive
<1>4. CASE Tick
  <2>1. clock' = clock + 1 /\ UNCHANGED <<arrived, recent, admittedAt, droppedAt>>
    BY <1>4 DEF Tick, gate1
  <2>2. QED
    BY <1>1, <1>2, <2>1, SuppressedStays
<1>5. CASE UNCHANGED <<clock, arrived, recent, admittedAt, droppedAt>>
  BY <1>1, <1>2, <1>5, SuppressedStays
<1>6. ASSUME NEW e \in Events, Gate1(e)
      PROVE  UNCHANGED <<clock, arrived, recent, admittedAt, droppedAt>>
  BY <1>6 DEF Gate1
<1>7. ASSUME NEW t \in tasks, Gate2(t) \/ Gate3(t) \/ Bridge(t)
      PROVE  UNCHANGED <<clock, arrived, recent, admittedAt, droppedAt>>
  BY <1>7 DEF Gate2, Gate3, Bridge, gate1
<1>8. ASSUME NEW x \in Entities, MetaRisk(x)
      PROVE  UNCHANGED <<clock, arrived, recent, admittedAt, droppedAt>>
  BY <1>8 DEF MetaRisk, gate1
<1>9. QED
  BY <1>1, <1>3, <1>4, <1>5, <1>6, <1>7, <1>8 DEF Next, vars, gate1

(* Gate 1 filters an event only if it admitted another one with the same   *)
(* key less than a duplicate window before: what it filters does not renew *)
(* the window (lines 81-91, 358-364).                                      *)
THEOREM SuppressionDoesNotFeedItself == Spec => []SuppressionIsBounded
<1>1. Init => SuppressedInv
  BY DEF Init, SuppressedInv, Tracked, Unmet, SuppressionIsBounded
<1>2. Init => ListsInv
  BY DEF Init, ListsInv, ListsOK, Spaced
<1>3. SuppressedInv => SuppressionIsBounded
  BY DEF SuppressedInv
<1>4. QED
  BY <1>1, <1>2, <1>3, TypeInit, TypeStep, ListsStep, SuppressedStep, PTL DEF Spec

-----------------------------------------------------------------------------
(* The way of one event through the gates. *)

\* Gate 1 has said nothing of an event that is asleep in it or not arrived.
Unseen ==
  /\ \A e \in perimeter : e \in arrived /\ \A d \in decisions : d.event # e
  /\ \A d \in decisions : d.event \in arrived

OneDecisionPerGate ==
  \A c, d \in decisions : c.event = d.event /\ c.gate = d.gate => c = d

\* A sleeping task was woken by a published decision, and no gate behind it
\* has spoken.
TasksAhead ==
  /\ \A t \in tasks : t.of \in decisions /\ Accepts(t.gate, t.of)
  /\ \A t \in tasks, d \in decisions :
       d.event = t.of.event =>
         (t.gate = 2 => d.gate = 1) /\ (t.gate = 3 => d.gate # 3)
  /\ \A t \in tasks : t.gate = 4 => executed[t.of.event] = 0

\* Gates 2 and 3 speak only of what was passed to them.
Caused ==
  \A d \in decisions :
    d.gate \in {2, 3} => \E c \in decisions : c.event = d.event /\ Accepts(d.gate, c)

ExecutedOnce ==
  \A e \in Events :
    /\ executed[e] <= 1
    /\ executed[e] > 0 => \E d \in decisions : d.event = e /\ d.gate = 3

Flow == Unseen /\ OneDecisionPerGate /\ TasksAhead /\ Caused /\ ExecutedOnce

FlowInv == TypeOK /\ Flow

(* An event is in one place: it wakes at most one task at a time. *)
LEMMA OneTaskPerEvent ==
  ASSUME FlowInv, NEW t \in tasks, NEW u \in tasks, t.of.event = u.of.event
  PROVE  t = u
<1>1. /\ t = [gate |-> t.gate, of |-> t.of] /\ u = [gate |-> u.gate, of |-> u.of]
      /\ t.gate \in 2..4 /\ u.gate \in 2..4
      /\ t.of \in decisions /\ u.of \in decisions
      /\ Accepts(t.gate, t.of) /\ Accepts(u.gate, u.of)
  BY DEF FlowInv, TypeOK, Flow, TasksAhead
<1>2. t.of.gate = u.of.gate => t.of = u.of
  BY <1>1 DEF FlowInv, Flow, OneDecisionPerGate
<1>3. ASSUME NEW v \in {t, u}, NEW w \in {t, u}, v.of.gate = 1, w.of.gate = 2
      PROVE FALSE
  <2>1. v.gate # 2 /\ Accepts(3, v.of)
    <3>1. v.gate # 2
      BY <1>1, <1>3 DEF FlowInv, Flow, TasksAhead
    <3>2. QED
      BY <1>1, <1>3, <3>1 DEF Accepts
  <2>2. PICK c \in decisions : c.event = w.of.event /\ Accepts(2, c)
    BY <1>1, <1>3 DEF FlowInv, Flow, Caused
  <2>3. c = v.of
    BY <1>1, <1>3, <2>2 DEF FlowInv, Flow, OneDecisionPerGate, Accepts
  <2>4. QED
    BY <2>1, <2>2, <2>3 DEF Accepts
<1>4. ASSUME NEW v \in {t, u}, NEW w \in {t, u}, v.of.gate = 3, w.of.gate # 3
      PROVE FALSE
  <2>1. w.gate \in {2, 3}
    BY <1>1, <1>4 DEF Accepts
  <2>2. QED
    BY <1>1, <1>4, <2>1 DEF FlowInv, Flow, TasksAhead
<1>5. t.of.gate \in 1..3 /\ u.of.gate \in 1..3
  BY <1>1 DEF Accepts
<1>6. t.of = u.of
  BY <1>2, <1>3, <1>4, <1>5
<1>7. t.gate = u.gate
  BY <1>1, <1>6 DEF Accepts
<1>8. QED
  BY <1>1, <1>6, <1>7

(* A gate that removes its task and publishes a decision for the next gate  *)
(* keeps the event on its way.                                               *)
LEMMA PassOn ==
  ASSUME FlowInv, NEW t \in tasks, NEW f \in Decision,
         t.gate \in {2, 3}, f.event = t.of.event, f.gate = t.gate,
         f.verdict # "hold", Publish({t}, f),
         UNCHANGED <<perimeter, arrived, executed>>
  PROVE  Flow'
<1>1. /\ decisions' = decisions \cup {f} /\ tasks' = (tasks \ {t}) \cup Woken(f)
      /\ t.of \in decisions /\ Accepts(t.gate, t.of) /\ t.of.event \in Events
      /\ decisions \subseteq Decision
  BY DEF Publish, FlowInv, TypeOK, Flow, TasksAhead, Decision
<1>2. \A d \in decisions : d.event = f.event => d.gate # f.gate
  BY DEF FlowInv, Flow, TasksAhead
<1>3. \A u \in tasks \ {t} : u.of.event # f.event
  BY OneTaskPerEvent
<1>4. \A u \in Woken(f) : u.of = f /\ Accepts(u.gate, f) /\ u.gate = f.gate + 1
  BY DEF Woken, Accepts
<1>5. Unseen'
  BY <1>1 DEF FlowInv, Flow, Unseen
<1>6. OneDecisionPerGate'
  BY <1>1, <1>2 DEF FlowInv, Flow, OneDecisionPerGate
<1>7. Caused'
  <2>1. \A d \in decisions' : d.gate \in {2, 3} =>
          \E c \in decisions : c.event = d.event /\ Accepts(d.gate, c)
    BY <1>1 DEF FlowInv, Flow, Caused
  <2>2. QED
    BY <1>1, <2>1 DEF Caused
<1>8. ExecutedOnce'
  BY <1>1 DEF FlowInv, Flow, ExecutedOnce
<1>9. TasksAhead'
  <2>1. ASSUME NEW u \in tasks \ {t}
        PROVE  /\ u.of \in decisions' /\ Accepts(u.gate, u.of)
               /\ \A d \in decisions' : d.event = u.of.event =>
                    (u.gate = 2 => d.gate = 1) /\ (u.gate = 3 => d.gate # 3)
               /\ u.gate = 4 => executed'[u.of.event] = 0
    BY <1>1, <1>3, <2>1 DEF FlowInv, Flow, TasksAhead
  <2>2. ASSUME NEW u \in Woken(f)
        PROVE  /\ u.of \in decisions' /\ Accepts(u.gate, u.of)
               /\ \A d \in decisions' : d.event = u.of.event =>
                    (u.gate = 2 => d.gate = 1) /\ (u.gate = 3 => d.gate # 3)
               /\ u.gate = 4 => executed'[u.of.event] = 0
    <3>1. u.of = f /\ u.of \in decisions' /\ Accepts(u.gate, u.of) /\ u.gate \in {3, 4}
      BY <1>1, <1>4
    <3>2. ASSUME u.gate = 3, NEW d \in decisions', d.event = f.event
          PROVE  d.gate # 3
      <4>1. t.gate = 2 /\ f.gate = 2
        BY <1>4, <3>2
      <4>2. \A c \in decisions : c.event = f.event => c.gate = 1
        BY <4>1 DEF FlowInv, Flow, TasksAhead
      <4>3. QED
        BY <1>1, <3>2, <4>1, <4>2
    <3>3. ASSUME u.gate = 4 PROVE executed'[f.event] = 0
      <4>1. f.gate = 3
        BY <1>4, <3>3
      <4>2. ~(executed[f.event] > 0)
        BY <1>1, <1>2, <4>1 DEF FlowInv, Flow, ExecutedOnce
      <4>3. executed[f.event] \in Nat
        BY <1>1 DEF FlowInv, TypeOK
      <4>4. QED
        BY <4>2, <4>3
    <3>4. QED
      BY <3>1, <3>2, <3>3
  <2>3. QED
    BY <1>1, <2>1, <2>2 DEF TasksAhead
<1>10. QED
  BY <1>5, <1>6, <1>7, <1>8, <1>9 DEF Flow

LEMMA FlowStep == FlowInv /\ [Next]_vars => FlowInv'
<1>1. SUFFICES ASSUME FlowInv, [Next]_vars PROVE Flow'
  BY TypeStep DEF FlowInv
<1>2. ASSUME NEW e \in Events, Arrive(e) PROVE Flow'
  <2>1. /\ UNCHANGED <<tasks, decisions, executed>>
        /\ arrived' = arrived \cup {e} /\ e \notin arrived
        /\ perimeter' \subseteq perimeter \cup {e}
    BY <1>2 DEF Arrive, Admit
  <2>2. Unseen'
    BY <1>1, <2>1 DEF FlowInv, Flow, Unseen
  <2>3. QED
    BY <1>1, <2>1, <2>2
    DEF FlowInv, Flow, OneDecisionPerGate, TasksAhead, Caused, ExecutedOnce
<1>3. ASSUME NEW e \in Events, Gate1(e) PROVE Flow'
  <2>1. PICK v \in Verdicts, c \in BOOLEAN :
          Publish({}, [gate |-> 1, event |-> e, verdict |-> v, critical |-> c,
                       at |-> clock, repeat |-> 0])
    BY <1>3 DEF Gate1
  <2> DEFINE f == [gate |-> 1, event |-> e, verdict |-> v, critical |-> c,
                   at |-> clock, repeat |-> 0]
  <2>2. /\ decisions' = decisions \cup {f} /\ tasks' = tasks \cup Woken(f)
        /\ UNCHANGED <<arrived, executed>> /\ perimeter' = perimeter \ {e}
        /\ e \in perimeter
    BY <1>3, <2>1 DEF Publish, Gate1
  <2>3. \A d \in decisions : d.event # e
    BY <1>1, <2>2 DEF FlowInv, Flow, Unseen
  <2>4. \A u \in Woken(f) : u.of = f /\ Accepts(u.gate, f) /\ u.gate \in {2, 3}
    BY DEF Woken, Accepts
  <2>5. Unseen'
    BY <1>1, <2>2 DEF FlowInv, Flow, Unseen
  <2>6. OneDecisionPerGate'
    BY <1>1, <2>2, <2>3 DEF FlowInv, Flow, OneDecisionPerGate
  <2>7. TasksAhead'
    BY <1>1, <2>2, <2>3, <2>4 DEF FlowInv, Flow, TasksAhead
  <2>8. Caused' /\ ExecutedOnce'
    BY <1>1, <2>2 DEF FlowInv, Flow, Caused, ExecutedOnce
  <2>9. QED
    BY <2>5, <2>6, <2>7, <2>8 DEF Flow
<1>4. ASSUME NEW t \in tasks, Gate2(t) PROVE Flow'
  <2>1. UNCHANGED <<perimeter, arrived, executed>> /\ t.gate = 2
    BY <1>4 DEF Gate2, gate1
  <2>2. CASE tasks' = tasks \ {t} /\ UNCHANGED decisions
    BY <1>1, <2>1, <2>2
    DEF FlowInv, Flow, Unseen, OneDecisionPerGate, TasksAhead, Caused, ExecutedOnce
  <2>3. CASE \E f : /\ f.event = t.of.event /\ f.gate = 2 /\ f.verdict # "hold"
                    /\ Publish({t}, f)
    <3>1. PICK f : /\ f.event = t.of.event /\ f.gate = 2 /\ f.verdict # "hold"
                   /\ Publish({t}, f)
      BY <2>3
    <3>2. f \in Decision
      <4>1. decisions' \subseteq Decision
        BY <1>1, TypeStep DEF FlowInv, TypeOK
      <4>2. QED
        BY <3>1, <4>1 DEF Publish
    <3>3. QED
      BY <1>1, <2>1, <3>1, <3>2, PassOn
  <2>4. QED
    BY <1>4, <2>2, <2>3 DEF Gate2
<1>5. ASSUME NEW t \in tasks, Gate3(t) PROVE Flow'
  <2>1. UNCHANGED <<perimeter, arrived, executed>> /\ t.gate = 3
    BY <1>5 DEF Gate3, gate1
  <2>2. PICK f : /\ f.event = t.of.event /\ f.gate = 3 /\ f.verdict # "hold"
                 /\ Publish({t}, f)
    BY <1>5 DEF Gate3
  <2>3. f \in Decision
    <3>1. decisions' \subseteq Decision
      BY <1>1, TypeStep DEF FlowInv, TypeOK
    <3>2. QED
      BY <2>2, <3>1 DEF Publish
  <2>4. QED
    BY <1>1, <2>1, <2>2, <2>3, PassOn
<1>6. ASSUME NEW t \in tasks, Bridge(t) PROVE Flow'
  <2>1. /\ UNCHANGED <<perimeter, arrived, decisions>> /\ t.gate = 4
        /\ tasks' = tasks \ {t}
        /\ executed' = [executed EXCEPT ![t.of.event] = @ + 1]
    BY <1>6 DEF Bridge, gate1
  <2>2. /\ t.of \in decisions /\ t.of.gate = 3 /\ executed[t.of.event] = 0
        /\ t.of.event \in Events /\ executed \in [Events -> Nat]
    BY <1>1, <2>1 DEF FlowInv, TypeOK, Flow, TasksAhead, Accepts, Decision
  <2>3. \A u \in tasks' : u.of.event # t.of.event
    BY <1>1, <2>1, OneTaskPerEvent
  <2>4. /\ executed'[t.of.event] = 1
        /\ \A e \in Events : e # t.of.event => executed'[e] = executed[e]
    BY <2>1, <2>2
  <2>5. ExecutedOnce'
    BY <1>1, <2>1, <2>2, <2>4 DEF FlowInv, Flow, ExecutedOnce
  <2>6. \A u \in tasks' : u.of.event \in Events
    BY <1>1, <2>1 DEF FlowInv, TypeOK, Decision
  <2>7. TasksAhead'
    BY <1>1, <2>1, <2>3, <2>4, <2>6 DEF FlowInv, Flow, TasksAhead
  <2>8. QED
    BY <1>1, <2>1, <2>5, <2>7
    DEF FlowInv, Flow, Unseen, OneDecisionPerGate, Caused
<1>7. ASSUME UNCHANGED <<perimeter, arrived, tasks, decisions, executed>> PROVE Flow'
  BY <1>1, <1>7
  DEF FlowInv, Flow, Unseen, OneDecisionPerGate, TasksAhead, Caused, ExecutedOnce
<1>8. ASSUME (\E x \in Entities : MetaRisk(x)) \/ Tick \/ UNCHANGED vars
      PROVE UNCHANGED <<perimeter, arrived, tasks, decisions, executed>>
  BY <1>8 DEF MetaRisk, Tick, vars, gate1
<1>9. QED
  BY <1>1, <1>2, <1>3, <1>4, <1>5, <1>6, <1>7, <1>8 DEF Next

(* However the decisions of the gates interleave on the bus, an event is    *)
(* answered at most once, and only if Gate 1 or Gate 2 confirmed it.        *)
THEOREM AnsweredOnce == Spec => []OneAnswerPerEvent
<1>1. Init => FlowInv
  BY TypeInit DEF Init, FlowInv, Flow, Unseen, OneDecisionPerGate, TasksAhead,
     Caused, ExecutedOnce
<1>2. FlowInv => OneAnswerPerEvent
  BY DEF FlowInv, Flow, OneDecisionPerGate, Caused, ExecutedOnce, OneAnswerPerEvent
<1>3. QED
  BY <1>1, <1>2, FlowStep, PTL DEF Spec

-----------------------------------------------------------------------------
(* The offender counter of Gate 3. *)

CountedOnce(x) ==
  /\ IsFiniteSet(Finals(x))
  /\ Cardinality(Finals(x)) = hits[x]
  /\ {d.repeat : d \in Finals(x)} = 1..hits[x]
  /\ \A d \in Finals(x) : d.repeat >= 3 => d.critical

CountInv == TypeOK /\ \A x \in Entities : CountedOnce(x)

(* Adding the element with the next number keeps a set numbered 1, 2, ...    *)
LEMMA OneMore ==
  ASSUME NEW S, NEW k \in Nat, NEW f, IsFiniteSet(S), Cardinality(S) = k,
         {d.repeat : d \in S} = 1..k, f.repeat = k + 1,
         \A d \in S : d.repeat >= 3 => d.critical,
         f.repeat >= 3 => f.critical
  PROVE  /\ IsFiniteSet(S \cup {f})
         /\ Cardinality(S \cup {f}) = k + 1
         /\ {d.repeat : d \in S \cup {f}} = 1..(k + 1)
         /\ \A d \in S \cup {f} : d.repeat >= 3 => d.critical
<1>1. f \notin S
  <2>1. ASSUME f \in S PROVE FALSE
    <3>1. f.repeat \in 1..k
      BY <2>1
    <3>2. ~(k + 1 \in 1..k)
      OBVIOUS
    <3>3. QED
      BY <3>1, <3>2
  <2>2. QED
    BY <2>1
<1>2. IsFiniteSet(S \cup {f}) /\ Cardinality(S \cup {f}) = k + 1
  BY <1>1, FS_AddElement
<1>3. {d.repeat : d \in S \cup {f}} = {d.repeat : d \in S} \cup {f.repeat}
  <2>1. ASSUME NEW i \in {d.repeat : d \in S \cup {f}}
        PROVE  i \in {d.repeat : d \in S} \cup {f.repeat}
    OBVIOUS
  <2>2. ASSUME NEW i \in {d.repeat : d \in S} \cup {f.repeat}
        PROVE  i \in {d.repeat : d \in S \cup {f}}
    <3>1. CASE i \in {d.repeat : d \in S}
      BY <3>1
    <3>2. CASE i = f.repeat
      BY <3>2
    <3>3. QED
      BY <2>2, <3>1, <3>2
  <2>3. QED
    BY <2>1, <2>2
<1>4. 1..(k + 1) = (1..k) \cup {k + 1}
  OBVIOUS
<1>5. QED
  BY <1>2, <1>3, <1>4

(* A step that publishes no answer and leaves the counters alone is safe. *)
LEMMA CountUndisturbed ==
  ASSUME CountInv, hits' = hits,
         {d \in decisions' : d.gate = 3} = {d \in decisions : d.gate = 3}
  PROVE  \A x \in Entities : CountedOnce(x)'
<1>1. ASSUME NEW x \in Entities PROVE CountedOnce(x)'
  <2>1. Finals(x)' = Finals(x)
    BY DEF Finals
  <2>2. QED
    BY <2>1 DEF CountInv, CountedOnce
<1>2. QED
  BY <1>1

LEMMA CountStep == CountInv /\ [Next]_vars => CountInv'
<1>1. SUFFICES ASSUME CountInv, [Next]_vars
               PROVE  \A x \in Entities : CountedOnce(x)'
  BY TypeStep DEF CountInv
<1>2. ASSUME NEW t \in tasks, Gate3(t), NEW x \in Entities PROVE CountedOnce(x)'
  <2> DEFINE y == Entity(t.of.event)
             n == hits[y] + 1
             f == [gate |-> 3, event |-> t.of.event, verdict |-> "block",
                   critical |-> Hardened(t.of, n), at |-> 0, repeat |-> n]
  <2>1. /\ hits' = [hits EXCEPT ![y] = @ + 1]
        /\ decisions' = decisions \cup {f}
    BY <1>2 DEF Gate3, Counted, Publish
  <2>2. y \in Entities /\ hits \in [Entities -> Nat]
    BY <1>1, ProfileType DEF CountInv, TypeOK, Decision
  <2>3. CASE x # y
    <3>1. Finals(x)' = Finals(x) /\ hits'[x] = hits[x]
      BY <2>1, <2>2, <2>3 DEF Finals
    <3>2. QED
      BY <1>1, <3>1 DEF CountInv, CountedOnce
  <2>4. CASE x = y
    <3>1. Finals(x)' = Finals(x) \cup {f} /\ hits'[x] = n
      BY <2>1, <2>2, <2>4 DEF Finals
    <3>2. f.repeat = n /\ (f.repeat >= 3 => f.critical)
      BY DEF Hardened
    <3>3. hits[x] \in Nat /\ n = hits[x] + 1
      BY <2>2, <2>4
    <3> HIDE DEF f, n
    <3>4. CountedOnce(x)
      BY <1>1 DEF CountInv
    <3>5. /\ IsFiniteSet(Finals(x) \cup {f})
          /\ Cardinality(Finals(x) \cup {f}) = hits[x] + 1
          /\ {d.repeat : d \in Finals(x) \cup {f}} = 1..(hits[x] + 1)
          /\ \A d \in Finals(x) \cup {f} : d.repeat >= 3 => d.critical
      BY <3>2, <3>3, <3>4, OneMore DEF CountedOnce
    <3>6. QED
      BY <3>1, <3>3, <3>5 DEF CountedOnce
  <2>5. QED
    BY <2>3, <2>4
<1>3. ASSUME NEW e \in Events, Gate1(e) PROVE \A x \in Entities : CountedOnce(x)'
  <2>1. PICK v \in Verdicts, c \in BOOLEAN :
          decisions' = decisions \cup
            {[gate |-> 1, event |-> e, verdict |-> v, critical |-> c,
              at |-> clock, repeat |-> 0]}
    BY <1>3 DEF Gate1, Publish
  <2>2. {d \in decisions' : d.gate = 3} = {d \in decisions : d.gate = 3}
    BY <2>1
  <2>3. QED
    BY <1>1, <1>3, <2>2, CountUndisturbed DEF Gate1, gate3
<1>4. ASSUME NEW t \in tasks, Gate2(t) PROVE \A x \in Entities : CountedOnce(x)'
  <2>1. \/ decisions' = decisions
        \/ \E f : f.gate = 2 /\ decisions' = decisions \cup {f}
    BY <1>4 DEF Gate2, Publish
  <2>2. {d \in decisions' : d.gate = 3} = {d \in decisions : d.gate = 3}
    BY <2>1
  <2>3. QED
    BY <1>1, <1>4, <2>2, CountUndisturbed DEF Gate2, gate3
<1>5. ASSUME UNCHANGED <<decisions, hits>> PROVE \A x \in Entities : CountedOnce(x)'
  BY <1>1, <1>5, CountUndisturbed
<1>6. ASSUME \/ \E e \in Events : Arrive(e)
             \/ \E t \in tasks : Bridge(t)
             \/ \E x \in Entities : MetaRisk(x)
             \/ Tick \/ UNCHANGED vars
      PROVE UNCHANGED <<decisions, hits>>
  BY <1>6 DEF Arrive, Bridge, MetaRisk, Tick, vars, gate3
<1>7. QED
  BY <1>1, <1>2, <1>3, <1>4, <1>5, <1>6 DEF Next

(* No hit of an entity is lost or counted twice across overlapping          *)
(* evaluations, and the third and later answers to it are critical.         *)
THEOREM OffendersCounted == Spec => []RepeatOffendersEscalated
<1>1. Init => CountInv
  <2>1. ASSUME Init, NEW x \in Entities PROVE CountedOnce(x)
    <3>1. Finals(x) = {} /\ hits[x] = 0
      BY <2>1 DEF Init, Finals
    <3>2. QED
      BY <3>1, FS_EmptySet DEF CountedOnce
  <2>2. QED
    BY <2>1, TypeInit DEF CountInv
<1>2. CountInv => RepeatOffendersEscalated
  BY DEF CountInv, CountedOnce, RepeatOffendersEscalated
<1>3. QED
  BY <1>1, <1>2, CountStep, PTL DEF Spec

-----------------------------------------------------------------------------
(* The memory of Gate 2. *)

\* What Gate 2 evaluated is in the history of its entity, unless a decision
\* held at least a session window later was evaluated as well.
RememberedOf(x) ==
  /\ IsFiniteSet(session[x])
  /\ \A c \in Evaluated(x) :
       c \in session[x] \/ \E b \in Evaluated(x) : c.at <= b.at - SessionWindow

Remembered == \A x \in Entities : RememberedOf(x)

MemoryInv == FlowInv /\ Remembered

(* Publishing a decision other than a new hold leaves Evaluated alone, but  *)
(* for the one that the finished task was about.                            *)
LEMMA EvaluatedGrows ==
  ASSUME FlowInv, NEW x, NEW done, NEW f, Publish(done, f),
         ~Accepts(2, f) \/ [gate |-> 2, of |-> f] \in tasks'
  PROVE  /\ Accepts(2, f) => f \notin Evaluated(x)'
         /\ \A c : c # f => (c \in Evaluated(x)' <=>
              \/ c \in Evaluated(x)
              \/ /\ c \in decisions /\ Accepts(2, c) /\ Entity(c.event) = x
                 /\ [gate |-> 2, of |-> c] \in done)
<1>1. decisions' = decisions \cup {f} /\ tasks' = (tasks \ done) \cup Woken(f)
  BY DEF Publish
<1>2. \A c : [gate |-> 2, of |-> c] \in Woken(f) => c = f
  BY DEF Woken
<1>3. Accepts(2, f) => f \notin Evaluated(x)'
  BY DEF Evaluated
<1>4. ASSUME NEW c, c # f
      PROVE  c \in Evaluated(x)' <=>
               \/ c \in Evaluated(x)
               \/ /\ c \in decisions /\ Accepts(2, c) /\ Entity(c.event) = x
                  /\ [gate |-> 2, of |-> c] \in done
  <2>1. c \in decisions' <=> c \in decisions
    BY <1>1, <1>4
  <2>2. [gate |-> 2, of |-> c] \notin tasks'
          <=> [gate |-> 2, of |-> c] \notin tasks \/ [gate |-> 2, of |-> c] \in done
    BY <1>1, <1>2, <1>4
  <2>3. QED
    BY <2>1, <2>2 DEF Evaluated
<1>5. QED
  BY <1>3, <1>4

(* The step keeps the memory if it adds nothing to what was evaluated. *)
LEMMA MemoryUndisturbed ==
  ASSUME Remembered, session' = session,
         \A x \in Entities : Evaluated(x)' = Evaluated(x)
  PROVE  Remembered'
<1>1. ASSUME NEW x \in Entities PROVE RememberedOf(x)'
  <2>1. session'[x] = session[x] /\ Evaluated(x)' = Evaluated(x)
    OBVIOUS
  <2>2. RememberedOf(x)
    BY DEF Remembered
  <2>3. QED
    BY <2>1, <2>2 DEF RememberedOf
<1>2. QED
  BY <1>1 DEF Remembered

(* Gate 2 takes a hold into the history of its entity and forgets only what *)
(* is older than the session window.                                        *)
LEMMA Gate2Remembers ==
  ASSUME MemoryInv, NEW t \in tasks, Gate2(t)
  PROVE  Remembered'
<1> DEFINE d == t.of
           x == Entity(d.event)
<1>1. /\ t = [gate |-> 2, of |-> d] /\ d \in decisions /\ Accepts(2, d)
      /\ d \in Decision /\ x \in Entities /\ session \in [Entities -> SUBSET Decision]
  BY ProfileType DEF MemoryInv, FlowInv, TypeOK, Flow, TasksAhead, Gate2, Decision
<1>2. session' = [session EXCEPT ![x] = UpdateSession(x, d)]
  BY DEF Gate2
<1>3. \/ tasks' = tasks \ {t} /\ UNCHANGED decisions
      \/ \E f : f.gate = 2 /\ Publish({t}, f)
  BY DEF Gate2
<1> HIDE DEF d, x
<1>4. \A y \in Entities : \A c :
        c \in Evaluated(y)' <=> c \in Evaluated(y) \/ (c = d /\ y = x)
  <2>1. \A c : [gate |-> 2, of |-> c] \in {t} <=> c = d
    BY <1>1
  <2>2. CASE tasks' = tasks \ {t} /\ UNCHANGED decisions
    <3>1. \A c : [gate |-> 2, of |-> c] \notin tasks'
                   <=> [gate |-> 2, of |-> c] \notin tasks \/ c = d
      BY <2>1, <2>2
    <3>2. QED
      BY <1>1, <2>2, <3>1 DEF Evaluated, x
  <2>3. ASSUME NEW f, f.gate = 2, Publish({t}, f)
        PROVE  \A y \in Entities : \A c :
                 c \in Evaluated(y)' <=> c \in Evaluated(y) \/ (c = d /\ y = x)
    <3>1. ~Accepts(2, f) /\ f # d
      BY <1>1, <2>3 DEF Accepts
    <3>2. \A y : f \notin Evaluated(y) /\ f \notin Evaluated(y)'
      BY <3>1 DEF Evaluated
    <3>3. ASSUME NEW y \in Entities, NEW c
          PROVE  c \in Evaluated(y)' <=> c \in Evaluated(y) \/ (c = d /\ y = x)
      <4>1. CASE c = f
        BY <3>1, <3>2, <4>1
      <4>2. CASE c # f
        <5>1. c \in Evaluated(y)' <=>
                \/ c \in Evaluated(y)
                \/ /\ c \in decisions /\ Accepts(2, c) /\ Entity(c.event) = y
                   /\ [gate |-> 2, of |-> c] \in {t}
          BY <2>3, <3>1, <4>2, EvaluatedGrows DEF MemoryInv
        <5>2. QED
          BY <1>1, <2>1, <5>1 DEF x
      <4>3. QED
        BY <4>1, <4>2
    <3>4. QED
      BY <3>3
  <2>4. QED
    BY <1>3, <2>2, <2>3
<1>5. ASSUME NEW y \in Entities, y # x PROVE RememberedOf(y)'
  <2>1. session'[y] = session[y]
    BY <1>1, <1>2, <1>5
  <2>2. Evaluated(y)' = Evaluated(y)
    BY <1>4, <1>5
  <2>3. RememberedOf(y)
    BY DEF MemoryInv, Remembered
  <2>4. QED
    BY <2>1, <2>2, <2>3 DEF RememberedOf
<1>6. RememberedOf(x)'
  <2>1. session'[x] = {c \in session[x] : c.at > d.at - SessionWindow} \cup {d}
    BY <1>1, <1>2 DEF UpdateSession
  <2>2. RememberedOf(x)
    BY <1>1 DEF MemoryInv, Remembered
  <2>3. IsFiniteSet(session'[x])
    <3>1. IsFiniteSet({c \in session[x] : c.at > d.at - SessionWindow})
      BY <2>2, FS_Subset DEF RememberedOf
    <3>2. QED
      BY <2>1, <3>1, FS_AddElement
  <2>4. ASSUME NEW c \in Evaluated(x)'
        PROVE  c \in session'[x] \/ \E b \in Evaluated(x)' : c.at <= b.at - SessionWindow
    <3>1. CASE c = d
      BY <2>1, <3>1
    <3>2. CASE c \in Evaluated(x) /\ c \in session[x]
      <4>1. c.at \in Nat /\ d.at \in Nat /\ SessionWindow \in Nat
        BY <1>1, <3>2, TriGateAssumption DEF Decision, TriGateAssumption
      <4>2. CASE c.at > d.at - SessionWindow
        BY <2>1, <3>2, <4>2
      <4>3. CASE ~(c.at > d.at - SessionWindow)
        <5>1. c.at <= d.at - SessionWindow
          BY <4>1, <4>3
        <5>2. d \in Evaluated(x)'
          BY <1>1, <1>4
        <5>3. QED
          BY <5>1, <5>2
      <4>4. QED
        BY <4>2, <4>3
    <3>3. CASE c \in Evaluated(x) /\ c \notin session[x]
      <4>1. PICK b \in Evaluated(x) : c.at <= b.at - SessionWindow
        BY <2>2, <3>3 DEF RememberedOf
      <4>2. b \in Evaluated(x)'
        BY <1>1, <1>4
      <4>3. QED
        BY <4>1, <4>2
    <3>4. QED
      BY <1>1, <1>4, <2>4, <3>1, <3>2, <3>3
  <2>5. QED
    BY <2>3, <2>4 DEF RememberedOf
<1>7. QED
  BY <1>5, <1>6 DEF Remembered

LEMMA MemoryStep == MemoryInv /\ [Next]_vars => MemoryInv'
<1>1. SUFFICES ASSUME MemoryInv, [Next]_vars PROVE Remembered'
  BY FlowStep DEF MemoryInv
<1>2. ASSUME NEW e \in Events, Gate1(e) PROVE Remembered'
  <2>1. PICK f : f.gate = 1 /\ f.event = e /\ Publish({}, f)
    BY <1>2 DEF Gate1
  <2>2. e \in perimeter /\ session' = session
    BY <1>2 DEF Gate1, gate2
  <2>3. f \notin decisions
    BY <1>1, <2>1, <2>2 DEF MemoryInv, FlowInv, Flow, Unseen
  <2>4. Accepts(2, f) => [gate |-> 2, of |-> f] \in tasks'
    BY <2>1 DEF Publish, Woken
  <2>5. ASSUME NEW x \in Entities PROVE Evaluated(x)' = Evaluated(x)
    <3>1. f \notin Evaluated(x) /\ f \notin Evaluated(x)'
      BY <2>3, <2>4 DEF Evaluated
    <3> DEFINE nobody == {}
    <3>2. \A c : [gate |-> 2, of |-> c] \notin nobody
      OBVIOUS
    <3>3. Publish(nobody, f)
      BY <2>1
    <3> HIDE DEF nobody
    <3>4. \A c : c # f => (c \in Evaluated(x)' <=> c \in Evaluated(x))
      BY <1>1, <2>4, <3>2, <3>3, EvaluatedGrows DEF MemoryInv
    <3>5. QED
      BY <3>1, <3>4
  <2>6. QED
    BY <1>1, <2>2, <2>5, MemoryUndisturbed DEF MemoryInv
<1>3. ASSUME NEW t \in tasks, Gate3(t) PROVE Remembered'
  <2>1. PICK f : f.gate = 3 /\ Publish({t}, f)
    BY <1>3 DEF Gate3
  <2>2. t.gate = 3 /\ session' = session
    BY <1>3 DEF Gate3, gate2
  <2>3. ~Accepts(2, f)
    BY <2>1 DEF Accepts
  <2>4. \A c : [gate |-> 2, of |-> c] \notin {t}
    BY <2>2
  <2>5. ASSUME NEW x \in Entities PROVE Evaluated(x)' = Evaluated(x)
    <3>1. f \notin Evaluated(x) /\ f \notin Evaluated(x)'
      BY <2>3 DEF Evaluated
    <3>2. \A c : c # f => (c \in Evaluated(x)' <=> c \in Evaluated(x))
      BY <1>1, <2>1, <2>3, <2>4, EvaluatedGrows DEF MemoryInv
    <3>3. QED
      BY <3>1, <3>2
  <2>6. QED
    BY <1>1, <2>2, <2>5, MemoryUndisturbed DEF MemoryInv
<1>4. ASSUME NEW t \in tasks, Bridge(t) PROVE Remembered'
  <2>1. /\ t.gate = 4 /\ tasks' = tasks \ {t} /\ decisions' = decisions
        /\ session' = session
    BY <1>4 DEF Bridge, gate2
  <2>2. \A c : [gate |-> 2, of |-> c] \in tasks' <=> [gate |-> 2, of |-> c] \in tasks
    BY <2>1
  <2>3. \A x \in Entities : Evaluated(x)' = Evaluated(x)
    BY <2>1, <2>2 DEF Evaluated
  <2>4. QED
    BY <1>1, <2>1, <2>3, MemoryUndisturbed DEF MemoryInv
<1>5. ASSUME UNCHANGED <<session, tasks, decisions>> PROVE Remembered'
  <2>1. \A x \in Entities : Evaluated(x)' = Evaluated(x)
    BY <1>5 DEF Evaluated
  <2>2. QED
    BY <1>1, <1>5, <2>1, MemoryUndisturbed DEF MemoryInv
<1>6. ASSUME \/ \E e \in Events : Arrive(e)
             \/ \E x \in Entities : MetaRisk(x)
             \/ Tick \/ UNCHANGED vars
      PROVE  UNCHANGED <<session, tasks, decisions>>
  BY <1>6 DEF Arrive, MetaRisk, Tick, vars, gate2
<1>7. QED
  BY <1>1, <1>2, <1>3, <1>4, <1>5, <1>6, Gate2Remembers DEF Next

(* What Gate 2 counts includes every evaluated hold of the window. *)
LEMMA BurnIsSeen ==
  ASSUME MemoryInv, NEW t \in tasks, t.gate = 2,
         NEW n \in Nat, n = Cardinality(UpdateSession(Entity(t.of.event), t.of)), n < 3
  PROVE  Cardinality({b \in Unforgotten(Entity(t.of.event)) :
                        b.at > t.of.at - SessionWindow}) < 2
<1> DEFINE d == t.of
           x == Entity(d.event)
           K == {b \in Unforgotten(x) : b.at > d.at - SessionWindow}
<1>1. SUFFICES Cardinality(K) < 2
  OBVIOUS
<1>2. /\ t = [gate |-> 2, of |-> d] /\ d \in Decision /\ x \in Entities
      /\ \A c \in Evaluated(x) : c \in Decision
      /\ SessionWindow \in Nat
  BY ProfileType, TriGateAssumption
  DEF MemoryInv, FlowInv, TypeOK, Decision, Evaluated, TriGateAssumption
<1>3. d \notin K
  BY <1>2 DEF Unforgotten, Evaluated
<1>4. RememberedOf(x)
  BY <1>2 DEF MemoryInv, Remembered
<1>5. ASSUME NEW c \in K PROVE c \in UpdateSession(x, d)
  <2>1. /\ c \in Evaluated(x)
        /\ \A b \in Evaluated(x) : c.at > b.at - SessionWindow
    BY <1>5 DEF Unforgotten
  <2>2. c \in session[x]
    <3>1. ASSUME NEW b \in Evaluated(x) PROVE ~(c.at <= b.at - SessionWindow)
      <4>1. c.at \in Nat /\ b.at \in Nat
        BY <1>2, <2>1, <3>1 DEF Decision
      <4>2. QED
        BY <1>2, <2>1, <3>1, <4>1
    <3>2. QED
      BY <1>4, <2>1, <3>1 DEF RememberedOf
  <2>3. QED
    BY <1>5, <2>2 DEF UpdateSession
<1>6. K \cup {d} \subseteq UpdateSession(x, d)
  BY <1>5 DEF UpdateSession
<1>7. IsFiniteSet(UpdateSession(x, d))
  <2>1. IsFiniteSet({c \in session[x] : c.at > d.at - SessionWindow})
    BY <1>4, FS_Subset DEF RememberedOf
  <2>2. QED
    BY <2>1, FS_AddElement DEF UpdateSession
<1> HIDE DEF K
<1>8. IsFiniteSet(K)
  BY <1>6, <1>7, FS_Subset
<1>9. Cardinality(K \cup {d}) = Cardinality(K) + 1 /\ Cardinality(K) \in Nat
  BY <1>3, <1>8, FS_AddElement, FS_CardinalityType
<1>10. Cardinality(K \cup {d}) <= n
  BY <1>6, <1>7, FS_Subset
<1>11. QED
  BY <1>9, <1>10

\* The body of SlowBurnIsCaught.
Clears ==
  \A d \in decisions' \ decisions :
    d.gate = 2 /\ d.verdict = "pass" /\ Profile[d.event].type = "network" =>
      \A h \in decisions : Accepts(2, h) /\ h.event = d.event =>
        Cardinality({b \in Unforgotten(Entity(d.event)) :
                       b.at > h.at - SessionWindow}) < 2

(* Slow burns are seen, whatever the width of the session window and in      *)
(* whatever order the holds wake up: Gate 2 clears a network event only if   *)
(* fewer than two other holds of its entity lie in the window, not counting  *)
(* those at least a window older than one it has already evaluated (lines    *)
(* 137-143, 202-208).                                                        *)
THEOREM SlowBurnAlwaysCaught == Spec => SlowBurnIsCaught
<1>1. Init => MemoryInv
  <2>1. Init => FlowInv
    BY TypeInit DEF Init, FlowInv, Flow, Unseen, OneDecisionPerGate, TasksAhead,
       Caused, ExecutedOnce
  <2>2. ASSUME Init, NEW x \in Entities PROVE RememberedOf(x)
    <3>1. session[x] = {} /\ Evaluated(x) = {}
      BY <2>2 DEF Init, Evaluated
    <3>2. QED
      BY <3>1, FS_EmptySet DEF RememberedOf
  <2>3. QED
    BY <2>1, <2>2 DEF MemoryInv, Remembered
<1>2. MemoryInv /\ [Next]_vars => Clears
  <2>1. SUFFICES ASSUME MemoryInv, [Next]_vars,
                        NEW d \in decisions' \ decisions, d.gate = 2,
                        d.verdict = "pass", Profile[d.event].type = "network",
                        NEW h \in decisions, Accepts(2, h), h.event = d.event
                 PROVE  Cardinality({b \in Unforgotten(Entity(d.event)) :
                                       b.at > h.at - SessionWindow}) < 2
    BY DEF Clears
  <2>2. PICK t \in tasks : Gate2(t)
    <3>1. ASSUME NEW e \in Events, Gate1(e) PROVE FALSE
      BY <2>1, <3>1 DEF Gate1, Publish
    <3>2. ASSUME NEW t \in tasks, Gate3(t) PROVE FALSE
      BY <2>1, <3>2 DEF Gate3, Publish
    <3>3. ASSUME UNCHANGED decisions PROVE FALSE
      BY <2>1, <3>3
    <3>4. ASSUME \/ \E e \in Events : Arrive(e)
                 \/ \E t \in tasks : Bridge(t)
                 \/ \E x \in Entities : MetaRisk(x)
                 \/ Tick \/ UNCHANGED vars
          PROVE  UNCHANGED decisions
      BY <3>4 DEF Arrive, Bridge, MetaRisk, Tick, vars
    <3>5. QED
      BY <2>1, <3>1, <3>2, <3>3, <3>4 DEF Next
  <2> DEFINE x == Entity(t.of.event)
             p == Profile[t.of.event]
             n == Cardinality(UpdateSession(x, t.of))
  <2>3. \E off \in BOOLEAN : /\ d.event = t.of.event
                             /\ ~Blocks(p, n, off, meta[x])
    <3>1. PICK off \in BOOLEAN :
            decisions' = decisions \cup
              {[gate |-> 2, event |-> t.of.event,
                verdict |-> IF Escalates(p, n, off, meta[x]) THEN "escalate"
                            ELSE IF Blocks(p, n, off, meta[x]) THEN "block" ELSE "pass",
                critical |-> StaysCritical(p, n, off, meta[x], t.of.critical),
                at |-> 0, repeat |-> 0]}
      BY <2>1, <2>2 DEF Gate2, Publish
    <3>2. /\ d.event = t.of.event
          /\ d.verdict = IF Escalates(p, n, off, meta[x]) THEN "escalate"
                         ELSE IF Blocks(p, n, off, meta[x]) THEN "block" ELSE "pass"
      <4> HIDE DEF p, n, x
      <4>1. QED
        BY <2>1, <3>1
    <3>3. ~Blocks(p, n, off, meta[x])
      <4> HIDE DEF p, n, x
      <4>1. QED
        BY <2>1, <3>2
    <3>4. QED
      BY <3>2, <3>3
  <2>4. ~(n >= 3)
    <3>1. p.type = "network"
      BY <2>1, <2>3
    <3> HIDE DEF n, p, x
    <3>2. QED
      BY <2>3, <3>1 DEF Blocks
  <2>5. t.gate = 2 /\ t.of \in decisions /\ Accepts(2, t.of)
    BY <2>1, <2>2 DEF Gate2, MemoryInv, FlowInv, Flow, TasksAhead
  <2>6. h = t.of
    BY <2>1, <2>3, <2>5
    DEF MemoryInv, FlowInv, Flow, OneDecisionPerGate, Accepts
  <2>7. n \in Nat /\ n < 3
    <3>1. x \in Entities
      BY <2>1, ProfileType DEF MemoryInv, FlowInv, TypeOK, Decision
    <3>2. RememberedOf(x)
      BY <2>1, <3>1 DEF MemoryInv, Remembered
    <3>3. IsFiniteSet({c \in session[x] : c.at > t.of.at - SessionWindow})
      BY <3>2, FS_Subset DEF RememberedOf
    <3>4. IsFiniteSet(UpdateSession(x, t.of))
      BY <3>3, FS_AddElement DEF UpdateSession
    <3>5. n \in Nat
      BY <3>4, FS_CardinalityType
    <3> HIDE DEF n
    <3>6. QED
      BY <2>4, <3>5
  <2>8. QED
    BY <2>1, <2>3, <2>5, <2>6, <2>7, BurnIsSeen
<1>3. QED
  BY <1>1, <1>2, MemoryStep, PTL DEF Spec, SlowBurnIsCaught, Clears

-----------------------------------------------------------------------------
(* The gates implement the life of an event. *)

\* What Gate 2 does with an event it holds.
LEMMA Gate2Ends ==
  ASSUME NEW t \in tasks, Gate2(t)
  PROVE  \/ /\ tasks' = tasks \ {t} /\ decisions' = decisions
            /\ meta[Entity(t.of.event)] > 6
            /\ Profile[t.of.event].type # "network"
         \/ \E f : /\ f.event = t.of.event /\ f.gate = 2
                   /\ f.verdict \in {"pass", "block", "escalate"}
                   /\ Publish({t}, f)
<1> DEFINE x == Entity(t.of.event)
           p == Profile[t.of.event]
           n == Cardinality(UpdateSession(x, t.of))
           verdict(off) == IF Escalates(p, n, off, meta[x]) THEN "escalate"
                           ELSE IF Blocks(p, n, off, meta[x]) THEN "block" ELSE "pass"
           found(off) == [gate |-> 2, event |-> t.of.event, verdict |-> verdict(off),
                          critical |-> StaysCritical(p, n, off, meta[x], t.of.critical),
                          at |-> 0, repeat |-> 0]
<1>1. PICK off \in BOOLEAN :
        IF Crashes(p, off, meta[x]) THEN tasks' = tasks \ {t} /\ UNCHANGED decisions
        ELSE Publish({t}, found(off))
  BY Zenon DEF Gate2
<1>2. CASE Crashes(p, off, meta[x])
  <2>1. meta[x] > 6 /\ p.type # "network"
    BY <1>2 DEF Crashes
  <2>2. QED
    BY <1>1, <1>2, <2>1
<1>3. CASE ~Crashes(p, off, meta[x])
  <2>1. /\ found(off).event = t.of.event /\ found(off).gate = 2
        /\ found(off).verdict = verdict(off)
    OBVIOUS
  <2>2. verdict(off) \in {"pass", "block", "escalate"}
    OBVIOUS
  <2>3. Publish({t}, found(off))
    BY <1>1, <1>3
  <2> HIDE DEF found, verdict
  <2>4. QED
    BY <2>1, <2>2, <2>3
<1>4. QED
  BY <1>2, <1>3

\* Gate 1 never looks again at an event it has filtered.
FilteredForGood ==
  \A e \in Events : droppedAt[e] > 0 =>
    /\ e \in arrived /\ e \notin perimeter /\ admittedAt[e] = 0
    /\ \A d \in decisions : d.event # e

LifeInv == FlowInv /\ SuppressedInv /\ ListsInv /\ FilteredForGood

LEMMA LifeInit == Init => LifeInv
<1>1. Init => FlowInv
  BY TypeInit DEF Init, FlowInv, Flow, Unseen, OneDecisionPerGate, TasksAhead,
     Caused, ExecutedOnce
<1>2. Init => SuppressedInv /\ ListsInv
  BY DEF Init, SuppressedInv, Tracked, Unmet, SuppressionIsBounded, ListsInv, ListsOK, Spaced
<1>3. Init => FilteredForGood
  BY DEF Init, FilteredForGood
<1>4. QED
  BY <1>1, <1>2, <1>3 DEF LifeInv

LEMMA FilteredStays == LifeInv /\ [Next]_vars => FilteredForGood'
<1>1. SUFFICES ASSUME LifeInv, [Next]_vars PROVE FilteredForGood'
  OBVIOUS
<1>2. /\ TypeOK /\ Unseen /\ Unmet /\ FilteredForGood /\ clock \in Nat
      /\ droppedAt \in [Events -> Nat] /\ admittedAt \in [Events -> Nat]
      /\ \A t \in tasks : t.of \in decisions
  BY <1>1 DEF LifeInv, FlowInv, Flow, SuppressedInv, TypeOK, TasksAhead
<1>3. ASSUME NEW e \in Events, Arrive(e) PROVE FilteredForGood'
  <2>1. /\ e \notin arrived /\ arrived' = arrived \cup {e} /\ UNCHANGED decisions
        /\ \/ /\ droppedAt' = [droppedAt EXCEPT ![e] = clock]
              /\ UNCHANGED <<perimeter, admittedAt>>
           \/ /\ droppedAt' = droppedAt
              /\ admittedAt' = [admittedAt EXCEPT ![e] = clock]
              /\ perimeter' = perimeter \cup {e}
    BY <1>3 DEF Arrive, Admit
  <2>2. /\ e \notin perimeter /\ admittedAt[e] = 0 /\ ~(droppedAt[e] > 0)
        /\ \A d \in decisions : d.event # e
    BY <1>2, <2>1 DEF Unseen, Unmet, FilteredForGood
  <2>3. QED
    BY <1>2, <2>1, <2>2 DEF FilteredForGood
<1>4. ASSUME NEW e \in Events, e \in perimeter \/ (\E d \in decisions : d.event = e),
             UNCHANGED <<arrived, admittedAt, droppedAt>>, perimeter' \subseteq perimeter,
             \A d \in decisions' : d \in decisions \/ d.event = e
      PROVE  FilteredForGood'
  BY <1>2, <1>4 DEF FilteredForGood
<1>5. ASSUME NEW e \in Events, Gate1(e) PROVE FilteredForGood'
  <2>1. /\ e \in perimeter /\ perimeter' = perimeter \ {e}
        /\ UNCHANGED <<arrived, admittedAt, droppedAt>>
        /\ \A d \in decisions' : d \in decisions \/ d.event = e
    BY <1>5 DEF Gate1, Publish
  <2>2. QED
    BY <1>4, <2>1
<1>6. ASSUME NEW t \in tasks, Gate2(t) \/ Gate3(t) PROVE FilteredForGood'
  <2>1. t.of \in decisions /\ t.of.event \in Events
    BY <1>2 DEF TypeOK, Decision
  <2>2. UNCHANGED <<arrived, admittedAt, droppedAt, perimeter>>
    BY <1>6 DEF Gate2, Gate3, gate1
  <2>3. \A d \in decisions' : d \in decisions \/ d.event = t.of.event
    <3>1. CASE Gate2(t)
      BY <3>1, Gate2Ends DEF Publish
    <3>2. CASE Gate3(t)
      BY <3>2 DEF Gate3, Publish
    <3>3. QED
      BY <1>6, <3>1, <3>2
  <2>4. PICK e \in Events : e = t.of.event
    BY <2>1
  <2>5. /\ \E d \in decisions : d.event = e
        /\ \A d \in decisions' : d \in decisions \/ d.event = e
    BY <2>1, <2>3, <2>4
  <2>6. perimeter' \subseteq perimeter
    BY <2>2
  <2>7. QED
    BY ONLY <1>4, <2>2, <2>5, <2>6, Zenon
<1>7. ASSUME UNCHANGED <<arrived, admittedAt, droppedAt, perimeter, decisions>>
      PROVE  FilteredForGood'
  BY <1>2, <1>7 DEF FilteredForGood
<1>8. ASSUME \/ \E t \in tasks : Bridge(t)
             \/ \E x \in Entities : MetaRisk(x)
             \/ Tick \/ UNCHANGED vars
      PROVE  UNCHANGED <<arrived, admittedAt, droppedAt, perimeter, decisions>>
  BY <1>8 DEF Bridge, MetaRisk, Tick, vars, gate1
<1>9. QED
  BY <1>1, <1>3, <1>5, <1>6, <1>7, <1>8 DEF Next

LEMMA LifeStep == LifeInv /\ [Next]_vars => LifeInv'
BY FlowStep, SuppressedStep, ListsStep, FilteredStays DEF LifeInv, FlowInv

\* What has become of event e depends on what is kept for e alone.
LEMMA SameStage ==
  ASSUME NEW e \in Events,
         e \in arrived' <=> e \in arrived, e \in perimeter' <=> e \in perimeter,
         droppedAt'[e] = droppedAt[e], executed'[e] = executed[e],
         \A t : t.of.event = e => (t \in tasks' <=> t \in tasks),
         \A d : d.event = e => (d \in decisions' <=> d \in decisions)
  PROVE  Stage(e)' = Stage(e)
<1>1. \A g : Asleep(g, e)' <=> Asleep(g, e)
  BY DEF Asleep
<1>2. (\E d \in decisions' : d.event = e /\ d.verdict = "pass")
        <=> (\E d \in decisions : d.event = e /\ d.verdict = "pass")
  OBVIOUS
<1>3. QED
  BY <1>1, <1>2 DEF Stage

\* A move of one event is a move in its life.
LEMMA MoveIs ==
  ASSUME NEW e \in Events, NEW s, Stage(e)' = s, UNCHANGED meta,
         \A f \in Events \ {e} : Stage(f)' = Stage(f)
  PROVE  Life!Move(e, s)
BY DEF Life!Move

\* An event of Gate 1 before and after it is scored, and an event in a sleep.
LEMMA StageOf ==
  ASSUME LifeInv, NEW e \in Events
  PROVE  /\ e \notin arrived => Stage(e) = "new"
         /\ e \in perimeter => Stage(e) = "screened"
         /\ \A t \in tasks : t.of.event = e =>
              /\ t.gate = 2 => Stage(e) = "held"
              /\ t.gate = 3 => Stage(e) = "confirmed"
              /\ t.gate = 4 => Stage(e) = "answered"
<1>1. Flow /\ FilteredForGood /\ droppedAt \in [Events -> Nat]
  BY DEF LifeInv, FlowInv, TypeOK
<1>2. e \notin arrived => Stage(e) = "new"
  BY DEF Stage
<1>3. e \in perimeter => Stage(e) = "screened"
  BY <1>1 DEF Stage, Flow, Unseen, FilteredForGood
<1>4. ASSUME NEW t \in tasks, t.of.event = e
      PROVE  /\ e \in arrived /\ e \notin perimeter /\ ~(droppedAt[e] > 0)
             /\ \A g : Asleep(g, e) <=> g = t.gate
  <2>1. t.of \in decisions
    BY <1>1 DEF Flow, TasksAhead
  <2>2. e \in arrived /\ e \notin perimeter /\ ~(droppedAt[e] > 0)
    BY <1>1, <1>4, <2>1 DEF Flow, Unseen, FilteredForGood
  <2>3. \A u \in tasks : u.of.event = e => u = t
    BY <1>4, OneTaskPerEvent DEF LifeInv
  <2>4. QED
    BY <1>4, <2>2, <2>3 DEF Asleep
<1>5. QED
  BY <1>2, <1>3, <1>4 DEF Stage

\* An arriving event is filtered beside an admitted one, or screened.
LEMMA ArriveLives ==
  ASSUME LifeInv, LifeInv', NEW e \in Events, Arrive(e)
  PROVE  Life!Filter(e) \/ Life!Admit(e)
<1>1. /\ e \notin arrived /\ arrived' = arrived \cup {e} /\ clock > 0
      /\ UNCHANGED <<meta, tasks, decisions, executed>>
      /\ droppedAt \in [Events -> Nat] /\ admittedAt \in [Events -> Nat]
      /\ Flow /\ Unmet /\ FilteredForGood
  BY DEF Arrive, LifeInv, FlowInv, TypeOK, SuppressedInv, gate2
<1>2. \/ /\ droppedAt' = [droppedAt EXCEPT ![e] = clock]
         /\ perimeter' = perimeter /\ admittedAt' = admittedAt
      \/ droppedAt' = droppedAt /\ perimeter' = perimeter \cup {e}
  BY DEF Arrive, Admit
<1>3. Stage(e) = "new" /\ e \in arrived'
  BY <1>1, StageOf
<1>4. \A f \in Events \ {e} : Stage(f)' = Stage(f)
  <2>1. ASSUME NEW f \in Events \ {e} PROVE Stage(f)' = Stage(f)
    <3>1. /\ f \in arrived' <=> f \in arrived
          /\ f \in perimeter' <=> f \in perimeter
          /\ droppedAt'[f] = droppedAt[f]
      BY <1>1, <1>2, <2>1
    <3>2. QED
      BY <1>1, <2>1, <3>1, SameStage
  <2>2. QED
    BY <2>1
<1>5. CASE droppedAt' = [droppedAt EXCEPT ![e] = clock] /\ admittedAt' = admittedAt
  <2>1. droppedAt'[e] > 0
    BY <1>1, <1>5
  <2>2. Stage(e)' = "filtered"
    BY <1>3, <2>1 DEF Stage
  <2>3. PICK f \in Events : Profile[f].key = Profile[e].key /\ admittedAt[f] > 0
    BY <1>5, <2>1 DEF LifeInv, SuppressedInv, SuppressionIsBounded
  <2>4. Stage(f) \notin {"new", "filtered"}
    <3>1. f \in arrived /\ ~(droppedAt[f] > 0)
      BY <1>1, <2>3 DEF Unmet, FilteredForGood
    <3>2. QED
      BY <3>1 DEF Stage
  <2>5. Life!Move(e, "filtered")
    BY <1>1, <1>4, <2>2, MoveIs
  <2>6. QED
    BY <1>3, <2>3, <2>4, <2>5 DEF Life!Filter
<1>6. CASE droppedAt' = droppedAt /\ perimeter' = perimeter \cup {e}
  <2>1. Stage(e)' = "screened"
    <3>1. e \in perimeter' /\ ~(droppedAt'[e] > 0)
      BY <1>1, <1>6 DEF FilteredForGood
    <3>2. QED
      BY <1>3, <3>1 DEF Stage
  <2>2. Life!Move(e, "screened")
    BY <1>1, <1>4, <2>1, MoveIs
  <2>3. QED
    BY <1>3, <2>2 DEF Life!Admit
<1>7. QED
  BY <1>2, <1>5, <1>6 DEF Arrive, Admit

\* A gate that has done with event e, by decision f or by none, leaves it to
\* those whom f wakes.
LEMMA LeftTo ==
  ASSUME LifeInv, NEW e \in Events, e \in arrived, NEW f, f.event = e,
         \A t \in tasks' : t.of.event = e => t \in Woken(f),
         Woken(f) \subseteq tasks', f \in decisions',
         ~(droppedAt[e] > 0), e \notin perimeter', e \in arrived',
         ~(executed[e] > 0), UNCHANGED <<droppedAt, executed>>
  PROVE  /\ f.gate = 1 /\ f.verdict = "hold" => Stage(e)' = "held"
         /\ f.gate \in {1, 2} /\ f.verdict \in {"block", "escalate"}
              => Stage(e)' = "confirmed"
         /\ f.gate = 3 /\ f.verdict = "block" => Stage(e)' = "answered"
         /\ f.gate \in {1, 2} /\ f.verdict = "pass" => Stage(e)' = "cleared"
<1>1. \A g \in 2..4 : Asleep(g, e)' <=> Accepts(g, f)
  <2>1. ASSUME NEW g \in 2..4, Accepts(g, f) PROVE Asleep(g, e)'
    <3>1. [gate |-> g, of |-> f] \in tasks'
      BY <2>1 DEF Woken
    <3>2. QED
      BY <3>1 DEF Asleep
  <2>2. ASSUME NEW g \in 2..4, Asleep(g, e)' PROVE Accepts(g, f)
    BY <2>2 DEF Asleep, Woken
  <2>3. QED
    BY <2>1, <2>2
<1>2. Stage(e)' = IF Accepts(2, f) THEN "held"
                  ELSE IF Accepts(3, f) THEN "confirmed"
                  ELSE IF Accepts(4, f) THEN "answered"
                  ELSE IF \E d \in decisions' : d.event = e /\ d.verdict = "pass"
                    THEN "cleared" ELSE "lost"
  BY <1>1 DEF Stage
<1>3. f.verdict = "pass" => \E d \in decisions' : d.event = e /\ d.verdict = "pass"
  OBVIOUS
<1>4. QED
  BY <1>2, <1>3 DEF Accepts

\* Publishing a decision of event e moves no other event.
LEMMA OthersStay ==
  ASSUME LifeInv, NEW e \in Events, NEW done, NEW f, Publish(done, f), f.event = e,
         \A t \in done : t.of.event = e,
         UNCHANGED <<arrived, droppedAt, executed>>,
         perimeter' = perimeter \/ perimeter' = perimeter \ {e}
  PROVE  \A g \in Events \ {e} : Stage(g)' = Stage(g)
<1>1. /\ decisions' = decisions \cup {f} /\ tasks' = (tasks \ done) \cup Woken(f)
      /\ \A t \in Woken(f) : t.of.event = e
  BY DEF Publish, Woken
<1>2. ASSUME NEW g \in Events \ {e} PROVE Stage(g)' = Stage(g)
  <2>1. /\ \A t : t.of.event = g => (t \in tasks' <=> t \in tasks)
        /\ \A d : d.event = g => (d \in decisions' <=> d \in decisions)
        /\ g \in perimeter' <=> g \in perimeter
    BY <1>1, <1>2
  <2>2. QED
    BY <1>2, <2>1, SameStage
<1>3. QED
  BY <1>2

\* Gate 1 has an event that is screened, and nobody else has.
LEMMA Gate1Lives ==
  ASSUME LifeInv, NEW e \in Events, Gate1(e)
  PROVE  Life!Screen(e)
<1>1. PICK f : /\ f.event = e /\ f.gate = 1 /\ f.verdict \in Verdicts
               /\ Publish({}, f)
  BY DEF Gate1
<1>2. /\ e \in perimeter /\ perimeter' = perimeter \ {e}
      /\ UNCHANGED <<arrived, droppedAt, executed, meta>>
  BY DEF Gate1, gate2
<1>3. /\ e \in arrived /\ ~(droppedAt[e] > 0) /\ ~(executed[e] > 0)
      /\ \A d \in decisions : d.event # e
      /\ \A t \in tasks : t.of.event # e
  BY <1>2 DEF LifeInv, FlowInv, Flow, Unseen, TasksAhead, ExecutedOnce, FilteredForGood
<1>4. \A t \in tasks' : t.of.event = e => t \in Woken(f)
  BY <1>1, <1>3 DEF Publish
<1>5. Woken(f) \subseteq tasks' /\ f \in decisions'
  BY <1>1 DEF Publish
<1>6. Stage(e)' \in {"cleared", "held", "confirmed"}
  BY <1>1, <1>2, <1>3, <1>4, <1>5, LeftTo DEF Verdicts
<1>7. \A g \in Events \ {e} : Stage(g)' = Stage(g)
  BY <1>1, <1>2, OthersStay
<1>8. PICK s \in {"cleared", "held", "confirmed"} : Stage(e)' = s
  BY <1>6
<1>9. Life!Move(e, s)
  BY <1>2, <1>7, <1>8, MoveIs
<1>10. QED
  BY <1>2, <1>9, StageOf DEF Life!Screen

\* The event of a task is in that task alone, and in no book.
LEMMA InTask ==
  ASSUME LifeInv, NEW t \in tasks
  PROVE  /\ t.of.event \in Events /\ t.of.event \in arrived
         /\ t.of.event \notin perimeter /\ ~(droppedAt[t.of.event] > 0)
         /\ ~(executed[t.of.event] > 0)
         /\ \A u \in tasks : u.of.event = t.of.event => u = t
<1>1. /\ Flow /\ FilteredForGood /\ t.of \in decisions /\ t.of.event \in Events
      /\ Accepts(t.gate, t.of) /\ executed \in [Events -> Nat]
  BY DEF LifeInv, FlowInv, TypeOK, Flow, TasksAhead, Decision
<1>2. /\ t.of.event \in arrived /\ t.of.event \notin perimeter
      /\ ~(droppedAt[t.of.event] > 0)
  BY <1>1 DEF Flow, Unseen, FilteredForGood
<1>3. ~(executed[t.of.event] > 0)
  <2>1. t.gate \in {2, 3, 4}
    BY <1>1 DEF Accepts
  <2>2. t.gate = 4 => executed[t.of.event] = 0
    BY <1>1 DEF Flow, TasksAhead
  <2>3. t.gate \in {2, 3} => \A d \in decisions : d.event = t.of.event => d.gate # 3
    BY <1>1 DEF Flow, TasksAhead
  <2>4. QED
    BY <1>1, <2>1, <2>2, <2>3 DEF Flow, ExecutedOnce
<1>4. QED
  BY <1>1, <1>2, <1>3, OneTaskPerEvent DEF LifeInv

\* A task that is done with a decision leaves its event to those the decision wakes.
LEMMA PassedOn ==
  ASSUME LifeInv, NEW t \in tasks, NEW f, f.event = t.of.event, Publish({t}, f),
         f.gate \in {2, 3}, f.verdict \in {"pass", "block", "escalate"},
         f.gate = 3 => f.verdict = "block",
         UNCHANGED <<arrived, perimeter, droppedAt, executed, meta>>
  PROVE  Life!Move(t.of.event, IF f.gate = 3 THEN "answered"
                               ELSE IF f.verdict = "pass" THEN "cleared" ELSE "confirmed")
<1>1. PICK e \in Events : e = t.of.event
  BY InTask
<1>2. /\ e \in arrived /\ e \notin perimeter /\ ~(droppedAt[e] > 0)
      /\ ~(executed[e] > 0) /\ \A u \in tasks : u.of.event = e => u = t
  BY <1>1, InTask
<1>3. /\ \A u \in tasks' : u.of.event = e => u \in Woken(f)
      /\ Woken(f) \subseteq tasks' /\ f \in decisions'
  BY <1>2 DEF Publish
<1>4. Stage(e)' = IF f.gate = 3 THEN "answered"
                  ELSE IF f.verdict = "pass" THEN "cleared" ELSE "confirmed"
  BY <1>1, <1>2, <1>3, LeftTo
<1>5. \A g \in Events \ {e} : Stage(g)' = Stage(g)
  BY <1>1, OthersStay
<1>6. QED
  BY <1>1, <1>4, <1>5, MoveIs

\* A held event is cleared or confirmed; it is lost only at a high risk.
LEMMA Gate2Lives ==
  ASSUME LifeInv, NEW t \in tasks, Gate2(t)
  PROVE  Life!Examine(t.of.event) \/ Life!Lose(t.of.event)
<1>1. PICK e \in Events : e = t.of.event
  BY InTask
<1>2. /\ t.gate = 2 /\ Stage(e) = "held"
      /\ UNCHANGED <<arrived, perimeter, droppedAt, executed, meta>>
  BY <1>1, StageOf DEF Gate2, gate1
<1>3. CASE /\ tasks' = tasks \ {t} /\ decisions' = decisions
           /\ meta[Entity(t.of.event)] > 6
           /\ Profile[t.of.event].type # "network"
  <2>1. \A u \in tasks' : u.of.event # e
    BY <1>1, <1>3, InTask
  <2>2. \A d \in decisions : d.event = e => d.verdict # "pass"
    <3>1. t.of \in decisions /\ Accepts(2, t.of)
      BY <1>2 DEF LifeInv, FlowInv, Flow, TasksAhead
    <3>2. \A d \in decisions : d.event = e => d = t.of
      BY <1>1, <1>2, <3>1
      DEF LifeInv, FlowInv, Flow, TasksAhead, OneDecisionPerGate, Accepts
    <3>3. QED
      BY <3>1, <3>2 DEF Accepts
  <2>3. /\ e \in arrived /\ e \notin perimeter /\ ~(droppedAt[e] > 0)
        /\ ~(executed[e] > 0)
    BY <1>1, InTask
  <2>4. Stage(e)' = "lost"
    BY <1>2, <1>3, <2>1, <2>2, <2>3 DEF Stage, Asleep
  <2>5. ASSUME NEW g \in Events \ {e} PROVE Stage(g)' = Stage(g)
    BY <1>1, <1>2, <1>3, <2>5, SameStage
  <2>6. Life!Move(e, "lost")
    BY <1>2, <2>4, <2>5, MoveIs
  <2>7. Entity(e) \in Entities
    BY ProfileType DEF Entity
  <2>8. QED
    BY <1>1, <1>2, <1>3, <2>6, <2>7 DEF Life!Lose
<1>4. ASSUME NEW f, f.event = t.of.event, f.gate = 2,
             f.verdict \in {"pass", "block", "escalate"}, Publish({t}, f)
      PROVE  Life!Examine(t.of.event)
  <2>1. Life!Move(e, IF f.verdict = "pass" THEN "cleared" ELSE "confirmed")
    BY <1>1, <1>2, <1>4, PassedOn
  <2>2. QED
    BY <1>1, <1>2, <2>1 DEF Life!Examine
<1>5. QED
  BY <1>3, <1>4, Gate2Ends

LEMMA Gate3Lives ==
  ASSUME LifeInv, NEW t \in tasks, Gate3(t)
  PROVE  Life!Answer(t.of.event)
<1>1. PICK f : f.event = t.of.event /\ f.gate = 3 /\ f.verdict = "block" /\ Publish({t}, f)
  BY DEF Gate3
<1>2. t.gate = 3 /\ UNCHANGED <<arrived, perimeter, droppedAt, executed, meta>>
  BY DEF Gate3, gate1, gate2
<1>3. Life!Move(t.of.event, "answered")
  BY <1>1, <1>2, PassedOn
<1>4. QED
  BY <1>2, <1>3, InTask, StageOf DEF Life!Answer

LEMMA BridgeLives ==
  ASSUME LifeInv, NEW t \in tasks, Bridge(t)
  PROVE  Life!Execute(t.of.event)
<1>1. PICK e \in Events : e = t.of.event
  BY InTask
<1>2. /\ t.gate = 4 /\ tasks' = tasks \ {t} /\ executed' = [executed EXCEPT ![e] = @ + 1]
      /\ UNCHANGED <<arrived, perimeter, droppedAt, decisions, meta>>
      /\ executed \in [Events -> Nat]
  BY <1>1 DEF Bridge, gate1, gate2, LifeInv, FlowInv, TypeOK
<1>3. /\ e \in arrived /\ e \notin perimeter /\ ~(droppedAt[e] > 0)
      /\ \A u \in tasks' : u.of.event # e
  BY <1>1, <1>2, InTask
<1>4. executed'[e] > 0
  BY <1>2
<1>5. Stage(e)' = "executed"
  BY <1>2, <1>3, <1>4 DEF Stage, Asleep
<1>6. ASSUME NEW g \in Events \ {e} PROVE Stage(g)' = Stage(g)
  BY <1>1, <1>2, <1>6, SameStage
<1>7. Life!Move(e, "executed")
  BY <1>2, <1>5, <1>6, MoveIs
<1>8. QED
  BY <1>1, <1>2, <1>7, StageOf DEF Life!Execute

\* Whatever touches neither an event nor the books of the gates is no step of a life.
LEMMA NothingMoves ==
  ASSUME UNCHANGED <<arrived, perimeter, droppedAt, tasks, decisions, executed>>
  PROVE  [e \in Events |-> Stage(e)]' = [e \in Events |-> Stage(e)]
<1>1. ASSUME NEW e \in Events PROVE Stage(e)' = Stage(e)
  BY SameStage
<1>2. QED
  BY <1>1

LEMMA LifeBegins == Init => Life!Init
<1>1. SUFFICES ASSUME Init PROVE Life!Init
  OBVIOUS
<1>2. \A e \in Events : Stage(e) = "new"
  BY <1>1 DEF Init, Stage
<1>3. {x \in Entities : meta[x] > 6} = {}
  BY <1>1 DEF Init
<1>4. QED
  BY <1>2, <1>3 DEF Life!Init

LEMMA LifeGoesOn ==
  ASSUME LifeInv, LifeInv', [Next]_vars
  PROVE  [Life!Next]_(Life!lifeVars)
<1>1. ASSUME NEW e \in Events, Arrive(e) \/ Gate1(e) PROVE Life!Next
  BY <1>1, ArriveLives, Gate1Lives DEF Life!Next
<1>2. ASSUME NEW t \in tasks, Gate2(t) \/ Gate3(t) \/ Bridge(t) PROVE Life!Next
  <2>1. t.of.event \in Events
    BY InTask
  <2>2. QED
    BY <1>2, <2>1, Gate2Lives, Gate3Lives, BridgeLives DEF Life!Next
<1>3. ASSUME NEW x \in Entities, MetaRisk(x) PROVE Life!Next
  <2>1. UNCHANGED <<arrived, perimeter, droppedAt, tasks, decisions, executed>>
    BY <1>3 DEF MetaRisk, gate1
  <2>2. QED
    BY <2>1, NothingMoves DEF Life!Next, Life!Assess
<1>4. ASSUME Tick \/ UNCHANGED vars PROVE UNCHANGED Life!lifeVars
  <2>1. /\ UNCHANGED <<arrived, perimeter, droppedAt, tasks, decisions, executed>>
        /\ UNCHANGED meta
    BY <1>4 DEF Tick, vars, gate1, gate2
  <2>2. QED
    BY <2>1, NothingMoves DEF Life!lifeVars
<1>5. QED
  BY <1>1, <1>2, <1>3, <1>4 DEF Next

(* Gates 1 to 3, the bus between them and the bridge implement the life of *)
(* an event: each is filtered beside an admitted twin or screened, then     *)
(* cleared, held or confirmed, and what is confirmed is answered and        *)
(* executed once; a held event is lost only while the composite score of    *)
(* its entity is above 0.6, and never one from the network                  *)
(* (gate1_perimeter.py:79-124, gate2_behavioural.py:86-125).                *)
THEOREM EventsLiveAsDescribed == Spec => LivesAsDescribed
<1>1. LifeInv /\ LifeInv' /\ [Next]_vars => [Life!Next]_(Life!lifeVars)
  BY LifeGoesOn
<1>2. QED
  BY <1>1, LifeInit, LifeStep, LifeBegins, PTL DEF Spec, LivesAsDescribed, Life!Spec
=============================================================================
