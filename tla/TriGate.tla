------------------------------ MODULE TriGate ------------------------------
(***************************************************************************)
(* The tri-gate pipeline of the agent (agent/gates/): Gate 1 filters and   *)
(* scores threat events, Gate 2 re-examines what Gate 1 holds, Gate 3      *)
(* answers what either of them confirms, and the response bridge executes  *)
(* the answers.  The gates know each other only through GateDecisions on   *)
(* the event bus, which each subscriber filters for itself, and each of    *)
(* them sleeps before it acts, so evaluations overlap in any order.        *)
(*                                                                         *)
(* A payload is abstracted to its Profile: what the scoring branches of    *)
(* the gates tell apart.  Gates 2 and 3 never read `confidence', so it is  *)
(* left out except where Gate 1 turns it into a verdict; of the severity   *)
(* only "critical or not" is kept, and the timestamp of a decision only    *)
(* where it is read, by Gate 2.                                            *)
(***************************************************************************)
EXTENDS Integers, FiniteSets

CONSTANTS
  Events,         \* threat events, each with a content of its own
  Profile,        \* their abstract payloads
  Entities,       \* user_id, src_ip or source
  Keys,           \* Gate 1 fingerprints: type, src_ip, user_id, port, zone
  Places, Devices, None,
  MetaScores,     \* composite scores of the MetaRiskArbiter, in tenths
  DupWindow,      \* 5 s in the code
  BurstWindow,    \* 10 s
  MaxBurst,       \* 3 events
  SessionWindow,  \* 300 s
  MaxClock        \* bound on the clock

Types == {"network", "identity", "physical", "other"}
Signals == {"known", "anomaly", "suspicious", "normal", "noauth", "partial"}

ASSUME TriGateAssumption ==
  /\ Profile \in [Events ->
       [type : Types, entity : Entities, key : Keys, signal : Signals,
        critical : BOOLEAN, score : Int, device : Devices \cup {None},
        place : Places \cup {None}, depth : 0..2]]
  /\ DupWindow \in Nat \ {0}
  /\ BurstWindow \in Nat /\ BurstWindow <= 2 * DupWindow
  /\ MaxBurst \in Nat /\ MaxBurst >= 2
  /\ SessionWindow \in Nat
  /\ MetaScores \subseteq 1..10
  /\ None \notin Places \cup Devices
  /\ MaxClock \in Nat

VARIABLES
  clock,
  arrived,     \* events delivered to Gate 1
  recent,      \* Gate 1 _recent_events[fingerprint]
  burst,       \* Gate 1 _recent_events[fingerprint + ":burst"]
  trusted,     \* Gate 1 _trusted_device_hashes, per user
  lastPlace,   \* Gate 1 _prev_locations, per user
  perimeter,   \* events asleep in Gate 1
  session,     \* Gate 2 _session: held decisions, per entity
  meta,        \* Gate 2 _meta_risk_cache, 0 for no entry
  hits,        \* Gate 3 _repeat_hits
  registry,    \* Gate 3 _registry: occurrences per type and entity
  tasks,       \* decisions asleep in Gate 2, Gate 3 or the bridge (4)
  decisions,   \* history: GateDecisions published
  admittedAt,  \* history: when Gate 1 let an event in, 0 if never
  droppedAt,   \* history: when Gate 1 filtered it, 0 if never
  executed     \* history: how often the bridge executed an event's answer

gate1 == <<arrived, recent, burst, trusted, lastPlace, perimeter, admittedAt, droppedAt>>
gate2 == <<session, meta>>
gate3 == <<hits, registry>>
vars == <<clock, gate1, gate2, gate3, tasks, decisions, executed>>

Entity(e) == Profile[e].entity

Init ==
  /\ clock = 1
  /\ arrived = {}
  /\ recent = [k \in Keys |-> {}]
  /\ burst = [k \in Keys |-> {}]
  /\ trusted = [x \in Entities |-> None]
  /\ lastPlace = [x \in Entities |-> None]
  /\ perimeter = {}
  /\ session = [x \in Entities |-> {}]
  /\ meta = [x \in Entities |-> 0]
  /\ hits = [x \in Entities |-> 0]
  /\ registry = [p \in Types \X Entities |-> 0]
  /\ tasks = {}
  /\ decisions = {}
  /\ admittedAt = [e \in Events |-> 0]
  /\ droppedAt = [e \in Events |-> 0]
  /\ executed = [e \in Events |-> 0]

-----------------------------------------------------------------------------
(* The bus: every subscriber sees the decision, and most ignore it. *)

\* Mutant: Gate 3 forgets to check which gate the decision comes from.
Accepts_AnyGate(g, d) ==
  \/ g = 2 /\ d.gate = 1 /\ d.verdict = "hold"
  \/ g = 3 /\ d.gate \in {1, 3} /\ d.verdict \in {"block", "escalate"}
  \/ g = 4 /\ d.gate = 3 /\ d.verdict = "block"

\* Mutant: Gate 3 ignores ESCALATE.
Accepts_BlockOnly(g, d) ==
  \/ g = 2 /\ d.gate = 1 /\ d.verdict = "hold"
  \/ g = 3 /\ d.gate \in {1, 2} /\ d.verdict = "block"
  \/ g = 4 /\ d.gate = 3 /\ d.verdict = "block"

Accepts(g, d) ==
  \/ g = 2 /\ d.gate = 1 /\ d.verdict = "hold"
  \/ g = 3 /\ d.gate \in {1, 2} /\ d.verdict \in {"block", "escalate"}
  \/ g = 4 /\ d.gate = 3 /\ d.verdict = "block"

Woken(d) == {[gate |-> g, of |-> d] : g \in {h \in 2..4 : Accepts(h, d)}}

Publish(done, d) ==
  /\ decisions' = decisions \cup {d}
  /\ tasks' = (tasks \ done) \cup Woken(d)

-----------------------------------------------------------------------------
(* Gate 1 *)

Younger(times, window) == {t \in times : t > clock - window}

\* Mutant: admitted events are tracked for the burst check only.
Admit_Untracked(e) ==
  LET k == Profile[e].key
      flood == Younger(burst[k], BurstWindow)
  IN  /\ burst' = [burst EXCEPT ![k] = flood \cup {clock}]
      /\ admittedAt' = [admittedAt EXCEPT ![e] = clock]
      /\ perimeter' = perimeter \cup {e}
      /\ UNCHANGED <<recent, droppedAt>>

\* Duplicate filter, burst filter, tracking.  A filtered event is not tracked.
Admit(e) ==
  LET k == Profile[e].key
      dup == Younger(recent[k], DupWindow)
      flood == Younger(burst[k], BurstWindow)
  IN  IF dup # {} \/ Cardinality(flood) >= MaxBurst
        THEN /\ recent' = [recent EXCEPT ![k] = dup]
             /\ burst' = IF dup # {} THEN burst ELSE [burst EXCEPT ![k] = flood]
             /\ droppedAt' = [droppedAt EXCEPT ![e] = clock]
             /\ UNCHANGED <<perimeter, admittedAt>>
        ELSE /\ recent' = [recent EXCEPT ![k] = dup \cup {clock}]
             /\ burst' = [burst EXCEPT ![k] = flood \cup {clock}]
             /\ admittedAt' = [admittedAt EXCEPT ![e] = clock]
             /\ perimeter' = perimeter \cup {e}
             /\ UNCHANGED droppedAt

Arrive(e) ==
  /\ e \notin arrived
  /\ arrived' = arrived \cup {e}
  /\ Admit(e)
  /\ UNCHANGED <<clock, trusted, lastPlace, gate2, gate3, tasks, decisions, executed>>

\* First use of a device by a user makes it the trusted one.
DeviceTrusted(e) == trusted[Entity(e)] \in {None, Profile[e].device}

Moved(e) ==
  /\ Profile[e].place # None
  /\ lastPlace[Entity(e)] \notin {None, Profile[e].place}

\* Hundredths of confidence added by travel: ordinary, suspicious, impossible.
GeoPoints(e) == IF Moved(e) THEN (0..10) \cup {20, 40} ELSE {0}

Verdicts == {"pass", "hold", "block", "escalate"}

\* Gate 1 may answer an identity event with verdict v, critical or not.
ScoreIdentity(e, v, c) ==
  LET p == Profile[e]
      device == IF p.device = None \/ DeviceTrusted(e) THEN 0 ELSE 12
  IN  \E g \in GeoPoints(e) :
        LET points == p.score + device + g
        IN  \/ points >= 85 /\ v = "escalate" /\ c
            \/ points \in 65..84 /\ v = "block" /\ ~c
            \/ points \in 40..64 /\ v = "hold" /\ ~c
            \/ points < 40 /\ v = "pass" /\ c = p.critical

ScoreNetwork(p, v, c) ==
  \/ p.signal = "known" /\ v = (IF p.critical THEN "escalate" ELSE "block") /\ c = p.critical
  \/ p.signal = "anomaly" /\ v = "block" /\ ~c
  \/ p.signal = "suspicious" /\ v = "hold" /\ c = p.critical
  \/ /\ p.signal \notin {"known", "anomaly", "suspicious"}
     /\ v = "pass" /\ c = p.critical

ScorePhysical(p, v, c) ==
  \/ p.signal = "noauth" /\ v = "escalate" /\ c
  \/ p.signal = "partial" /\ v = "hold" /\ c = p.critical
  \/ p.signal \notin {"noauth", "partial"} /\ v = "pass" /\ c = p.critical

Score(e, v, c) ==
  LET p == Profile[e]
  IN  \/ p.type = "network" /\ ScoreNetwork(p, v, c)
      \/ p.type = "identity" /\ ScoreIdentity(e, v, c)
      \/ p.type = "physical" /\ ScorePhysical(p, v, c)
      \/ p.type = "other" /\ v = "hold" /\ c = p.critical

Gate1(e) ==
  /\ e \in perimeter
  /\ perimeter' = perimeter \ {e}
  /\ trusted' = IF Profile[e].device # None /\ trusted[Entity(e)] = None
                  THEN [trusted EXCEPT ![Entity(e)] = Profile[e].device] ELSE trusted
  /\ lastPlace' = IF Profile[e].type = "identity" /\ Profile[e].place # None
                    THEN [lastPlace EXCEPT ![Entity(e)] = Profile[e].place] ELSE lastPlace
  /\ \E v \in Verdicts, c \in BOOLEAN :
       /\ Score(e, v, c)
       /\ Publish({}, [gate |-> 1, event |-> e, verdict |-> v, critical |-> c,
                       at |-> clock, repeat |-> 0])
  /\ UNCHANGED <<clock, arrived, recent, burst, admittedAt, droppedAt, gate2, gate3, executed>>

-----------------------------------------------------------------------------
(* Gate 2: n held decisions of the entity in the window, meta score m.      *)

\* Mutant: `reason' is unassigned in these branches at any risk.
Crashes_AnyRisk(p, off, m) ==
  \/ p.type \in {"identity", "other"} /\ p.depth = 1 /\ ~off
  \/ p.type = "physical" /\ p.depth >= 1 /\ ~(p.depth = 2 /\ off)

\* The branches that return `reason' before they assign it.
Crashes(p, off, m) ==
  /\ m > 6
  /\ \/ p.type \in {"identity", "other"} /\ p.depth = 1 /\ ~off
     \/ p.type = "physical" /\ p.depth >= 1 /\ ~(p.depth = 2 /\ off)

Escalates(p, n, off, m) ==
  \/ p.type = "network" /\ (IF p.depth >= 1 /\ off THEN m > 6 ELSE n >= 3 /\ m > 5)
  \/ p.type = "identity" /\ p.depth >= 1 /\ off
  \/ p.type = "physical" /\ p.depth = 2 /\ off
  \/ p.type = "other" /\ (p.depth = 2 \/ (p.depth = 1 /\ off))

Blocks(p, n, off, m) ==
  \/ p.type = "network" /\ ((p.depth >= 1 /\ off) \/ n >= 3 \/ m > 7)
  \/ p.type \in {"identity", "other"} /\ (p.depth >= 1 \/ m > 8)
  \/ p.type = "physical" /\ p.depth >= 1

\* An escalation is critical unless it rests on repetition alone; a block on
\* the meta score or on off-hours traffic is HIGH whatever it was before.
StaysCritical(p, n, off, m, was) ==
  IF Escalates(p, n, off, m)
    THEN p.type # "network" \/ (p.depth >= 1 /\ off) \/ was
    ELSE IF Blocks(p, n, off, m)
      THEN /\ was
           /\ p.type = "network" => n >= 3 /\ ~(p.depth >= 1 /\ off)
           /\ p.type # "network" => p.depth >= 1
      ELSE was

\* Mutant: a decision is not added to its entity's history.
UpdateSession_NoAppend(x, d) ==
  {c \in session[x] : c.at > d.at - SessionWindow}

UpdateSession(x, d) ==
  {c \in session[x] : c.at > d.at - SessionWindow} \cup {d}

Gate2(t) ==
  /\ t \in tasks
  /\ t.gate = 2
  /\ LET d == t.of
         x == Entity(d.event)
         p == Profile[d.event]
         history == UpdateSession(x, d)
         n == Cardinality(history)
         m == meta[x]
     IN  /\ session' = [session EXCEPT ![x] = history]
         /\ \E off \in BOOLEAN :
              IF Crashes(p, off, m)
                THEN /\ tasks' = tasks \ {t}
                     /\ UNCHANGED decisions
                ELSE Publish({t},
                       [gate |-> 2, event |-> d.event,
                        verdict |-> IF Escalates(p, n, off, m) THEN "escalate"
                                    ELSE IF Blocks(p, n, off, m) THEN "block" ELSE "pass",
                        critical |-> StaysCritical(p, n, off, m, d.critical),
                        at |-> 0, repeat |-> 0])
  /\ UNCHANGED <<clock, gate1, meta, gate3, executed>>

\* A MetaRiskArbiter finding reaches the cache, or an entry's TTL runs out.
MetaRisk(x) ==
  /\ \E m \in MetaScores \cup {0} : m # meta[x] /\ meta' = [meta EXCEPT ![x] = m]
  /\ UNCHANGED <<clock, gate1, session, gate3, tasks, decisions, executed>>

-----------------------------------------------------------------------------
(* Gate 3 and the response bridge *)

\* Mutant: the offender threshold is off by one.
Hardened_OffByOne(d, repeat) == d.critical \/ repeat > 3

Hardened(d, repeat) == d.critical \/ repeat >= 3

Counted(x) == [hits EXCEPT ![x] = @ + 1]

Gate3(t) ==
  /\ t \in tasks
  /\ t.gate = 3
  /\ LET d == t.of
         x == Entity(d.event)
     IN  /\ hits' = Counted(x)
         /\ registry' = [registry EXCEPT ![<<Profile[d.event].type, x>>] = @ + 1]
         /\ Publish({t}, [gate |-> 3, event |-> d.event, verdict |-> "block",
                          critical |-> Hardened(d, hits[x] + 1),
                          at |-> 0, repeat |-> hits[x] + 1])
  /\ UNCHANGED <<clock, gate1, gate2, executed>>

\* asyncio.gather runs the handlers of the decision's actions to the end.
Bridge(t) ==
  /\ t \in tasks
  /\ t.gate = 4
  /\ tasks' = tasks \ {t}
  /\ executed' = [executed EXCEPT ![t.of.event] = @ + 1]
  /\ UNCHANGED <<clock, gate1, gate2, gate3, decisions>>

Tick ==
  /\ clock < MaxClock
  /\ clock' = clock + 1
  /\ UNCHANGED <<gate1, gate2, gate3, tasks, decisions, executed>>

Next ==
  \/ \E e \in Events : Arrive(e) \/ Gate1(e)
  \/ \E t \in tasks : Gate2(t) \/ Gate3(t) \/ Bridge(t)
  \/ \E x \in Entities : MetaRisk(x)
  \/ Tick

Spec == Init /\ [][Next]_vars

(* The event loop resumes every task whose sleep is over; events, findings  *)
(* of the arbiter and the clock are not promised.                           *)
FairSpec ==
  /\ Spec
  /\ \A e \in Events : WF_vars(Gate1(e))
  /\ WF_vars(\E t \in tasks : Gate2(t) \/ Gate3(t) \/ Bridge(t))

-----------------------------------------------------------------------------
Decision ==
  [gate : 1..3, event : Events, verdict : Verdicts,
   critical : BOOLEAN, at : Nat, repeat : Nat]

TypeOK ==
  /\ clock \in Nat
  /\ arrived \subseteq Events
  /\ recent \in [Keys -> SUBSET Nat]
  /\ burst \in [Keys -> SUBSET Nat]
  /\ trusted \in [Entities -> Devices \cup {None}]
  /\ lastPlace \in [Entities -> Places \cup {None}]
  /\ perimeter \subseteq Events
  /\ session \in [Entities -> SUBSET Decision]
  /\ meta \in [Entities -> 0..10]
  /\ hits \in [Entities -> Nat]
  /\ registry \in [Types \X Entities -> Nat]
  /\ tasks \subseteq [gate : 2..4, of : Decision]
  /\ decisions \subseteq Decision
  /\ admittedAt \in [Events -> Nat]
  /\ droppedAt \in [Events -> Nat]
  /\ executed \in [Events -> Nat]

Finals(x) == {d \in decisions : d.gate = 3 /\ Entity(d.event) = x}

(* The filters subsume one another: an event that is no duplicate never     *)
(* meets the burst limit, so the burst filter of lines 86-88 drops nothing. *)
BurstLimitUnreached ==
  \A k \in Keys :
    Younger(recent[k], DupWindow) = {} =>
      Cardinality(Younger(burst[k], BurstWindow)) < MaxBurst

(* Suppression does not feed on itself: a filtered event has an admitted    *)
(* twin at most one duplicate window older (lines 81-91, 358-364).          *)
SuppressionIsBounded ==
  \A e \in Events : droppedAt[e] > 0 =>
    \E f \in Events :
      /\ Profile[f].key = Profile[e].key
      /\ admittedAt[f] \in (droppedAt[e] - DupWindow + 1)..droppedAt[e]
      /\ admittedAt[f] > 0

(* However decisions of three gates interleave on the bus, an event is      *)
(* answered at most once, and only if Gate 1 or Gate 2 confirmed it.        *)
OneAnswerPerEvent ==
  /\ \A d \in decisions : d.gate = 3 =>
       \E c \in decisions : c.event = d.event /\ Accepts(3, c)
  /\ \A c, d \in decisions :
       c.gate = 3 /\ d.gate = 3 /\ c.event = d.event => c = d
  /\ \A e \in Events : executed[e] <= 1

(* The answers to an entity carry each number from 1 to its hit count once, *)
(* over all the events that reach Gate 3, and from the third on every       *)
(* answer is critical (lines 88-111).                                       *)
RepeatOffendersEscalated ==
  \A x \in Entities :
    /\ {d.repeat : d \in Finals(x)} = 1..hits[x]
    /\ Cardinality(Finals(x)) = hits[x]
    /\ \A d \in Finals(x) : d.repeat >= 3 => d.critical

\* The held events of entity x that Gate 2 has evaluated, and when they were held.
Evaluated(x) ==
  {d \in decisions : /\ Accepts(2, d)
                     /\ Entity(d.event) = x
                     /\ [gate |-> 2, of |-> d] \notin tasks}

\* Of those, the ones that no later hold has pushed out of the window yet.
Unforgotten(x) ==
  {b \in Evaluated(x) : \A c \in Evaluated(x) : b.at > c.at - SessionWindow}

(* Slow burns are seen, in whatever order the holds of an entity wake up:    *)
(* Gate 2 clears a network event only if fewer than two others of its holds  *)
(* lie in the session window before the event or after it, where only holds  *)
(* a whole window older than one already evaluated do not count, for the     *)
(* pruning of that one has forgotten them (lines 137-143, 202-208).          *)
SlowBurnIsCaught ==
  [][\A d \in decisions' \ decisions :
       d.gate = 2 /\ d.verdict = "pass" /\ Profile[d.event].type = "network" =>
         \A h \in decisions : Accepts(2, h) /\ h.event = d.event =>
           Cardinality({b \in Unforgotten(Entity(d.event)) :
                          b.at > h.at - SessionWindow}) < 2]_vars

(* Every threat that Gate 1 or Gate 2 confirms is answered and the answer   *)
(* executed.                                                                *)
ConfirmedThreatsAreAnswered ==
  \A e \in Events :
    (\E d \in decisions : d.event = e /\ d.gate < 3 /\ d.verdict \in {"block", "escalate"})
      ~> executed[e] > 0

Asleep(gate, e) == \E t \in tasks : t.gate = gate /\ t.of.event = e

\* What has become of an event.
Stage(e) ==
  IF e \notin arrived THEN "new"
  ELSE IF droppedAt[e] > 0 THEN "filtered"
  ELSE IF e \in perimeter THEN "screened"
  ELSE IF Asleep(2, e) THEN "held"
  ELSE IF Asleep(3, e) THEN "confirmed"
  ELSE IF Asleep(4, e) THEN "answered"
  ELSE IF executed[e] > 0 THEN "executed"
  ELSE IF \E d \in decisions : d.event = e /\ d.verdict = "pass" THEN "cleared"
  ELSE "lost"

Life == INSTANCE ThreatLife WITH
  EntityOf <- [e \in Events |-> Entity(e)],
  KeyOf <- [e \in Events |-> Profile[e].key],
  FromNetwork <- {e \in Events : Profile[e].type = "network"},
  stage <- [e \in Events |-> Stage(e)],
  atRisk <- {x \in Entities : meta[x] > 6}

(* The gates, the bus and the bridge together do nothing to an event but    *)
(* what its life allows: no confirmed threat is dropped between two gates,  *)
(* none is taken up again, and of those held for Gate 2 only such are lost  *)
(* as belong to an entity with a composite score above 0.6 and are no       *)
(* network events (gate2_behavioural.py:86-125, 241-245).                   *)
LivesAsDescribed == Life!Spec

(* gate2_behavioural.py:4-20: what Gate 1 holds, Gate 2 decides.            *)
HoldsAreDecided ==
  \A d \in decisions : Accepts(2, d) =>
    \/ [gate |-> 2, of |-> d] \in tasks
    \/ \E c \in decisions : c.gate = 2 /\ c.event = d.event
=============================================================================
