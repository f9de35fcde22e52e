---------------------------- MODULE FrameAnalysis ----------------------------
(***************************************************************************)
(* What a camera worker makes of a frame (cv-service/app.py, CameraWorker: *)
(* cleanup, the detectors, _process_frame, and the cooldown at the head of *)
(* _post_detection): which detections a scene raises, and which of them    *)
(* are posted.  The pixel work behind a detector is the scene's own field. *)
(*                                                                         *)
(* Two cooldowns follow each other.  A detector has its own, or remembers  *)
(* what it has told; _post_detection has one per type of detection.  Both  *)
(* keep their times in last_alert.  Analysing a frame takes less than the  *)
(* shortest cooldown, so that it has one time.                             *)
(*                                                                         *)
(* YOLO comes with DeepSORT: objects without tracks of people are left out.*)
(* People are tracked as 1..MaxTracks, in the order the tracker lists them.*)
(* The LRU bound on track histories is not reached.                        *)
(***************************************************************************)
EXTENDS Integers, Sequences, FiniteSets, TLC

CONSTANTS
  Scenes,      \* what the camera may show, see Scene
  MaxTracks,
  Wait,        \* the cooldowns and limits of Config, as a record
  CrowdSize,   \* CROWD_THRESHOLD
  GroupSize,   \* GROUP_MIN
  TrafficStep, \* vehicles between two traffic alerts: 10
  MaxClock     \* bound: ticks

ASSUME FrameAssumption ==
  /\ MaxTracks \in Nat /\ TrafficStep \in Nat \ {0}
  /\ \A w \in DOMAIN Wait : Wait[w] \in Nat

Tracks == 1..MaxTracks

\* light: mean and deviation of the grey values, apart by more than the
\* consistency threshold for two different ones.  broken: the inference raises.
Scene ==
  [light |-> "bright", broken |-> FALSE, objects |-> {}, fire |-> FALSE,
   smoke |-> FALSE, bag |-> "none", people |-> [t \in {} |-> "none"]]

Person(zone, side, speed) ==
  [zone |-> zone, side |-> side, speed |-> speed, fallen |-> FALSE, face |-> FALSE]

\* A scene shows people under the numbers of their tracks.
ASSUME SceneAssumption ==
  \A s \in Scenes :
    {s.broken, s.fire, s.smoke} \subseteq BOOLEAN /\ DOMAIN s.people \subseteq Tracks

VARIABLES
  clock,
  yolo,         \* YOLO_AVAILABLE, with DeepSORT; settled at the start
  lastAlert,    \* last_alert: key and track, 0 for none -> time
  lights,       \* _tamper_frame_buffer
  night,        \* _night_reported
  previous,     \* _prev_frame_gray is set
  entries,      \* _person_entries: track -> time first seen
  tracks,       \* _track_history: track -> time and side last seen
  loitered, breached, crossed,   \* what has been told of a track
  bag,          \* _static_objects: the one bag, when first seen, told?
  vehicles,     \* _vehicle_tracks and _vehicle_count
  reported      \* history: what was handed to the backend, by type and subject

frameVars == <<clock, yolo, lastAlert, lights, night, previous, entries, tracks,
               loitered, breached, crossed, bag, vehicles, reported>>

NoEntries == [t \in {} |-> 0]

FrameInit ==
  /\ clock = 0 /\ yolo \in BOOLEAN
  /\ lastAlert = [k \in {} |-> 0] /\ lights = <<>>
  /\ night = FALSE /\ previous = FALSE
  /\ entries = NoEntries /\ tracks = NoEntries
  /\ loitered = {} /\ breached = {} /\ crossed = {}
  /\ bag = NoEntries
  /\ vehicles = [count |-> 0, at |-> NoEntries]
  /\ reported = {}

\* now - last_alert.get(key, 0.0), against a cooldown
Rested(key, wait) == key \notin DOMAIN lastAlert \/ clock - lastAlert[key] > wait

(* _detect_tamper: a buffer of five, all alike once there are three - which *)
(* is any scene that does not change.                                      *)
LightsAfter(s) ==
  LET l == Append(lights, s.light) IN SubSeq(l, IF Len(l) > 5 THEN 2 ELSE 1, Len(l))

\* Mutant: the detector's cooldown has a key of its own.
TamperKey_Own == <<"lens", 0>>

TamperKey == <<"tamper", 0>>

Tampered(s) ==
  /\ Len(LightsAfter(s)) >= 3
  /\ \A i, j \in DOMAIN LightsAfter(s) : LightsAfter(s)[i] = LightsAfter(s)[j]
  /\ Rested(TamperKey, Wait.tamper)

\* _detect_night
NightFalls(s) == s.light = "dark" /\ ~night
NightTold(s) == NightFalls(s) /\ Rested(<<"night", 0>>, Wait.night)

\* _detect_smoke compares with the frame before.
Smokes(s) == s.smoke /\ previous

(* _detect_abandoned_objects: a bag alone long enough, told once while it  *)
(* is remembered.                                                          *)
BagTold(s) ==
  s.bag = "alone" /\ bag # NoEntries /\ ~bag.told /\ clock - bag.first > Wait.abandoned

BagAfter(s) ==
  CASE s.bag = "alone" -> [first |-> IF bag = NoEntries THEN clock ELSE bag.first,
                           told |-> BagTold(s) \/ (bag # NoEntries /\ bag.told)]
    [] s.bag = "attended" -> NoEntries
    [] s.bag = "none" -> bag

Present(s) == DOMAIN s.people

\* The speed of a track is measured from its second frame on.
Speed(s, t) == IF t \in DOMAIN tracks THEN s.people[t].speed ELSE "Standing"

Breaches(s, t) == s.people[t].zone = "Restricted" /\ t \notin breached
Speeds(s, t) ==
  Speed(s, t) \in {"Running", "Jogging"} /\ Rested(<<"speed", t>>, Wait.speed)
Shows(s, t) == s.people[t].face /\ Rested(<<"face", t>>, Wait.face)
Falls(s, t) == s.people[t].fallen /\ Rested(<<"fall", t>>, Wait.fall)

(* _detect_line_crossing: the position compared with is the last of the    *)
(* history, to which this frame's has been added already.                  *)
PreviousSide(s, t) == s.people[t].side

Crosses(s, t) == PreviousSide(s, t) # s.people[t].side /\ t \notin crossed
CrossTold(s, t) == Crosses(s, t) /\ Rested(<<"cross", t>>, Wait.tripwire)

\* Loitering: EntryOf as of this frame.
EntryOf(t) == IF t \in DOMAIN entries THEN entries[t] ELSE clock
Loiters(s, t) ==
  clock - EntryOf(t) > Wait.loitering /\ t \notin loitered /\ Speed(s, t) = "Standing"

Gathers(s) ==
  /\ Cardinality(Present(s)) \in GroupSize..(CrowdSize - 1)
  /\ Rested(<<"group", 0>>, Wait.group)

(* _detect_traffic: every track counts as a vehicle, and is one move more  *)
(* whenever it is far from where it was last counted.                      *)
Moved(s) ==
  {t \in Present(s) \cap DOMAIN vehicles.at : vehicles.at[t] # s.people[t].side}

CountAfter(s) == vehicles.count + Cardinality(Moved(s))

TrafficTold(s) ==
  /\ \E n \in (vehicles.count + 1)..CountAfter(s) : n % TrafficStep = 0
  /\ Rested(<<"traffic", 0>>, Wait.traffic)

VehiclesAfter(s) ==
  [count |-> CountAfter(s),
   at |-> [t \in DOMAIN vehicles.at \cup Present(s) |->
             IF t \in Present(s) THEN s.people[t].side ELSE vehicles.at[t]]]

(* The detections of a frame, in order: type, subject, whether raised.     *)
D(type, about, raised) == [type |-> type, about |-> about, raised |-> raised]

EachTrack(s, type, kind, Raised(_, _)) ==
  [t \in Tracks |-> D(type, <<kind, t>>, t \in Present(s) /\ Raised(s, t))]

Objects == <<"weapon_knife", "animal", "vehicle">>

Recognised(s) ==
  [i \in DOMAIN Objects |-> D(Objects[i], <<"frame", 0>>, Objects[i] \in s.objects)]

Ambient(s) ==
  <<D("tamper", <<"frame", 0>>, Tampered(s)),
    D("behavior_anomaly", <<"night", 0>>, NightTold(s))>>

Detections(s) ==
  CASE yolo /\ s.broken -> <<>>
    [] ~yolo -> Ambient(s) \o <<D("person", <<"motion", 0>>, Present(s) # {})>>
    [] yolo /\ ~s.broken ->
         Ambient(s) \o Recognised(s)
         \o <<D("person", <<"frame", 0>>, Present(s) # {}),
              D("fire", <<"frame", 0>>, s.fire), D("smoke", <<"frame", 0>>, Smokes(s)),
              D("abandoned_object", <<"bag", 0>>, BagTold(s))>>
         \o EachTrack(s, "breach", "breach", Breaches)
         \o EachTrack(s, "behavior_anomaly", "speed", Speeds)
         \o EachTrack(s, "face_unknown", "face", Shows)
         \o EachTrack(s, "fall", "fall", Falls)
         \o EachTrack(s, "line_cross", "cross", CrossTold)
         \o <<D("crowd", <<"frame", 0>>, Cardinality(Present(s)) >= CrowdSize),
              D("behavior_anomaly", <<"group", 0>>, Gathers(s))>>
         \o EachTrack(s, "behavior_anomaly", "loitering", Loiters)
         \o <<D("traffic_anomaly", <<"frame", 0>>, TrafficTold(s))>>

\* The keys the detectors stamp.
Stamped(s) ==
  (IF Tampered(s) THEN {TamperKey} ELSE {})
  \cup (IF NightTold(s) THEN {<<"night", 0>>} ELSE {})
  \cup (IF yolo /\ ~s.broken
        THEN {<<"speed", t>> : t \in {x \in Present(s) : Speeds(s, x)}}
             \cup {<<"face", t>> : t \in {x \in Present(s) : Shows(s, x)}}
             \cup {<<"fall", t>> : t \in {x \in Present(s) : Falls(s, x)}}
             \cup {<<"cross", t>> : t \in {x \in Present(s) : CrossTold(s, x)}}
             \cup (IF Gathers(s) THEN {<<"group", 0>>} ELSE {})
             \cup (IF TrafficTold(s) THEN {<<"traffic", 0>>} ELSE {})
        ELSE {})

PostWait(type) ==
  CASE type = "weapon_knife" -> Wait.weapon
    [] type \in {"fire", "tamper", "fall"} -> Wait.critical
    [] OTHER -> Wait.default

(* _post_detection: the first of each type whose cooldown is over.  The    *)
(* detectors have stamped their keys by then.                              *)
Free(s, type) ==
  /\ <<type, 0>> \notin Stamped(s)
  /\ <<type, 0>> \in DOMAIN lastAlert =>
       clock - lastAlert[<<type, 0>>] >= PostWait(type)

Posted(s) ==
  LET ds == Detections(s)
      told(type) == {i \in DOMAIN ds : ds[i].raised /\ ds[i].type = type}
  IN {ds[i] : i \in {k \in DOMAIN ds :
        /\ k \in told(ds[k].type) /\ Free(s, ds[k].type)
        /\ \A j \in told(ds[k].type) : k <= j}}

LastAlertAfter(s) ==
  [k \in Stamped(s) \cup {<<d.type, 0>> : d \in Posted(s)} |-> clock] @@ lastAlert

At(S, F(_)) == [t \in S |-> F(t)]

\* _process_frame with the posting of what it returns.
ProcessFrame(s) ==
  LET whole == yolo /\ ~s.broken
      First(t) == EntryOf(t)
      Seen(t) == [time |-> clock, side |-> s.people[t].side]
  IN /\ clock < MaxClock
     /\ lights' = LightsAfter(s)
     /\ night' = (s.light = "dark")
     /\ lastAlert' = LastAlertAfter(s)
     /\ reported' = reported \cup {[type |-> d.type, about |-> d.about] : d \in Posted(s)}
     /\ IF whole
        THEN /\ previous' = TRUE
             /\ bag' = BagAfter(s)
             /\ tracks' = At(Present(s), Seen) @@ tracks
             /\ entries' = At(Present(s), First) @@ entries
             /\ breached' = breached \cup {t \in Present(s) : Breaches(s, t)}
             /\ crossed' = crossed \cup {t \in Present(s) : Crosses(s, t)}
             /\ loitered' = loitered \cup {t \in Present(s) : Loiters(s, t)}
             /\ vehicles' = VehiclesAfter(s)
        ELSE UNCHANGED <<previous, bag, tracks, entries, breached, crossed,
                         loitered, vehicles>>
     /\ clock' = clock + 1
     /\ UNCHANGED yolo

StaleEntries == {t \in DOMAIN entries : entries[t] < clock - Wait.stale}

\* Mutant: what was told of a track is looked up before its entry is deleted.
Forgotten_First(told) == told \cap StaleEntries

(* What cleanup drops from a set of told tracks: those with a stale entry, *)
(* of which there are none left when it looks.                             *)
Forgotten(told) ==
  {t \in told : t \in DOMAIN entries \ StaleEntries /\ entries[t] < clock - Wait.stale}

(* cleanup *)
Cleanup ==
  LET keep(f, S) == [t \in DOMAIN f \ S |-> f[t]]
      gone == {t \in DOMAIN tracks : tracks[t].time < clock - Wait.stale}
  IN /\ entries' = keep(entries, StaleEntries)
     /\ loitered' = loitered \ Forgotten(loitered)
     /\ breached' = breached \ Forgotten(breached)
     /\ tracks' = keep(tracks, gone)
     /\ bag' = IF bag # NoEntries /\ bag.first < clock - Wait.stale
               THEN NoEntries ELSE bag
     /\ UNCHANGED <<clock, yolo, lastAlert, lights, night, previous, crossed,
                    vehicles, reported>>

\* Nothing is read from the camera for a while.
NoFrame ==
  /\ clock < MaxClock /\ clock' = clock + 1
  /\ UNCHANGED <<yolo, lastAlert, lights, night, previous, entries, tracks,
                 loitered, breached, crossed, bag, vehicles, reported>>

FrameNext == (\E s \in Scenes : ProcessFrame(s)) \/ Cleanup \/ NoFrame

(* The module's head comment lists tampering and tripwires among what the  *)
(* service detects.  It does detect the one, and stamps the very key whose *)
(* cooldown the posting of it then waits for (802-829, 1251-1261); and it  *)
(* compares a position with itself for the other (846-850).  Neither ever  *)
(* reaches the backend.                                                    *)
NeverReported ==
  \A r \in reported : r.type \notin {"tamper", "line_cross"}

\* Told, as far as the worker knows, and not handed to the backend.
Swallowed ==
  {r \in {[type |-> "breach", about |-> <<"breach", t>>] : t \in breached}
        \cup {[type |-> "behavior_anomaly", about |-> <<"loitering", t>>] : t \in loitered} :
     r \notin reported}

(* A breach and a loiterer are remembered as told before the cooldown of   *)
(* their type decides whether they are (1056-1058, 1165-1167, 1258-1261).  *)
(* What it holds back is told never, not later: cleanup forgets nobody     *)
(* (474-495), however long they stay or how often they return.             *)
SwallowedForGood == [][Swallowed \subseteq Swallowed']_frameVars
==============================================================================
