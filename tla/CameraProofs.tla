----------------------------- MODULE CameraProofs -----------------------------
(***************************************************************************)
(* For every scene, every number of tracks, cameras, workers and requests: *)
(* what a camera worker never tells the backend, and which workers run.    *)
(***************************************************************************)
EXTENDS Camera, SequenceTheorems, WellFoundedInduction, TLAPS

-----------------------------------------------------------------------------
(* What the detectors may raise *)

\* Lens tampering is raised only with its key stamped, a crossing never, and a
\* breach or a loiterer once.
Sensible(s, d) ==
  d.raised =>
    /\ d.type # "line_cross"
    /\ d.type = "tamper" => Tampered(s)
    /\ \A t : d.type = "breach" /\ d.about = <<"breach", t>> => t \notin breached
    /\ \A t : d.about = <<"loitering", t>> => t \notin loitered

Types ==
  {"tamper", "behavior_anomaly", "weapon_knife", "animal", "vehicle", "person", "fire",
   "smoke", "abandoned_object", "breach", "face_unknown", "fall", "line_cross", "crowd",
   "traffic_anomaly"}

Kinds ==
  {"frame", "night", "motion", "bag", "breach", "speed", "face", "fall", "cross",
   "group", "loitering"}

Shots(s) ==
  {d \in [type : Types, about : Kinds \X Nat, raised : BOOLEAN] : Sensible(s, d)}

LEMMA Shot ==
  ASSUME NEW s, NEW type \in Types, NEW kind \in Kinds, NEW t \in Nat,
         NEW r \in BOOLEAN,
         r => /\ type # "line_cross"
              /\ type = "tamper" => Tampered(s)
              /\ type = "breach" /\ kind = "breach" => t \notin breached
              /\ kind = "loitering" => t \notin loitered
  PROVE  D(type, <<kind, t>>, r) \in Shots(s)
<1> DEFINE d == D(type, <<kind, t>>, r)
<1>1. /\ d \in [type : Types, about : Kinds \X Nat, raised : BOOLEAN]
      /\ d.type = type /\ d.about = <<kind, t>> /\ d.raised = r
  BY DEF D
<1> HIDE DEF d
<1>2. Sensible(s, d)
  BY <1>1 DEF Sensible
<1>3. QED
  BY <1>1, <1>2 DEF Shots, d

LEMMA TracksAreNumbers == Tracks \subseteq Nat /\ MaxTracks \in Nat
BY FrameAssumption DEF FrameAssumption, Tracks

\* A line is never crossed: the position is compared with itself.
LEMMA NobodyCrosses == \A s, t : ~CrossTold(s, t)
BY DEF CrossTold, Crosses, PreviousSide

Each(type, kind, r) == [t \in Tracks |-> D(type, <<kind, t>>, r[t])]

\* What a detector that looks at one track after the other comes up with.
LEMMA OfTracks ==
  ASSUME NEW s, NEW type \in Types, NEW kind \in Kinds, NEW r \in [Tracks -> BOOLEAN],
         \A t \in Tracks : r[t] =>
            /\ type # "line_cross" /\ type # "tamper"
            /\ type = "breach" /\ kind = "breach" => t \notin breached
            /\ kind = "loitering" => t \notin loitered
  PROVE  Each(type, kind, r) \in Seq(Shots(s))
<1>1. \A t \in Tracks : D(type, <<kind, t>>, r[t]) \in Shots(s)
  <2> TAKE t \in Tracks
  <2>1. PICK b \in BOOLEAN : b = r[t]
    OBVIOUS
  <2>2. t \in Nat
    BY TracksAreNumbers
  <2>3. D(type, <<kind, t>>, b) \in Shots(s)
    BY <2>1, <2>2, Shot, Zenon
  <2>4. QED
    BY <2>1, <2>3
<1>2. PICK f : f = [t \in Tracks |-> D(type, <<kind, t>>, r[t])]
  OBVIOUS
<1>3. f \in [1..MaxTracks -> Shots(s)]
  BY <1>1, <1>2, Zenon DEF Tracks
<1>4. f \in Seq(Shots(s))
  BY <1>3, TracksAreNumbers
<1>5. QED
  BY <1>2, <1>4 DEF Each

LEMMA OfBreaches ==
  \A s : EachTrack(s, "breach", "breach", Breaches) \in Seq(Shots(s))
<1> TAKE s
<1> DEFINE r == [t \in Tracks |-> t \in Present(s) /\ Breaches(s, t)]
<1>1. r \in [Tracks -> BOOLEAN] /\ \A t \in Tracks : r[t] => t \notin breached
  BY DEF Breaches
<1>2. Each("breach", "breach", r) = EachTrack(s, "breach", "breach", Breaches)
  BY DEF Each, EachTrack
<1> HIDE DEF r
<1>3. Each("breach", "breach", r) \in Seq(Shots(s))
  BY <1>1, OfTracks DEF Types, Kinds
<1>4. QED
  BY <1>2, <1>3, Zenon

LEMMA OfSpeeds ==
  \A s : EachTrack(s, "behavior_anomaly", "speed", Speeds) \in Seq(Shots(s))
<1> TAKE s
<1> DEFINE r == [t \in Tracks |-> t \in Present(s) /\ Speeds(s, t)]
<1>1. r \in [Tracks -> BOOLEAN]
  OBVIOUS
<1>2. Each("behavior_anomaly", "speed", r) = EachTrack(s, "behavior_anomaly", "speed", Speeds)
  BY DEF Each, EachTrack
<1> HIDE DEF r
<1>3. Each("behavior_anomaly", "speed", r) \in Seq(Shots(s))
  BY <1>1, OfTracks DEF Types, Kinds
<1>4. QED
  BY <1>2, <1>3, Zenon

LEMMA OfFaces ==
  \A s : EachTrack(s, "face_unknown", "face", Shows) \in Seq(Shots(s))
<1> TAKE s
<1> DEFINE r == [t \in Tracks |-> t \in Present(s) /\ Shows(s, t)]
<1>1. r \in [Tracks -> BOOLEAN]
  OBVIOUS
<1>2. Each("face_unknown", "face", r) = EachTrack(s, "face_unknown", "face", Shows)
  BY DEF Each, EachTrack
<1> HIDE DEF r
<1>3. Each("face_unknown", "face", r) \in Seq(Shots(s))
  BY <1>1, OfTracks DEF Types, Kinds
<1>4. QED
  BY <1>2, <1>3, Zenon

LEMMA OfFalls ==
  \A s : EachTrack(s, "fall", "fall", Falls) \in Seq(Shots(s))
<1> TAKE s
<1> DEFINE r == [t \in Tracks |-> t \in Present(s) /\ Falls(s, t)]
<1>1. r \in [Tracks -> BOOLEAN]
  OBVIOUS
<1>2. Each("fall", "fall", r) = EachTrack(s, "fall", "fall", Falls)
  BY DEF Each, EachTrack
<1> HIDE DEF r
<1>3. Each("fall", "fall", r) \in Seq(Shots(s))
  BY <1>1, OfTracks DEF Types, Kinds
<1>4. QED
  BY <1>2, <1>3, Zenon

LEMMA OfCrossings ==
  \A s : EachTrack(s, "line_cross", "cross", CrossTold) \in Seq(Shots(s))
<1> TAKE s
<1> DEFINE r == [t \in Tracks |-> t \in Present(s) /\ CrossTold(s, t)]
<1>1. r \in [Tracks -> BOOLEAN] /\ \A t \in Tracks : ~r[t]
  BY NobodyCrosses
<1>2. Each("line_cross", "cross", r) = EachTrack(s, "line_cross", "cross", CrossTold)
  BY DEF Each, EachTrack
<1> HIDE DEF r
<1>3. Each("line_cross", "cross", r) \in Seq(Shots(s))
  BY <1>1, OfTracks DEF Types, Kinds
<1>4. QED
  BY <1>2, <1>3, Zenon

LEMMA OfLoiterers ==
  \A s : EachTrack(s, "behavior_anomaly", "loitering", Loiters) \in Seq(Shots(s))
<1> TAKE s
<1> DEFINE r == [t \in Tracks |-> t \in Present(s) /\ Loiters(s, t)]
<1>1. r \in [Tracks -> BOOLEAN] /\ \A t \in Tracks : r[t] => t \notin loitered
  BY DEF Loiters
<1>2. Each("behavior_anomaly", "loitering", r) = EachTrack(s, "behavior_anomaly", "loitering", Loiters)
  BY DEF Each, EachTrack
<1> HIDE DEF r
<1>3. Each("behavior_anomaly", "loitering", r) \in Seq(Shots(s))
  BY <1>1, OfTracks DEF Types, Kinds
<1>4. QED
  BY <1>2, <1>3, Zenon

\* What is seen without tracks.
LEMMA OfAmbient == \A s : Ambient(s) \in Seq(Shots(s))
<1> TAKE s
<1>1. D("tamper", <<"frame", 0>>, Tampered(s)) \in Shots(s)
  <2>1. PICK r \in BOOLEAN : r = Tampered(s)
    BY DEF Tampered
  <2>2. D("tamper", <<"frame", 0>>, r) \in Shots(s)
    <3>1. r => Tampered(s)
      BY <2>1, Zenon
    <3>2. "tamper" \in Types /\ "frame" \in Kinds
      BY DEF Types, Kinds
    <3>3. QED
      BY <3>1, <3>2, Shot, Zenon
  <2>3. QED
    BY <2>1, <2>2, Zenon
<1>2. D("behavior_anomaly", <<"night", 0>>, NightTold(s)) \in Shots(s)
  <2>1. PICK r \in BOOLEAN : r = NightTold(s)
    BY DEF NightTold
  <2>2. D("behavior_anomaly", <<"night", 0>>, r) \in Shots(s)
    <3>1. "behavior_anomaly" \in Types /\ "night" \in Kinds
      BY DEF Types, Kinds
    <3>2. QED
      BY <3>1, Shot, Zenon
  <2>3. QED
    BY <2>1, <2>2, Zenon
<1>3. QED
  BY <1>1, <1>2 DEF Ambient

LEMMA OfObjects == \A s : Recognised(s) \in Seq(Shots(s))
<1> TAKE s
<1>1. /\ DOMAIN Objects = 1..3
      /\ \A i \in 1..3 : Objects[i] \in Types /\ Objects[i] # "line_cross"
                          /\ Objects[i] # "tamper" /\ Objects[i] # "breach"
  BY DEF Objects, Types
<1>2. ASSUME NEW i \in 1..3
      PROVE  D(Objects[i], <<"frame", 0>>, Objects[i] \in s.objects) \in Shots(s)
  <2>1. PICK r \in BOOLEAN : r = (Objects[i] \in s.objects)
    <3>1. (Objects[i] \in s.objects) \in BOOLEAN
      OBVIOUS
    <3>2. QED
      BY <3>1, Zenon
  <2>2. PICK o : o = Objects[i]
    OBVIOUS
  <2>3. D(o, <<"frame", 0>>, r) \in Shots(s)
    BY <1>1, <2>2, Shot DEF Kinds
  <2>4. QED
    BY <2>1, <2>2, <2>3, Zenon
<1>3. PICK f : f = [i \in DOMAIN Objects |->
                      D(Objects[i], <<"frame", 0>>, Objects[i] \in s.objects)]
  OBVIOUS
<1>4. f \in [1..3 -> Shots(s)]
  BY <1>1, <1>2, <1>3
<1>5. QED
  BY <1>3, <1>4 DEF Recognised

\* Everything else has a type of its own that is none of these.
LEMMA OneShot ==
  ASSUME NEW s, NEW type \in Types, NEW kind \in Kinds, NEW r \in BOOLEAN,
         type \notin {"line_cross", "tamper", "breach"}, kind # "loitering"
  PROVE  <<D(type, <<kind, 0>>, r)>> \in Seq(Shots(s))
<1>1. D(type, <<kind, 0>>, r) \in Shots(s)
  BY Shot
<1>2. QED
  BY <1>1

LEMMA Joined ==
  ASSUME NEW S, NEW a \in Seq(S), NEW b \in Seq(S), NEW c \in Seq(S), NEW d \in Seq(S)
  PROVE  a \o b \in Seq(S) /\ a \o b \o c \o d \in Seq(S)
<1>1. a \o b \in Seq(S)
  BY ConcatProperties
<1>2. a \o b \o c \in Seq(S)
  BY <1>1, ConcatProperties
<1>3. QED
  BY <1>1, <1>2, ConcatProperties

LEMMA DetectionsAreShots ==
  ASSUME NEW s \in Scenes
  PROVE  Detections(s) \in Seq(Shots(s))
<1> DEFINE S == Shots(s)
           things == <<D("person", <<"frame", 0>>, Present(s) # {}),
                       D("fire", <<"frame", 0>>, s.fire),
                       D("smoke", <<"frame", 0>>, Smokes(s)),
                       D("abandoned_object", <<"bag", 0>>, BagTold(s))>>
           groups == <<D("crowd", <<"frame", 0>>, Cardinality(Present(s)) >= CrowdSize),
                       D("behavior_anomaly", <<"group", 0>>, Gathers(s))>>
           traffic == <<D("traffic_anomaly", <<"frame", 0>>, TrafficTold(s))>>
           motion == <<D("person", <<"motion", 0>>, Present(s) # {})>>
           breaches == EachTrack(s, "breach", "breach", Breaches)
           speeds == EachTrack(s, "behavior_anomaly", "speed", Speeds)
           faces == EachTrack(s, "face_unknown", "face", Shows)
           falls == EachTrack(s, "fall", "fall", Falls)
           crossings == EachTrack(s, "line_cross", "cross", CrossTold)
           loiterers == EachTrack(s, "behavior_anomaly", "loitering", Loiters)
<1>1. things \in Seq(S) /\ groups \in Seq(S) /\ traffic \in Seq(S) /\ motion \in Seq(S)
  <2>1. /\ {"person", "fire", "smoke", "abandoned_object", "crowd", "behavior_anomaly",
            "traffic_anomaly"} \subseteq Types \ {"line_cross", "tamper", "breach"}
        /\ {"frame", "motion", "bag", "group"} \subseteq Kinds \ {"loitering"}
    BY DEF Types, Kinds
  <2>2. ASSUME NEW type \in Types \ {"line_cross", "tamper", "breach"},
               NEW kind \in Kinds \ {"loitering"}, NEW r \in BOOLEAN
        PROVE  D(type, <<kind, 0>>, r) \in S
    BY Shot
  <2>3. /\ s.fire \in BOOLEAN /\ Smokes(s) \in BOOLEAN /\ BagTold(s) \in BOOLEAN
        /\ Gathers(s) \in BOOLEAN /\ TrafficTold(s) \in BOOLEAN
        /\ (Present(s) # {}) \in BOOLEAN
        /\ (Cardinality(Present(s)) >= CrowdSize) \in BOOLEAN
    BY SceneAssumption DEF SceneAssumption, Smokes, BagTold, Gathers, TrafficTold
  <2> HIDE DEF S
  <2>4. D("person", <<"frame", 0>>, Present(s) # {}) \in S
    BY <2>1, <2>2, <2>3, Zenon
  <2>5. D("fire", <<"frame", 0>>, s.fire) \in S
    BY <2>1, <2>2, <2>3, Zenon
  <2>6. D("smoke", <<"frame", 0>>, Smokes(s)) \in S
    BY <2>1, <2>2, <2>3, Zenon
  <2>7. D("abandoned_object", <<"bag", 0>>, BagTold(s)) \in S
    BY <2>1, <2>2, <2>3, Zenon
  <2>8. D("crowd", <<"frame", 0>>, Cardinality(Present(s)) >= CrowdSize) \in S
    BY <2>1, <2>2, <2>3, Zenon
  <2>9. D("behavior_anomaly", <<"group", 0>>, Gathers(s)) \in S
    BY <2>1, <2>2, <2>3, Zenon
  <2>10. D("traffic_anomaly", <<"frame", 0>>, TrafficTold(s)) \in S
    BY <2>1, <2>2, <2>3, Zenon
  <2>11. D("person", <<"motion", 0>>, Present(s) # {}) \in S
    BY <2>1, <2>2, <2>3, Zenon
  <2>12. QED
    BY <2>4, <2>5, <2>6, <2>7, <2>8, <2>9, <2>10, <2>11
<1>2. /\ Ambient(s) \in Seq(S) /\ Recognised(s) \in Seq(S)
      /\ breaches \in Seq(S) /\ speeds \in Seq(S) /\ faces \in Seq(S) /\ falls \in Seq(S)
      /\ crossings \in Seq(S) /\ loiterers \in Seq(S)
  BY OfAmbient, OfObjects, OfBreaches, OfSpeeds, OfFaces, OfFalls, OfCrossings, OfLoiterers
<1>3. \/ Detections(s) = <<>>
      \/ Detections(s) = Ambient(s) \o motion
      \/ Detections(s) = Ambient(s) \o Recognised(s) \o things \o breaches \o speeds
           \o faces \o falls \o crossings \o groups \o loiterers \o traffic
  BY Zenon DEF Detections
<1> HIDE DEF S, things, groups, traffic, motion, breaches, speeds, faces, falls, crossings,
             loiterers
<1>4. Ambient(s) \o motion \in Seq(S)
  BY <1>1, <1>2, Joined
<1>5. Ambient(s) \o Recognised(s) \o things \o breaches \in Seq(S)
  BY <1>1, <1>2, Joined
<1>6. Ambient(s) \o Recognised(s) \o things \o breaches \o speeds \o faces \o falls
        \in Seq(S)
  BY <1>2, <1>5, Joined
<1>7. Ambient(s) \o Recognised(s) \o things \o breaches \o speeds \o faces \o falls
        \o crossings \o groups \o loiterers \in Seq(S)
  BY <1>1, <1>2, <1>6, Joined
<1>8. Ambient(s) \o Recognised(s) \o things \o breaches \o speeds \o faces \o falls
        \o crossings \o groups \o loiterers \o traffic \in Seq(S)
  BY <1>1, <1>7, Joined
<1>9. <<>> \in Seq(S)
  OBVIOUS
<1>10. Detections(s) \in Seq(S)
  BY <1>3, <1>4, <1>8, <1>9, Zenon
<1>11. QED
  BY <1>10, Zenon DEF S

-----------------------------------------------------------------------------
(* What is posted of it *)

\* Of what is told of a track, only what has not been told before; and no type
\* that a detector has just stamped.
LEMMA PostedIsFresh ==
  ASSUME NEW s \in Scenes, NEW d \in Posted(s)
  PROVE  /\ d.type \notin {"tamper", "line_cross"}
         /\ \A t : [type |-> d.type, about |-> d.about]
                     = [type |-> "breach", about |-> <<"breach", t>>] => t \notin breached
         /\ \A t : [type |-> d.type, about |-> d.about]
                     = [type |-> "behavior_anomaly", about |-> <<"loitering", t>>]
                   => t \notin loitered
<1>1. PICK i \in DOMAIN Detections(s) :
        d = Detections(s)[i] /\ d.raised /\ Free(s, d.type)
  BY DEF Posted
<1>2. d \in Shots(s)
  BY <1>1, DetectionsAreShots
<1>3. Sensible(s, d)
  BY <1>2 DEF Shots
<1>4. d.type # "line_cross" /\ (d.type = "tamper" => Tampered(s))
  BY <1>1, <1>3 DEF Sensible
<1>5. /\ \A t : d.type = "breach" /\ d.about = <<"breach", t>> => t \notin breached
      /\ \A t : d.about = <<"loitering", t>> => t \notin loitered
  BY <1>1, <1>3 DEF Sensible
<1>6. d.type # "tamper"
  BY <1>1, <1>4 DEF Free, Stamped, TamperKey
<1>7. ASSUME NEW type, NEW about,
             [type |-> d.type, about |-> d.about] = [type |-> type, about |-> about]
      PROVE  d.type = type /\ d.about = about
  <2>1. PICK q : q = [type |-> d.type, about |-> d.about]
    OBVIOUS
  <2>2. q.type = d.type /\ q.about = d.about
    BY <2>1
  <2>3. q = [type |-> type, about |-> about]
    BY <2>1, <1>7
  <2>4. QED
    BY <2>2, <2>3
<1>8. QED
  BY <1>4, <1>5, <1>6, <1>7, Zenon

LEMMA ReportedGrows ==
  ASSUME NEW s \in Scenes, ProcessFrame(s), NEW r \in reported' \ reported
  PROVE  \E d \in Posted(s) : r = [type |-> d.type, about |-> d.about]
BY DEF ProcessFrame

\* cleanup looks for stale entries when there are none left.
LEMMA NothingIsForgotten == \A told : Forgotten(told) = {}
BY DEF Forgotten, StaleEntries

-----------------------------------------------------------------------------
(* The theorems *)

\* Neither a covered lens nor a crossed line is ever handed to the backend,
\* whatever the camera shows (app.py:802-829, 846-850, 1251-1261).
THEOREM TamperingIsNeverReported == Spec => []NeverReported
<1>1. Init => NeverReported
  BY DEF Init, FrameInit, NeverReported
<1>2. ASSUME NeverReported, [Next]_vars PROVE NeverReported'
  <2>1. ASSUME NEW s \in Scenes, ProcessFrame(s) PROVE NeverReported'
    <3>1. ASSUME NEW r \in reported' PROVE r.type \notin {"tamper", "line_cross"}
      <4>1. CASE r \in reported
        BY <1>2, <4>1 DEF NeverReported
      <4>2. CASE r \notin reported
        <5>1. PICK d \in Posted(s) : r = [type |-> d.type, about |-> d.about]
          BY <2>1, <4>2, ReportedGrows
        <5>2. r.type = d.type
          BY <5>1
        <5>3. QED
          BY <5>2, PostedIsFresh
      <4>3. QED
        BY <4>1, <4>2
    <3>2. QED
      BY <3>1 DEF NeverReported
  <2>2. CASE UNCHANGED reported
    BY <1>2, <2>2 DEF NeverReported
  <2>3. QED
    BY <1>2, <2>1, <2>2, Zenon
    DEF Next, FrameNext, Cleanup, NoFrame, Serves, frameVars, vars
<1>3. QED
  BY <1>1, <1>2, PTL DEF Spec

\* Who a cooldown once kept from the backend is kept from it for good: a breach
\* and a loiterer are remembered as told before it decides, and never forgotten
\* (app.py:474-495, 1056-1058, 1165-1167, 1258-1261).
THEOREM SwallowedIsNeverTold == Spec => SwallowedForGood
<1>1. ASSUME [Next]_vars PROVE [Swallowed \subseteq Swallowed']_frameVars
  <2>1. ASSUME NEW s \in Scenes, ProcessFrame(s) PROVE Swallowed \subseteq Swallowed'
    <3>1. breached \subseteq breached' /\ loitered \subseteq loitered'
      BY <2>1 DEF ProcessFrame
    <3>2. ASSUME NEW r \in Swallowed PROVE r \notin reported'
      <4>1. \/ \E t \in breached : r = [type |-> "breach", about |-> <<"breach", t>>]
            \/ \E t \in loitered :
                 r = [type |-> "behavior_anomaly", about |-> <<"loitering", t>>]
        BY <3>2 DEF Swallowed
      <4>2. r \notin reported
        BY <3>2 DEF Swallowed
      <4>3. ASSUME r \in reported' PROVE FALSE
        <5>1. PICK d \in Posted(s) : r = [type |-> d.type, about |-> d.about]
          BY <2>1, <4>2, <4>3, ReportedGrows
        <5>2. QED
          BY <4>1, <5>1, PostedIsFresh, Zenon
      <4>4. QED
        BY <4>3
    <3>3. ASSUME NEW r \in Swallowed PROVE r \in Swallowed'
      BY <3>1, <3>2, <3>3 DEF Swallowed
    <3>4. QED
      BY <3>3
  <2>2. CASE UNCHANGED <<loitered, breached, reported>>
    BY <2>2 DEF Swallowed
  <2>3. CASE Cleanup
    BY <2>2, <2>3, NothingIsForgotten DEF Cleanup
  <2>4. QED
    BY <1>1, <2>1, <2>2, <2>3, Zenon DEF Next, FrameNext, NoFrame, Serves, frameVars, vars
<1>2. QED
  BY <1>1, PTL DEF Spec, SwallowedForGood

-----------------------------------------------------------------------------
(* The workers *)

WorkerStates ==
  [running : BOOLEAN, thread : {"none", "opening", "reading", "posting", "ended"},
   silent : BOOLEAN, det : Detected \cup {None}, tries : 0..(RetryMax - 1)]

Waiting == [det : Detected, count : 0..(RetryMax - 1)]
Taken == [det : Detected, count : 1..RetryMax]

LEMMA Constants ==
  /\ RetryMax \in Nat \ {0} /\ BufferMax \in Nat \ {0} /\ Requests \in Nat
  /\ Webcam \in Cameras /\ Workers \subseteq Nat \ {0} /\ Detected \subseteq Nat \ {0}
  /\ None = 0
BY CameraAssumption DEF CameraAssumption, None

\* Among the workers that are left there is a first one.
LEMMA FirstFresh ==
  ASSUME Fresh # {}
  PROVE  (CHOOSE w \in Fresh : \A x \in Fresh : w <= x) \in Fresh
<1>1. Fresh \subseteq Nat
  BY Constants DEF Fresh
<1>2. \E w \in Fresh : \A x \in Fresh : ~(<<x, w>> \in OpToRel(<, Nat))
  BY <1>1, NatLessThanWellFounded, WFMin
<1>3. \A x, w \in Nat : x < w => <<x, w>> \in OpToRel(<, Nat)
  BY DEF OpToRel
<1>4. \E w \in Fresh : \A x \in Fresh : ~(x < w)
  BY <1>1, <1>2, <1>3
<1>5. \E w \in Fresh : \A x \in Fresh : w <= x
  BY <1>1, <1>4
<1>6. QED
  BY <1>5

Sound(w) == worker[w] \in WorkerStates
              /\ (worker[w].thread = "posting" => worker[w].det \in Detected)

\* The part of the state that the requests and the cleanup change.
Kept ==
  /\ registry \in [Cameras -> Workers \cup {None}]
  /\ worker \in [Workers -> WorkerStates] /\ \A w \in Workers : Sound(w)
  /\ asked \in 0..Requests

Sent ==
  /\ buffer \in Seq(Waiting) /\ Len(buffer) <= BufferMax
  /\ retrying \in Seq(Taken) /\ Len(retrying) <= 1
  /\ seen \in SUBSET Detected /\ up \in BOOLEAN

LEMMA Parts == ServiceTypeOK <=> Kept /\ Sent
BY DEF ServiceTypeOK, Kept, Sent, Sound, WorkerStates, Waiting, Taken

LEMMA PartsNext == ServiceTypeOK' <=> Kept' /\ Sent'
BY Parts, PTL

LEMMA SentStays ==
  ASSUME Sent, UNCHANGED <<buffer, retrying, seen, up>>
  PROVE  Sent'
BY DEF Sent

LEMMA StoppedWorkers ==
  ASSUME Kept
  PROVE  \A x \in Workers :
           /\ Stopped(x) \in WorkerStates /\ Stopped(x).running = FALSE
           /\ Stopped(x).thread = "posting" => Stopped(x).det \in Detected
BY DEF Kept, Sound, Stopped, WorkerStates

\* Camera c gets worker w; the one it had is stopped.
LEMMA ReplacedStep ==
  ASSUME Kept, RunningIsRegistered, NEW c \in Cameras, NEW w \in Workers,
         worker' = Replaced(c, w), registry' = [registry EXCEPT ![c] = w],
         asked' \in 0..Requests
  PROVE  Kept' /\ RunningIsRegistered'
<1>1. \A x \in Workers : Stopped(x) \in WorkerStates /\ Stopped(x).running = FALSE
        /\ (Stopped(x).thread = "posting" => Stopped(x).det \in Detected)
  BY StoppedWorkers
<1>2. Started \in WorkerStates /\ Started.thread # "posting"
  <2>1. 0 \in 0..(RetryMax - 1)
    BY Constants
  <2>2. Idle \in WorkerStates
    BY <2>1 DEF Idle, WorkerStates
  <2>3. QED
    BY <2>2 DEF Started, WorkerStates
<1>3. ASSUME NEW x \in Workers
      PROVE  \/ x = w /\ worker'[x] = Started
             \/ x # w /\ x = registry[c] /\ worker'[x] = Stopped(x)
             \/ x # w /\ x # registry[c] /\ worker'[x] = worker[x]
  BY DEF Replaced
<1>4. \A x \in Workers : Sound(x)'
  BY <1>1, <1>2, <1>3 DEF Kept, Sound
<1>5. worker' \in [Workers -> WorkerStates]
  <2>1. worker' = [x \in Workers |-> worker'[x]]
    BY DEF Replaced
  <2>2. \A x \in Workers : worker'[x] \in WorkerStates
    BY <1>4 DEF Sound
  <2>3. QED
    BY <2>1, <2>2
<1>6. registry' \in [Cameras -> Workers \cup {None}]
  BY DEF Kept
<1>7. ASSUME NEW x \in Workers, worker'[x].running
      PROVE  \E e \in Cameras : registry'[e] = x
  <2>1. CASE x = w
    BY <2>1 DEF Kept
  <2>2. CASE x # w /\ x # registry[c] /\ worker'[x] = worker[x]
    <3>1. PICK e \in Cameras : registry[e] = x
      BY <1>7, <2>2 DEF RunningIsRegistered
    <3>2. registry'[e] = x
      BY <2>2, <3>1 DEF Kept
    <3>3. QED
      BY <3>2
  <2>3. QED
    BY <1>1, <1>3, <1>7, <2>1, <2>2
<1>8. QED
  BY <1>4, <1>5, <1>6, <1>7 DEF Kept, RunningIsRegistered

\* A worker goes on without setting its flag.
LEMMA SetStep ==
  ASSUME Kept, RunningIsRegistered, NEW w \in Workers, NEW r \in WorkerStates,
         worker' = [worker EXCEPT ![w] = r], r.running => worker[w].running,
         r.thread = "posting" => r.det \in Detected,
         UNCHANGED <<registry, asked>>
  PROVE  Kept' /\ RunningIsRegistered'
<1>1. worker' \in [Workers -> WorkerStates] /\ worker'[w] = r
      /\ \A x \in Workers : x # w => worker'[x] = worker[x]
  BY DEF Kept
<1>2. \A x \in Workers : Sound(x)'
  BY <1>1 DEF Kept, Sound
<1>3. RunningIsRegistered'
  BY <1>1 DEF RunningIsRegistered
<1>4. QED
  BY <1>1, <1>2, <1>3 DEF Kept

\* Workers of a set S are stopped, and the cameras of C forget theirs.
LEMMA StopStep ==
  ASSUME Kept, RunningIsRegistered, NEW C \in SUBSET Cameras,
         \A c \in Cameras : registry'[c] = IF c \in C THEN None ELSE registry[c],
         \A w \in Workers : worker'[w] = IF \E c \in C : registry[c] = w
                                         THEN Stopped(w) ELSE worker[w],
         registry' = [c \in Cameras |-> registry'[c]],
         worker' = [w \in Workers |-> worker'[w]],
         UNCHANGED asked
  PROVE  Kept' /\ RunningIsRegistered'
<1>1. \A x \in Workers : Stopped(x) \in WorkerStates /\ Stopped(x).running = FALSE
        /\ (Stopped(x).thread = "posting" => Stopped(x).det \in Detected)
  BY StoppedWorkers
<1>2. \A x \in Workers : Sound(x)'
  BY <1>1 DEF Kept, Sound
<1>3. worker' \in [Workers -> WorkerStates]
  <2>1. \A x \in Workers : worker'[x] \in WorkerStates
    BY <1>2 DEF Sound
  <2>2. QED
    BY <2>1
<1>4. registry' \in [Cameras -> Workers \cup {None}]
  <2>1. \A c \in Cameras : registry'[c] \in Workers \cup {None}
    BY DEF Kept
  <2>2. QED
    BY <2>1
<1>5. ASSUME NEW x \in Workers, worker'[x].running
      PROVE  \E e \in Cameras : registry'[e] = x
  <2>1. worker'[x] = worker[x] /\ \A c \in C : registry[c] # x
    BY <1>1, <1>5
  <2>2. PICK e \in Cameras : registry[e] = x
    BY <1>5, <2>1 DEF RunningIsRegistered
  <2>3. registry'[e] = x
    BY <2>1, <2>2
  <2>4. QED
    BY <2>3
<1>6. RunningIsRegistered'
  BY <1>5, Zenon DEF RunningIsRegistered
<1>7. asked' \in 0..Requests
  BY DEF Kept
<1>8. QED
  BY <1>2, <1>3, <1>4, <1>6, <1>7, Zenon DEF Kept

ServiceInv == ServiceTypeOK /\ RunningIsRegistered

LEMMA RequestsStep ==
  ASSUME ServiceInv,
         \/ \E c \in Cameras : AddCamera(c) \/ RemoveCamera(c)
         \/ AskWebcam \/ CreateWebcam \/ CleanupWorkers
  PROVE  ServiceInv'
<1>1. Kept /\ Sent /\ RunningIsRegistered
  BY Parts, Zenon DEF ServiceInv
<1>2. ASSUME NEW c \in Cameras, AddCamera(c) PROVE ServiceInv'
  <2>1. PICK w \in Workers : worker' = Replaced(c, w) /\ registry' = [registry EXCEPT ![c] = w]
    <3>1. Fresh # {} /\ Fresh \subseteq Workers
      BY <1>2 DEF AddCamera, Fresh
    <3>2. QED
      BY <1>2, <3>1, FirstFresh DEF AddCamera
  <2>2. UNCHANGED <<asked, buffer, retrying, seen, up>>
    BY <1>2 DEF AddCamera
  <2>3. Kept' /\ RunningIsRegistered'
    BY <1>1, <2>1, <2>2, ReplacedStep DEF Kept
  <2>4. QED
    BY <1>1, <2>2, <2>3, SentStays, PartsNext DEF ServiceInv
<1>3. ASSUME NEW c \in Cameras, RemoveCamera(c) PROVE ServiceInv'
  <2>1. /\ registry[c] # None /\ registry[c] \in Workers
        /\ worker' = [worker EXCEPT ![registry[c]] = Stopped(registry[c])]
        /\ registry' = [registry EXCEPT ![c] = None]
        /\ UNCHANGED <<asked, buffer, retrying, seen, up>>
    BY <1>1, <1>3 DEF RemoveCamera, Kept
  <2>2. Kept' /\ RunningIsRegistered'
    <3>1. \A e \in Cameras : registry'[e] = IF e \in {c} THEN None ELSE registry[e]
      BY <1>1, <2>1 DEF Kept
    <3>2. \A w \in Workers : worker'[w] = IF \E e \in {c} : registry[e] = w
                                          THEN Stopped(w) ELSE worker[w]
      BY <1>1, <2>1 DEF Kept
    <3>3. registry' = [e \in Cameras |-> registry'[e]]
          /\ worker' = [w \in Workers |-> worker'[w]]
      BY <1>1, <2>1 DEF Kept
    <3>4. {c} \in SUBSET Cameras
      OBVIOUS
    <3>5. QED
      BY <1>1, <2>1, <3>1, <3>2, <3>3, <3>4, StopStep
  <2>3. QED
    BY <1>1, <2>1, <2>2, SentStays, PartsNext DEF ServiceInv
<1>4. CASE AskWebcam
  <2>1. UNCHANGED <<registry, worker, buffer, retrying, seen, up>>
        /\ asked' = asked + 1 /\ asked < Requests
    BY <1>4 DEF AskWebcam
  <2>2. Kept' /\ RunningIsRegistered'
    BY <1>1, <2>1, Constants DEF Kept, Sound, RunningIsRegistered
  <2>3. QED
    BY <1>1, <2>1, <2>2, SentStays, PartsNext DEF ServiceInv
<1>5. CASE CreateWebcam
  <2>1. PICK w \in Workers :
          worker' = Replaced(Webcam, w) /\ registry' = [registry EXCEPT ![Webcam] = w]
    <3>1. Fresh # {} /\ Fresh \subseteq Workers
      BY <1>5 DEF CreateWebcam, Fresh
    <3>2. QED
      BY <1>5, <3>1, FirstFresh DEF CreateWebcam, WebcamWorkers
  <2>2. UNCHANGED <<buffer, retrying, seen, up>> /\ asked' = asked - 1 /\ asked > 0
    BY <1>5 DEF CreateWebcam
  <2>3. asked' \in 0..Requests
    BY <1>1, <2>2, Constants DEF Kept
  <2>4. Kept' /\ RunningIsRegistered'
    BY <1>1, <2>1, <2>3, ReplacedStep, Constants
  <2>5. QED
    BY <1>1, <2>2, <2>4, SentStays, PartsNext DEF ServiceInv
<1>6. CASE CleanupWorkers
  <2> DEFINE stale == {c \in Cameras : registry[c] # None /\ worker[registry[c]].silent
                                         /\ worker[registry[c]].running}
  <2>1. /\ registry' = [c \in Cameras |-> IF c \in stale THEN None ELSE registry[c]]
        /\ worker' = [w \in Workers |-> IF \E c \in stale : registry[c] = w
                                        THEN Stopped(w) ELSE worker[w]]
        /\ UNCHANGED <<asked, buffer, retrying, seen, up>>
    BY <1>6 DEF CleanupWorkers
  <2>2. stale \in SUBSET Cameras
    OBVIOUS
  <2> HIDE DEF stale
  <2>3. Kept' /\ RunningIsRegistered'
    <3>1. /\ \A c \in Cameras : registry'[c] = IF c \in stale THEN None ELSE registry[c]
          /\ \A w \in Workers : worker'[w] = IF \E c \in stale : registry[c] = w
                                             THEN Stopped(w) ELSE worker[w]
      BY <2>1
    <3>2. registry' = [c \in Cameras |-> registry'[c]]
          /\ worker' = [w \in Workers |-> worker'[w]]
      BY <2>1
    <3>3. QED
      BY <1>1, <2>1, <2>2, <3>1, <3>2, StopStep
  <2>4. QED
    BY <1>1, <2>1, <2>3, SentStays, PartsNext DEF ServiceInv
<1>7. QED
  BY <1>2, <1>3, <1>4, <1>5, <1>6

\* The steps of a worker.
LEMMA WorkerStep ==
  ASSUME ServiceInv, NEW w \in Workers,
         \/ WorkerOpens(w) \/ WorkerSilent(w) \/ WorkerEnds(w) \/ WorkerPosts(w)
         \/ \E d \in Detected : WorkerDetects(w, d)
  PROVE  ServiceInv'
<1>1. Kept /\ Sent /\ RunningIsRegistered
  BY Parts, Zenon DEF ServiceInv
<1>2. /\ worker[w] \in WorkerStates
      /\ worker[w].thread = "posting" => worker[w].det \in Detected
  BY <1>1 DEF Kept, Sound
<1>3. ASSUME NEW r \in WorkerStates, Set(w, r), r.running = worker[w].running,
             r.thread = "posting" => r.det \in Detected,
             UNCHANGED <<registry, asked>>
      PROVE  Kept' /\ RunningIsRegistered'
  BY <1>1, <1>3, SetStep DEF Set
<1>4. CASE WorkerOpens(w)
  <2>1. PICK r : r = [worker[w] EXCEPT !.thread = "reading"]
    OBVIOUS
  <2>2. r \in WorkerStates /\ r.running = worker[w].running /\ r.thread = "reading"
    BY <1>2, <2>1 DEF WorkerStates
  <2>3. Set(w, r) /\ UNCHANGED <<registry, asked, buffer, retrying, seen, up>>
    BY <1>4, <2>1 DEF WorkerOpens
  <2>4. QED
    BY <1>1, <1>3, <2>2, <2>3, SentStays, PartsNext DEF ServiceInv
<1>5. CASE WorkerSilent(w)
  <2>1. PICK n \in {"opening", "reading"} :
          Set(w, [worker[w] EXCEPT !.thread = n, !.silent = TRUE])
    BY <1>5 DEF WorkerSilent
  <2>2. PICK r : r = [worker[w] EXCEPT !.thread = n, !.silent = TRUE]
    OBVIOUS
  <2>3. r \in WorkerStates /\ r.running = worker[w].running /\ r.thread # "posting"
    BY <1>2, <2>2 DEF WorkerStates
  <2>4. Set(w, r) /\ UNCHANGED <<registry, asked, buffer, retrying, seen, up>>
    BY <1>5, <2>1, <2>2 DEF WorkerSilent
  <2>5. QED
    BY <1>1, <1>3, <2>3, <2>4, SentStays, PartsNext DEF ServiceInv
<1>6. CASE WorkerEnds(w)
  <2>1. PICK r : r = [worker[w] EXCEPT !.thread = "ended"]
    OBVIOUS
  <2>2. r \in WorkerStates /\ r.running = worker[w].running /\ r.thread = "ended"
    BY <1>2, <2>1 DEF WorkerStates
  <2>3. Set(w, r) /\ UNCHANGED <<registry, asked, buffer, retrying, seen, up>>
    BY <1>6, <2>1 DEF WorkerEnds
  <2>4. QED
    BY <1>1, <1>3, <2>2, <2>3, SentStays, PartsNext DEF ServiceInv
<1>7. ASSUME NEW d \in Detected, WorkerDetects(w, d) PROVE ServiceInv'
  <2>1. PICK r : r = [worker[w] EXCEPT !.thread = "posting", !.silent = FALSE,
                                       !.det = d, !.tries = 0]
    OBVIOUS
  <2>2. 0 \in 0..(RetryMax - 1)
    BY Constants
  <2>3. r \in WorkerStates /\ r.running = worker[w].running /\ r.det = d
    BY <1>2, <2>1, <2>2 DEF WorkerStates
  <2>4. /\ Set(w, r) /\ UNCHANGED <<registry, asked, buffer, retrying, up>>
        /\ seen' = seen \cup {d}
    BY <1>7, <2>1 DEF WorkerDetects
  <2>5. Kept' /\ RunningIsRegistered'
    BY <1>3, <2>3, <2>4
  <2>6. Sent'
    BY <1>1, <2>4 DEF Sent
  <2>7. QED
    BY <2>5, <2>6, PartsNext DEF ServiceInv
<1>8. CASE WorkerPosts(w)
  <2> DEFINE d == worker[w].det
             done == [worker[w] EXCEPT !.thread = "reading", !.det = None]
             more == [worker[w] EXCEPT !.tries = worker[w].tries + 1]
  <2>1. /\ worker[w].thread = "posting" /\ UNCHANGED <<registry, asked, retrying, seen, up>>
        /\ \/ Set(w, done) /\ buffer' = buffer
           \/ worker[w].tries + 1 < RetryMax /\ Set(w, more) /\ buffer' = buffer
           \/ Set(w, done) /\ buffer' = Buffered(d)
    BY <1>8 DEF WorkerPosts
  <2>2. d \in Detected
    BY <1>2, <2>1
  <2>3. done \in WorkerStates /\ done.running = worker[w].running /\ done.thread = "reading"
    BY <1>2 DEF WorkerStates
  <2>4. worker[w].tries + 1 < RetryMax =>
          /\ more \in WorkerStates /\ more.running = worker[w].running
          /\ more.det \in Detected
    <3>1. worker[w].tries \in Nat
      BY <1>2 DEF WorkerStates
    <3>2. worker[w].tries + 1 < RetryMax => worker[w].tries + 1 \in 0..(RetryMax - 1)
      BY <3>1, Constants
    <3>3. QED
      BY <1>2, <2>2, <3>2 DEF WorkerStates
  <2> HIDE DEF d, done, more
  <2>5. Kept' /\ RunningIsRegistered'
    BY <1>3, <2>1, <2>3, <2>4
  <2>6. Sent'
    <3>1. Buffered(d) \in Seq(Waiting) /\ Len(Buffered(d)) <= BufferMax
      <4>1. [det |-> d, count |-> 0] \in Waiting
        BY <2>2, Constants DEF Waiting
      <4>2. PICK r \in Waiting : r = [det |-> d, count |-> 0]
        BY <4>1
      <4>3. Buffered(d) = IF Len(buffer) < BufferMax THEN Append(buffer, r) ELSE buffer
        BY <4>2 DEF Buffered
      <4>4. QED
        BY <1>1, <4>3, Constants DEF Sent
    <3>2. buffer' \in Seq(Waiting) /\ Len(buffer') <= BufferMax
      BY <1>1, <2>1, <3>1 DEF Sent
    <3>3. QED
      BY <1>1, <2>1, <3>2 DEF Sent
  <2>7. QED
    BY <2>5, <2>6, PartsNext DEF ServiceInv
<1>9. QED
  BY <1>4, <1>5, <1>6, <1>7, <1>8

LEMMA RetryTakesStep ==
  ASSUME ServiceInv, RetryTakes
  PROVE  ServiceInv'
<1>1. Kept /\ Sent /\ RunningIsRegistered
  BY Parts, Zenon DEF ServiceInv
<1>2. /\ buffer # <<>> /\ retrying' = <<Counted(Head(buffer))>> /\ buffer' = Tail(buffer)
      /\ UNCHANGED <<registry, worker, asked, seen, up>>
  BY DEF RetryTakes
<1>3. Head(buffer) \in Waiting /\ Tail(buffer) \in Seq(Waiting) /\ Len(Tail(buffer)) <= BufferMax
  BY <1>1, <1>2, Constants DEF Sent
<1>4. Counted(Head(buffer)) \in Taken
  <2>1. PICK h \in Waiting : h = Head(buffer)
    BY <1>3
  <2>2. h.count + 1 \in 1..RetryMax
    BY Constants DEF Waiting
  <2>3. Counted(h) = [det |-> h.det, count |-> h.count + 1]
    BY DEF Counted, Waiting
  <2>4. Counted(h) \in Taken
    BY <2>2, <2>3 DEF Waiting, Taken
  <2>5. QED
    BY <2>1, <2>4
<1>5. retrying' \in Seq(Taken) /\ Len(retrying') <= 1
  <2>1. PICK r \in Taken : r = Counted(Head(buffer))
    BY <1>4
  <2>2. QED
    BY <1>2, <2>1
<1>6. Sent'
  BY <1>1, <1>2, <1>3, <1>5 DEF Sent
<1>7. Kept' /\ RunningIsRegistered'
  BY <1>1, <1>2 DEF Kept, Sound, RunningIsRegistered
<1>8. QED
  BY <1>6, <1>7, PartsNext DEF ServiceInv

\* What goes back has been sent fewer than RetryMax times, and has room.
LEMMA RetryPostsStep ==
  ASSUME ServiceInv, RetryPosts
  PROVE  ServiceInv'
<1> DEFINE room == IF Len(buffer) >= BufferMax THEN Tail(buffer) ELSE buffer
<1>1. Kept /\ Sent /\ RunningIsRegistered
  BY Parts, Zenon DEF ServiceInv
<1>2. /\ retrying # <<>> /\ retrying' = <<>>
      /\ \/ buffer' = buffer
         \/ retrying[1].count < RetryMax /\ buffer' = Append(room, retrying[1])
      /\ UNCHANGED <<registry, worker, asked, seen, up>>
  <2>1. retrying # <<>> /\ retrying[1] \in Taken
    BY <1>1 DEF RetryPosts, Sent
  <2>2. retrying[1].count \in Nat
    BY <2>1 DEF Taken
  <2>3. QED
    BY <2>1, <2>2, Constants DEF RetryPosts
<1>3. retrying[1] \in Taken
  BY <1>1, <1>2 DEF Sent
<1>4. room \in Seq(Waiting) /\ Len(room) < BufferMax
  BY <1>1, Constants DEF Sent
<1> HIDE DEF room
<1>5. retrying[1].count < RetryMax => retrying[1] \in Waiting
  <2>1. PICK r \in Taken : r = retrying[1]
    BY <1>3
  <2>2. r.count < RetryMax => r.count \in 0..(RetryMax - 1)
    BY Constants DEF Taken
  <2>3. r.count < RetryMax => r \in Waiting
    BY <2>2 DEF Taken, Waiting
  <2>4. QED
    BY <2>1, <2>3
<1>6. buffer' \in Seq(Waiting) /\ Len(buffer') <= BufferMax
  <2>1. CASE buffer' = buffer
    BY <1>1, <2>1 DEF Sent
  <2>2. CASE retrying[1].count < RetryMax /\ buffer' = Append(room, retrying[1])
    <3>1. PICK r \in Waiting : r = retrying[1]
      BY <1>5, <2>2
    <3>2. Append(room, r) \in Seq(Waiting) /\ Len(Append(room, r)) <= BufferMax
      BY <1>4, Constants
    <3>3. QED
      BY <2>2, <3>1, <3>2
  <2>3. QED
    BY <1>2, <2>1, <2>2
<1>7. Sent'
  BY <1>1, <1>2, <1>6 DEF Sent
<1>8. Kept' /\ RunningIsRegistered'
  BY <1>1, <1>2 DEF Kept, Sound, RunningIsRegistered
<1>9. QED
  BY <1>7, <1>8, PartsNext DEF ServiceInv

LEMMA ShutdownStep ==
  ASSUME ServiceInv, Shutdown
  PROVE  ServiceInv'
<1> DEFINE Gone(w) == [worker[w] EXCEPT !.running = FALSE,
                         !.thread = IF @ = "none" THEN @ ELSE "ended",
                         !.det = None]
<1>1. Kept /\ Sent
  BY Parts, Zenon DEF ServiceInv
<1>2. /\ up' = FALSE /\ registry' = [c \in Cameras |-> None]
      /\ buffer' = <<>> /\ retrying' = <<>> /\ asked' = 0 /\ seen' = seen
  BY DEF Shutdown
<1>3. worker' = [w \in Workers |-> Gone(w)]
  BY Zenon DEF Shutdown
<1>4. \A w \in Workers : /\ Gone(w) \in WorkerStates /\ Gone(w).running = FALSE
                         /\ Gone(w).thread \in {"none", "ended"}
  BY <1>1 DEF Kept, Sound, WorkerStates
<1> HIDE DEF Gone
<1>5. /\ worker' \in [Workers -> WorkerStates] /\ \A w \in Workers : worker'[w] = Gone(w)
  BY <1>3, <1>4
<1>6. \A w \in Workers : Sound(w)'
  BY <1>4, <1>5 DEF Sound
<1>7. RunningIsRegistered'
  BY <1>4, <1>5 DEF RunningIsRegistered
<1>8. Kept'
  BY <1>2, <1>5, <1>6, Constants DEF Kept
<1>9. Sent'
  <2>1. /\ buffer' \in Seq(Waiting) /\ Len(buffer') = 0
        /\ retrying' \in Seq(Taken) /\ Len(retrying') = 0
    BY <1>2
  <2>2. Len(buffer') <= BufferMax /\ Len(retrying') <= 1
    BY <2>1, Constants
  <2>3. seen' \in SUBSET Detected /\ up' \in BOOLEAN
    BY <1>1, <1>2 DEF Sent
  <2>4. QED
    BY <2>1, <2>2, <2>3, Zenon DEF Sent
<1>10. QED
  BY <1>7, <1>8, <1>9, PartsNext DEF ServiceInv

LEMMA ServiceInvInit == ServiceInit => ServiceInv
<1> SUFFICES ASSUME ServiceInit PROVE ServiceInv
  OBVIOUS
<1>1. Idle \in WorkerStates /\ Idle.running = FALSE /\ Idle.thread = "none"
  <2>1. 0 \in 0..(RetryMax - 1)
    BY Constants
  <2>2. QED
    BY <2>1 DEF Idle, WorkerStates
<1>2. Kept
  <2>1. \A w \in Workers : worker[w] = Idle
    BY DEF ServiceInit
  <2>2. \A w \in Workers : Sound(w)
    BY <1>1, <2>1 DEF Sound
  <2>3. QED
    BY <1>1, <2>2, Constants DEF ServiceInit, Kept
<1>3. Sent
  BY Constants DEF ServiceInit, Sent
<1>4. RunningIsRegistered
  <2>1. \A w \in Workers : worker[w] = Idle
    BY DEF ServiceInit
  <2>2. QED
    BY <1>1, <2>1, Zenon DEF RunningIsRegistered
<1>5. QED
  BY <1>2, <1>3, <1>4, Parts DEF ServiceInv

LEMMA ServiceInvStep == ServiceInv /\ [Next]_vars => ServiceInv'
<1> SUFFICES ASSUME ServiceInv, [Next]_vars PROVE ServiceInv'
  OBVIOUS
<1>1. CASE ServiceNext
  <2>1. ASSUME NEW w \in Workers,
               \/ WorkerOpens(w) \/ WorkerSilent(w) \/ WorkerEnds(w) \/ WorkerPosts(w)
               \/ \E d \in Detected : WorkerDetects(w, d)
        PROVE  ServiceInv'
    BY <2>1, WorkerStep, Zenon
  <2>2. CASE \/ \E c \in Cameras : AddCamera(c) \/ RemoveCamera(c)
             \/ AskWebcam \/ CreateWebcam \/ CleanupWorkers
    BY <2>2, RequestsStep, Zenon
  <2>3. CASE RetryTakes
    BY <2>3, RetryTakesStep, Zenon
  <2>4. CASE RetryPosts
    BY <2>4, RetryPostsStep, Zenon
  <2>5. CASE Shutdown
    BY <2>5, ShutdownStep, Zenon
  <2>6. QED
    BY <1>1, <2>1, <2>2, <2>3, <2>4, <2>5, Zenon DEF ServiceNext
<1>2. CASE UNCHANGED serviceVars
  <2>1. Kept /\ Sent /\ RunningIsRegistered
    BY Parts, Zenon DEF ServiceInv
  <2>2. Kept' /\ Sent' /\ RunningIsRegistered'
    BY <1>2, <2>1, Zenon DEF serviceVars, Kept, Sent, Sound, RunningIsRegistered
  <2>3. QED
    BY <2>2, PartsNext DEF ServiceInv
<1>3. QED
  BY <1>1, <1>2, Zenon DEF Next, Serves, vars

LEMMA ServiceAlways == Spec => []ServiceInv
<1>1. Init => ServiceInv
  BY ServiceInvInit DEF Init
<1>2. QED
  BY <1>1, ServiceInvStep, PTL DEF Spec

\* No detection is posted or repeated more often than RetryMax allows, and the
\* buffer of what failed never outgrows its bound (app.py:238-251, 1285-1296,
\* 1339-1372).
THEOREM ServiceTypeCorrect == Spec => []ServiceTypeOK
<1>1. ServiceInv => ServiceTypeOK
  BY Zenon DEF ServiceInv
<1>2. QED
  BY <1>1, ServiceAlways, PTL

\* A worker whose flag is set is the registry's, however many requests for the
\* webcam pass each other between their two sections (app.py:1409-1445).
THEOREM RunningIsAlwaysRegistered == Spec => []RunningIsRegistered
<1>1. ServiceInv => RunningIsRegistered
  BY Zenon DEF ServiceInv
<1>2. QED
  BY <1>1, ServiceAlways, PTL
==============================================================================
