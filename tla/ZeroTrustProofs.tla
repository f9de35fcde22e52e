--------------------------- MODULE ZeroTrustProofs ---------------------------
(***************************************************************************)
(* For every set of requests and users and every width of the windows:     *)
(* risk alone denies nobody, the rate limit holds, no user is challenged   *)
(* twice within the bus window and the memory of the bus, and no           *)
(* challenged session lacks its challenges.                                *)
(***************************************************************************)
EXTENDS ZeroTrust, FiniteSetTheorems, TLAPS

Pairs == Users \X Kinds

LEMMA RequestType ==
  ASSUME NEW r \in Requests
  PROVE  /\ UserOf[r] \in Users /\ DeviceOf[r] \in Devices
         /\ \A k \in Kinds : <<UserOf[r], k>> \in Pairs
BY ZeroTrustAssumption DEF ZeroTrustAssumption, Pairs

LEMMA RaisedType ==
  ASSUME TypeOK, NEW u \in Users, NEW step \in {MismatchStep} \cup FindingSteps
  PROVE  Raised(u, step) \in 0..1000
<1>1. step \in 0..1000
  BY ZeroTrustAssumption DEF ZeroTrustAssumption
<1>2. risk[u] \in {Unset} \cup 0..1000
  BY DEF TypeOK
<1> DEFINE base == IF risk[u] = Unset THEN 0 ELSE risk[u]
           sum == base + step
<1>3. sum \in Nat
  <2>1. base \in Nat
    <3> DEFINE x == risk[u]
               R == 0..1000
    <3>0. x \in {Unset} \cup R /\ R \subseteq Nat
      BY ONLY <1>2
    <3> HIDE DEF x, R
    <3>1. x \in Nat \/ x = Unset
      BY ONLY <3>0
    <3>2. (IF x = Unset THEN 0 ELSE x) \in Nat
      BY ONLY <3>1
    <3>3. QED
      BY ONLY <3>2 DEF x
  <2> HIDE DEF base
  <2>2. QED
    BY <1>1, <2>1
<1>4. Raised(u, step) = IF 1000 < sum THEN 1000 ELSE sum
  BY DEF Raised, Least
<1> HIDE DEF sum
<1>5. QED
  BY <1>3, <1>4

LEMMA BehaviourType ==
  ASSUME TypeOK, NEW u \in Users
  PROVE  Behaviour(u) \in 0..1000
<1>1. risk[u] \in {Unset} \cup 0..1000
  BY DEF TypeOK
<1>2. QED
  BY <1>1 DEF Behaviour, Unset

LEMMA CountedType ==
  ASSUME TypeOK, NEW r \in Requests
  PROVE  Counted(r) \subseteq Requests
BY RequestType DEF TypeOK, Counted

-----------------------------------------------------------------------------
(* The four ways through Enforce, and the disjuncts of Next. *)

LEMMA Steps ==
  ASSUME [Next]_vars
  PROVE  \/ \E u \in Users : Suspect(u)
         \/ \E u \in Users : ForgetUser(u)
         \/ \E d \in Devices : HealthFail(d)
         \/ \E d \in Devices : ForgetDevice(d)
         \/ \E ip \in Addresses : CriticalIntrusion(ip)
         \/ \E r \in Requests : Decide(r)
         \/ \E r \in Requests, k \in Kinds : SkipChallenge(r, k)
         \/ \E r \in Requests, k \in Kinds : DropChallenge(r, k)
         \/ \E r \in Requests, k \in Kinds : SendChallenge(r, k)
         \/ \E r \in Requests, k \in Kinds : EndChallenge(r, k)
         \/ \E r \in Requests : CreateSession(r)
         \/ OtherThreat
         \/ Tick
         \/ UNCHANGED vars
BY Zenon DEF Next, Enforce

LEMMA TypeInit == Init => TypeOK
BY DEF Init, TypeOK, Unset, Stages

LEMMA StageType ==
  ASSUME NEW k \in Kinds
  PROVE  After(k) \in Stages /\ Waiting(k) \in Stages
BY DEF Kinds, After, Waiting, Stages

LEMMA TypeStep == TypeOK /\ [Next]_vars => TypeOK'
<1>1. SUFFICES ASSUME TypeOK, [Next]_vars PROVE TypeOK'
  OBVIOUS
<1>t. /\ clock \in Nat
      /\ recent \in [Users \X Kinds -> Nat]
      /\ seen \in [Users \X Kinds -> Nat]
      /\ passed \in Nat /\ serial \in [Users \X Kinds -> Nat]
      /\ touched \in [Users \X Kinds -> Nat]
  BY <1>1 DEF TypeOK
<1>2. ASSUME NEW u \in Users, Suspect(u) PROVE TypeOK'
  <2> DEFINE Scores == {Unset} \cup 0..1000
  <2>1. PICK step \in {MismatchStep} \cup FindingSteps :
          risk' = [risk EXCEPT ![u] = Raised(u, step)]
    BY <1>2 DEF Suspect
  <2>2. Raised(u, step) \in Scores
    BY <1>1, RaisedType
  <2>3. risk \in [Users -> Scores]
    BY <1>1 DEF TypeOK
  <2> HIDE DEF Scores
  <2>4. risk' \in [Users -> Scores]
    BY Zenon, <2>1, <2>2, <2>3
  <2>5. /\ clock' = clock /\ attempts' = attempts /\ trust' = trust
        /\ blacklist' = blacklist /\ stage' = stage /\ verdict' = verdict
        /\ decidedAt' = decidedAt /\ recent' = recent /\ seen' = seen
        /\ challenges' = challenges /\ touched' = touched
        /\ passed' = passed /\ serial' = serial
    BY <1>2 DEF Suspect, bus
  <2>6. QED
    BY SMTT(30), <1>1, <2>4, <2>5 DEF TypeOK, Scores
<1>3. ASSUME NEW u \in Users, ForgetUser(u) PROVE TypeOK'
  BY <1>1, <1>3 DEF ForgetUser, TypeOK, bus
<1>4. ASSUME NEW d \in Devices, HealthFail(d) PROVE TypeOK'
  BY <1>1, <1>4 DEF HealthFail, TypeOK, bus
<1>5. ASSUME NEW d \in Devices, ForgetDevice(d) PROVE TypeOK'
  BY <1>1, <1>5 DEF ForgetDevice, TypeOK, bus
<1>6. ASSUME NEW ip \in Addresses, CriticalIntrusion(ip) PROVE TypeOK'
  BY <1>1, <1>6 DEF CriticalIntrusion, TypeOK, bus
<1>7. ASSUME NEW r \in Requests, Decide(r) PROVE TypeOK'
  <2>1. attempts' \in [Users -> SUBSET Requests]
    BY <1>1, <1>7, CountedType, RequestType DEF Decide, TypeOK
  <2>2. PICK v \in Verdicts :
          /\ verdict' = [verdict EXCEPT ![r] = v]
          /\ stage' = [stage EXCEPT ![r] =
                         IF v \in Challenged THEN "mfa" ELSE "enforced"]
    BY <1>7 DEF Decide
  <2>3. /\ verdict' \in [Requests -> Verdicts \cup {"none"}]
        /\ stage' \in [Requests -> Stages]
    BY <1>1, <2>2 DEF TypeOK, Stages
  <2>4. decidedAt' \in [Requests -> Nat]
    BY <1>1, <1>7 DEF Decide, TypeOK
  <2>5. QED
    BY <1>1, <1>7, <2>1, <2>3, <2>4 DEF Decide, TypeOK, bus
<1>8. ASSUME NEW r \in Requests, NEW k \in Kinds, SkipChallenge(r, k)
      PROVE TypeOK'
  BY <1>1, <1>8, StageType DEF SkipChallenge, TypeOK, policy, bus
<1>9. ASSUME NEW r \in Requests, NEW k \in Kinds, DropChallenge(r, k)
      PROVE TypeOK'
  <2>1. recent' \in [Users \X Kinds -> Nat]
    BY Zenon, <1>t, <1>9 DEF DropChallenge
  <2>2. stage' \in [Requests -> Stages]
    BY <1>1, <1>9, StageType DEF DropChallenge, TypeOK
  <2>3. /\ clock' = clock /\ attempts' = attempts /\ risk' = risk /\ trust' = trust
        /\ blacklist' = blacklist /\ verdict' = verdict /\ decidedAt' = decidedAt
        /\ seen' = seen /\ challenges' = challenges /\ touched' = touched
        /\ passed' = passed /\ serial' = serial
    BY Zenon, <1>9 DEF DropChallenge, policy, bus
  <2>4. QED
    BY SMTT(30), <1>1, <2>1, <2>2, <2>3 DEF TypeOK
<1>10. ASSUME NEW r \in Requests, NEW k \in Kinds, SendChallenge(r, k)
       PROVE TypeOK'
  <2>0. passed' \in Nat
    BY <1>t, <1>10 DEF SendChallenge
  <2>1. /\ seen' \in [Users \X Kinds -> Nat]
        /\ serial' \in [Users \X Kinds -> Nat]
        /\ touched' \in [Users \X Kinds -> Nat]
    BY Zenon, <1>t, <1>10, <2>0 DEF SendChallenge
  <2>2. stage' \in [Requests -> Stages]
    BY <1>1, <1>10, StageType DEF SendChallenge, TypeOK
  <2>3. challenges' \subseteq Challenge
    BY <1>1, <1>10, <2>0 DEF SendChallenge, TypeOK, Challenge
  <2>4. /\ clock' = clock /\ attempts' = attempts /\ risk' = risk /\ trust' = trust
        /\ blacklist' = blacklist /\ verdict' = verdict /\ decidedAt' = decidedAt
        /\ recent' = recent
    BY Zenon, <1>10 DEF SendChallenge, policy
  <2>5. QED
    BY SMTT(30), <1>1, <2>0, <2>1, <2>2, <2>3, <2>4 DEF TypeOK
<1>11. ASSUME NEW r \in Requests, NEW k \in Kinds, EndChallenge(r, k)
       PROVE TypeOK'
  <2>1. /\ recent' \in [Users \X Kinds -> Nat]
        /\ touched' \in [Users \X Kinds -> Nat]
    BY Zenon, <1>t, <1>11 DEF EndChallenge
  <2>2. stage' \in [Requests -> Stages]
    BY <1>1, <1>11, StageType DEF EndChallenge, TypeOK
  <2>3. /\ clock' = clock /\ attempts' = attempts /\ risk' = risk /\ trust' = trust
        /\ blacklist' = blacklist /\ verdict' = verdict /\ decidedAt' = decidedAt
        /\ seen' = seen /\ challenges' = challenges
        /\ passed' = passed /\ serial' = serial
    BY Zenon, <1>11 DEF EndChallenge, policy
  <2>4. QED
    BY SMTT(30), <1>1, <2>1, <2>2, <2>3 DEF TypeOK
<1>12. ASSUME NEW r \in Requests, CreateSession(r) PROVE TypeOK'
  BY <1>1, <1>12 DEF CreateSession, TypeOK, policy, bus, Stages
<1>13. CASE Tick
  BY <1>1, <1>13 DEF Tick, TypeOK, policy, bus
<1>14. CASE UNCHANGED vars
  BY <1>1, <1>14 DEF vars, TypeOK, policy, bus
<1>15. CASE OtherThreat
  BY <1>1, <1>15 DEF OtherThreat, TypeOK, policy
<1>16. QED
  BY <1>1, <1>2, <1>3, <1>4, <1>5, <1>6, <1>7, <1>8, <1>9, <1>10, <1>11,
     <1>12, <1>13, <1>14, <1>15, Steps

(* Every variable of the PDP and the PEP keeps its type (zero_trust_pdp.py   *)
(* and zero_trust_pep.py), for any requests and any windows.                 *)
THEOREM TypeCorrect == Spec => []TypeOK
BY TypeInit, TypeStep, PTL DEF Spec

-----------------------------------------------------------------------------
(* What Evaluates can answer, as arithmetic. *)

LEMMA WeightedSum ==
  ASSUME NEW t \in Int, t <= 500, NEW n \in Int, n <= 500, NEW l \in Int, l <= 600,
         NEW b \in Int, b <= 1000, NEW p \in Int, p <= 5000
  PROVE  /\ 25 * 200 + 20 * t + 15 * n + 15 * l + 15 * b + p \in Int
         /\ 25 * 200 + 20 * t + 15 * n + 15 * l + 15 * b + p <= 46500 + p
OBVIOUS

LEMMA ScoreBound ==
  ASSUME TypeOK, NEW r \in Requests
  PROVE  /\ RiskScore(r) \in Int
         /\ RiskScore(r) <= 51500
         /\ Role[r] # "privileged" => RiskScore(r) <= 46500
<1>0. trust \in [Devices -> {0, 500}] /\ DeviceOf[r] \in Devices
  BY RequestType DEF TypeOK
<1>1. trust[DeviceOf[r]] \in Int /\ trust[DeviceOf[r]] <= 500
  <2>1. trust[DeviceOf[r]] \in {0, 500}
    BY ONLY <1>0
  <2>2. QED
    BY ONLY <2>1
<1>2. /\ Network[r] \in Int /\ Network[r] <= 500
      /\ Location[r] \in Int /\ Location[r] <= 600
  BY ZeroTrustAssumption DEF ZeroTrustAssumption
<1>3. Behaviour(UserOf[r]) \in Int /\ Behaviour(UserOf[r]) <= 1000
  BY RequestType, BehaviourType
<1>4. CASE Role[r] = "privileged"
  <2>1. RiskScore(r) = 25 * 200 + 20 * trust[DeviceOf[r]] + 15 * Network[r]
          + 15 * Location[r] + 15 * Behaviour(UserOf[r]) + 5000
    BY <1>4 DEF RiskScore
  <2>2. QED
    BY <1>1, <1>2, <1>3, <1>4, <2>1, WeightedSum
<1>5. CASE Role[r] # "privileged"
  <2>1. RiskScore(r) = 25 * 200 + 20 * trust[DeviceOf[r]] + 15 * Network[r]
          + 15 * Location[r] + 15 * Behaviour(UserOf[r]) + 0
    BY <1>5 DEF RiskScore
  <2>2. QED
    BY <1>1, <1>2, <1>3, <2>1, WeightedSum
<1>6. QED
  BY <1>4, <1>5

LEMMA Harmless ==
  ASSUME TypeOK, NEW r \in Requests, NEW v \in Verdicts, Evaluates(r, v)
  PROVE  /\ v \notin {"high", "critical"}
         /\ v = "medium" => Role[r] = "privileged"
<1>1. CASE Level(RiskScore(r), v)
  <2> DEFINE score == RiskScore(r)
  <2>1. /\ score \in Int /\ score <= 51500
        /\ Role[r] # "privileged" => score <= 46500
    BY ScoreBound
  <2>2. Level(score, v)
    BY <1>1
  <2> HIDE DEF score
  <2>3. QED
    BY ONLY <2>1, <2>2 DEF Level
<1>2. CASE v \in {"rate", "error", "blacklist"}
  BY <1>2
<1>3. Level(RiskScore(r), v) \/ v \in {"rate", "error", "blacklist"}
  BY Zenon DEF Evaluates
<1>4. QED
  BY <1>1, <1>2, <1>3

LEMMA RiskStep == TypeOK /\ RiskNeverDenies /\ [Next]_vars => RiskNeverDenies'
<1>1. SUFFICES ASSUME TypeOK, RiskNeverDenies, [Next]_vars PROVE RiskNeverDenies'
  OBVIOUS
<1>2. ASSUME NEW r \in Requests, Decide(r) PROVE RiskNeverDenies'
  <2>1. PICK v \in Verdicts : Evaluates(r, v) /\ verdict' = [verdict EXCEPT ![r] = v]
    BY <1>2 DEF Decide
  <2>2. /\ v \notin {"high", "critical"}
        /\ v = "medium" => Role[r] = "privileged"
    BY <1>1, <2>1, Harmless
  <2>3. \A q \in Requests : verdict'[q] = IF q = r THEN v ELSE verdict[q]
    BY <1>1, <2>1 DEF TypeOK
  <2>4. QED
    BY <1>1, <2>2, <2>3 DEF RiskNeverDenies
<1>3. ASSUME UNCHANGED verdict PROVE RiskNeverDenies'
  BY <1>1, <1>3 DEF RiskNeverDenies
<1>4. QED
  BY <1>1, <1>2, <1>3, Steps
  DEF Suspect, ForgetUser, HealthFail, ForgetDevice, CriticalIntrusion,
      SkipChallenge, DropChallenge, SendChallenge, EndChallenge, CreateSession,
      OtherThreat, Tick, vars

(* No request is denied for its risk, and only privileged roles are ever     *)
(* challenged: the weights of zero_trust_pdp.py:411-442 keep every score the *)
(* program can produce below the thresholds.                                 *)
THEOREM RiskHasNoTeeth == Spec => []RiskNeverDenies
<1>1. Init => RiskNeverDenies
  BY DEF Init, RiskNeverDenies
<1>2. QED
  BY <1>1, RiskStep, TypeCorrect, PTL DEF Spec

-----------------------------------------------------------------------------
(* Challenges.  The bus and the PEP's list both know when one was last under *)
(* way.                                                                      *)

\* Request r has its challenge k behind it.
Past(r, k) ==
  \/ stage[r] \in {"enforced", "done"}
  \/ k = "mfa" /\ stage[r] \in {"stepup", "stepup wait"}

Times ==
  /\ clock >= 1
  /\ \A r \in Requests : decidedAt[r] <= clock
  /\ \A p \in Pairs :
       /\ seen[p] <= touched[p]
       /\ touched[p] <= clock
       /\ recent[p] <= clock

\* What the PEP remembers as executed was sent at most a bus window earlier.
Remembered ==
  \A p \in Pairs :
    recent[p] > 0 => touched[p] > 0 /\ touched[p] > recent[p] - BusWindow

\* What the bus let through, it still knows.
LetThrough ==
  /\ \A p \in Pairs : serial[p] <= passed
  /\ \A c \in challenges :
       /\ 1 <= c.at /\ c.at <= seen[<<UserOf[c.by], c.kind>>]
       /\ c.no <= serial[<<UserOf[c.by], c.kind>>]

Served(r, k) ==
  LET p == <<UserOf[r], k>>
  IN  touched[p] > 0 /\ touched[p] > decidedAt[r] - DedupWindow - BusWindow

ServedWhenPast ==
  \A r \in Requests, k \in Kinds :
    verdict[r] \in Challenged /\ Past(r, k) => Served(r, k)

ChallengeInv == Times /\ Remembered /\ LetThrough /\ ServedWhenPast

LEMMA Windows ==
  /\ RateWindow \in Nat /\ DedupWindow \in Nat /\ BusWindow \in Nat /\ BusWindow >= 1
  /\ BusCapacity \in Nat
BY ZeroTrustAssumption DEF ZeroTrustAssumption

LEMMA PairTypes ==
  ASSUME TypeOK, NEW p \in Pairs
  PROVE  seen[p] \in Nat /\ touched[p] \in Nat /\ recent[p] \in Nat /\ serial[p] \in Nat
BY DEF TypeOK, Pairs

LEMMA TimesStep == TypeOK /\ Times /\ [Next]_vars => Times'
<1>1. SUFFICES ASSUME TypeOK, Times, [Next]_vars PROVE Times'
  OBVIOUS
<1>2. clock \in Nat /\ decidedAt \in [Requests -> Nat]
  BY <1>1 DEF TypeOK
<1>3. ASSUME UNCHANGED <<clock, decidedAt, recent, seen, touched>> PROVE Times'
  BY <1>1, <1>3 DEF Times
<1>4. ASSUME NEW r \in Requests, Decide(r) PROVE Times'
  BY <1>1, <1>2, <1>4 DEF Decide, Times, bus
<1>5. ASSUME NEW r \in Requests, NEW k \in Kinds, DropChallenge(r, k) PROVE Times'
  BY <1>1, <1>2, <1>5 DEF DropChallenge, Times, bus, TypeOK, Pairs
<1>6. ASSUME NEW r \in Requests, NEW k \in Kinds, SendChallenge(r, k) PROVE Times'
  BY <1>1, <1>2, <1>6 DEF SendChallenge, Times, TypeOK, Pairs
<1>7. ASSUME NEW r \in Requests, NEW k \in Kinds, EndChallenge(r, k) PROVE Times'
  BY <1>1, <1>2, <1>7 DEF EndChallenge, Times, TypeOK, Pairs
<1>8. ASSUME Tick PROVE Times'
  <2>1. clock' = clock + 1 /\ UNCHANGED <<decidedAt, recent, seen, touched>>
    BY <1>8 DEF Tick, bus
  <2>2. QED
    BY <1>1, <1>2, <2>1, PairTypes DEF Times
<1>9. ASSUME \/ \E u \in Users : Suspect(u) \/ ForgetUser(u)
             \/ \E d \in Devices : HealthFail(d) \/ ForgetDevice(d)
             \/ \E ip \in Addresses : CriticalIntrusion(ip)
      PROVE  Times'
  <2>1. UNCHANGED <<clock, decidedAt, recent, bus>>
    BY Zenon, <1>9
    DEF Suspect, ForgetUser, HealthFail, ForgetDevice, CriticalIntrusion
  <2>2. QED
    BY <1>3, <2>1 DEF bus
<1>10. ASSUME \/ \E r \in Requests, k \in Kinds : SkipChallenge(r, k)
              \/ \E r \in Requests : CreateSession(r)
              \/ OtherThreat
              \/ UNCHANGED vars
       PROVE  Times'
  BY Zenon, <1>3, <1>10 DEF SkipChallenge, CreateSession, OtherThreat, vars, bus
<1>11. QED
  BY Zenon, <1>1, <1>4, <1>5, <1>6, <1>7, <1>8, <1>9, <1>10, Steps

LEMMA RememberedStep ==
  TypeOK /\ Times /\ Remembered /\ [Next]_vars => Remembered'
<1>1. SUFFICES ASSUME TypeOK, Times, Remembered, [Next]_vars,
                      NEW p \in Pairs, recent'[p] > 0
               PROVE  touched'[p] > 0 /\ touched'[p] > recent'[p] - BusWindow
  BY DEF Remembered
<1>2. /\ clock \in Nat /\ clock >= 1
      /\ seen[p] \in Nat /\ touched[p] \in Nat /\ recent[p] \in Nat
      /\ seen[p] <= touched[p] /\ recent[p] <= clock
  BY <1>1, PairTypes DEF TypeOK, Times
<1>3. ASSUME UNCHANGED <<recent, touched>>
      PROVE  touched'[p] > 0 /\ touched'[p] > recent'[p] - BusWindow
  BY <1>1, <1>3 DEF Remembered
<1>4. ASSUME NEW r \in Requests, NEW k \in Kinds, DropChallenge(r, k)
      PROVE  touched'[p] > 0 /\ touched'[p] > recent'[p] - BusWindow
  <2>1. /\ recent' = [recent EXCEPT ![<<UserOf[r], k>>] = clock]
        /\ touched' = touched
        /\ seen[<<UserOf[r], k>>] > 0
        /\ clock - seen[<<UserOf[r], k>>] < BusWindow
    BY <1>4 DEF DropChallenge, DropsChallenge, Fresh, bus
  <2>2. CASE p = <<UserOf[r], k>>
    <3>1. recent'[p] = clock
      BY <1>1, <2>1, <2>2 DEF TypeOK, Pairs
    <3>2. QED
      BY <1>2, <2>1, <2>2, <3>1, Windows
  <2>3. CASE p # <<UserOf[r], k>>
    <3>1. recent'[p] = recent[p]
      BY <1>1, <2>1, <2>3 DEF TypeOK, Pairs
    <3>2. QED
      BY <1>1, <2>1, <3>1 DEF Remembered
  <2>4. QED
    BY <2>2, <2>3
<1>5. ASSUME NEW r \in Requests, NEW k \in Kinds, SendChallenge(r, k)
      PROVE  touched'[p] > 0 /\ touched'[p] > recent'[p] - BusWindow
  <2>1. recent' = recent /\ touched' = [touched EXCEPT ![<<UserOf[r], k>>] = clock]
    BY <1>5 DEF SendChallenge
  <2>2. touched'[p] = clock \/ touched'[p] = touched[p]
    BY <1>1, <2>1 DEF TypeOK, Pairs
  <2>3. CASE touched'[p] = clock
    BY <1>2, <2>1, <2>3, Windows
  <2>4. CASE touched'[p] = touched[p]
    BY <1>1, <2>1, <2>4 DEF Remembered
  <2>5. QED
    BY <2>2, <2>3, <2>4
<1>6. ASSUME NEW r \in Requests, NEW k \in Kinds, EndChallenge(r, k)
      PROVE  touched'[p] > 0 /\ touched'[p] > recent'[p] - BusWindow
  <2>1. /\ recent' = [recent EXCEPT ![<<UserOf[r], k>>] = clock]
        /\ touched' = [touched EXCEPT ![<<UserOf[r], k>>] = clock]
    BY <1>6 DEF EndChallenge
  <2>2. \/ recent'[p] = clock /\ touched'[p] = clock
        \/ recent'[p] = recent[p] /\ touched'[p] = touched[p]
    BY <1>1, <2>1 DEF TypeOK, Pairs
  <2>3. CASE recent'[p] = clock /\ touched'[p] = clock
    BY <1>2, <2>3, Windows
  <2>4. CASE recent'[p] = recent[p] /\ touched'[p] = touched[p]
    BY <1>1, <2>4 DEF Remembered
  <2>5. QED
    BY <2>2, <2>3, <2>4
<1>7. QED
  BY <1>1, <1>3, <1>4, <1>5, <1>6, Steps
  DEF Suspect, ForgetUser, HealthFail, ForgetDevice, CriticalIntrusion, Decide,
      SkipChallenge, CreateSession, OtherThreat, Tick, vars, bus

LEMMA LetThroughStep ==
  TypeOK /\ Times /\ LetThrough /\ [Next]_vars => LetThrough'
<1>1. SUFFICES ASSUME TypeOK, Times, LetThrough, [Next]_vars PROVE LetThrough'
  OBVIOUS
<1>2. ASSUME UNCHANGED <<passed, seen, serial, challenges>> PROVE LetThrough'
  BY <1>1, <1>2 DEF LetThrough
<1>0. ASSUME OtherThreat PROVE LetThrough'
  <2>1. passed' = passed + 1 /\ passed \in Nat /\ UNCHANGED <<seen, serial, challenges>>
    BY <1>1, <1>0 DEF OtherThreat, TypeOK
  <2>2. \A p \in Pairs : serial'[p] <= passed'
    BY <1>1, <2>1, PairTypes DEF LetThrough
  <2>3. QED
    BY <1>1, <2>1, <2>2 DEF LetThrough
<1>3. ASSUME NEW r \in Requests, NEW k \in Kinds, SendChallenge(r, k)
      PROVE  LetThrough'
  <2> DEFINE p == <<UserOf[r], k>>
             new == [by |-> r, kind |-> k, at |-> clock, no |-> passed + 1]
  <2>1. /\ seen' = [seen EXCEPT ![p] = clock]
        /\ passed' = passed + 1
        /\ serial' = [serial EXCEPT ![p] = passed + 1]
        /\ challenges' = challenges \cup {new}
    BY <1>3 DEF SendChallenge
  <2>3. /\ clock \in Nat /\ clock >= 1 /\ p \in Pairs /\ passed \in Nat
        /\ seen[p] \in Nat /\ seen[p] <= clock
        /\ serial[p] \in Nat /\ serial[p] <= passed
    BY <1>1, RequestType, PairTypes DEF TypeOK, Times, LetThrough
  <2>4. seen'[p] = clock /\ serial'[p] = passed + 1
    BY <1>1, <2>1, <2>3 DEF TypeOK, Pairs
  <2>9. ASSUME NEW q \in Pairs PROVE serial'[q] <= passed'
    <3>1. serial[q] \in Nat /\ serial[q] <= passed
      BY <1>1, <2>9, PairTypes DEF LetThrough
    <3>2. serial'[q] = passed + 1 \/ serial'[q] = serial[q]
      BY <1>1, <2>1, <2>9 DEF TypeOK, Pairs
    <3>3. QED
      BY <2>1, <2>3, <3>1, <3>2
  <2>2. SUFFICES ASSUME NEW c \in challenges'
                 PROVE  /\ 1 <= c.at /\ c.at <= seen'[<<UserOf[c.by], c.kind>>]
                        /\ c.no <= serial'[<<UserOf[c.by], c.kind>>]
    BY <2>9 DEF LetThrough
  <2>5. CASE c = new
    BY <2>3, <2>4, <2>5
  <2>6. CASE c \in challenges
    <3> DEFINE q == <<UserOf[c.by], c.kind>>
    <3>1. c.at \in Nat /\ c.no \in Nat /\ q \in Pairs
      BY <1>1, <2>6, RequestType DEF TypeOK, Challenge
    <3>2. 1 <= c.at /\ c.at <= seen[q] /\ c.no <= serial[q]
      BY <1>1, <2>6 DEF LetThrough
    <3>3. CASE q = p
      BY <2>3, <2>4, <3>1, <3>2, <3>3
    <3>4. CASE q # p
      <4>1. seen'[q] = seen[q] /\ serial'[q] = serial[q]
        BY <1>1, <2>1, <3>1, <3>4 DEF TypeOK, Pairs
      <4>2. QED
        BY <3>2, <4>1
    <3>5. QED
      BY <3>3, <3>4
  <2>7. QED
    BY <2>1, <2>5, <2>6
<1>4. ASSUME \/ \E u \in Users : Suspect(u) \/ ForgetUser(u)
             \/ \E d \in Devices : HealthFail(d) \/ ForgetDevice(d)
             \/ \E ip \in Addresses : CriticalIntrusion(ip)
             \/ \E r \in Requests : Decide(r) \/ CreateSession(r)
      PROVE  LetThrough'
  <2>1. UNCHANGED bus
    BY Zenon, <1>4
    DEF Suspect, ForgetUser, HealthFail, ForgetDevice, CriticalIntrusion, Decide,
        CreateSession
  <2>2. QED
    BY <1>2, <2>1 DEF bus
<1>5. ASSUME \/ \E r \in Requests, k \in Kinds : SkipChallenge(r, k)
             \/ \E r \in Requests, k \in Kinds : DropChallenge(r, k)
             \/ \E r \in Requests, k \in Kinds : EndChallenge(r, k)
             \/ Tick
             \/ UNCHANGED vars
      PROVE  LetThrough'
  <2>1. UNCHANGED <<passed, seen, serial, challenges>>
    BY Zenon, <1>5 DEF SkipChallenge, DropChallenge, EndChallenge, Tick, vars, bus
  <2>2. QED
    BY <1>2, <2>1
<1>6. QED
  BY Zenon, <1>1, <1>0, <1>3, <1>4, <1>5, Steps

(* A challenge is put behind a request only by the step that ends it.       *)
LEMMA JustPast ==
  ASSUME TypeOK, NEW q \in Requests, NEW j \in Kinds,
         stage[q] \in {j, Waiting(j)},
         stage' = [stage EXCEPT ![q] = After(j)],
         NEW r \in Requests, NEW k \in Kinds, Past(r, k)', ~Past(r, k)
  PROVE  q = r /\ j = k
<1>1. stage \in [Requests -> Stages]
  BY DEF TypeOK
<1>2. q = r
  <2>1. ASSUME q # r PROVE FALSE
    <3>1. stage'[r] = stage[r]
      BY <1>1, <2>1
    <3>2. Past(r, k)' <=> Past(r, k)
      BY <3>1, Zenon DEF Past
    <3>3. QED
      BY <3>2
  <2>2. QED
    BY <2>1
<1>3. stage'[r] = After(j)
  BY <1>1, <1>2
<1>4. CASE j = "mfa"
  <2>1. stage'[r] = "stepup"
    BY <1>3, <1>4 DEF After
  <2>2. k = "mfa"
    BY <2>1 DEF Past
  <2>3. QED
    BY <1>2, <1>4, <2>2
<1>5. CASE j = "stepup"
  <2>1. stage[r] \in {"stepup", "stepup wait"}
    BY <1>2, <1>5 DEF Waiting
  <2>2. k # "mfa"
    BY <2>1 DEF Past
  <2>3. QED
    BY <1>2, <1>5, <2>2 DEF Kinds
<1>6. QED
  BY <1>4, <1>5 DEF Kinds

LEMMA ServedStep ==
  TypeOK /\ Times /\ Remembered /\ ServedWhenPast /\ [Next]_vars => ServedWhenPast'
<1>1. SUFFICES ASSUME TypeOK, Times, Remembered, ServedWhenPast, [Next]_vars,
                      NEW r \in Requests, NEW k \in Kinds,
                      verdict'[r] \in Challenged, Past(r, k)'
               PROVE  Served(r, k)'
  BY DEF ServedWhenPast
<1> DEFINE p == <<UserOf[r], k>>
<1>2. /\ p \in Pairs /\ clock \in Nat /\ clock >= 1
      /\ decidedAt[r] \in Nat /\ decidedAt[r] <= clock
      /\ seen[p] \in Nat /\ touched[p] \in Nat /\ recent[p] \in Nat
      /\ seen[p] <= touched[p] /\ touched[p] <= clock /\ recent[p] <= clock
  BY <1>1, RequestType, PairTypes DEF TypeOK, Times
<1>3. ASSUME UNCHANGED decidedAt, verdict'[r] = verdict[r], Past(r, k),
             touched'[p] = touched[p] \/ touched'[p] = clock
      PROVE  Served(r, k)'
  <2>1. touched[p] > 0 /\ touched[p] > decidedAt[r] - DedupWindow - BusWindow
    BY <1>1, <1>3 DEF ServedWhenPast, Served
  <2>2. touched'[p] > 0 /\ touched'[p] > decidedAt'[r] - DedupWindow - BusWindow
    BY <1>2, <1>3, <2>1, Windows
  <2>3. QED
    BY <2>2 DEF Served
<1>4. ASSUME UNCHANGED <<decidedAt, verdict, stage, touched>> PROVE Served(r, k)'
  BY <1>1, <1>4, <1>3 DEF Past
<1>5. ASSUME NEW q \in Requests, Decide(q) PROVE Served(r, k)'
  <2>1. PICK v \in Verdicts :
          /\ verdict' = [verdict EXCEPT ![q] = v]
          /\ stage' = [stage EXCEPT ![q] =
                         IF v \in Challenged THEN "mfa" ELSE "enforced"]
    BY <1>5 DEF Decide
  <2>2. q # r
    <3>1. SUFFICES ASSUME q = r PROVE FALSE
      OBVIOUS
    <3>2. verdict'[r] = v /\ v \in Challenged
      BY <1>1, <2>1, <3>1 DEF TypeOK
    <3>3. stage'[r] = "mfa"
      BY <1>1, <2>1, <3>1, <3>2 DEF TypeOK
    <3>4. QED
      BY <1>1, <3>3 DEF Past
  <2>3. /\ verdict'[r] = verdict[r] /\ stage'[r] = stage[r]
        /\ decidedAt'[r] = decidedAt[r] /\ touched' = touched
    BY <1>1, <1>5, <2>1, <2>2 DEF TypeOK, Decide, bus
  <2>4. Past(r, k)
    BY <1>1, <2>3 DEF Past
  <2>5. Served(r, k)
    BY <1>1, <2>3, <2>4 DEF ServedWhenPast
  <2>6. QED
    BY <2>3, <2>5 DEF Served
<1>6. ASSUME NEW q \in Requests, NEW j \in Kinds, SkipChallenge(q, j)
      PROVE  Served(r, k)'
  <2>1. /\ stage[q] = j /\ stage' = [stage EXCEPT ![q] = After(j)]
        /\ Fresh(recent[<<UserOf[q], j>>], DedupWindow)
        /\ UNCHANGED <<decidedAt, verdict, touched>>
    BY <1>6 DEF SkipChallenge, bus
  <2>2. CASE Past(r, k)
    BY <1>3, <2>1, <2>2
  <2>3. CASE ~Past(r, k)
    <3>1. q = r /\ j = k
      BY <1>1, <2>1, <2>3, JustPast
    <3>2. recent[p] > 0 /\ clock - recent[p] < DedupWindow
      BY <2>1, <3>1 DEF Fresh
    <3>3. touched[p] > 0 /\ touched[p] > recent[p] - BusWindow
      BY <1>1, <1>2, <3>2 DEF Remembered
    <3>4. touched[p] > decidedAt[r] - DedupWindow - BusWindow
      BY <1>2, <3>2, <3>3, Windows
    <3>5. QED
      BY <2>1, <3>3, <3>4 DEF Served
  <2>4. QED
    BY <2>2, <2>3
<1>7. ASSUME NEW q \in Requests, NEW j \in Kinds, DropChallenge(q, j)
      PROVE  Served(r, k)'
  <2>1. /\ stage[q] = j /\ stage' = [stage EXCEPT ![q] = After(j)]
        /\ Fresh(seen[<<UserOf[q], j>>], BusWindow)
        /\ UNCHANGED <<decidedAt, verdict, touched>>
    BY <1>7 DEF DropChallenge, DropsChallenge, bus
  <2>2. CASE Past(r, k)
    BY <1>3, <2>1, <2>2
  <2>3. CASE ~Past(r, k)
    <3>1. q = r /\ j = k
      BY <1>1, <2>1, <2>3, JustPast
    <3>2. seen[p] > 0 /\ clock - seen[p] < BusWindow
      BY <2>1, <3>1 DEF Fresh
    <3>3. touched[p] > 0 /\ touched[p] > decidedAt[r] - DedupWindow - BusWindow
      BY <1>2, <3>2, Windows
    <3>4. QED
      BY <2>1, <3>3 DEF Served
  <2>4. QED
    BY <2>2, <2>3
<1>8. ASSUME NEW q \in Requests, NEW j \in Kinds, SendChallenge(q, j)
      PROVE  Served(r, k)'
  <2>1. /\ stage[q] = j /\ stage' = [stage EXCEPT ![q] = Waiting(j)]
        /\ touched' = [touched EXCEPT ![<<UserOf[q], j>>] = clock]
        /\ UNCHANGED <<decidedAt, verdict>>
    BY <1>8 DEF SendChallenge
  <2>2. touched'[p] = touched[p] \/ touched'[p] = clock
    BY <1>1, <1>2, <2>1 DEF TypeOK, Pairs
  <2>3. Past(r, k)
    <3>1. CASE q = r
      <4>1. stage'[r] = Waiting(j) /\ stage[r] = j
        BY <1>1, <2>1, <3>1 DEF TypeOK
      <4>2. j = "stepup" /\ k = "mfa"
        BY <1>1, <4>1 DEF Past, Waiting, Kinds
      <4>3. QED
        BY <4>1, <4>2 DEF Past
    <3>2. CASE q # r
      <4>1. stage'[r] = stage[r]
        BY <1>1, <2>1, <3>2 DEF TypeOK
      <4>2. QED
        BY <1>1, <4>1 DEF Past
    <3>3. QED
      BY <3>1, <3>2
  <2>4. QED
    BY <1>3, <2>1, <2>2, <2>3
<1>9. ASSUME NEW q \in Requests, NEW j \in Kinds, EndChallenge(q, j)
      PROVE  Served(r, k)'
  <2>1. /\ stage[q] = Waiting(j) /\ stage' = [stage EXCEPT ![q] = After(j)]
        /\ touched' = [touched EXCEPT ![<<UserOf[q], j>>] = clock]
        /\ UNCHANGED <<decidedAt, verdict>>
    BY <1>9 DEF EndChallenge
  <2>2. touched'[p] = touched[p] \/ touched'[p] = clock
    BY <1>1, <1>2, <2>1 DEF TypeOK, Pairs
  <2>3. CASE Past(r, k)
    BY <1>3, <2>1, <2>2, <2>3
  <2>4. CASE ~Past(r, k)
    <3>1. q = r /\ j = k
      BY <1>1, <2>1, <2>4, JustPast
    <3>2. touched'[p] = clock
      BY <1>1, <1>2, <2>1, <3>1 DEF TypeOK, Pairs
    <3>3. touched'[p] > 0 /\ touched'[p] > decidedAt[r] - DedupWindow - BusWindow
      BY <1>2, <3>2, Windows
    <3>4. QED
      BY <2>1, <3>3 DEF Served
  <2>5. QED
    BY <2>3, <2>4
<1>10. ASSUME NEW q \in Requests, CreateSession(q) PROVE Served(r, k)'
  <2>1. /\ stage[q] = "enforced" /\ stage' = [stage EXCEPT ![q] = "done"]
        /\ UNCHANGED <<decidedAt, verdict, touched>>
    BY <1>10 DEF CreateSession, bus
  <2>2. stage'[r] = stage[r] \/ stage[r] = "enforced"
    BY <1>1, <2>1 DEF TypeOK
  <2>3. Past(r, k)
    BY <1>1, <2>2 DEF Past
  <2>4. QED
    BY <1>3, <2>1, <2>3
<1>11. QED
  BY <1>1, <1>4, <1>5, <1>6, <1>7, <1>8, <1>9, <1>10, Steps
  DEF Suspect, ForgetUser, HealthFail, ForgetDevice, CriticalIntrusion, OtherThreat,
      Tick, vars, bus

LEMMA RepeatStep ==
  TypeOK /\ LetThrough /\ NoRepeatedChallenge /\ [Next]_vars => NoRepeatedChallenge'
<1>1. SUFFICES ASSUME TypeOK, LetThrough, NoRepeatedChallenge, [Next]_vars
               PROVE  NoRepeatedChallenge'
  OBVIOUS
<1>2. ASSUME UNCHANGED challenges PROVE NoRepeatedChallenge'
  BY <1>1, <1>2 DEF NoRepeatedChallenge
<1>3. ASSUME NEW r \in Requests, NEW k \in Kinds, SendChallenge(r, k)
      PROVE  NoRepeatedChallenge'
  <2> DEFINE p == <<UserOf[r], k>>
             new == [by |-> r, kind |-> k, at |-> clock, no |-> passed + 1]
  <2>1. /\ ~(Fresh(seen[p], BusWindow) /\ passed - serial[p] < BusCapacity)
        /\ challenges' = challenges \cup {new}
    BY <1>3 DEF SendChallenge, DropsChallenge
  <2>2. /\ clock \in Nat /\ seen[p] \in Nat /\ serial[p] \in Nat /\ passed \in Nat
        /\ serial[p] <= passed
    BY <1>1, RequestType, PairTypes DEF TypeOK, LetThrough
  <2>3. ASSUME NEW c \in challenges, c.kind = k, UserOf[c.by] = UserOf[r]
        PROVE  c.at + BusWindow <= clock \/ c.no + BusCapacity < passed + 1
    <3>1. c.at \in Nat /\ c.no \in Nat
      BY <1>1 DEF TypeOK, Challenge
    <3>2. 1 <= c.at /\ c.at <= seen[p] /\ c.no <= serial[p]
      BY <1>1, <2>3 DEF LetThrough
    <3>3. clock - seen[p] >= BusWindow \/ passed - serial[p] >= BusCapacity
      BY <2>1, <2>2, <3>1, <3>2, Windows DEF Fresh
    <3>4. QED
      BY <2>2, <3>1, <3>2, <3>3, Windows
  <2>4. new.kind = k /\ new.by = r /\ new.at = clock /\ new.no = passed + 1
    OBVIOUS
  <2>10. \A c \in challenges : c.no \in Nat /\ c.no <= passed
    <3>1. ASSUME NEW c \in challenges PROVE c.no \in Nat /\ c.no <= passed
      <4>1. c.no \in Nat /\ <<UserOf[c.by], c.kind>> \in Pairs
        BY <1>1, RequestType DEF TypeOK, Challenge
      <4>2. /\ c.no <= serial[<<UserOf[c.by], c.kind>>]
            /\ serial[<<UserOf[c.by], c.kind>>] <= passed
            /\ serial[<<UserOf[c.by], c.kind>>] \in Nat
        BY <1>1, <4>1, PairTypes DEF LetThrough
      <4>3. QED
        BY <2>2, <4>1, <4>2
    <3>2. QED
      BY <3>1
  <2>5. SUFFICES ASSUME NEW c \in challenges', NEW d \in challenges', c # d,
                        c.no <= d.no, c.kind = d.kind, UserOf[c.by] = UserOf[d.by]
                 PROVE  c.at + BusWindow <= d.at \/ c.no + BusCapacity < d.no
    BY DEF NoRepeatedChallenge
  <2>6. CASE c \in challenges /\ d \in challenges
    BY <1>1, <2>5, <2>6 DEF NoRepeatedChallenge
  <2> HIDE DEF new
  <2>7. CASE c = new /\ d \in challenges
    BY <2>2, <2>4, <2>5, <2>7, <2>10
  <2>8. CASE d = new /\ c \in challenges
    BY <2>3, <2>4, <2>5, <2>8
  <2>9. QED
    BY <2>1, <2>5, <2>6, <2>7, <2>8
<1>4. QED
  BY <1>1, <1>2, <1>3, Steps
  DEF Suspect, ForgetUser, HealthFail, ForgetDevice, CriticalIntrusion, Decide,
      SkipChallenge, DropChallenge, EndChallenge, CreateSession, OtherThreat, Tick,
      vars, bus

LEMMA ChallengeInit == Init => ChallengeInv /\ NoRepeatedChallenge
<1>1. SUFFICES ASSUME Init PROVE ChallengeInv /\ NoRepeatedChallenge
  OBVIOUS
<1>2. Times /\ Remembered
  BY <1>1 DEF Init, Times, Remembered, Pairs
<1>3. LetThrough /\ NoRepeatedChallenge
  <2>1. challenges = {}
    BY <1>1 DEF Init
  <2>2. \A p \in Pairs : serial[p] <= passed
    BY <1>1 DEF Init, Pairs
  <2>3. QED
    BY <2>1, <2>2 DEF LetThrough, NoRepeatedChallenge
<1>4. ServedWhenPast
  BY <1>1 DEF Init, ServedWhenPast, Challenged
<1>5. QED
  BY <1>2, <1>3, <1>4 DEF ChallengeInv

LEMMA ChallengesHold == Spec => [](ChallengeInv /\ NoRepeatedChallenge)
<1>1. TypeOK /\ ChallengeInv /\ NoRepeatedChallenge /\ [Next]_vars
        => ChallengeInv' /\ NoRepeatedChallenge'
  BY TimesStep, RememberedStep, LetThroughStep, ServedStep, RepeatStep
  DEF ChallengeInv
<1>2. QED
  BY <1>1, ChallengeInit, TypeCorrect, PTL DEF Spec

(* However decisions overlap, a user is sent the same challenge again within *)
(* the bus window only after as many other threats as the bus remembers      *)
(* (event_bus.py:28,47-72 makes up for zero_trust_pep.py:124-133).           *)
THEOREM ChallengedOnce == Spec => []NoRepeatedChallenge
BY ChallengesHold, PTL

(* A request at medium risk is past the enforcement point only if both       *)
(* challenges to its user were under way at most both windows before its     *)
(* decision (zero_trust_pdp.py:147-184, zero_trust_pep.py:115-133).          *)
THEOREM SessionsChallenged == Spec => []SessionsAreChallenged
<1>1. ServedWhenPast => SessionsAreChallenged
  BY DEF ServedWhenPast, SessionsAreChallenged, Served, Past, Challenged
<1>2. QED
  BY <1>1, ChallengesHold, PTL DEF ChallengeInv

-----------------------------------------------------------------------------
(* The rate limit.  The list of a user holds every request whose decision    *)
(* the window still covers, so the count made at a decision bounds the       *)
(* window that ends there; every other window was bounded before.            *)

Covered(u, t) ==
  {r \in Requests :
    /\ UserOf[r] = u
    /\ verdict[r] \notin {"none", "rate"}
    /\ decidedAt[r] \in (t - RateWindow + 1)..t}

Remembers ==
  \A q \in Requests :
    verdict[q] # "none" /\ decidedAt[q] > clock - RateWindow
      => q \in attempts[UserOf[q]]

LEMMA Finite ==
  ASSUME NEW S \in SUBSET Requests, NEW T \in SUBSET S
  PROVE  Cardinality(S) \in Nat /\ Cardinality(T) \in Nat
         /\ Cardinality(T) <= Cardinality(S)
<1>1. IsFiniteSet(Requests)
  BY ZeroTrustAssumption DEF ZeroTrustAssumption
<1>2. IsFiniteSet(S)
  BY <1>1, FS_Subset
<1>3. QED
  BY <1>2, FS_Subset, FS_CardinalityType

LEMMA RemembersStep == TypeOK /\ Remembers /\ [Next]_vars => Remembers'
<1>1. SUFFICES ASSUME TypeOK, Remembers, [Next]_vars, NEW q \in Requests,
                      verdict'[q] # "none", decidedAt'[q] > clock' - RateWindow
               PROVE  q \in attempts'[UserOf[q]]
  BY DEF Remembers
<1>2. UserOf[q] \in Users /\ decidedAt[q] \in Nat /\ clock \in Nat
  BY <1>1, RequestType DEF TypeOK
<1>3. ASSUME UNCHANGED <<clock, attempts, verdict, decidedAt>>
      PROVE  q \in attempts'[UserOf[q]]
  BY <1>1, <1>3 DEF Remembers
<1>4. ASSUME NEW r \in Requests, Decide(r) PROVE q \in attempts'[UserOf[q]]
  <2>1. /\ attempts' = [attempts EXCEPT ![UserOf[r]] = Counted(r)]
        /\ decidedAt' = [decidedAt EXCEPT ![r] = clock]
        /\ \E v \in Verdicts : verdict' = [verdict EXCEPT ![r] = v]
        /\ clock' = clock
    BY <1>4 DEF Decide
  <2>2. CASE q = r
    <3>1. attempts'[UserOf[q]] = Counted(r)
      BY <1>1, <1>2, <2>1, <2>2 DEF TypeOK
    <3>2. QED
      BY <2>2, <3>1 DEF Counted
  <2>3. CASE q # r
    <3>1. verdict'[q] = verdict[q] /\ decidedAt'[q] = decidedAt[q]
      BY <1>1, <2>1, <2>3 DEF TypeOK
    <3>2. decidedAt[q] > clock - RateWindow /\ q \in attempts[UserOf[q]]
      BY <1>1, <2>1, <3>1 DEF Remembers
    <3>3. CASE UserOf[q] = UserOf[r]
      <4>1. attempts'[UserOf[q]] = Counted(r)
        BY <1>1, <1>2, <2>1, <3>3 DEF TypeOK
      <4>2. QED
        BY <3>2, <3>3, <4>1 DEF Counted
    <3>4. CASE UserOf[q] # UserOf[r]
      <4>1. attempts'[UserOf[q]] = attempts[UserOf[q]]
        BY <1>1, <1>2, <2>1, <3>4 DEF TypeOK
      <4>2. QED
        BY <3>2, <4>1
    <3>5. QED
      BY <3>3, <3>4
  <2>4. QED
    BY <2>2, <2>3
<1>5. ASSUME Tick PROVE q \in attempts'[UserOf[q]]
  <2>1. clock' = clock + 1 /\ UNCHANGED <<attempts, verdict, decidedAt>>
    BY <1>5 DEF Tick, policy
  <2>2. decidedAt[q] > clock - RateWindow
    BY <1>1, <1>2, <2>1, Windows
  <2>3. QED
    BY <1>1, <2>1, <2>2 DEF Remembers
<1>6. ASSUME \/ \E u \in Users : Suspect(u) \/ ForgetUser(u)
             \/ \E d \in Devices : HealthFail(d) \/ ForgetDevice(d)
             \/ \E ip \in Addresses : CriticalIntrusion(ip)
      PROVE  UNCHANGED <<clock, attempts, verdict, decidedAt>>
  BY <1>6 DEF Suspect, ForgetUser, HealthFail, ForgetDevice, CriticalIntrusion, policy
<1>7. ASSUME \/ \E r \in Requests, k \in Kinds :
                  SkipChallenge(r, k) \/ DropChallenge(r, k)
             \/ \E r \in Requests, k \in Kinds :
                  SendChallenge(r, k) \/ EndChallenge(r, k)
             \/ \E r \in Requests : CreateSession(r)
             \/ OtherThreat
             \/ UNCHANGED vars
      PROVE  UNCHANGED <<clock, attempts, verdict, decidedAt>>
  BY <1>7 DEF SkipChallenge, DropChallenge, SendChallenge, EndChallenge, CreateSession,
     OtherThreat, vars, policy
<1>8. QED
  BY <1>1, <1>3, <1>4, <1>5, <1>6, <1>7, Steps

LEMMA RateStep ==
  TypeOK /\ Times /\ Remembers /\ RateLimitHolds /\ [Next]_vars => RateLimitHolds'
<1>1. SUFFICES ASSUME TypeOK, Times, Remembers, RateLimitHolds, [Next]_vars,
                      NEW u \in Users, NEW t \in 1..clock'
               PROVE  Cardinality(Covered(u, t)') <= MaxAttempts
  BY DEF RateLimitHolds, Covered
<1>2. clock \in Nat /\ clock >= 1 /\ MaxAttempts \in Nat /\ RateWindow \in Nat
  BY <1>1, ZeroTrustAssumption DEF TypeOK, Times, ZeroTrustAssumption
<1>3. \A x \in 1..clock : Cardinality(Covered(u, x)) <= MaxAttempts
  BY <1>1 DEF RateLimitHolds, Covered
<1>4. ASSUME NEW x \in 1..clock, Covered(u, t)' \subseteq Covered(u, x)
      PROVE  Cardinality(Covered(u, t)') <= MaxAttempts
  <2>1. Covered(u, x) \in SUBSET Requests
    BY DEF Covered
  <2>2. Cardinality(Covered(u, t)') <= Cardinality(Covered(u, x))
        /\ Cardinality(Covered(u, t)') \in Nat /\ Cardinality(Covered(u, x)) \in Nat
    BY <1>4, <2>1, Finite
  <2>3. QED
    BY <1>2, <1>3, <2>2
<1>5. ASSUME UNCHANGED <<clock, verdict, decidedAt>>
      PROVE  Cardinality(Covered(u, t)') <= MaxAttempts
  <2>1. Covered(u, t)' = Covered(u, t) /\ t \in 1..clock
    BY <1>5 DEF Covered
  <2>2. QED
    BY <1>3, <2>1
<1>6. ASSUME NEW r \in Requests, Decide(r)
      PROVE  Cardinality(Covered(u, t)') <= MaxAttempts
  <2>1. PICK v \in Verdicts :
          Evaluates(r, v) /\ verdict' = [verdict EXCEPT ![r] = v]
    BY <1>6 DEF Decide
  <2>2. clock' = clock /\ decidedAt' = [decidedAt EXCEPT ![r] = clock]
    BY <1>6 DEF Decide
  <2>3. \A q \in Requests : q # r =>
          verdict'[q] = verdict[q] /\ decidedAt'[q] = decidedAt[q]
    BY <1>1, <2>1, <2>2 DEF TypeOK
  <2>4. verdict'[r] = v /\ decidedAt'[r] = clock
    BY <1>1, <2>1, <2>2 DEF TypeOK
  <2>5. CASE r \notin Covered(u, t)'
    <3>1. Covered(u, t)' \subseteq Covered(u, t)
      BY <2>3, <2>5 DEF Covered
    <3>2. QED
      BY <1>4, <2>2, <3>1
  <2>6. CASE r \in Covered(u, t)'
    <3>1. UserOf[r] = u /\ v # "rate" /\ clock <= t
      BY <2>4, <2>6, <1>2 DEF Covered
    <3>2. t = clock
      BY <1>2, <2>2, <3>1
    <3>3. ~Limited(r)
      BY <2>1, <3>1 DEF Evaluates
    <3>4. Covered(u, t)' \subseteq Counted(r)
      <4>1. SUFFICES ASSUME NEW q \in Covered(u, t)', q # r PROVE q \in Counted(r)
        BY DEF Counted
      <4>2. /\ q \in Requests /\ UserOf[q] = u /\ verdict[q] # "none"
            /\ decidedAt[q] > clock - RateWindow
        <5>1. /\ q \in Requests /\ UserOf[q] = u /\ verdict'[q] # "none"
              /\ decidedAt'[q] \in (t - RateWindow + 1)..t
          BY <4>1 DEF Covered
        <5>2. decidedAt[q] \in Nat
          BY <1>1, <5>1 DEF TypeOK
        <5>3. QED
          BY <1>2, <2>3, <3>2, <4>1, <5>1, <5>2
      <4>3. q \in attempts[UserOf[r]]
        BY <1>1, <3>1, <4>2 DEF Remembers
      <4>4. QED
        BY <4>2, <4>3 DEF Counted
    <3>5. Counted(r) \in SUBSET Requests
      BY <1>1, CountedType
    <3>6. Cardinality(Counted(r)) \in Nat /\ Cardinality(Covered(u, t)') \in Nat
          /\ Cardinality(Covered(u, t)') <= Cardinality(Counted(r))
      BY <3>4, <3>5, Finite
    <3>7. Cardinality(Counted(r)) <= MaxAttempts
      BY <1>2, <3>3, <3>6 DEF Limited
    <3>8. QED
      BY <1>2, <3>6, <3>7
  <2>7. QED
    BY <2>5, <2>6
<1>7. ASSUME Tick PROVE Cardinality(Covered(u, t)') <= MaxAttempts
  <2>1. clock' = clock + 1 /\ UNCHANGED <<verdict, decidedAt>>
    BY <1>7 DEF Tick
  <2>2. CASE t \in 1..clock
    <3>1. Covered(u, t)' = Covered(u, t)
      BY <2>1 DEF Covered
    <3>2. QED
      BY <1>3, <2>2, <3>1
  <2>3. CASE t = clock + 1
    <3>1. \A q \in Requests : decidedAt[q] \in Nat /\ decidedAt[q] <= clock
      BY <1>1 DEF TypeOK, Times
    <3>2. Covered(u, t)' \subseteq Covered(u, clock)
      BY <1>2, <2>1, <2>3, <3>1 DEF Covered
    <3>3. clock \in 1..clock
      BY <1>2
    <3>4. QED
      BY <1>4, <3>2, <3>3
  <2>4. QED
    BY <1>2, <2>1, <2>2, <2>3
<1>8. QED
  BY <1>1, <1>5, <1>6, <1>7, Steps
  DEF Suspect, ForgetUser, HealthFail, ForgetDevice, CriticalIntrusion,
      SkipChallenge, DropChallenge, SendChallenge, EndChallenge, CreateSession,
      OtherThreat, vars, policy

(* No window of the limiter of zero_trust_pdp.py:497-504 holds more          *)
(* evaluated requests of a user than the limit.                              *)
THEOREM RateLimited == Spec => []RateLimitHolds
<1>1. Init => Remembers /\ RateLimitHolds
  <2>1. ASSUME Init PROVE Remembers
    BY <2>1 DEF Init, Remembers
  <2>2. ASSUME Init, NEW u \in Users, NEW t \in 1..clock
        PROVE  Cardinality(Covered(u, t)) <= MaxAttempts
    <3>1. Covered(u, t) = {}
      BY <2>2 DEF Init, Covered
    <3>2. QED
      BY <3>1, FS_EmptySet, ZeroTrustAssumption DEF ZeroTrustAssumption
  <2>3. QED
    BY <2>1, <2>2 DEF RateLimitHolds, Covered
<1>2. QED
  BY <1>1, RemembersStep, RateStep, ChallengesHold, TypeCorrect, PTL
  DEF Spec, ChallengeInv
=============================================================================
