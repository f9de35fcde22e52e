------------------------------ MODULE ZeroTrust ------------------------------
(***************************************************************************)
(* The zero-trust control plane of the agent: the policy decision point    *)
(* (agent/core/zero_trust_pdp.py) that turns access requests into          *)
(* decisions, and the enforcement point (agent/core/zero_trust_pep.py)     *)
(* that carries the decisions out.  They meet on the event bus: the PDP    *)
(* awaits the bus, hence the PEP, hence whatever the PEP publishes, before *)
(* it opens a session.                                                     *)
(*                                                                         *)
(* A decision is abstracted to why it was taken.  Scores are thousandths,  *)
(* weighted sums hundredths of those.  Left out because nothing reads      *)
(* them: decision and enforcement history, _enforced_sessions (without     *)
(* user ids in it the privilege and quarantine handlers find no subject),  *)
(* sessions' contents, and the setters nobody calls.  Requests carry no    *)
(* session id, so a decision is identified by a hash of its user, and so   *)
(* are the challenges (zero_trust_pdp.py:464).                             *)
(***************************************************************************)
EXTENDS Integers, FiniteSets

CONSTANTS
  Requests,      \* access requests, each submitted once
  Users, Devices,
  Addresses,     \* source addresses of intrusions; a device may be named by one
  UserOf, DeviceOf,
  Role,          \* "user", "privileged", or "malformed": no string at all
  Network,       \* score of the request's network: 0, 100 or 500
  Location,      \* score of its location: 0, 100 or 600
  MismatchStep,  \* 100 in the code
  FindingSteps,  \* 121..150: 0.15 times a confidence above 0.8
  RateWindow,    \* 60 s
  MaxAttempts,   \* 10
  DedupWindow,   \* 5 s, of the PEP
  BusWindow,     \* 60 s, of the event bus
  BusCapacity,   \* 1000: the threats the bus remembers
  MaxPassed,     \* bound on the other threats
  MaxClock       \* bound on the clock

ASSUME ZeroTrustAssumption ==
  /\ IsFiniteSet(Requests)
  /\ UserOf \in [Requests -> Users]
  /\ DeviceOf \in [Requests -> Devices]
  /\ Role \in [Requests -> {"user", "privileged", "malformed"}]
  /\ Network \in [Requests -> {0, 100, 500}]
  /\ Location \in [Requests -> {0, 100, 600}]
  /\ MismatchStep \in 0..1000
  /\ FindingSteps \subseteq 0..1000
  /\ RateWindow \in Nat /\ MaxAttempts \in Nat
  /\ DedupWindow \in Nat /\ BusWindow \in Nat \ {0}
  /\ BusCapacity \in Nat \ {0} /\ MaxPassed \in Nat
  /\ MaxClock \in Nat

Unset == -1
Kinds == {"mfa", "stepup"}
Stages == {"new", "mfa", "mfa wait", "stepup", "stepup wait", "enforced", "done"}

VARIABLES
  clock,
  attempts,    \* PDP _recent_attempts
  risk,        \* PDP _user_risk_cache, Unset for no entry
  trust,       \* PDP _device_trust_cache, 500 for no entry
  blacklist,   \* PDP _blacklist_cache
  stage,       \* how far the PDP and the PEP are with a request
  verdict,     \* why a request was decided the way it was
  decidedAt,   \* when, 0 for not yet
  recent,      \* PEP _recent_actions: when a challenge was last executed
  passed,      \* bus: how many threats it has let through
  seen,        \* bus: when a challenge event was last let through
  serial,      \* bus: the number it then got
  challenges,  \* history: challenge events that reached their subscribers
  touched      \* history: last time such an event was sent out or came back

policy == <<attempts, risk, trust, blacklist>>
bus == <<passed, seen, serial, challenges, touched>>
vars == <<clock, policy, stage, verdict, decidedAt, recent, bus>>

Init ==
  /\ clock = 1
  /\ attempts = [u \in Users |-> {}]
  /\ risk = [u \in Users |-> Unset]
  /\ trust = [d \in Devices |-> 500]
  /\ blacklist = {}
  /\ stage = [r \in Requests |-> "new"]
  /\ verdict = [r \in Requests |-> "none"]
  /\ decidedAt = [r \in Requests |-> 0]
  /\ recent = [p \in Users \X Kinds |-> 0]
  /\ passed = 0
  /\ seen = [p \in Users \X Kinds |-> 0]
  /\ serial = [p \in Users \X Kinds |-> 0]
  /\ challenges = {}
  /\ touched = [p \in Users \X Kinds |-> 0]

-----------------------------------------------------------------------------
(* PDP: what it learns from threat events and findings                      *)

Least(a, b) == IF a < b THEN a ELSE b

\* What an evaluation reads: 0.2 where there is no entry.
Behaviour(u) == IF risk[u] = Unset THEN 200 ELSE risk[u]

\* What an update starts from: 0.0 where there is no entry.
Raised(u, step) == Least(1000, (IF risk[u] = Unset THEN 0 ELSE risk[u]) + step)

\* An identity mismatch or a confident finding about the user.
Suspect(u) ==
  /\ \E step \in {MismatchStep} \cup FindingSteps :
       risk' = [risk EXCEPT ![u] = Raised(u, step)]
  /\ UNCHANGED <<clock, attempts, trust, blacklist, stage, verdict, decidedAt, recent, bus>>

HealthFail(d) ==
  /\ trust' = [trust EXCEPT ![d] = 0]
  /\ UNCHANGED <<clock, attempts, risk, blacklist, stage, verdict, decidedAt, recent, bus>>

\* Only source addresses are ever blacklisted, and nothing removes them.
CriticalIntrusion(ip) ==
  /\ blacklist' = blacklist \cup {ip}
  /\ UNCHANGED <<clock, attempts, risk, trust, stage, verdict, decidedAt, recent, bus>>

\* Cache entries expire a day after they were written.
ForgetUser(u) ==
  /\ risk[u] # Unset
  /\ risk' = [risk EXCEPT ![u] = Unset]
  /\ UNCHANGED <<clock, attempts, trust, blacklist, stage, verdict, decidedAt, recent, bus>>

ForgetDevice(d) ==
  /\ trust[d] # 500
  /\ trust' = [trust EXCEPT ![d] = 500]
  /\ UNCHANGED <<clock, attempts, risk, blacklist, stage, verdict, decidedAt, recent, bus>>

-----------------------------------------------------------------------------
(* PDP: deciding.  Nothing suspends between the rate check and the publish. *)

\* Mutant: a third of the weights is shifted to the behavioural score.
RiskScore_Reweighted(r) ==
  25 * 200 + 20 * trust[DeviceOf[r]] + 15 * Network[r] + 15 * Location[r]
    + 50 * Behaviour(UserOf[r]) + (IF Role[r] = "privileged" THEN 5000 ELSE 0)

\* The identity score is 0.2, for no request carries a risk score, and the
\* device's TRUST is added.  A blacklisted request never gets this far.
RiskScore(r) ==
  25 * 200 + 20 * trust[DeviceOf[r]] + 15 * Network[r] + 15 * Location[r]
    + 15 * Behaviour(UserOf[r]) + (IF Role[r] = "privileged" THEN 5000 ELSE 0)

\* Sums of floats may fall on either side of a threshold they meet exactly.
Level(s, v) ==
  \/ s <= 50000 /\ v = "low"
  \/ s \in 50000..70000 /\ v = "medium"
  \/ s \in 70000..90000 /\ v = "high"
  \/ s >= 90000 /\ v = "critical"

Blacklisted(r) == UserOf[r] \in blacklist \/ DeviceOf[r] \in blacklist

\* The attempts of the user that still count, this one included.
Counted(r) ==
  {q \in attempts[UserOf[r]] : decidedAt[q] > clock - RateWindow} \cup {r}

\* Mutant: the limit itself is let through once more.
Limited_OffByOne(r) == Cardinality(Counted(r)) > MaxAttempts + 1

Limited(r) == Cardinality(Counted(r)) > MaxAttempts

Evaluates(r, v) ==
  \/ Limited(r) /\ v = "rate"
  \/ ~Limited(r) /\ Role[r] = "malformed" /\ v = "error"
  \/ /\ ~Limited(r) /\ Role[r] # "malformed"
     /\ IF Blacklisted(r) THEN v = "blacklist" ELSE Level(RiskScore(r), v)

Verdicts == {"rate", "error", "blacklist", "low", "medium", "high", "critical"}
Denials == {"rate", "error", "blacklist", "critical"}
Challenged == {"medium", "high"}

Decide(r) ==
  /\ stage[r] = "new"
  /\ attempts' = [attempts EXCEPT ![UserOf[r]] = Counted(r)]
  /\ decidedAt' = [decidedAt EXCEPT ![r] = clock]
  /\ \E v \in Verdicts :
       /\ Evaluates(r, v)
       /\ verdict' = [verdict EXCEPT ![r] = v]
       /\ stage' = [stage EXCEPT ![r] = IF v \in Challenged THEN "mfa" ELSE "enforced"]
  /\ UNCHANGED <<clock, risk, trust, blacklist, recent, bus>>

\* The publish returns: the PDP opens a session for an allowed request.
CreateSession(r) ==
  /\ stage[r] = "enforced"
  /\ stage' = [stage EXCEPT ![r] = "done"]
  /\ UNCHANGED <<clock, policy, verdict, decidedAt, recent, bus>>

-----------------------------------------------------------------------------
(* PEP: the two challenges of a decision, in order.  The other actions only *)
(* log.  Executing a challenge publishes an event, which the bus drops when *)
(* it let an equal one through less than a minute ago, unless a thousand    *)
(* other threats have pushed that one out of its memory.                    *)

\* Mutant: the step-up of a decision is left out.
After_NoStepUp(k) == "enforced"

After(k) == IF k = "mfa" THEN "stepup" ELSE "enforced"
Waiting(k) == IF k = "mfa" THEN "mfa wait" ELSE "stepup wait"

Fresh(time, window) == time > 0 /\ clock - time < window

SkipChallenge(r, k) ==
  /\ stage[r] = k
  /\ Fresh(recent[<<UserOf[r], k>>], DedupWindow)
  /\ stage' = [stage EXCEPT ![r] = After(k)]
  /\ UNCHANGED <<clock, policy, verdict, decidedAt, recent, bus>>

\* Mutant: the bus does not drop repetitions.
DropsChallenge_Never(p) == FALSE

DropsChallenge(p) ==
  Fresh(seen[p], BusWindow) /\ passed - serial[p] < BusCapacity

DropChallenge(r, k) ==
  LET p == <<UserOf[r], k>>
  IN  /\ stage[r] = k
      /\ ~Fresh(recent[p], DedupWindow)
      /\ DropsChallenge(p)
      /\ recent' = [recent EXCEPT ![p] = clock]
      /\ stage' = [stage EXCEPT ![r] = After(k)]
      /\ UNCHANGED <<clock, policy, verdict, decidedAt, bus>>

SendChallenge(r, k) ==
  LET p == <<UserOf[r], k>>
  IN  /\ stage[r] = k
      /\ ~Fresh(recent[p], DedupWindow)
      /\ ~DropsChallenge(p)
      /\ passed' = passed + 1
      /\ seen' = [seen EXCEPT ![p] = clock]
      /\ serial' = [serial EXCEPT ![p] = passed']
      /\ touched' = [touched EXCEPT ![p] = clock]
      /\ challenges' =
           challenges \cup {[by |-> r, kind |-> k, at |-> clock, no |-> passed']}
      /\ stage' = [stage EXCEPT ![r] = Waiting(k)]
      /\ UNCHANGED <<clock, policy, verdict, decidedAt, recent>>

\* Mutant: the PEP waits for a subscriber that never returns.
EndChallenge_Stuck(r, k) ==
  /\ stage[r] = Waiting(k)
  /\ k = "mfa"
  /\ recent' = [recent EXCEPT ![<<UserOf[r], k>>] = clock]
  /\ touched' = [touched EXCEPT ![<<UserOf[r], k>>] = clock]
  /\ stage' = [stage EXCEPT ![r] = After(k)]
  /\ UNCHANGED <<clock, policy, verdict, decidedAt, passed, seen, serial, challenges>>

\* All subscribers of the event are done; only now is it a recent action.
EndChallenge(r, k) ==
  /\ stage[r] = Waiting(k)
  /\ recent' = [recent EXCEPT ![<<UserOf[r], k>>] = clock]
  /\ touched' = [touched EXCEPT ![<<UserOf[r], k>>] = clock]
  /\ stage' = [stage EXCEPT ![r] = After(k)]
  /\ UNCHANGED <<clock, policy, verdict, decidedAt, passed, seen, serial, challenges>>

Enforce(r) ==
  \E k \in Kinds :
    \/ SkipChallenge(r, k)
    \/ DropChallenge(r, k)
    \/ SendChallenge(r, k)
    \/ EndChallenge(r, k)

\* The bus lets some other threat through, those of the PDP among them.
OtherThreat ==
  /\ passed < MaxPassed
  /\ passed' = passed + 1
  /\ UNCHANGED <<clock, policy, stage, verdict, decidedAt, recent,
                 seen, serial, challenges, touched>>

Tick ==
  /\ clock < MaxClock
  /\ clock' = clock + 1
  /\ UNCHANGED <<policy, stage, verdict, decidedAt, recent, bus>>

Next ==
  \/ \E u \in Users : Suspect(u) \/ ForgetUser(u)
  \/ \E d \in Devices : HealthFail(d) \/ ForgetDevice(d)
  \/ \E ip \in Addresses : CriticalIntrusion(ip)
  \/ \E r \in Requests : Decide(r) \/ Enforce(r) \/ CreateSession(r)
  \/ OtherThreat
  \/ Tick

Spec == Init /\ [][Next]_vars

(* The event loop resumes some task as long as one is ready; nobody         *)
(* promises requests, threats or the clock.                                 *)
FairSpec ==
  Spec /\ WF_vars(\E r \in Requests : Enforce(r) \/ CreateSession(r))

-----------------------------------------------------------------------------
Challenge == [by : Requests, kind : Kinds, at : Nat, no : Nat]

TypeOK ==
  /\ clock \in Nat
  /\ attempts \in [Users -> SUBSET Requests]
  /\ risk \in [Users -> {Unset} \cup 0..1000]
  /\ trust \in [Devices -> {0, 500}]
  /\ blacklist \subseteq Addresses
  /\ stage \in [Requests -> Stages]
  /\ verdict \in [Requests -> Verdicts \cup {"none"}]
  /\ decidedAt \in [Requests -> Nat]
  /\ recent \in [Users \X Kinds -> Nat]
  /\ passed \in Nat
  /\ seen \in [Users \X Kinds -> Nat]
  /\ serial \in [Users \X Kinds -> Nat]
  /\ challenges \subseteq Challenge
  /\ touched \in [Users \X Kinds -> Nat]

(* The risk score has no teeth: whatever is learned about users and devices, *)
(* no request is ever denied for its risk, and only privileged roles are     *)
(* ever challenged; the weights of lines 411-442 cannot lift the scores the  *)
(* program can produce any higher.                                           *)
RiskNeverDenies ==
  \A r \in Requests :
    /\ verdict[r] \notin {"high", "critical"}
    /\ verdict[r] = "medium" => Role[r] = "privileged"

(* No window of the rate limiter holds more evaluated requests of a user     *)
(* than the limit, wherever the window starts and however attempts that were *)
(* refused fall between them (lines 497-504).                                *)
RateLimitHolds ==
  \A u \in Users, t \in 1..clock :
    Cardinality({r \in Requests :
      /\ UserOf[r] = u
      /\ verdict[r] \notin {"none", "rate"}
      /\ decidedAt[r] \in (t - RateWindow + 1)..t}) <= MaxAttempts

(* A user is sent the same challenge again within the bus window only after  *)
(* as many other threats as the bus remembers: the PEP notes an action only  *)
(* after its await (lines 124-133), so overlapping decisions both execute    *)
(* it, and the bounded memory of the bus is what makes up for that           *)
(* (event_bus.py:28,47-61).                                                  *)
NoRepeatedChallenge ==
  \A c, d \in challenges :
    /\ c # d /\ c.no <= d.no
    /\ c.kind = d.kind
    /\ UserOf[c.by] = UserOf[d.by]
    => c.at + BusWindow <= d.at \/ c.no + BusCapacity < d.no

(* No session without a challenge: when the PDP is about to open, or has     *)
(* opened, a session at medium risk, each challenge to its user was on its   *)
(* way or answered at most both windows before the decision, although either *)
(* component may have swallowed the request's own challenges.                *)
SessionsAreChallenged ==
  \A r \in Requests, k \in Kinds :
    stage[r] \in {"enforced", "done"} /\ verdict[r] = "medium" =>
      /\ touched[<<UserOf[r], k>>] > 0
      /\ touched[<<UserOf[r], k>>] > decidedAt[r] - DedupWindow - BusWindow

(* Every decision is enforced and its request answered.  There are finitely  *)
(* many requests, each decided once, so this is: in the end no decision is   *)
(* left that is not.                                                         *)
DecisionsAreEnforced ==
  <>[](\A r \in Requests : verdict[r] # "none" => stage[r] = "done")

(* zero_trust_pdp.py:212, "Increase risk score": whenever a threat about a   *)
(* user is recorded, what evaluations read does not fall.                    *)
SuspicionRaisesRisk ==
  [][\A u \in Users :
       risk'[u] # risk[u] /\ risk'[u] # Unset => Behaviour(u)' >= Behaviour(u)]_vars
=============================================================================
