# AiBoO: TLA+ specifications

AiBoO is a security platform. An **agent** on each endpoint turns raw events into threat
events, lets detection agents, engines, three gates and a zero-trust control plane react to
them on an in-process event bus, and reports to a **backend** (Express, MongoDB), which keeps
the findings, runs playbooks and pages people. A **camera service** reports detections to the
same backend and a **frontend** shows it all. The specifications here cover the
parts in which order, failure and time decide whether the program is correct. Paths below are under
`src/aiboo-platform/`; `PROJECT.json` maps every definition to the lines it stands for.

## 1. Inventory

### How the parts interact

- Inside the agent everything meets on `EventBus.publish` (agent/core/event_bus.py:67-88). It
  awaits all handlers of the event's type with `asyncio.gather(..., return_exceptions=True)`:
  a publisher is suspended until every subscriber, and everything they publish, is done, and a
  subscriber's exception is logged and lost. Threat events with equal content are dropped for
  60 seconds.
- Code between two awaits runs without interruption; at every `await asyncio.sleep` or
  `await bus.publish` any other ready task may run. This is the grain of the models.
- The agent reaches the backend only through the offline queue, a SQLite table filled from the
  thread pool and emptied by a retry thread.
- The ingestion API runs in a second thread with an event loop of its own, over the same bus
  (agent/main.py:108).

### Components

| component | state | operations | what is hard | what makes it correct | modelled in |
|---|---|---|---|---|---|
| offline queue `agent/core/alert_queue.py` | SQLite rows, attempt counters, running flag, threads | add, retry pass, start, stop | crash between POST and DELETE, lost answers, failing SQL, two retry threads | no row lost silently, order up to failures, surplus copies explained, every row settled | `AlertQueue` |
| correlation engine `agent/engines/correlation_engine.py` | findings per type | ingest, evict, walk the patterns | snapshot used after an await, buffers cleared after an await | no complete pattern left behind, evidence linked once and lost only by age or lateness | `CorrelationEngine` |
| tri-gate `agent/gates/` | duplicate and burst lists, devices, places, sessions, hit counts | evaluate an event, a held event, a confirmed one; execute | every gate sleeps, one decision type for all gates, swallowed exceptions | one answer per threat, no suppression without end, offenders escalated | `TriGate` |
| zero-trust decision point `agent/core/zero_trust_pdp.py` | risk, trust and blacklist caches, attempts, sessions | decide, learn from threats | sliding window, defaults that differ between reader and writer | rate limit, meaning of the risk score | `ZeroTrust` |
| zero-trust enforcement `agent/core/zero_trust_pep.py` | recent actions | execute the actions of a decision | recorded after the await | nobody challenged twice, nobody let in unchallenged | `ZeroTrust` |
| event bus, orchestrator `agent/core/event_bus.py`, `orchestrator.py` | subscribers, fingerprints of the last minute | publish, wiring | engines that publish what they subscribe to, a filter that forgets | cascades end | `Detection` |
| meta-risk arbiter `agent/engines/meta_risk_arbiter.py` | six dimensions and recent signals per entity, cooldowns | score, corroborate, alert, decay | scores cut twice, cooldown set after the publication | no alert without corroboration | `MetaRisk` |
| risk scores `agent/engines/risk_scoring_engine.py` | factors and overall risk per entity | learn from events and the arbiter, decay | two writers of one score | the arbiter's word holds until its next | `RiskScoring` |
| zero-trust agent `agent/agents/zero_trust_agent.py` | profiles, sessions, counters of failures | judge requests, verify identities, five other threats | thresholds against sums that never reach them, a counter never reset | who is denied, and why | `ZeroTrustAgent` |
| device trust `agent/engines/device_trust_engine.py` | records, pending devices, quarantine | register, approve, verify, quarantine, release, health | two records of one quarantine, a recalculation after an await | a quarantined device is not trusted | `DeviceTrust` |
| insider, DNA, UEBA, physical engines `agent/engines/` | histories and profiles per entity | learn, compare, alert, decay | looked up by the wrong name, compared after learning, handlers that raise | they find something | `InsiderThreat`, `BehavioralDNA`, `UEBA`, `PhysicalSecurity` |
| converged engine `agent/engines/converged_security_engine.py` | signals per entity, cooldown per rule | collect, evaluate once a minute | cooldown before publication, a rule that raises | a cooldown means an alert | `ConvergedSecurity` |
| backend bridge, pseudo-lock agent `agent/core/backend_bridge.py`, `agent/agents/pseudo_lock_agent.py`, `backend/routes/agent.routes.js` | lock registry, posts, the backend's store | apply, confirm, post, restore | one lock posted several times, re-sends, a restore in between, restarts | a restored lock stays restored, both sides agree | `PseudoLocks` |
| SOAR `backend/services/soar.service.js` | incidents | create, approve, reject, execute | check-then-save, crash after the save | nothing runs without the approval it asks for, approved incidents end | `SoarIncidents` |
| authentication `backend/services/auth.service.js`, `routes/auth.routes.js`, `utils/tokens.js`, `middleware/auth.js` | users, tokens, revocations | register, log in, refresh, log out | count-then-insert, check-then-add, revocations lost in a restart | one first admin, single-use refresh tokens | `AuthTokens` |
| notifications `backend/services/notification.service.js` | queue, dedupe table | notify, tick | splice across an await, ambiguous timeouts | nothing critical vanishes unrecorded, no pass skips an item, no duplicate of a dead alert is dropped | `Notifications` |
| camera service `cv-service/app.py` | tracks, cooldowns and marks per worker; registry, retry buffer | detect, post, replace, clean up, retry, shut down | cooldown keys shared by two checks, marks set before a check, threads around a registry | what is reported, which workers run, every detection settles | `FrameAnalysis`, `CameraService` |
| other detection agents, suppression, other services, middleware, demo store, frontend, deployment | - | - | - | - | not modelled, see 5 |

`PROJECT.json` lists all components with their files and status, and under "hazards" each place
where the code can go wrong in a way a test would hardly reach, with the property that covers it
or the reason none does.

## 2. The modules

| module | what it is |
|---|---|
| `AlertDelivery` | abstract specification: at-least-once delivery, three actions |
| `AlertQueue` | the queue statement by statement, with crashes and SQL errors; implements `AlertDelivery` |
| `CorrelationEngine` | buffers and pattern walks that interleave at their awaits |
| `ThreatLife` | abstract specification: what may become of one threat event; eight actions |
| `TriGate` | Gate 1, Gate 2, Gate 3, the response bridge and the bus between them; implements `ThreatLife` |
| `ZeroTrust` | decision point and enforcement point and the bus between them |
| `NotificationPromise` | abstract specification: what may become of an alert that is notified; five actions |
| `Notifications` | the backend's notification queue: dedupe, passes over the array, back-off, dead letter; implements `NotificationPromise` |
| `DetectionEvents` | what is on the agent's bus, and the helpers the engines share |
| `MetaRisk`, `RiskScoring`, `ZeroTrustAgent`, `DeviceTrust`, `InsiderThreat`, `BehavioralDNA`, `UEBA`, `PhysicalSecurity`, `ConvergedSecurity` | one engine or agent each: its state, what it does with an item (`...On`), what it then publishes (`...Publishes`), its loops and its interface |
| `Detection` | the nine of them on the bus |
| `FrameAnalysis`, `CameraService`, `Camera` | a worker's frames; the threads around the workers; both |
| `AuthTokens`, `SoarIncidents`, `PseudoLocks`, `Response` | accounts and tokens; incidents, which use them; locks; all three |
| `MC...` | instances for TLC: they only define small constants |
| `...Proofs` | theorems: one module each for `AlertQueue`, `CorrelationEngine`, `TriGate`, `ZeroTrust`, `Notifications`; `ResponseProofs` for the three response modules, `CameraProofs` for the two of the camera service, `DetectionProofs` for the engines on their bus |

### AlertQueue

`table`, `stamp`, `rowid`, `attempts` are the SQLite table; `adding` the inserts still in the
thread pool; `running` the flag `_running`; `pc`, `batch`, `cur` say where each retry thread
stands, which rows of its snapshot are left and which one it holds. `_lock` protects one SQL
statement at a time, so each statement is one action (`AddSync`, `GetPendingAlerts`,
`DeleteAlert`, `IncrementAttempt`), each with a variant in which it raises. A POST
has the four outcomes the code tells apart: accepted, accepted but unanswered, refused,
unreachable. `Crash` keeps the table and loses everything else. `received` counts what the
backend accepted; `unacked` and `overlap` are history and appear in no guard. The model lets the
backend accept a request when it is sent and not later, and it lets any number of `Workers`
retry threads exist, because `stop_retry` waits for three seconds while a POST may take ten.
The exact row contents and the heartbeat are data and do not matter to the queue.

### CorrelationEngine

`Ingest` is `_ingest` up to its first await and `Resume` the piece of the walk from one await to
the next. `at[f]` is the pattern whose alert the task of finding `f` is publishing and
`active[f]` the set of types the task computed when it started. Eviction compares the
timestamps `Born` with `cutoff`, and findings may be published in any order of their
timestamps. The rest is history: `seen[f]` is what the task of `f` found in the buffers when it counted
them, `swept[f]` the types some alert has cleared since, `late[f]` what was ingested while `f` was suspended, and `concurrent` whether walks ever overlapped. The entity index and the list of meta-risk findings are
left out: the engine never reads them when it decides.

### TriGate

A payload is a `Profile`: its type, entity, fingerprint, and the class of signal the scoring
branches of the gates tell apart. `Arrive` is Gate 1 up to its sleep (duplicate filter, burst
filter, tracking), `Gate1` the rest of it with the scores; `Gate2`, `Gate3` and `Bridge` are the
code after their sleeps. `tasks` holds the decisions asleep in one of the handlers. Time of day
and the noise of Gate 1 are nondeterministic. Things the model makes visible in passing: the
duplicate filter ignores signature and severity although its doc says "identical event"
(gate1_perimeter.py:359, 366-376); hit counts are never reset; the registry keeps the severity of
the latest decision, not the highest (gate3_adaptive.py:175).

`ThreatLife` is the pipeline seen from one event, without bus, tasks or sleeps: new, then filtered or screened; cleared, held
or confirmed; what is confirmed is answered and executed. `Stage` reads off the state of the gates where an event is.
`Arrive` is `Filter` or `Admit`, `Gate1` is
`Screen`, `Gate3` `Answer` and `Bridge` `Execute`; `Gate2` is `Examine`, or `Lose` in the branches that raise. Its guard states how far finding 3 below reaches: a held event is lost only while the composite score of its
entity is above 0.6, and never if it came from the network.

### ZeroTrust

`Decide` runs from the rate check to the publication, in which nothing suspends. A decision is
abstracted to why it was taken. `SkipChallenge`, `DropChallenge`, `SendChallenge` and
`EndChallenge` are one turn of the enforcement loop: skipped as recent, executed but dropped by
the bus, executed, and back from the bus, where the action is noted. The filter of the bus remembers
the last 1000 threats of a minute (event_bus.py:28, 55-58): `passed` counts them, `OtherThreat` is one from
elsewhere that comes past it, and a fingerprint that `BusCapacity` later ones follow is forgotten within the minute. A challenge is
then sent again, which `NoRepeatedChallenge` says. `CreateSession` is what the
decision point does when its publication returns. Scores are integers; a sum that meets
a threshold exactly may fall on either side, as sums of floats do. Requests carry no
`session_id`, so `request_id` is a hash of the user (zero_trust_pdp.py:464).

### Notifications

An item is an alert on one channel. Node runs one piece of code at a time, so an action goes from
one awaited delivery to the next: `StartPass` is `tick` up to its first `await`; `Delivered`,
`DeliveryFails` and `GiveUp` are the outcomes of a delivery, each followed by the walk of the loop
to the next item that is due (`Continue`), while `Enqueue` may append to the same array in between. `late` is the
reading of the clock a pass keeps, `due` is history. A pass without anything due changes nothing and
is no step. Refusal and timeout are one outcome, as in the code; that a channel may have accepted
an alert whose answer came too late is not counted. What the model leaves open: correlated alerts
carry neither a type nor an entity the service knows (agent.routes.js:274-275), so all of them
share one dedupe key, although notification.service.js:13 speaks of identical type, target and
severity.

`NotificationPromise` is what the caller of `notifyCritical` may rely on, without array, passes or clock. An alert is
taken on or dropped; on each channel it is open, then sent, or audited at exactly the last attempt that may fail, or
lost with the process; and it may be dropped only beside an equal one that no channel has given up. Under the mapping
`accepted` is `called \ suppressed` and the outcome of an item is the book it stands in (`Outcome`): open while it is in
the array or being delivered. `StartPass` and `Clock` are stutters, `DeliveryFails` and `GiveUp` are `Fail`, a restart is `Die`.

### Detection and its engines

An item on the bus is a record (`Blank`) with the fields any engine reads; scores are integers
in thousandths (hundredths in `BehavioralDNA`). `pending` holds the publications whose handlers have not run. `Deliver`
takes the first, lets every engine handle it and appends what they publish, in the order
in which the orchestrator started them; between two awaits the handlers of one item run without
a break, so a delivery is one step. Where a handler publishes several items at once in no
particular order, `InOrder` fixes one. `WellFormed` says what every item on
the bus satisfies; the arrivals are assumed to, and that everything the engines publish does is proved. What a handler does after its own publication returns
is a step of its own where it matters: the arbiter's cooldown (`ArbiterDelivered`), the device
engine's recalculation (`DeviceResumes`). `MinutePasses` and `HourPasses` need a silent bus. `RecordExpires` does not (but for its bound): the risk engine keeps its records in a
cache that drops one a day after it was created, or the least recently used one of 10000 (risk_scoring_engine.py:210, 367-373), and
`handled` restarts with the record.
Engines read each other's state where the code does: the risk engine reads the arbiter's live
dictionary of dimensions, not a copy of it.

Worth knowing, and followed by the modules: `insider_threat_engine.py:131` and
`ueba_engine.py:193` look attributes up under names that do not exist; `RISK_WEIGHTS` of the
zero-trust agent has no entry for two of its seven scores; the physical engine asks an
`AccessRequest` for metadata it does not have, and the bus swallows the exception; the device engine's idle decay is
overwritten by its own recalculation; the last rule of the converged engine may raise (`Poisoned`) and then ends
the round for the entities behind it.

### FrameAnalysis and CameraService

A frame is a `Scene`: who is where, how fast, what lies about. `ProcessFrame` is
`_process_frame` with the posting of what it returns; `lastAlert` is the dictionary of
cooldowns, which the detectors and `_post_detection` share; `reported` is what got past both.
`CameraService` starts where a detection has passed its cooldown. `registry` is `workers`,
`worker[w]` a worker object with its flag and thread, `buffer` the failed detections and `retrying` the one
the retry loop has in its hands; a worker that was replaced goes on until it looks at its flag.
Each post ends accepted or failed. The two parts share no state, so a behaviour of `Camera` shows one of them.
`Free` says whether a detection's cooldown is over, `Posted` folds `_post_detection` over what a frame raised, in order,
so that of two detections with one key the second is swallowed.

### AuthTokens and SoarIncidents

A request is a handler that has got to its await: `CheckRefresh` and `Rotate` are the two halves of `/refresh`,
`CountUsers` and `CreateUser` of `/register`. Access tokens of one user and second are equal, for they have
no `jti`. `TokensRestart` keeps any subset of the revocations, whether Redis has them or not. Incidents are decided by
the requests of the same process: `LoadIncident` is authorisation and `findById`, `SaveDecision` the assignment and `save`,
`RunAction` one turn of the loop in `execute`, `FinishExecution` its end. `Fault` is a failing database call or a restart.
`excused`, `companions`, `both` and `lost` are history and appear in no guard.

### PseudoLocks

One lock in its three places: the agent's `registry`, the `rows` of the queue that post it, the backend's `store`.
`Deliver` may leave the row in the queue (the answer was lost, or the DELETE failed), which is what
`AlertDelivery` allows. When a row goes, delivered or given up, a second retry thread may hold it in its snapshot, or a request on the
wire outlive its answer: `copied` are the locks of which there is such a copy, which may arrive any number of times
(`DeliverCopy`) until there is none any more (`CopiesEnd`). `BridgeFails` is an insert that raises, after which the lock is never queued. A finding that asks for the lock and the agent's confirmation are both
bridged. `PseudoLockRestoreRequest` is never published and the agent service has no route
for the dashboard's restore, so no step removes a lock from the registry. `quiet` (restored while nothing that posts the lock was under way) and `upset` are
history. `LocksAgree` says that a quietly restored lock stays restored until the next finding, and that the two sides name the same
locks where nothing is under way and nothing upset them: no restart, restore, failed insert or row that was given up.

## 3. What the runs check

| run | instance | properties | what it shows |
|---|---|---|---|
| `alert_queue` | 2 alerts, 2 retry threads, 2 attempts, 1 crash or SQL error | `NoSilentLoss`, `OvertakenOnlyAfterFailure`, `SurplusCopiesExplained`, `EveryRowIsSettled`, `ImplementsDelivery` | the queue delivers at least once, in order up to failures; a duplicate is always owed to a named cause |
| `alert_queue_loss` | the five attempts of the code, 1 thread, no faults | `ZeroAlertLoss` | **violated**: five refused passes lose an alert for good |
| `correlation` | 5 findings, 4 overlapping patterns, expiry of 2 of them | `NothingMissedWhenIdle`, `MissingEvidenceIsAccountedFor`, `UnlinkedLossIsOldOrLate` | interleaved walks miss no complete pattern; evidence an alert lacks was there when its task counted and was cleared or expired since; a finding is lost unlinked only if it is too old or came while the walk that cleared it was suspended |
| `correlation_evidence` | the same | `AlertsLinkAllDomains` | **violated**: an alert across domains without evidence for one of them |
| `trigate` | a probe and two logins of one entity, windows of 1 and 2 ticks | `BurstLimitUnreached`, `OneAnswerPerEvent`, `RepeatOffendersEscalated`, `SlowBurnIsCaught`, `LivesAsDescribed`, `ConfirmedThreatsAreAnswered` | gates that overlap in their sleeps answer each confirmed threat once, lose no count, and do to an event only what `ThreatLife` allows |
| `trigate_holds` | the same | `HoldsAreDecided` | **violated**: a held event is left without a decision when its risk is high |
| `zero_trust` | 3 requests of one user, limit 2, 3 ticks; a bus filter of 2 fingerprints, 2 threats past it | `RiskNeverDenies`, `RateLimitHolds`, `NoRepeatedChallenge`, `SessionsAreChallenged`, `DecisionsAreEnforced` | overlapping decisions are rate-limited, challenged once while the bus remembers the challenge, and enforced |
| `zero_trust_risk` | the steps of the code | `SuspicionRaisesRisk` | **violated**: the first mismatch lowers the score that is read |
| `notifications` | 2 alerts of one key and a forced one, 1 channel, 3 attempts, 1 restart | `EachItemInOnePlace`, `PassIsComplete`, `SuppressedIsCovered`, `KeepsPromise`, `EveryItemEnds` | walking an array that changes under the loop skips, doubles and loses nothing, and keeps what `NotificationPromise` promises |
| `detection` | 1 user, 1 laptop, 10 kinds of arrivals, at most 3 arrivals or calls, 1 minute and 1 idle hour, or 1 record dropped by the cache | `AlertsAreCorroborated`, `QuarantineHolds`, `SilentDetectors`, `CooldownMeansAlert`, `CascadesEnd`, `DeniedByFailuresAlone`, `ArbiterFreezesRisk` | what nine engines make of each other's publications |
| `camera` | 3 scenes of 2 people in 7 frames; 2 cameras, 2 workers, 2 detections, buffer of 1, 2 retries | `NeverReported`, `SwallowedForGood`, `RunningIsRegistered`, `EveryDetectionSettles` | what is never told, which workers run, and that no detection is sent for ever |
| `response` | 2 accounts, 2 requests, 3 tokens; 2 playbooks, 2 incidents, 1 fault; 4 findings of one event, 2 restores, 1 outage | `SpentOnce`, `OneAdmin`, `HumanGate`, `ApprovedEnds`, `LocksAgree` | each guarantee with the exact races, restarts and failures that break it |

The types of the variables are proved (`TypeCorrect` of the proof modules, `ServiceTypeCorrect` of the camera service,
`TokenType` and `GateType` and `LockType` in `ResponseProofs`) rather than run, as is `DeadRowsStayDead`: no thread, restart or late
statement picks up a row that is out of attempts (`DeadForGood`).

### Findings

1. *alert_queue.py:213.* The header promises "zero alert loss during network outages"; after five
   failed passes, about two and a half minutes, a row is never selected again.
2. *correlation_engine.py:253.* `active_types` is computed before the first await and used after
   it. Another walk, or an earlier pattern of the same walk, empties a buffer in between; line 257
   still sees its type, lines 262-267 skip it.
3. *gate2_behavioural.py:244 (also 281, 309).* `reason` is returned before it is assigned; the bus
   swallows the `UnboundLocalError`, so the branch meant for the most certain threats
   produces no decision.
4. *zero_trust_pdp.py:213, 231.* An update starts at 0.0 where evaluations assume 0.2, so the
   first suspicion writes 0.1 and lowers the score.

`RiskNeverDenies` passes, and records something a reviewer should know: with the scores
the program can produce, the weighted risk never reaches the level that denies a request, so
only the rate limit, the blacklist and errors deny.

Some other passing properties state what the code does where its texts say more:

- `AlertsAreCorroborated`: "requires at least 3 independent signals" (meta_risk_arbiter.py:13) holds, but not by the
  corroboration, which counts a signal of no known dimension; the weights alone keep two
  dimensions below every threshold.
- `ArbiterFreezesRisk`: "the arbiter handles it" (risk_scoring_engine.py:162) - by alerts only, so after the last of
  them a score does not fall, whatever decays, until the cache drops its record after a day or for want of room.
- `DeniedByFailuresAlone`: no request is denied for its scores; more than five failed verifications of anyone who
  claimed the name deny it until the agent restarts.
- `SilentDetectors`: the insider score is always zero, UEBA profiles are never stable, the DNA engine never finds a
  request unusual and the physical engine never sees one.
- `NeverReported`: tampering and line crossing are on the list at the head of cv-service/app.py and never
  reach the backend. `SwallowedForGood`: a breach that met a cooldown is never told.
- `OneAdmin`, `SpentOnce`, `HumanGate`, `ApprovedEnds` name the overlaps and restarts after which there are two
  administrators, a refresh token is used twice, an incident is decided twice, or one stays approved for good.

### Bounds, and why they are enough

- *AlertQueue*: two alerts are needed for order, two threads for overlap; with two attempts a row
  can fail, be retried and die. One fault hits every statement in some behaviour. No symmetry is used, for
  `EveryRowIsSettled` is a liveness property. Re-sending after acceptance is bounded by
  `attempts`, so counters need no bound of their own.
- *CorrelationEngine*: the first four patterns of the table share types pairwise and one contains
  another, which is what the clears can get wrong; five findings give each type one, and network
  two. `MaxCutoff` = 2 lets the two oldest expire, while a walk is suspended or before it starts.
- *TriGate*: the ratio of the windows (5 s and 10 s) is kept as 1 and 2 ticks; `MaxBurst` is 2, stricter
  than the 3 of the code. Three answers of one entity are what escalation needs.
- *ZeroTrust*: three requests against a limit of two exceed it; windows of 2, 1 and 2 ticks overlap in every way
  within three ticks. With `BusCapacity` = 2 and `MaxPassed` = 2 (1000 in the code) the other
  challenge and a threat from elsewhere push a challenge out of the filter; the theorems hold for every capacity. `MismatchStep` = 1000 reaches the ceiling at once; the theorems hold for every step up to it.
  `zero_trust_risk` uses the numbers of the code.
- *Notifications*: a channel only multiplies the items of an alert, and three items already give passes that
  overlap with appends and returns; three attempts make the delay grow once. The relation that
  matters is kept: the delays of the failed attempts (1 + 2 ticks; 75 s in the code) reach the dedupe
  time (3 ticks; 60 s).
- *Detection*: three dimensions are the fewest that alert, so three arrivals reach an alert, and an
  idle hour or a third call after two shows what follows one. `BlockLimit` is 1 and the baselines 2 or 3 (5 and more in the code) so
  that a second or third item passes them; the profiles of `BehavioralDNA` start learned. `CascadeLimit` = 9 publications per
  arrival is what was found to be enough for these arrivals (`CascadesAlwaysEnd` proves it from 128 on, for all); without the filter no number is. A dropped record
  counts against both bounds, the minutes' and the hours', and in the run only happens on a silent bus (`MaxWaiting` = 0), so a behaviour
  has either one of these or the pauses; the theorems hold for any number of each, and at any moment.
- *Camera*: the cooldowns (1 to 3 frames, 5 for what is stale) keep the order of those of the code. Two
  workers replace each other on the webcam; a buffer of one is full at once.
- *Response*: two of everything that may overlap, and one fault, since the properties name each overlap and fault; the
  theorems hold for any number.

### Fairness

Only what the platform does by itself is fair: the operating system schedules a live retry
thread and the thread pool (`AlertQueue`), and the event loop resumes a task whose sleep or await
is over (the other modules; weak fairness, for such a task stays ready). In `Notifications` the interval timer
fires, time passes while something waits for it, and the five-second timeout ends every delivery in one of its
outcomes. In `Camera` the daemon threads run and a post ends
within its timeout (weak fairness of `WorkerPosts`, `RetryTakes` and `RetryPosts` of each thread, which stay enabled once they are). In
`Response` a running execution goes on (`RunAction`, `FinishExecution`): what it awaits answers or fails. `Detection` states safety only. Nothing is assumed about arriving events, answers of the backend or a channel, calls of `start_retry` and
`stop_retry`, or the clock elsewhere.
`EveryRowIsSettled` therefore only speaks of behaviours in which the worker stays up. Deadlock is
checked for the queue in both its runs; elsewhere the system may rest when
nothing arrives any more.

## 4. What is proved

All theorems hold for every value of the constants that meets the module's ASSUME (positive
limits, well-typed profiles; for the burst filter `BurstWindow <= 2 * DupWindow` and a limit
of at least two, which 10 s, 5 s and 3 satisfy).

| module | theorems | argument |
|---|---|---|
| `AlertQueueProofs` | `TypeCorrect`, `NoRowLostSilently`, `OrderedUpToFailures`, `DeadForGood`, `SurplusIsExplained`, `QueueImplementsDelivery` | `NoSilentLoss` is not inductive: a thread at "delete" is about to remove a row, so `Consistent` adds that whoever stands there holds an accepted alert, and that batches and held rows were stored. Order needs `Ordered`: a pass still owes an attempt to every older row that has had none. `SurplusInv`: while passes never overlapped, one thread is at work, and a row that is still in the table and not about to be deleted has no acceptance that is not accounted for. The refinement maps `received` and the table to `AlertDelivery`. |
| `CorrelationProofs` | `TypeCorrect`, `NothingMissed`, `LinkedOnce`, `MissingEvidenceExplained`, `UnlinkedLossExplained` | `CompleteIsCovered`: a complete pattern always has a walk in flight that will still pass it with all its types active, or will clear them. `SequentialInv`: with one walk at a time, a finding that was linked is out of the buffers, but for those the suspended walk is about to clear. `EvidenceInv`: of what a suspended task found in the buffers (`seen`), a finding is there still, or of a type swept since, or expired; and the alert it is publishing has linked each finding of its buffers, or one of its type that is no older, or the finding came since (`Announced`). A buffer that is not empty has a youngest finding, which is the one an alert links. |
| `TriGateProofs` | `TypeCorrect`, `BurstFilterIsIdle`, `SuppressionDoesNotFeedItself`, `AnsweredOnce`, `OffendersCounted`, `SlowBurnAlwaysCaught`, `EventsLiveAsDescribed` | entries of the duplicate list lie a window apart (`Spaced`), so at most one other fits in the burst window; `Flow` says in which single stage an event is; `CountedOnce` that the answers of an entity carry the numbers 1 to its hit count; `Remembered` that Gate 2 has every hold it evaluated in its history that no later hold it evaluated has pushed out of the session window (`Unforgotten`), whatever the order in which they wake up. The refinement of `ThreatLife` rests on `LifeInv`: an event wakes one task at a time, one that was filtered is never looked at again, and a task has no decision behind it, so each step moves one event by one stage (`SameStage`, `LeftTo`, `PassedOn`). |
| `ZeroTrustProofs` | `TypeCorrect`, `RiskHasNoTeeth`, `RateLimited`, `ChallengedOnce`, `SessionsChallenged` | bounds of the weighted sum; `Remembers`: the attempt list contains every evaluated request that is still in the window; `ChallengeInv` relates the two duplicate windows to what was sent: none that the bus let through is newer than what its filter knows of it (`LetThrough`), and what enforcement remembers was sent at most a minute before (`Remembered`). |
| `ResponseProofs` | `RefreshIsSpentOnce`, `OneAdministrator`, `GateIsHuman`, `LocksDoAgree` | `TokenInv`: a token that is not excused is unspent while a request holds it, held by one request, and revoked once spent; a registration that counted no users although there are some has companions, and so have all administrators. `GateInv`: an execution belongs to one decision and has recorded fewer actions for it than it has come past; an incident no two requests loaded is pending up to its last decision. `LockInv`: whatever posts a lock was asked for, nothing of a quietly restored event is under way, no copy of a row that outlived it either, and a finding that asks for a lock is on its way or has arrived. |
| `NotificationsProofs` | `TypeCorrect`, `EachItemAlwaysInOnePlace`, `PassIsAlwaysComplete`, `DroppedAlertIsCovered`, `ServiceKeepsPromise` | `QueueInv`: what is due and not yet tried lies before the index of the walk (`OwedIsAhead`), so taking an item out behind the index and appending to the end move nothing past it. `WindowsAreCovered`: an open dedupe window belongs to an alert no item of which has died, and each of its items has used up no less of the window than the delays it has seen, so that the window closes before its attempts are spent. The refinement rests on it: `Books` says that the outcome of an item is the one place it is in, each step of a pass moves at most the item whose delivery has ended (`PassOutcomes`), and an open window has an alert that is alive, which is the guard of `Drop`. |
| `CameraProofs` | `TamperingIsNeverReported`, `SwallowedIsNeverTold`, `ServiceTypeCorrect`, `RunningIsAlwaysRegistered` | tampering is raised only in a frame that stamps the key it is then posted under; a breach or loitering that is marked and not reported is never raised again. `RunningIsRegistered` is inductive with the types (`ServiceInv`): whoever puts a worker into the registry, or takes one out, stops the one that was there in the same step, also when a second request for the webcam comes between the check of the first and its creation. |
| `DetectionProofs` | `QuarantineAlwaysHolds`, `CooldownAlwaysMeansAlert`, `AlertsAreAlwaysCorroborated`, `DetectorsStaySilent`, `AlwaysDeniedByFailuresAlone`, `ArbiterAlwaysFreezesRisk`, `CascadesAlwaysEnd` | below |

`DetectionProofs` is about nine engines that feed one another. `BusInv` carries what they need from each other: the bus
holds well-formed items only, so confidences are natural numbers and those who ask are users. For each engine it says what
its state may be:

- `DeviceInv`: a quarantined device has a record, whose own flag says so unless the device was registered meanwhile.
- `ConvergedInv`: histories, the list of the known and the stamps speak of tracked entities only, which makes the property itself inductive:
  what poisoned an entity's last rule stays in its history.
- `ArbiterInv`: a composite score never exceeds the weighted sum of its dimensions. Two dimensions at their maximum weigh 400
  thousandths, the lowest threshold is 450, and corroboration, skeptic and decay only cut; so the third
  dimension is not a matter of the corroboration.
- The insider risk is zero, no UEBA profile is stable, the DNA engine compares threats only: each by the fields that
  nobody writes, or that are written before they are read.
- `AttemptsInv`: the agent's counter of a user equals the number of failed verifications, until the user is denied for them and it
  runs ahead. `Combined`, the weighted sum, is at most 600 of 1000 whatever a request contains.

`CascadesAlwaysEnd` needs an argument of its own, `CascadeInv`. Every item has a weight (`Weight`), at least the number of
deliveries it leads to, its own included: 1 for what the filter of the bus will drop, 2 to 6 for a finding or a request,
4 for a notice of an engine, 128 for what comes from outside. `DeliveryLoad` shows that what a delivery publishes, together with
one for the delivery itself, weighs no more than the item did; so `served` and the load of the bus stay below 128 per
arrival (`LoadInv`). The hard case is the physical engine, which reads its own publications as sightings: an `Echo`
weighs by the number of further echoes the filter does not yet remember, which every echo that passes
lowers. A minute and an idle hour publish at most one item for each name the engines know of, and names come with arrivals:
`NamesInv` bounds them by 6 and five for each, so these rounds are paid for by what has arrived. The model's filter forgets
nothing between two silences; the code's keeps the last 1000 threats of a minute (event_bus.py:55-58), which is a limit of
the result: a burst that pushes an echo out of the list, or a cascade that takes longer, starts it anew.

The assumptions (ASSUME) of these modules, beyond positive limits and disjoint names: `DelaysAssumption`, that the delays
of the failed attempts add up to the dedupe time (75 s and 60 s in the code), with the defining equations of the powers of
two it uses, which the provers do not unfold; `SceneAssumption`, that a scene's flags are Booleans and its people
tracks; `CameraAssumption`, that the webcam is a camera and objects are not `None`; `ArrivalsAssumption`, that what enters
from outside is `WellFormed`. TLC evaluates each of them in the runs.

Only model-checked:

- liveness: `EveryRowIsSettled`, `ConfirmedThreatsAreAnswered`, `DecisionsAreEnforced`, `EveryItemEnds`,
  `EveryDetectionSettles`, `ApprovedEnds`. TLAPS proves no liveness under fairness and no ENABLED.

Every other property that a passing run checks, invariant, action property or refinement, is proved; `CascadesEnd` for limits from 128
on, while 9 per arrival, for the arrivals of the run, is a measurement.

## 5. Limits

- Two event loops share the bus (agent/main.py:108). Their interleaving inside a stretch without
  an await is not modelled; lost updates between the threads are outside these results.
- Clocks do not run backwards, and time is discrete.
- The database is not corrupted and survives a crash; an insert, update or delete is atomic.
- Scores are abstracted to the classes the branches tell apart.
- Caches with a time to live: the entries of the decision point and of Gate 2 that are read in decisions may vanish
  (`ForgetUser`, `ForgetDevice`, the `meta` of `TriGate`), the risk engine's records may (`RecordExpires`), and sessions end with
  their hour. The profiles of the zero-trust agent (a day, zero_trust_agent.py:154), of `BehavioralDNA` and of `UEBA` (seven days,
  behavioral_dna_engine.py:165, ueba_engine.py:224) never expire in the modules: an entity whose profile is dropped starts
  again as one never seen. Gate 3's registry (seven days, gate3_adaptive.py:68) is only counted up, and no decision reads it; its
  hit counts, the agent's counter of failures and the blacklist are plain dictionaries and sets, and stay.
- The list of fingerprints that each agent keeps beside that of the bus (200 of them, base_agent.py:19) is not modelled apart.
- `HumanGate` allows the kind "auto": an incident whose playbook runs by itself is pending while it executes, so an administrator may decide it as well, and an
  approval runs its actions a second time (soar.service.js:80-81, 119).
- Left out, and without a bearing on a property: the `exfil_risk` and the numeric deviation from peers in the insider
  score (`Gain`); `physical_context` of the physical engine (`PhysicalOn`); the camera's fallback to YOLO without DeepSORT.
- The role `malformed` of `ZeroTrust`, a request on which the evaluation raises, is covered by the theorems and not
  by the run.
- `Response` and `Camera` show one of their parts per behaviour: the parts share no state, except tokens and
  incidents, which restart together. That a token expires while an incident is being decided is covered by `Logout` and the
  clock of the tokens' part.
- Roles never change after registration, and access tokens are compared without their signatures.
- `Incident.js` declares `actions: [{ type: String, target: ... }]`; Mongoose may read `type` as the type of the element. The
  model follows the code's intent, a list of records.
- The profiles of `BehavioralDNA` leave out what an event has just added when it is looked up.

### Not modelled

- *Other detection agents* (cyber, identity, malware, phishing, surveillance): each scores one event and keeps no state.
- *Alert suppression*: the engine only audits what it would suppress; nothing asks it first.
- *Just-in-time privileges, local executor, process monitor*: granted or started by code that nothing calls.
- *Ingestion, Windows logs, language model, threat feeds, compliance reports*: translation, external services, text.
- *Other backend services, middleware, demo store, frontend, deployment*: single database calls, library
  configuration, presentation.

## 6. Plan

1. Proofs: types of the engines' states (`MetaRisk`, `RiskScoring`, `ZeroTrustAgent` and the rest) as one theorem of
   `Detection`.
2. The five stateless agents as operators, compared with reference definitions, and with them the arrivals of `Detection` from
   raw events.
3. The session look-ups and clean-up loops of the decision and the enforcement point, which `ZeroTrust` leaves out.
