---------------------------- MODULE CameraService ----------------------------
(***************************************************************************)
(* The threads of the vision service (cv-service/app.py): request handlers *)
(* that add and remove cameras, one worker per camera that reads, analyses *)
(* and posts, the cleanup loop that drops silent workers, and the loop     *)
(* that sends again what could not be posted.                              *)
(*                                                                         *)
(* workers_lock makes each section under it one step; the webcam handler   *)
(* has two of them.  A worker that has been stopped is still running until *)
(* it looks at its flag.  A post that the backend accepted may look to the *)
(* sender as if it had failed (two seconds' timeout): it is sent again.    *)
(***************************************************************************)
EXTENDS Integers, Sequences, FiniteSets

CONSTANTS
  Cameras,         \* the cameraIds, Webcam among them
  Webcam,          \* "webcam_0"
  Workers,         \* bound: CameraWorker objects, 1..n
  Detected,           \* bound: detections that pass the cooldown, 1..n
  RetryMax,        \* DETECTION_RETRY_MAX: 3
  BufferMax,       \* FAILED_DETECTION_BUFFER_MAX: 500
  Requests         \* bound: webcam requests at a time

ASSUME CameraAssumption ==
  /\ Webcam \in Cameras /\ {RetryMax, BufferMax} \subseteq Nat \ {0} /\ Requests \in Nat
  /\ Workers \cup Detected \subseteq Nat \ {0}

None == 0

VARIABLES
  registry,    \* workers: camera -> worker or None
  worker,      \* each: running, thread (none, opening, reading, posting, ended),
               \* silent, the detection it posts and the attempts at it
  asked,       \* webcam requests that found no webcam and have not created one
  buffer,      \* _failed_detections, oldest first: detection and _retry_count
  retrying,    \* what the retry loop has taken out of it
  seen,        \* history: detections that a worker has made
  up           \* the process is running

serviceVars == <<registry, worker, asked, buffer, retrying, seen, up>>

Idle == [running |-> FALSE, thread |-> "none", silent |-> FALSE, det |-> None, tries |-> 0]

ServiceInit ==
  /\ registry = [c \in Cameras |-> None]
  /\ worker = [w \in Workers |-> Idle]
  /\ asked = 0
  /\ buffer = <<>> /\ retrying = <<>>
  /\ seen = {}
  /\ up = TRUE

Fresh == {w \in Workers : worker[w].thread = "none"}

\* CameraWorker() and start()
Started == [Idle EXCEPT !.running = TRUE, !.thread = "opening"]

\* stop(): the flag, and the capture taken away.
Stopped(w) == [worker[w] EXCEPT !.running = FALSE]

Replaced(c, w) ==
  [x \in Workers |-> CASE x = w -> Started
                       [] x = registry[c] /\ x # w -> Stopped(x)
                       [] OTHER -> worker[x]]

\* add_camera: one section, which stops the one it replaces.
AddCamera(c) ==
  /\ up /\ Fresh # {}
  /\ LET w == CHOOSE w \in Fresh : \A x \in Fresh : w <= x
     IN worker' = Replaced(c, w) /\ registry' = [registry EXCEPT ![c] = w]
  /\ UNCHANGED <<asked, buffer, retrying, seen, up>>

\* add_webcam, first section: is there one?
AskWebcam ==
  /\ up /\ asked < Requests /\ registry[Webcam] = None
  /\ asked' = asked + 1
  /\ UNCHANGED <<registry, worker, buffer, retrying, seen, up>>

\* Mutant: what the first section found is taken to hold in the second.
WebcamWorkers_Checked(w) == [worker EXCEPT ![w] = Started]

\* Second section: stops the one that another request has made meanwhile.
WebcamWorkers(w) == Replaced(Webcam, w)

CreateWebcam ==
  /\ up /\ asked > 0 /\ Fresh # {}
  /\ asked' = asked - 1
  /\ LET w == CHOOSE w \in Fresh : \A x \in Fresh : w <= x
     IN worker' = WebcamWorkers(w) /\ registry' = [registry EXCEPT ![Webcam] = w]
  /\ UNCHANGED <<buffer, retrying, seen, up>>

RemoveCamera(c) ==
  /\ up /\ registry[c] # None
  /\ worker' = [worker EXCEPT ![registry[c]] = Stopped(registry[c])]
  /\ registry' = [registry EXCEPT ![c] = None]
  /\ UNCHANGED <<asked, buffer, retrying, seen, up>>

(* _cleanup_loop: a worker that has had a frame, and none for two minutes, *)
(* is stopped and forgotten.                                               *)
CleanupWorkers ==
  LET stale == {c \in Cameras : registry[c] # None /\ worker[registry[c]].silent
                                  /\ worker[registry[c]].running}
  IN /\ up /\ stale # {}
     /\ registry' = [c \in Cameras |-> IF c \in stale THEN None ELSE registry[c]]
     /\ worker' = [w \in Workers |-> IF \E c \in stale : registry[c] = w
                                     THEN Stopped(w) ELSE worker[w]]
     /\ UNCHANGED <<asked, buffer, retrying, seen, up>>

Set(w, r) == worker' = [worker EXCEPT ![w] = r]

(* _run: opening fails and is tried again, a read fails and the camera is  *)
(* opened again; the flag is looked at between any two of these.           *)
WorkerOpens(w) ==
  /\ worker[w].thread = "opening" /\ worker[w].running
  /\ Set(w, [worker[w] EXCEPT !.thread = "reading"])
  /\ UNCHANGED <<registry, asked, buffer, retrying, seen, up>>

\* Frames stop for longer than the health timeout, in whatever way.
WorkerSilent(w) ==
  /\ worker[w].thread = "reading" /\ worker[w].running
  /\ \E next \in {"opening", "reading"} :
       Set(w, [worker[w] EXCEPT !.thread = next, !.silent = TRUE])
  /\ UNCHANGED <<registry, asked, buffer, retrying, seen, up>>

WorkerDetects(w, d) ==
  /\ worker[w].thread = "reading" /\ worker[w].running
  /\ d \notin seen /\ \A e \in Detected : e < d => e \in seen
  /\ seen' = seen \cup {d}
  /\ Set(w, [worker[w] EXCEPT !.thread = "posting", !.silent = FALSE, !.det = d, !.tries = 0])
  /\ UNCHANGED <<registry, asked, buffer, retrying, up>>

WorkerEnds(w) ==
  /\ worker[w].thread \in {"opening", "reading"} /\ ~worker[w].running
  /\ Set(w, [worker[w] EXCEPT !.thread = "ended"])
  /\ UNCHANGED <<registry, asked, buffer, retrying, seen, up>>

Buffered(d) ==
  IF Len(buffer) < BufferMax THEN Append(buffer, [det |-> d, count |-> 0]) ELSE buffer

(* _post_with_retry and what _post_detection does when it has failed: a    *)
(* full buffer drops what is new.                                          *)
WorkerPosts(w) ==
  LET d == worker[w].det
      done == [worker[w] EXCEPT !.thread = "reading", !.det = None]
  IN /\ worker[w].thread = "posting"
     /\ \/ Set(w, done) /\ UNCHANGED buffer
        \/ /\ worker[w].tries + 1 < RetryMax
           /\ Set(w, [worker[w] EXCEPT !.tries = @ + 1]) /\ UNCHANGED buffer
        \/ /\ worker[w].tries + 1 = RetryMax
           /\ Set(w, done) /\ buffer' = Buffered(d)
     /\ UNCHANGED <<registry, asked, retrying, seen, up>>

\* Mutant: the count that was popped is not written back.
Counted_Lost(r) == r

Counted(r) == [r EXCEPT !.count = @ + 1]

\* _retry_failed_detections, every ten seconds: one payload is taken out ...
RetryTakes ==
  /\ up /\ retrying = <<>> /\ buffer # <<>>
  /\ retrying' = <<Counted(Head(buffer))>>
  /\ buffer' = Tail(buffer)
  /\ UNCHANGED <<registry, worker, asked, seen, up>>

\* ... and put back when it fails; a full buffer then drops what is oldest.
RetryPosts ==
  LET r == retrying[1]
      room == IF Len(buffer) >= BufferMax THEN Tail(buffer) ELSE buffer
  IN /\ up /\ retrying # <<>>
     /\ retrying' = <<>>
     /\ buffer' \in {buffer, IF r.count >= RetryMax THEN buffer ELSE Append(room, r)}
     /\ UNCHANGED <<registry, worker, asked, seen, up>>

(* _shutdown: every worker is stopped; the process ends, and the daemon    *)
(* threads and the buffer with it.                                         *)
Shutdown ==
  /\ up /\ up' = FALSE
  /\ registry' = [c \in Cameras |-> None]
  /\ worker' = [w \in Workers |-> [worker[w] EXCEPT !.running = FALSE,
       !.thread = IF @ = "none" THEN @ ELSE "ended", !.det = None]]
  /\ buffer' = <<>> /\ retrying' = <<>> /\ asked' = 0
  /\ UNCHANGED seen

\* A worker of 1..n that has been handed out is not handed out again, so that
\* the bound on Workers ends the requests.
ServiceNext ==
  \/ \E c \in Cameras : AddCamera(c) \/ RemoveCamera(c)
  \/ AskWebcam \/ CreateWebcam
  \/ CleanupWorkers
  \/ \E w \in Workers :
       \/ WorkerOpens(w) \/ WorkerSilent(w) \/ WorkerEnds(w) \/ WorkerPosts(w)
       \/ \E d \in Detected : WorkerDetects(w, d)
  \/ RetryTakes \/ RetryPosts
  \/ Shutdown

InFlight(d) ==
  \/ \E w \in Workers : worker[w].det = d
  \/ \E i \in DOMAIN buffer : buffer[i].det = d
  \/ retrying # <<>> /\ retrying[1].det = d

ServiceTypeOK ==
  /\ registry \in [Cameras -> Workers \cup {None}]
  /\ worker \in [Workers ->
       [running : BOOLEAN, thread : {"none", "opening", "reading", "posting", "ended"},
        silent : BOOLEAN, det : Detected \cup {None}, tries : 0..(RetryMax - 1)]]
  /\ \A w \in Workers : worker[w].thread = "posting" => worker[w].det \in Detected
  /\ asked \in 0..Requests
  /\ buffer \in Seq([det : Detected, count : 0..(RetryMax - 1)])
  /\ Len(buffer) <= BufferMax
  /\ retrying \in Seq([det : Detected, count : 1..RetryMax]) /\ Len(retrying) <= 1
  /\ seen \subseteq Detected /\ up \in BOOLEAN

(* A worker whose flag is set is the one the registry has for its camera:  *)
(* two requests for the webcam at once leave one worker on it, although    *)
(* both found none (1424-1445), and what a request replaces or the cleanup *)
(* drops is stopped.                                                       *)
RunningIsRegistered ==
  \A w \in Workers : worker[w].running => \E c \in Cameras : registry[c] = w

(* Whatever the backend answers, however full the buffer is and whichever  *)
(* workers are stopped meanwhile, a detection is not sent for ever: it is  *)
(* accepted, dropped, or given up after RetryMax posts and RetryMax        *)
(* repetitions (238-251, 1284-1296, 1339-1372).                            *)
EveryDetectionSettles ==
  \A d \in Detected : InFlight(d) ~> ~InFlight(d)
==============================================================================
