-------------------------------- MODULE Camera --------------------------------
(***************************************************************************)
(* The vision service (cv-service/app.py) in one specification: what a     *)
(* worker makes of its frames, and the threads around the workers.  The    *)
(* two share the cooldown at the head of _post_detection alone, which      *)
(* FrameAnalysis has: to CameraService a detection is one that passed it.  *)
(* A behaviour shows the one or the other; the other rests.                *)
(***************************************************************************)
EXTENDS FrameAnalysis, CameraService

VARIABLE shows  \* "frames" or "threads"

vars == <<shows, frameVars, serviceVars>>

Init == shows \in {"frames", "threads"} /\ FrameInit /\ ServiceInit

\* A step of the service.
Serves(A) == shows = "threads" /\ A /\ UNCHANGED <<shows, frameVars>>

Next ==
  \/ shows = "frames" /\ FrameNext /\ UNCHANGED <<shows, serviceVars>>
  \/ Serves(ServiceNext)

(* Threads run: a post ends within its timeout, the retry loop wakes up    *)
(* every ten seconds, a worker comes round to its flag.  Nothing is asked  *)
(* of the camera or of the requests.                                       *)
Fairness ==
  /\ \A w \in Workers : WF_vars(Serves(WorkerPosts(w)))
  /\ WF_vars(Serves(RetryTakes))
  /\ WF_vars(Serves(RetryPosts))

Spec == Init /\ [][Next]_vars /\ Fairness
===============================================================================
