----------------------------- MODULE PseudoLocks -----------------------------
(***************************************************************************)
(* A pseudo-lock in three places: the registry of the agent that applies   *)
(* it (agents/pseudo_lock_agent.py), the posts of the bridge               *)
(* (core/backend_bridge.py), and the store of the backend that the         *)
(* dashboard shows (routes/agent.routes.js).                               *)
(*                                                                         *)
(* Between bridge and backend is the queue of AlertQueue: a row is         *)
(* delivered any number of times until it is deleted or its attempts are   *)
(* used up.  A retry thread sends from a snapshot, so that the threads     *)
(* that stop_retry left alive may send a copy of a row that is gone        *)
(* already; whether one holds such a copy is left open.                    *)
(*                                                                         *)
(* The dashboard's restore also calls the agent service.  That has no such *)
(* route, and nobody publishes a PseudoLockRestoreRequest: the registry    *)
(* hears of no restore.                                                    *)
(***************************************************************************)
EXTENDS Integers

CONSTANTS
  Findings,     \* event, whether it asks for PSEUDO_LOCK, whether it is loud
                \* (high or critical), a number
  MaxRestores,  \* bound
  MaxOutages    \* bound: restarts of the agent or the backend

ASSUME LockAssumption == {MaxRestores, MaxOutages} \subseteq Nat

Events == {f.event : f \in Findings}

VARIABLES
  published,   \* findings so far
  applying,    \* findings whose lock the agent is applying (the sleep)
  bridging,    \* findings and confirmations that the bridge has yet to queue
  registry,    \* _lock_registry: events that are locked
  rows,        \* event -> rows of the queue that post its lock
  copied,      \* events of whose rows another thread may hold a copy still
  store,       \* store.pseudoLocks: event -> absent, active or restored
  restores, outages,
  quiet,       \* history: events restored while nothing of them was under way
  upset        \* history: events whose row or lock a failure lost, or restored

lockVars == <<published, applying, bridging, registry, rows, copied, store,
              restores, outages, quiet, upset>>

LocksInit ==
  /\ published = {} /\ applying = {} /\ bridging = {}
  /\ registry = {} /\ rows = [e \in Events |-> 0] /\ copied = {}
  /\ store = [e \in Events |-> "absent"]
  /\ restores = 0 /\ outages = 0 /\ quiet = {} /\ upset = {}

\* What the bridge has to queue for a finding: itself, or its confirmation.
Item(f, role) == [finding |-> f, role |-> role]

\* Mutant: a lock is posted for every loud finding.
PostsLock_Loud(item) == item.finding.loud

\* _on_finding: a confirmation has a lock_id, whatever its actions.
PostsLock(item) ==
  item.finding.loud /\ (item.finding.locks \/ item.role = "confirmation")

\* A finding is published: the handlers of bridge and agent start.
Publish(f) ==
  /\ f \notin published /\ published' = published \cup {f}
  /\ bridging' = bridging \cup {Item(f, "finding")}
  /\ applying' = IF f.locks THEN applying \cup {f} ELSE applying
  /\ quiet' = IF f.locks THEN quiet \ {f.event} ELSE quiet
  /\ UNCHANGED <<registry, rows, copied, store, restores, outages, upset>>

\* _on_finding after the insert of the finding itself
BridgeQueues(item) ==
  /\ item \in bridging /\ bridging' = bridging \ {item}
  /\ rows' = IF PostsLock(item) THEN [rows EXCEPT ![item.finding.event] = @ + 1] ELSE rows
  /\ UNCHANGED <<published, applying, registry, copied, store, restores, outages, quiet,
                 upset>>

\* One of the two inserts raises, and the lock is not queued.
BridgeFails(item) ==
  /\ item \in bridging /\ bridging' = bridging \ {item}
  /\ upset' = IF PostsLock(item) THEN upset \cup {item.finding.event} ELSE upset
  /\ UNCHANGED <<published, applying, registry, rows, copied, store, restores, outages,
                 quiet>>

\* _apply_pseudo_lock after the sleep: a new record, and the confirmation.
Apply(f) ==
  /\ f \in applying /\ applying' = applying \ {f}
  /\ registry' = registry \cup {f.event}
  /\ bridging' = bridging \cup {Item(f, "confirmation")}
  /\ UNCHANGED <<published, rows, copied, store, restores, outages, quiet, upset>>

\* A row is gone.  Another thread, or a connection given up, may have it yet.
RowGoes(e) ==
  /\ rows' = [rows EXCEPT ![e] = @ - 1]
  /\ copied' \in {copied, copied \cup {e}}

\* POST /pseudo-lock, whose answer may be lost, or the DELETE after it fail.
Deliver(e) ==
  /\ rows[e] > 0
  /\ store' = [store EXCEPT ![e] = "active"]
  /\ RowGoes(e) \/ UNCHANGED <<rows, copied>>
  /\ UNCHANGED <<published, applying, bridging, registry, restores, outages, quiet, upset>>

\* The attempts of a row are used up.
GiveUp(e) ==
  /\ rows[e] > 0 /\ RowGoes(e)
  /\ upset' = upset \cup {e}
  /\ UNCHANGED <<published, applying, bridging, registry, store, restores, outages, quiet>>

\* A copy of a row that is gone arrives; it may not be the last one.
DeliverCopy(e) ==
  /\ e \in copied /\ copied' \in {copied, copied \ {e}}
  /\ store' = [store EXCEPT ![e] = "active"]
  /\ UNCHANGED <<published, applying, bridging, registry, rows, restores, outages, quiet,
                 upset>>

\* No thread holds a copy any more: stopped, or its posts failed.
CopiesEnd(e) ==
  /\ e \in copied /\ copied' = copied \ {e}
  /\ UNCHANGED <<published, applying, bridging, registry, rows, store, restores, outages,
                 quiet, upset>>

UnderWay(e) ==
  \/ rows[e] > 0 \/ e \in copied
  \/ \E f \in applying : f.event = e
  \/ \E item \in bridging : item.finding.event = e /\ PostsLock(item)

\* POST /pseudo-lock-restore and /pseudo-locks/:lockId/restore
Restore(e) ==
  /\ restores < MaxRestores /\ restores' = restores + 1
  /\ store[e] # "absent"
  /\ store' = [store EXCEPT ![e] = "restored"]
  /\ quiet' = IF UnderWay(e) THEN quiet ELSE quiet \cup {e}
  /\ upset' = upset \cup {e}
  /\ UNCHANGED <<published, applying, bridging, registry, rows, copied, outages>>

\* The agent restarts: its queue is a file, its registry and tasks are not.
\* What its threads have on the wire may arrive yet.
AgentRestarts ==
  /\ outages < MaxOutages /\ outages' = outages + 1
  /\ applying' = {} /\ bridging' = {} /\ registry' = {}
  /\ upset' = upset \cup {f.event : f \in published}
  /\ UNCHANGED <<published, rows, copied, store, restores, quiet>>

\* The backend restarts: hydration brings back findings, not locks.
BackendRestarts ==
  /\ outages < MaxOutages /\ outages' = outages + 1
  /\ store' = [e \in Events |-> "absent"]
  /\ upset' = upset \cup Events
  /\ UNCHANGED <<published, applying, bridging, registry, rows, copied, restores, quiet>>

LocksNext ==
  \/ \E f \in Findings : Publish(f) \/ Apply(f)
  \/ \E item \in bridging : BridgeQueues(item) \/ BridgeFails(item)
  \/ \E e \in Events :
       Deliver(e) \/ GiveUp(e) \/ DeliverCopy(e) \/ CopiesEnd(e) \/ Restore(e)
  \/ AgentRestarts \/ BackendRestarts

(* What the dashboard shows and what the agent applies (81-119 of the      *)
(* agent, 160-201 of the bridge, 289-302 of the routes).  A lock that was  *)
(* restored while none of its posts was under way, neither as a row nor as *)
(* a copy that a retry thread took before the row was deleted              *)
(* (alert_queue.py 144-179), stays restored until the event is found       *)
(* again: neither the agent's confirmation nor another finding of the      *)
(* event revives it.  And once nothing is under way, nobody has restored   *)
(* and nothing was lost, the dashboard shows a lock as active exactly if a *)
(* loud finding asked for it, and the agent then applies it.               *)
LocksAgree ==
  /\ \A e \in quiet : store[e] # "active"
  /\ \A e \in Events \ upset :
       ~UnderWay(e) =>
         /\ store[e] = "active" <=> \E f \in published : f.event = e /\ f.locks /\ f.loud
         /\ store[e] = "active" => e \in registry
==============================================================================
