----------------------------- MODULE AlertQueue -----------------------------
(***************************************************************************)
(* The agent's offline alert queue (agent/core/alert_queue.py): a SQLite   *)
(* table that outlives the process, the thread-pool inserts that fill it,  *)
(* and the retry threads that read a snapshot of it, POST each row to the  *)
(* backend, and delete it or raise its attempt counter.                    *)
(*                                                                         *)
(* The lock of the code covers one SQL statement at a time, so every       *)
(* statement is one action and everything between two statements may       *)
(* interleave.  Row contents are abstracted to the identity of the alert.  *)
(* The table's `timestamp' column is the insertion order: it is read while *)
(* the database lock is held.                                              *)
(***************************************************************************)
EXTENDS Naturals, FiniteSets

CONSTANTS
  Alerts,       \* payloads handed to add_to_endpoint, each one once
  Workers,      \* retry threads that may exist at the same time (bound)
  NoAlert,      \* cur[w] of a thread that handles no row
  MaxAttempts,  \* 5 in the code
  MaxFaults     \* bound on crashes plus failing SQL statements

ASSUME QueueAssumption ==
  /\ MaxAttempts \in Nat \ {0}
  /\ MaxFaults \in Nat
  /\ IsFiniteSet(Workers)
  /\ NoAlert \notin Alerts

VARIABLES
  adding,    \* alerts handed to asyncio.to_thread and not inserted yet
  table,     \* rows of pending_alerts
  stamp,     \* insertion order of each alert, 0 before the insert
  rowid,     \* AUTOINCREMENT counter
  attempts,  \* the attempts column
  running,   \* self._running, shared by all retry threads
  pc,        \* where each retry thread stands in _retry_worker
  batch,     \* rows of the thread's snapshot it has not reached yet
  cur,       \* the row the thread is handling
  received,  \* copies of each alert the backend accepted
  unacked,   \* history: acceptances that the queue failed to record
  overlap,   \* history: a thread was started while another was alive
  faults     \* crashes and SQL errors so far

queueVars == <<adding, table, stamp, rowid, attempts>>
workerVars == <<running, pc, batch, cur, overlap>>
vars == <<adding, table, stamp, rowid, attempts, running, pc, batch, cur,
          received, unacked, overlap, faults>>

Steps == {"none", "top", "next", "post", "delete", "bump", "handler", "sleep"}
Holding == {"post", "delete", "bump", "handler"}

Stored(a) == stamp[a] > 0
Exhausted(a) == attempts[a] >= MaxAttempts

Init ==
  /\ adding = {}
  /\ table = {}
  /\ stamp = [a \in Alerts |-> 0]
  /\ rowid = 0
  /\ attempts = [a \in Alerts |-> 0]
  /\ running = FALSE
  /\ pc = [w \in Workers |-> "none"]
  /\ batch = [w \in Workers |-> {}]
  /\ cur = [w \in Workers |-> NoAlert]
  /\ received = [a \in Alerts |-> 0]
  /\ unacked = [a \in Alerts |-> 0]
  /\ overlap = FALSE
  /\ faults = 0

-----------------------------------------------------------------------------
(* add_to_endpoint and the insert it runs in the thread pool *)

\* Any of the statements below may raise: a locked or full database.
SqlError ==
  /\ faults < MaxFaults
  /\ faults' = faults + 1

AddToEndpoint(a) ==
  /\ a \notin adding
  /\ ~Stored(a)
  /\ adding' = adding \cup {a}
  /\ UNCHANGED <<table, stamp, rowid, attempts, workerVars, received, unacked, faults>>

AddSync(a) ==
  /\ a \in adding
  /\ adding' = adding \ {a}
  /\ table' = table \cup {a}
  /\ rowid' = rowid + 1
  /\ stamp' = [stamp EXCEPT ![a] = rowid + 1]
  /\ UNCHANGED <<attempts, workerVars, received, unacked, faults>>

\* The insert raises, to the caller of add_to_endpoint; nothing is stored.
AddFails(a) ==
  /\ a \in adding
  /\ SqlError
  /\ adding' = adding \ {a}
  /\ UNCHANGED <<table, stamp, rowid, attempts, workerVars, received, unacked>>

-----------------------------------------------------------------------------
(* start_retry and stop_retry.  stop_retry joins for three seconds at most, *)
(* less than a POST may take, so it may return with the thread still alive. *)

StartRetry(w) ==
  /\ ~running
  /\ pc[w] = "none"
  /\ running' = TRUE
  /\ pc' = [pc EXCEPT ![w] = "top"]
  /\ overlap' = (overlap \/ \E v \in Workers : pc[v] # "none")
  /\ UNCHANGED <<queueVars, batch, cur, received, unacked, faults>>

StopRetry ==
  /\ running
  /\ running' = FALSE
  /\ UNCHANGED <<queueVars, pc, batch, cur, overlap, received, unacked, faults>>

-----------------------------------------------------------------------------
(* One retry thread *)

Goto(w, step) == pc' = [pc EXCEPT ![w] = step]

\* while self._running
Leave(w) ==
  /\ pc[w] = "top"
  /\ ~running
  /\ Goto(w, "none")
  /\ UNCHANGED <<queueVars, running, batch, cur, overlap, received, unacked, faults>>

\* SELECT ... WHERE attempts < 5
Sendable == {a \in table : attempts[a] < MaxAttempts}

GetPendingAlerts(w) ==
  /\ pc[w] = "top"
  /\ running
  /\ batch' = [batch EXCEPT ![w] = Sendable]
  /\ Goto(w, "next")
  /\ UNCHANGED <<queueVars, running, cur, overlap, received, unacked, faults>>

\* The outer except: the loop sleeps and comes round again.
GetPendingFails(w) ==
  /\ pc[w] = "top"
  /\ running
  /\ SqlError
  /\ Goto(w, "sleep")
  /\ UNCHANGED <<queueVars, running, batch, cur, overlap, received, unacked>>

\* Mutant: the ORDER BY is dropped.
PickRow_Unordered(w) ==
  /\ pc[w] = "next"
  /\ running
  /\ \E a \in batch[w] :
       /\ cur' = [cur EXCEPT ![w] = a]
       /\ batch' = [batch EXCEPT ![w] = @ \ {a}]
  /\ Goto(w, "post")
  /\ UNCHANGED <<queueVars, running, overlap, received, unacked, faults>>

\* Rows come ORDER BY timestamp.
PickRow(w) ==
  /\ pc[w] = "next"
  /\ running
  /\ \E a \in batch[w] :
       /\ \A b \in batch[w] : stamp[a] <= stamp[b]
       /\ cur' = [cur EXCEPT ![w] = a]
       /\ batch' = [batch EXCEPT ![w] = @ \ {a}]
  /\ Goto(w, "post")
  /\ UNCHANGED <<queueVars, running, overlap, received, unacked, faults>>

\* The for loop ends: no row is left, or self._running was cleared.
EndPass(w) ==
  /\ pc[w] = "next"
  /\ batch[w] = {} \/ ~running
  /\ batch' = [batch EXCEPT ![w] = {}]
  /\ Goto(w, "sleep")
  /\ UNCHANGED <<queueVars, running, cur, overlap, received, unacked, faults>>

\* Mutant: an accepted answer that is not exactly 200 counts as a failure.
PostAccepted_Only200(w) ==
  /\ pc[w] = "post"
  /\ received' = [received EXCEPT ![cur[w]] = @ + 1]
  /\ \/ Goto(w, "delete")
     \/ Goto(w, "bump")
  /\ UNCHANGED <<queueVars, running, batch, cur, overlap, unacked, faults>>

\* The backend accepted the POST and its 200/201 arrived in time.
PostAccepted(w) ==
  /\ pc[w] = "post"
  /\ received' = [received EXCEPT ![cur[w]] = @ + 1]
  /\ Goto(w, "delete")
  /\ UNCHANGED <<queueVars, running, batch, cur, overlap, unacked, faults>>

\* The backend accepted it, but the answer was lost or came after 10 s.
PostUnanswered(w) ==
  /\ pc[w] = "post"
  /\ received' = [received EXCEPT ![cur[w]] = @ + 1]
  /\ unacked' = [unacked EXCEPT ![cur[w]] = @ + 1]
  /\ Goto(w, "handler")
  /\ UNCHANGED <<queueVars, running, batch, cur, overlap, faults>>

\* Mutant: any answer counts as a delivery.
PostRefused_Deletes(w) ==
  /\ pc[w] = "post"
  /\ Goto(w, "delete")
  /\ UNCHANGED <<queueVars, running, batch, cur, overlap, received, unacked, faults>>

\* The backend answered with any other status: 401, 429, 5xx.
PostRefused(w) ==
  /\ pc[w] = "post"
  /\ Goto(w, "bump")
  /\ UNCHANGED <<queueVars, running, batch, cur, overlap, received, unacked, faults>>

\* httpx.RequestError before the request reached the backend.
PostUnreachable(w) ==
  /\ pc[w] = "post"
  /\ Goto(w, "handler")
  /\ UNCHANGED <<queueVars, running, batch, cur, overlap, received, unacked, faults>>

DeleteAlert(w) ==
  /\ pc[w] = "delete"
  /\ table' = table \ {cur[w]}
  /\ cur' = [cur EXCEPT ![w] = NoAlert]
  /\ Goto(w, "next")
  /\ UNCHANGED <<adding, stamp, rowid, attempts, running, batch, overlap,
                 received, unacked, faults>>

\* `except Exception' also catches a failing DELETE: a row the backend has
\* already accepted is counted as a failed attempt and sent again.
DeleteFails(w) ==
  /\ pc[w] = "delete"
  /\ SqlError
  /\ unacked' = [unacked EXCEPT ![cur[w]] = @ + 1]
  /\ Goto(w, "handler")
  /\ UNCHANGED <<queueVars, running, batch, cur, overlap, received>>

\* Mutant: a failed attempt is not counted.
IncrementAttempt_Forgotten(w) ==
  /\ pc[w] \in {"bump", "handler"}
  /\ cur' = [cur EXCEPT ![w] = NoAlert]
  /\ Goto(w, "next")
  /\ UNCHANGED <<queueVars, running, batch, overlap, received, unacked, faults>>

\* In the else branch ("bump") or in an except clause ("handler"); an UPDATE
\* of a row another thread deleted changes nothing.
IncrementAttempt(w) ==
  /\ pc[w] \in {"bump", "handler"}
  /\ attempts' = IF cur[w] \in table
                   THEN [attempts EXCEPT ![cur[w]] = @ + 1] ELSE attempts
  /\ cur' = [cur EXCEPT ![w] = NoAlert]
  /\ Goto(w, "next")
  /\ UNCHANGED <<adding, table, stamp, rowid, running, batch, overlap,
                 received, unacked, faults>>

\* The UPDATE of the else branch fails: `except Exception' repeats it.
IncrementFails(w) ==
  /\ pc[w] = "bump"
  /\ SqlError
  /\ Goto(w, "handler")
  /\ UNCHANGED <<queueVars, running, batch, cur, overlap, received, unacked>>

\* The UPDATE of an except clause fails: the rest of the pass is abandoned.
HandlerFails(w) ==
  /\ pc[w] = "handler"
  /\ SqlError
  /\ batch' = [batch EXCEPT ![w] = {}]
  /\ cur' = [cur EXCEPT ![w] = NoAlert]
  /\ Goto(w, "sleep")
  /\ UNCHANGED <<queueVars, running, overlap, received, unacked>>

Wake(w) ==
  /\ pc[w] = "sleep"
  /\ Goto(w, "top")
  /\ UNCHANGED <<queueVars, running, batch, cur, overlap, received, unacked, faults>>

Post(w) ==
  \/ PostAccepted(w)
  \/ PostUnanswered(w)
  \/ PostRefused(w)
  \/ PostUnreachable(w)

RetryWorker(w) ==
  \/ Leave(w)
  \/ GetPendingAlerts(w)
  \/ GetPendingFails(w)
  \/ PickRow(w)
  \/ EndPass(w)
  \/ Post(w)
  \/ DeleteAlert(w)
  \/ DeleteFails(w)
  \/ IncrementAttempt(w)
  \/ IncrementFails(w)
  \/ HandlerFails(w)
  \/ Wake(w)

-----------------------------------------------------------------------------
(* The process dies and is started again.  The threads are daemons and the *)
(* inserts still queued in the pool are in memory; only the table survives. *)

Crash ==
  /\ faults < MaxFaults
  /\ faults' = faults + 1
  /\ adding' = {}
  /\ running' = FALSE
  /\ pc' = [w \in Workers |-> "none"]
  /\ batch' = [w \in Workers |-> {}]
  /\ cur' = [w \in Workers |-> NoAlert]
  /\ unacked' = [a \in Alerts |->
       unacked[a] + Cardinality({w \in Workers : pc[w] = "delete" /\ cur[w] = a})]
  /\ UNCHANGED <<table, stamp, rowid, attempts, overlap, received>>

Next ==
  \/ \E a \in Alerts : AddToEndpoint(a) \/ AddSync(a) \/ AddFails(a)
  \/ \E w \in Workers : StartRetry(w) \/ RetryWorker(w)
  \/ StopRetry
  \/ Crash

Spec == Init /\ [][Next]_vars

(* The operating system schedules a live thread and the thread pool; nobody *)
(* promises that start_retry or stop_retry is called, nor any POST outcome. *)
Fairness ==
  /\ \A w \in Workers : WF_vars(RetryWorker(w))
  /\ \A a \in Alerts : WF_vars(AddSync(a))

FairSpec == Spec /\ Fairness

-----------------------------------------------------------------------------
TypeOK ==
  /\ adding \subseteq Alerts
  /\ table \subseteq Alerts
  /\ stamp \in [Alerts -> Nat]
  /\ rowid \in Nat
  /\ attempts \in [Alerts -> Nat]
  /\ running \in BOOLEAN
  /\ pc \in [Workers -> Steps]
  /\ batch \in [Workers -> SUBSET Alerts]
  /\ cur \in [Workers -> Alerts \cup {NoAlert}]
  /\ received \in [Alerts -> Nat]
  /\ unacked \in [Alerts -> Nat]
  /\ overlap \in BOOLEAN
  /\ faults \in Nat

(* A row leaves the table only after the backend accepted its alert, however *)
(* threads, crashes and failing statements interleave (lines 172-193).       *)
NoSilentLoss == \A a \in Alerts : Stored(a) /\ a \notin table => received[a] > 0

Tried(a) == received[a] > 0 \/ attempts[a] > 0

(* ORDER BY timestamp over a snapshot keeps alerts in order up to failures:  *)
(* the backend sees a younger alert before an older one only if an attempt   *)
(* on the older one was recorded as failed (lines 155-193, 213).             *)
OvertakenOnlyAfterFailure ==
  \A a, b \in Alerts :
    Stored(a) /\ stamp[a] < stamp[b] /\ received[b] > 0 => Tried(a)

(* As long as retry threads never overlap, every surplus copy at the backend *)
(* is owed to one acceptance the queue could not record: a lost answer, a    *)
(* failing DELETE, or a crash between the answer and the DELETE.             *)
SurplusCopiesExplained ==
  ~overlap => \A a \in Alerts : received[a] <= 1 + unacked[a]

InSomePass(a) == \E w \in Workers : a \in batch[w] \/ cur[w] = a

Dead(a) == Exhausted(a) /\ ~InSomePass(a)

(* A row that used up its attempts and is in no running pass is dead for     *)
(* good: no retry thread, restarted process or late statement ever picks it  *)
(* up again (the WHERE clause of line 213).                                  *)
DeadRowsStayDead == [][\A a \in Alerts : Dead(a) => Dead(a)']_vars

(* While the worker stays up, no stored alert is starved: it is delivered    *)
(* or runs out of attempts, whatever the backend answers.                    *)
EveryRowIsSettled ==
  (<>[]running) =>
    \A a \in Alerts : (a \in table) ~> (received[a] > 0 \/ Exhausted(a))

Delivery == INSTANCE AlertDelivery WITH
  submitted <- {a \in Alerts : Stored(a)},
  pending <- table,
  copies <- received

(* The queue implements at-least-once delivery.                              *)
ImplementsDelivery == Delivery!Spec

(* alert_queue.py:3 promises "zero alert loss during network outages": no    *)
(* alert may end up undelivered with its attempts used up.                   *)
ZeroAlertLoss == \A a \in Alerts : Exhausted(a) => received[a] > 0
=============================================================================
