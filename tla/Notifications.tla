---------------------------- MODULE Notifications ----------------------------
(***************************************************************************)
(* The backend's notification service                                      *)
(* (backend/services/notification.service.js): alerts that pass the        *)
(* severity gate are deduplicated and queued once per channel; a timer     *)
(* walks the queue from its end, takes out what is due, and awaits each    *)
(* delivery; failures go back with a growing delay until their attempts    *)
(* are used up, and then to the audit log.                                 *)
(*                                                                         *)
(* The service runs on one thread and gives it up only while it awaits a   *)
(* delivery, so everything between two deliveries is one action.  Times    *)
(* are kept as what is left of them: `window' of the dedupe entry of a     *)
(* key, `wait' of an item before it is due.  Queue, dedupe entries and     *)
(* timer live in memory and die with the process.                          *)
(***************************************************************************)
EXTENDS Naturals, Sequences

CONSTANTS
  Alerts,       \* calls of notifyCritical that pass the severity gate
  Forced,       \* those with `force'
  Keys, KeyOf,  \* type, target and severity of an alert
  NumChannels,  \* channels configured in the environment
  MaxAttempts,  \* 5 in the code
  BaseDelay,    \* 5 s
  DedupeTime,   \* 60 s
  MaxRestarts   \* bound on restarts

ASSUME NotificationsAssumption ==
  /\ Forced \subseteq Alerts
  /\ KeyOf \in [Alerts -> Keys]
  /\ NumChannels \in Nat
  /\ MaxAttempts \in Nat \ {0}
  /\ BaseDelay \in Nat /\ DedupeTime \in Nat /\ MaxRestarts \in Nat

\* The powers the delays are made of, and how long those delays last: with five
\* attempts, 5 + 10 + 20 + 40 seconds, which is not less than the dedupe time.
ASSUME DelaysAssumption ==
  /\ 2 ^ 0 = 1
  /\ \A n \in 1..MaxAttempts : 2 ^ n \in Nat /\ 2 ^ n = 2 * 2 ^ (n - 1)
  /\ DedupeTime <= BaseDelay * (2 ^ (MaxAttempts - 1) - 1)

Items == Alerts \X (1..NumChannels)
NoItem == <<>>

VARIABLES
  called,      \* alerts handed to notifyCritical
  window,      \* what is left of each key's dedupe time
  queue,       \* items in the order of the array
  attempts,    \* failed attempts of an item
  wait,        \* what is left of an item's delay
  sending,     \* the item whose delivery the pass awaits
  pos,         \* where its loop goes on
  late,        \* items that were not due when the pass read the clock
  due,         \* history: items that were, and have not been tried yet
  sent,        \* history: items recorded as sent
  failed,      \* history: items written to the audit log
  lost,        \* history: items a restart wiped out
  suppressed,  \* history: alerts dropped as duplicates
  restarts

pass == <<queue, sending, pos, late, due>>
ends == <<sent, failed, lost>>
vars == <<called, window, pass, attempts, wait, ends, suppressed, restarts>>

InQueue == {queue[i] : i \in 1..Len(queue)}

Init ==
  /\ called = {}
  /\ window = [k \in Keys |-> 0]
  /\ queue = <<>>
  /\ attempts = [x \in Items |-> 0]
  /\ wait = [x \in Items |-> 0]
  /\ sending = NoItem
  /\ pos = 0
  /\ late = {}
  /\ due = {}
  /\ sent = {}
  /\ failed = {}
  /\ lost = {}
  /\ suppressed = {}
  /\ restarts = 0

-----------------------------------------------------------------------------
(* notifyCritical *)

Duplicate(a) == a \notin Forced /\ window[KeyOf[a]] > 0

Suppress(a) ==
  /\ a \notin called
  /\ Duplicate(a)
  /\ called' = called \cup {a}
  /\ suppressed' = suppressed \cup {a}
  /\ UNCHANGED <<window, pass, attempts, wait, ends, restarts>>

\* The dedupe entry is made before anybody looks for channels.
Enqueue(a) ==
  /\ a \notin called
  /\ ~Duplicate(a)
  /\ called' = called \cup {a}
  /\ window' = IF a \in Forced THEN window ELSE [window EXCEPT ![KeyOf[a]] = DedupeTime]
  /\ queue' = queue \o [i \in 1..NumChannels |-> <<a, i>>]
  /\ UNCHANGED <<sending, pos, late, due, attempts, wait, ends, suppressed, restarts>>

-----------------------------------------------------------------------------
(* tick: one pass over the queue *)

Without(q, i) == SubSeq(q, 1, i - 1) \o SubSeq(q, i + 1, Len(q))

\* Mutant: the loop counter is lowered once more for the item taken out.
Descend_Twice(i) == IF i > 1 THEN i - 2 ELSE 0

Descend(i) == i - 1

\* Mutant: an item stays in the array until it is delivered.
Taken_Keeps(q, i) == q

\* queue.splice(i, 1), before the delivery is awaited.
Taken(q, i) == Without(q, i)

\* The loop goes down from index `from' to the next item that is due, takes
\* it out and starts its delivery; or the pass ends.
Continue(q, from, skip, owed) ==
  LET ready == {i \in 1..from : q[i] \notin skip}
  IN  \/ /\ ready = {}
         /\ queue' = q
         /\ sending' = NoItem
         /\ pos' = 0
         /\ late' = {}
         /\ due' = owed
      \/ \E i \in ready :
         /\ \A j \in ready : j <= i
         /\ queue' = Taken(q, i)
         /\ sending' = q[i]
         /\ pos' = Descend(i)
         /\ late' = skip
         /\ due' = owed \ {q[i]}

NotDue == {x \in InQueue : wait[x] > 0}

\* A pass that finds nothing due changes nothing.
StartPass ==
  /\ sending = NoItem
  /\ InQueue \ NotDue # {}
  /\ Continue(queue, Len(queue), NotDue, InQueue \ NotDue)
  /\ UNCHANGED <<called, window, attempts, wait, ends, suppressed, restarts>>

Delivered ==
  /\ sending # NoItem
  /\ sent' = sent \cup {sending}
  /\ Continue(queue, pos, late, due)
  /\ UNCHANGED <<called, window, attempts, wait, failed, lost, suppressed, restarts>>

\* Mutant: the delay does not grow.
Delay_Constant(n) == BaseDelay

\* After the n-th failure.
Delay(n) == BaseDelay * 2 ^ (n - 1)

\* Mutant: the failure is not counted.
DeliveryFails_Uncounted ==
  /\ sending # NoItem
  /\ wait' = [wait EXCEPT ![sending] = Delay(1)]
  /\ Continue(Append(queue, sending), pos, late \cup {sending}, due)
  /\ UNCHANGED <<called, window, attempts, ends, suppressed, restarts>>

\* Refused, unreachable, or no answer within five seconds.
DeliveryFails ==
  LET n == attempts[sending] + 1
  IN  /\ sending # NoItem
      /\ n < MaxAttempts
      /\ attempts' = [attempts EXCEPT ![sending] = n]
      /\ wait' = [wait EXCEPT ![sending] = Delay(n)]
      /\ Continue(Append(queue, sending), pos, late \cup {sending}, due)
      /\ UNCHANGED <<called, window, ends, suppressed, restarts>>

\* Mutant: the last attempt but one counts as the last.
GiveUp_Early ==
  LET n == attempts[sending] + 1
  IN  /\ sending # NoItem
      /\ n + 1 >= MaxAttempts
      /\ attempts' = [attempts EXCEPT ![sending] = n]
      /\ failed' = failed \cup {sending}
      /\ Continue(queue, pos, late, due)
      /\ UNCHANGED <<called, window, wait, sent, lost, suppressed, restarts>>

\* The last attempt fails: the item goes to the audit log.
GiveUp ==
  LET n == attempts[sending] + 1
  IN  /\ sending # NoItem
      /\ n >= MaxAttempts
      /\ attempts' = [attempts EXCEPT ![sending] = n]
      /\ failed' = failed \cup {sending}
      /\ Continue(queue, pos, late, due)
      /\ UNCHANGED <<called, window, wait, sent, lost, suppressed, restarts>>

-----------------------------------------------------------------------------
Elapsed(t) == IF t > 0 THEN t - 1 ELSE 0

Clock ==
  /\ \/ \E k \in Keys : window[k] > 0
     \/ \E x \in Items : wait[x] > 0
  /\ window' = [k \in Keys |-> Elapsed(window[k])]
  /\ wait' = [x \in Items |-> Elapsed(wait[x])]
  /\ UNCHANGED <<called, pass, attempts, ends, suppressed, restarts>>

Restart ==
  /\ restarts < MaxRestarts
  /\ restarts' = restarts + 1
  /\ lost' = lost \cup InQueue \cup ({sending} \ {NoItem})
  /\ window' = [k \in Keys |-> 0]
  /\ wait' = [x \in Items |-> 0]
  /\ queue' = <<>>
  /\ sending' = NoItem
  /\ pos' = 0
  /\ late' = {}
  /\ due' = {}
  /\ UNCHANGED <<called, attempts, sent, failed, suppressed>>

Next ==
  \/ \E a \in Alerts : Suppress(a) \/ Enqueue(a)
  \/ StartPass
  \/ Delivered
  \/ DeliveryFails
  \/ GiveUp
  \/ Clock
  \/ Restart

Spec == Init /\ [][Next]_vars

(* Time passes, the interval timer fires, and the five-second timeout ends  *)
(* every delivery one way or the other.                                     *)
Fairness ==
  /\ WF_vars(Clock)
  /\ WF_vars(StartPass)
  /\ WF_vars(Delivered \/ DeliveryFails \/ GiveUp)

FairSpec == Spec /\ Fairness

-----------------------------------------------------------------------------
TypeOK ==
  /\ called \subseteq Alerts /\ suppressed \subseteq called
  /\ window \in [Keys -> Nat]
  /\ queue \in Seq(Items)
  /\ attempts \in [Items -> 0..MaxAttempts] /\ wait \in [Items -> Nat]
  /\ sending \in Items \cup {NoItem}
  /\ pos \in 0..Len(queue)
  /\ late \subseteq Items /\ due \subseteq Items
  /\ sent \subseteq Items /\ failed \subseteq Items /\ lost \subseteq Items
  /\ restarts \in Nat

Ended(x) == x \in sent \cup failed \cup lost

(* Nothing vanishes and nothing is in two places: while passes take items    *)
(* out by index, await, and put them back behind alerts that came meanwhile, *)
(* every item of an accepted alert is in exactly one place: once in the      *)
(* array, being delivered, or recorded as sent, audited or lost (117-143).   *)
EachItemInOnePlace ==
  /\ \A i, j \in 1..Len(queue) : queue[i] = queue[j] => i = j
  /\ sending \notin InQueue
  /\ \A x \in InQueue \cup {sending} : ~Ended(x)
  /\ \A x \in sent : x \notin failed \cup lost
  /\ failed \cap lost = {}
  /\ \A a \in called \ suppressed, i \in 1..NumChannels :
       <<a, i>> \in InQueue \cup {sending} \/ Ended(<<a, i>>)

(* A pass tries everything that was due when it read the clock: taking items *)
(* out of the array it walks, while others are appended during the awaits,   *)
(* never makes its index jump over one (lines 116-120).                      *)
PassIsComplete == sending = NoItem => due = {}

(* Deduplication never hides an alert behind one that has died: the delays   *)
(* of the attempts add up to at least the dedupe time, so when an alert is   *)
(* dropped, an equal one has been sent, or still may be, on every channel    *)
(* (lines 83-89 against 126-139).                                            *)
SuppressedIsCovered ==
  [][\A a \in suppressed' \ suppressed :
       \E b \in called \ suppressed :
         /\ KeyOf[b] = KeyOf[a]
         /\ \A i \in 1..NumChannels : <<b, i>> \notin failed \cup lost]_vars

(* Every item is sent in the end or leaves a trace in the audit log, unless  *)
(* the process dies first.                                                   *)
EveryItemEnds ==
  \A x \in Items : (x \in InQueue \cup {sending}) ~> Ended(x)

\* What the books say of an item.
Outcome(x) ==
  CASE x \in InQueue \cup {sending} -> "open"
    [] x \in sent -> "sent"
    [] x \in failed -> "failed"
    [] x \in lost -> "lost"
    [] OTHER -> "none"

Promise == INSTANCE NotificationPromise WITH
  accepted <- called \ suppressed,
  dropped <- suppressed,
  tries <- attempts,
  outcome <- [x \in Items |-> Outcome(x)]

(* The service keeps the promise: whatever the interleaving of calls,      *)
(* passes, answers and the clock, each step does one of its items one of   *)
(* the things an alert may go through, or none; and it drops no alert that *)
(* nobody is told of (notification.service.js 75-143).                     *)
KeepsPromise == Promise!Spec
=============================================================================
