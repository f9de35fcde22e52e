------------------------- MODULE NotificationPromise -------------------------
(***************************************************************************)
(* What the notification service promises to whoever raises an alert, with *)
(* no array, no passes and no clock in it: an accepted alert is open on    *)
(* every channel until it has been sent there, or has failed as often as   *)
(* it may and is in the audit log, or the process has died.  An alert is   *)
(* dropped only if an equal one was accepted that no channel has given up. *)
(***************************************************************************)
EXTENDS Naturals

CONSTANTS Alerts, Forced, KeyOf, NumChannels, MaxAttempts

Items == Alerts \X (1..NumChannels)

VARIABLES
  accepted,  \* alerts that were taken on
  dropped,   \* alerts that were not
  tries,     \* failed attempts of an item
  outcome    \* what has become of it

promiseVars == <<accepted, dropped, tries, outcome>>

Init ==
  /\ accepted = {} /\ dropped = {}
  /\ tries = [x \in Items |-> 0]
  /\ outcome = [x \in Items |-> "none"]

New(a) == a \notin accepted \cup dropped

Accept(a) ==
  /\ New(a)
  /\ accepted' = accepted \cup {a}
  /\ outcome' = [x \in Items |-> IF x[1] = a THEN "open" ELSE outcome[x]]
  /\ UNCHANGED <<dropped, tries>>

\* Every channel has been told of b, or still may be.
Alive(b) == \A i \in 1..NumChannels : outcome[<<b, i>>] \in {"open", "sent"}

Drop(a) ==
  /\ New(a) /\ a \notin Forced
  /\ \E b \in accepted : KeyOf[b] = KeyOf[a] /\ Alive(b)
  /\ dropped' = dropped \cup {a}
  /\ UNCHANGED <<accepted, tries, outcome>>

Send(x) ==
  /\ outcome[x] = "open"
  /\ outcome' = [outcome EXCEPT ![x] = "sent"]
  /\ UNCHANGED <<accepted, dropped, tries>>

\* An attempt fails; the last one that may decides.
Fail(x) ==
  /\ outcome[x] = "open"
  /\ tries' = [tries EXCEPT ![x] = @ + 1]
  /\ outcome' = IF tries[x] + 1 = MaxAttempts
                THEN [outcome EXCEPT ![x] = "failed"] ELSE outcome
  /\ UNCHANGED <<accepted, dropped>>

Die ==
  /\ outcome' = [x \in Items |-> IF outcome[x] = "open" THEN "lost" ELSE outcome[x]]
  /\ UNCHANGED <<accepted, dropped, tries>>

Next ==
  \/ \E a \in Alerts : Accept(a) \/ Drop(a)
  \/ \E x \in Items : Send(x) \/ Fail(x)
  \/ Die

Spec == Init /\ [][Next]_promiseVars
==============================================================================
