--------------------------- MODULE AlertDelivery ---------------------------
(***************************************************************************)
(* What the agent's offline queue promises to the rest of the platform,    *)
(* with no threads, no database and no network in it: an alert handed to   *)
(* the queue stays pending until the backend has accepted at least one     *)
(* copy of it, and the backend never sees an alert nobody submitted.       *)
(* Delivery is at least once: extra copies are allowed, silent loss of a   *)
(* pending row is not.                                                     *)
(***************************************************************************)
EXTENDS Naturals

CONSTANT Alerts

VARIABLES
  submitted,  \* alerts that were ever stored
  pending,    \* stored and not yet settled
  copies      \* copies of each alert the backend accepted

deliveryVars == <<submitted, pending, copies>>

Init ==
  /\ submitted = {}
  /\ pending = {}
  /\ copies = [a \in Alerts |-> 0]

Submit(a) ==
  /\ a \notin submitted
  /\ submitted' = submitted \cup {a}
  /\ pending' = pending \cup {a}
  /\ UNCHANGED copies

\* A first copy only ever comes from a pending alert; a repeat may come late.
Deliver(a) ==
  /\ a \in pending \/ copies[a] > 0
  /\ copies' = [copies EXCEPT ![a] = @ + 1]
  /\ UNCHANGED <<submitted, pending>>

Settle(a) ==
  /\ a \in pending
  /\ copies[a] > 0
  /\ pending' = pending \ {a}
  /\ UNCHANGED <<submitted, copies>>

Next == \E a \in Alerts : Submit(a) \/ Deliver(a) \/ Settle(a)

Spec == Init /\ [][Next]_deliveryVars
=============================================================================
