-------------------------- MODULE AlertQueueProofs --------------------------
(***************************************************************************)
(* Proofs about AlertQueue for any set of alerts, any finite set of retry  *)
(* threads and any retry limit: type correctness, no silent loss, ordering *)
(* up to recorded failures, a cause for every surplus copy, and refinement *)
(* of AlertDelivery.                                                       *)
(***************************************************************************)
EXTENDS AlertQueue, FiniteSetTheorems, TLAPS

\* Where each row is, seen from the row and from the thread that holds it.
RowsConsistent ==
  /\ \A a \in Alerts : stamp[a] <= rowid
  /\ \A a \in table : Stored(a)
  /\ \A a \in adding : ~Stored(a)
  /\ \A a \in Alerts : received[a] > 0 => Stored(a)

ThreadsConsistent ==
  \A w \in Workers :
    /\ \A a \in batch[w] : Stored(a)
    /\ pc[w] \in Holding => cur[w] \in Alerts /\ Stored(cur[w])
    /\ pc[w] = "delete" => received[cur[w]] > 0

Consistent == RowsConsistent /\ ThreadsConsistent /\ NoSilentLoss

IInv == TypeOK /\ Consistent

\* A pass still owes an attempt to every older alert that has had none.
PassOwesOlder ==
  \A w \in Workers :
    /\ pc[w] \in Holding \cup {"next"} =>
         \A b \in batch[w], a \in Alerts :
           Stored(a) /\ stamp[a] < stamp[b] /\ ~Tried(a) =>
             a \in batch[w] \/ (pc[w] \in Holding /\ a = cur[w])
    /\ pc[w] \in Holding =>
         \A a \in Alerts : Stored(a) /\ stamp[a] < stamp[cur[w]] => Tried(a)

Ordered == PassOwesOlder /\ OvertakenOnlyAfterFailure

OrderInv == IInv /\ Ordered

-----------------------------------------------------------------------------
(* The number of threads caught between an answer and its DELETE is a count. *)
LEMMA CountedThreads ==
  ASSUME NEW a \in Alerts
  PROVE Cardinality({w \in Workers : pc[w] = "delete" /\ cur[w] = a}) \in Nat
<1>1. IsFiniteSet({w \in Workers : pc[w] = "delete" /\ cur[w] = a})
  <2>1. {w \in Workers : pc[w] = "delete" /\ cur[w] = a} \subseteq Workers
    OBVIOUS
  <2>2. QED
    BY <2>1, FS_Subset, QueueAssumption DEF QueueAssumption
<1>2. QED
  BY <1>1, FS_CardinalityType

(* Counting one entry up keeps a function into the naturals. *)
LEMMA CountUp ==
  ASSUME NEW f \in [Alerts -> Nat], NEW x
  PROVE  [f EXCEPT ![x] = @ + 1] \in [Alerts -> Nat]
<1>1. ASSUME NEW y \in Alerts
      PROVE [f EXCEPT ![x] = @ + 1][y] \in Nat
  <2>1. CASE y = x
    <3>1. f[y] \in Nat
      OBVIOUS
    <3>2. [f EXCEPT ![x] = @ + 1][y] = f[y] + 1
      BY <2>1
    <3>3. QED
      BY <3>1, <3>2
  <2>2. CASE y # x
    BY <2>2
  <2>3. QED
    BY <2>1, <2>2
<1>2. QED
  BY <1>1

(* Every step of the queue keeps each variable in its type. *)
LEMMA TypeStep == TypeOK /\ [Next]_vars => TypeOK'
<1>1. SUFFICES ASSUME TypeOK, [Next]_vars PROVE TypeOK'
  OBVIOUS
<1>2. QED
  <2> USE <1>1 DEF
    TypeOK, queueVars, workerVars, Steps
  <2>1. ASSUME NEW a \in Alerts, AddToEndpoint(a) PROVE TypeOK'
    BY <2>1 DEF AddToEndpoint
  <2>2. ASSUME NEW a \in Alerts, AddSync(a) PROVE TypeOK'
    BY <2>2 DEF AddSync
  <2>0. ASSUME NEW a \in Alerts, AddFails(a) PROVE TypeOK'
    BY <2>0 DEF AddFails, SqlError
  <2>3. ASSUME NEW w \in Workers, StartRetry(w) PROVE TypeOK'
    BY <2>3 DEF StartRetry
  <2>4. ASSUME NEW w \in Workers, Leave(w) PROVE TypeOK'
    BY <2>4 DEF Leave, Goto
  <2>5. ASSUME NEW w \in Workers, GetPendingAlerts(w) PROVE TypeOK'
    BY <2>5 DEF GetPendingAlerts, Goto, Sendable
  <2>6. ASSUME NEW w \in Workers, GetPendingFails(w) PROVE TypeOK'
    BY <2>6 DEF GetPendingFails, SqlError, Goto
  <2>7. ASSUME NEW w \in Workers, PickRow(w) PROVE TypeOK'
    BY <2>7 DEF PickRow, Goto
  <2>8. ASSUME NEW w \in Workers, EndPass(w) PROVE TypeOK'
    BY <2>8 DEF EndPass, Goto
  <2>9. ASSUME NEW w \in Workers, PostAccepted(w) PROVE TypeOK'
    <3>1. received' \in [Alerts -> Nat]
      BY <2>9, <1>1, CountUp DEF TypeOK, PostAccepted
    <3>2. QED
      BY <2>9, <3>1, <1>1 DEF TypeOK, queueVars, Steps, PostAccepted, Goto
  <2>10. ASSUME NEW w \in Workers, PostUnanswered(w) PROVE TypeOK'
    <3>1. received' \in [Alerts -> Nat]
      BY <2>10, <1>1, CountUp DEF TypeOK, PostUnanswered
    <3>2. unacked' \in [Alerts -> Nat]
      BY <2>10, <1>1, CountUp DEF TypeOK, PostUnanswered
    <3>3. QED
      BY <2>10, <3>1, <3>2, <1>1 DEF TypeOK, queueVars, Steps, PostUnanswered, Goto
  <2>11. ASSUME NEW w \in Workers, PostRefused(w) PROVE TypeOK'
    BY <2>11 DEF PostRefused, Goto
  <2>12. ASSUME NEW w \in Workers, PostUnreachable(w) PROVE TypeOK'
    BY <2>12 DEF PostUnreachable, Goto
  <2>13. ASSUME NEW w \in Workers, DeleteAlert(w) PROVE TypeOK'
    BY <2>13 DEF DeleteAlert, Goto
  <2>14. ASSUME NEW w \in Workers, DeleteFails(w) PROVE TypeOK'
    <3>1. unacked' \in [Alerts -> Nat]
      BY <2>14, <1>1, CountUp DEF TypeOK, DeleteFails
    <3>2. QED
      BY <2>14, <3>1, <1>1 DEF TypeOK, queueVars, Steps, DeleteFails, SqlError, Goto
  <2>15. ASSUME NEW w \in Workers, IncrementAttempt(w) PROVE TypeOK'
    BY <2>15 DEF IncrementAttempt, Goto
  <2>16. ASSUME NEW w \in Workers, IncrementFails(w) PROVE TypeOK'
    BY <2>16 DEF IncrementFails, SqlError, Goto
  <2>17. ASSUME NEW w \in Workers, HandlerFails(w) PROVE TypeOK'
    BY <2>17 DEF HandlerFails, SqlError, Goto
  <2>18. ASSUME NEW w \in Workers, Wake(w) PROVE TypeOK'
    BY <2>18 DEF Wake, Goto
  <2>19. ASSUME StopRetry PROVE TypeOK'
    BY <2>19 DEF StopRetry
  <2>20. ASSUME Crash PROVE TypeOK'
    <3>1. unacked' \in [Alerts -> Nat]
      BY <2>20, <1>1, CountedThreads DEF TypeOK, Crash
    <3>2. pc' \in [Workers -> Steps] /\ batch' \in [Workers -> SUBSET Alerts]
      BY <2>20 DEF Crash, Steps
    <3>3. /\ adding' = {} /\ running' = FALSE /\ faults' = faults + 1
          /\ cur' \in [Workers -> Alerts \cup {NoAlert}]
          /\ UNCHANGED <<table, stamp, rowid, attempts, overlap, received>>
      BY <2>20 DEF Crash
    <3>4. faults' \in Nat
      BY <3>3, <1>1 DEF TypeOK
    <3>5. QED
      BY <3>1, <3>2, <3>3, <3>4, <1>1, Zenon DEF TypeOK
  <2>21. CASE UNCHANGED vars
    BY <2>21 DEF vars
  <2>22. QED
    BY <1>1, <2>0, <2>1, <2>2, <2>3, <2>4, <2>5, <2>6, <2>7, <2>8, <2>9, <2>10,
       <2>11, <2>12, <2>13, <2>14, <2>15, <2>16, <2>17, <2>18, <2>19, <2>20, <2>21
    DEF Next, RetryWorker, Post

(* The initial state of the queue is well typed. *)
LEMMA TypeInit == Init => TypeOK
<1>1. SUFFICES ASSUME Init PROVE TypeOK
  OBVIOUS
<1>2. stamp \in [Alerts -> Nat] /\ attempts \in [Alerts -> Nat]
  BY <1>1 DEF Init
<1>3. received \in [Alerts -> Nat] /\ unacked \in [Alerts -> Nat]
  BY <1>1 DEF Init
<1>4. pc \in [Workers -> Steps] /\ batch \in [Workers -> SUBSET Alerts]
  BY <1>1 DEF Init, Steps
<1>5. QED
  BY <1>1, <1>2, <1>3, <1>4 DEF Init, TypeOK

(* Type correctness of the queue, for every reachable state. *)
THEOREM TypeCorrect == Spec => []TypeOK
BY TypeInit, TypeStep, PTL DEF Spec

-----------------------------------------------------------------------------
(* Rows, threads and deliveries stay consistent in every step. *)
LEMMA ConsistentStep == IInv /\ [Next]_vars => IInv'
<1>1. SUFFICES ASSUME IInv, [Next]_vars PROVE Consistent'
  BY TypeStep DEF IInv
<1>2. TypeOK /\ TypeOK'
  BY <1>1, TypeStep DEF IInv
<1>3. QED
  <2> USE <1>1, <1>2 DEF
    IInv, Consistent, TypeOK, RowsConsistent, ThreadsConsistent,
    NoSilentLoss, Stored, Holding, queueVars, workerVars
  <2>1. ASSUME NEW a \in Alerts, AddToEndpoint(a) PROVE Consistent'
    BY <2>1 DEF AddToEndpoint
  <2>2. ASSUME NEW a \in Alerts, AddSync(a) PROVE Consistent'
    BY <2>2 DEF AddSync
  <2>0. ASSUME NEW a \in Alerts, AddFails(a) PROVE Consistent'
    BY <2>0 DEF AddFails, SqlError
  <2>3. ASSUME NEW w \in Workers, StartRetry(w) PROVE Consistent'
    BY <2>3 DEF StartRetry
  <2>4. ASSUME NEW w \in Workers, Leave(w) PROVE Consistent'
    BY <2>4 DEF Leave, Goto
  <2>5. ASSUME NEW w \in Workers, GetPendingAlerts(w) PROVE Consistent'
    BY <2>5 DEF GetPendingAlerts, Goto, Sendable
  <2>6. ASSUME NEW w \in Workers, GetPendingFails(w) PROVE Consistent'
    BY <2>6 DEF GetPendingFails, SqlError, Goto
  <2>7. ASSUME NEW w \in Workers, PickRow(w) PROVE Consistent'
    BY <2>7 DEF PickRow, Goto
  <2>8. ASSUME NEW w \in Workers, EndPass(w) PROVE Consistent'
    BY <2>8 DEF EndPass, Goto
  <2>9. ASSUME NEW w \in Workers, PostAccepted(w) PROVE Consistent'
    BY <2>9 DEF PostAccepted, Goto
  <2>10. ASSUME NEW w \in Workers, PostUnanswered(w) PROVE Consistent'
    BY <2>10 DEF PostUnanswered, Goto
  <2>11. ASSUME NEW w \in Workers, PostRefused(w) PROVE Consistent'
    BY <2>11 DEF PostRefused, Goto
  <2>12. ASSUME NEW w \in Workers, PostUnreachable(w) PROVE Consistent'
    BY <2>12 DEF PostUnreachable, Goto
  <2>13. ASSUME NEW w \in Workers, DeleteAlert(w) PROVE Consistent'
    BY <2>13 DEF DeleteAlert, Goto
  <2>14. ASSUME NEW w \in Workers, DeleteFails(w) PROVE Consistent'
    BY <2>14 DEF DeleteFails, SqlError, Goto
  <2>15. ASSUME NEW w \in Workers, IncrementAttempt(w) PROVE Consistent'
    BY <2>15 DEF IncrementAttempt, Goto
  <2>16. ASSUME NEW w \in Workers, IncrementFails(w) PROVE Consistent'
    BY <2>16 DEF IncrementFails, SqlError, Goto
  <2>17. ASSUME NEW w \in Workers, HandlerFails(w) PROVE Consistent'
    BY <2>17 DEF HandlerFails, SqlError, Goto
  <2>18. ASSUME NEW w \in Workers, Wake(w) PROVE Consistent'
    BY <2>18 DEF Wake, Goto
  <2>19. ASSUME StopRetry PROVE Consistent'
    BY <2>19 DEF StopRetry
  <2>20. ASSUME Crash PROVE Consistent'
    BY <2>20 DEF Crash
  <2>21. CASE UNCHANGED vars
    BY <2>21 DEF vars
  <2>22. QED
    BY <1>1, <2>0, <2>1, <2>2, <2>3, <2>4, <2>5, <2>6, <2>7, <2>8, <2>9, <2>10,
       <2>11, <2>12, <2>13, <2>14, <2>15, <2>16, <2>17, <2>18, <2>19, <2>20, <2>21
    DEF Next, RetryWorker, Post

(* No row leaves the table before the backend accepted it. *)
THEOREM NoRowLostSilently == Spec => []NoSilentLoss
<1>1. Init => TypeOK
  BY TypeInit
<1>2. Init => IInv
  BY <1>1 DEF Init, IInv, Consistent, RowsConsistent, ThreadsConsistent, NoSilentLoss,
              Stored, Holding
<1>3. IInv => NoSilentLoss
  BY DEF IInv, Consistent
<1>4. QED
  BY <1>2, <1>3, ConsistentStep, PTL DEF Spec

-----------------------------------------------------------------------------
(* A pass keeps owing an attempt to the older alerts it has not reached. *)
LEMMA OrderStep == OrderInv /\ [Next]_vars => OrderInv'
<1>1. SUFFICES ASSUME OrderInv, [Next]_vars PROVE Ordered'
  BY ConsistentStep DEF OrderInv
<1>2. IInv /\ TypeOK /\ TypeOK'
  BY <1>1, TypeStep DEF OrderInv, IInv
<1>3. QED
  <2> USE <1>1, <1>2, QueueAssumption DEF
    OrderInv, Ordered, IInv, Consistent, TypeOK, RowsConsistent,
    ThreadsConsistent, NoSilentLoss, PassOwesOlder,
    OvertakenOnlyAfterFailure, Tried, Stored, Holding, queueVars,
    workerVars, QueueAssumption
  <2>1. ASSUME NEW a \in Alerts, AddToEndpoint(a) PROVE Ordered'
    BY <2>1 DEF AddToEndpoint
  <2>2. ASSUME NEW a \in Alerts, AddSync(a) PROVE Ordered'
    BY <2>2 DEF AddSync
  <2>0. ASSUME NEW a \in Alerts, AddFails(a) PROVE Ordered'
    BY <2>0 DEF AddFails, SqlError
  <2>3. ASSUME NEW w \in Workers, StartRetry(w) PROVE Ordered'
    BY <2>3 DEF StartRetry
  <2>4. ASSUME NEW w \in Workers, Leave(w) PROVE Ordered'
    BY <2>4 DEF Leave, Goto
  <2>5. ASSUME NEW w \in Workers, GetPendingAlerts(w) PROVE Ordered'
    BY <2>5 DEF GetPendingAlerts, Goto, Sendable
  <2>6. ASSUME NEW w \in Workers, GetPendingFails(w) PROVE Ordered'
    BY <2>6 DEF GetPendingFails, SqlError, Goto
  <2>7. ASSUME NEW w \in Workers, PickRow(w) PROVE Ordered'
    BY <2>7 DEF PickRow, Goto
  <2>8. ASSUME NEW w \in Workers, EndPass(w) PROVE Ordered'
    BY <2>8 DEF EndPass, Goto
  <2>9. ASSUME NEW w \in Workers, PostAccepted(w) PROVE Ordered'
    BY <2>9 DEF PostAccepted, Goto
  <2>10. ASSUME NEW w \in Workers, PostUnanswered(w) PROVE Ordered'
    BY <2>10 DEF PostUnanswered, Goto
  <2>11. ASSUME NEW w \in Workers, PostRefused(w) PROVE Ordered'
    BY <2>11 DEF PostRefused, Goto
  <2>12. ASSUME NEW w \in Workers, PostUnreachable(w) PROVE Ordered'
    BY <2>12 DEF PostUnreachable, Goto
  <2>13. ASSUME NEW w \in Workers, DeleteAlert(w) PROVE Ordered'
    BY <2>13 DEF DeleteAlert, Goto
  <2>14. ASSUME NEW w \in Workers, DeleteFails(w) PROVE Ordered'
    BY <2>14 DEF DeleteFails, SqlError, Goto
  <2>15. ASSUME NEW w \in Workers, IncrementAttempt(w) PROVE Ordered'
    BY <2>15 DEF IncrementAttempt, Goto
  <2>16. ASSUME NEW w \in Workers, IncrementFails(w) PROVE Ordered'
    BY <2>16 DEF IncrementFails, SqlError, Goto
  <2>17. ASSUME NEW w \in Workers, HandlerFails(w) PROVE Ordered'
    BY <2>17 DEF HandlerFails, SqlError, Goto
  <2>18. ASSUME NEW w \in Workers, Wake(w) PROVE Ordered'
    BY <2>18 DEF Wake, Goto
  <2>19. ASSUME StopRetry PROVE Ordered'
    BY <2>19 DEF StopRetry
  <2>20. ASSUME Crash PROVE Ordered'
    BY <2>20 DEF Crash
  <2>21. CASE UNCHANGED vars
    BY <2>21 DEF vars
  <2>22. QED
    BY <1>1, <2>0, <2>1, <2>2, <2>3, <2>4, <2>5, <2>6, <2>7, <2>8, <2>9, <2>10,
       <2>11, <2>12, <2>13, <2>14, <2>15, <2>16, <2>17, <2>18, <2>19, <2>20, <2>21
    DEF Next, RetryWorker, Post

(* The backend sees a younger alert first only after a recorded failure. *)
THEOREM OrderedUpToFailures == Spec => []OvertakenOnlyAfterFailure
<1>1. Init => OrderInv
  BY TypeInit DEF Init, OrderInv, Ordered, IInv, Consistent, RowsConsistent, ThreadsConsistent,
     NoSilentLoss, Stored, Holding, PassOwesOlder, OvertakenOnlyAfterFailure
<1>2. OrderInv => OvertakenOnlyAfterFailure
  BY DEF OrderInv, Ordered
<1>3. QED
  BY <1>1, <1>2, OrderStep, PTL DEF Spec

-----------------------------------------------------------------------------
(* Each step of the queue is a step of AlertDelivery or leaves it alone. *)
LEMMA DeliveryStep ==
  IInv /\ [Next]_vars => [Delivery!Next]_(Delivery!deliveryVars)
<1>1. SUFFICES ASSUME IInv, [Next]_vars
               PROVE Delivery!Next \/ UNCHANGED Delivery!deliveryVars
  OBVIOUS
<1>2. ASSUME NEW a \in Alerts, AddSync(a) PROVE Delivery!Submit(a)
  BY <1>1, <1>2 DEF IInv, Consistent, RowsConsistent, TypeOK, AddSync, Stored,
                    Delivery!Submit
<1>3. ASSUME NEW w \in Workers, PostAccepted(w) \/ PostUnanswered(w)
      PROVE cur[w] \in Alerts /\ Delivery!Deliver(cur[w])
  <2>1. cur[w] \in Alerts /\ Stored(cur[w])
    BY <1>1, <1>3
    DEF IInv, Consistent, ThreadsConsistent, Holding, PostAccepted,
        PostUnanswered
  <2>2. cur[w] \in table \/ received[cur[w]] > 0
    BY <1>1, <2>1 DEF IInv, Consistent, NoSilentLoss
  <2>3. QED
    BY <1>3, <2>1, <2>2
    DEF PostAccepted, PostUnanswered, Delivery!Deliver, queueVars,
        Stored
<1>4. ASSUME NEW w \in Workers, DeleteAlert(w)
      PROVE \/ cur[w] \in Alerts /\ Delivery!Settle(cur[w])
            \/ UNCHANGED Delivery!deliveryVars
  <2>1. received[cur[w]] > 0 /\ cur[w] \in Alerts
    BY <1>1, <1>4
    DEF IInv, Consistent, ThreadsConsistent, Holding, DeleteAlert
  <2>2. CASE cur[w] \in table
    BY <1>4, <2>1, <2>2 DEF DeleteAlert, Delivery!Settle, Stored
  <2>3. CASE cur[w] \notin table
    BY <1>4, <2>3 DEF DeleteAlert, Delivery!deliveryVars, Stored
  <2>4. QED
    BY <2>2, <2>3
<1>5. ASSUME NEW a \in Alerts, AddToEndpoint(a) \/ AddFails(a)
      PROVE UNCHANGED Delivery!deliveryVars
  BY <1>5 DEF AddToEndpoint, AddFails, Delivery!deliveryVars, Stored
<1>6. ASSUME NEW w \in Workers,
             \/ StartRetry(w) \/ Leave(w) \/ GetPendingAlerts(w)
             \/ GetPendingFails(w) \/ PickRow(w) \/ EndPass(w)
             \/ PostRefused(w) \/ PostUnreachable(w) \/ DeleteFails(w)
             \/ IncrementAttempt(w) \/ IncrementFails(w) \/ HandlerFails(w)
             \/ Wake(w)
      PROVE UNCHANGED <<table, stamp, received>>
  BY <1>6 DEF StartRetry, Leave, GetPendingAlerts, GetPendingFails, PickRow,
              EndPass, PostRefused, PostUnreachable, DeleteFails,
              IncrementAttempt, IncrementFails, HandlerFails, Wake, queueVars
<1>7. ASSUME StopRetry \/ Crash \/ UNCHANGED vars
      PROVE UNCHANGED <<table, stamp, received>>
  BY <1>7 DEF StopRetry, Crash, vars, queueVars
<1>8. ASSUME UNCHANGED <<table, stamp, received>>
      PROVE UNCHANGED Delivery!deliveryVars
  BY <1>8 DEF Delivery!deliveryVars, Stored
<1>9. QED
  BY <1>1, <1>2, <1>3, <1>4, <1>5, <1>6, <1>7, <1>8
  DEF Next, RetryWorker, Post, Delivery!Next

(* The queue with its threads, crashes and failing statements implements    *)
(* at-least-once delivery.                                                   *)
THEOREM QueueImplementsDelivery == Spec => ImplementsDelivery
<1>1. Init => IInv
  BY TypeInit DEF Init, IInv, Consistent, RowsConsistent, ThreadsConsistent,
     NoSilentLoss, Stored, Holding
<1>2. Init => Delivery!Init
  BY DEF Init, Delivery!Init, Stored
<1>3. QED
  BY <1>1, <1>2, ConsistentStep, DeliveryStep, PTL DEF Spec, ImplementsDelivery, Delivery!Spec

-----------------------------------------------------------------------------
(* A step that draws the rows in hand from those already in hand, and takes *)
(* back no failed attempt, raises no row from the dead.                      *)
LEMMA DrawnFromHand ==
  ASSUME TypeOK, NEW a \in Alerts, Dead(a),
         attempts'[a] \in Nat, attempts'[a] >= attempts[a],
         \A w \in Workers :
           a \in batch'[w] \/ cur'[w] = a => a \in batch[w] \/ cur[w] = a
  PROVE  Dead(a)'
<1>1. attempts[a] \in Nat /\ attempts[a] >= MaxAttempts /\ MaxAttempts \in Nat
  BY QueueAssumption DEF QueueAssumption, TypeOK, Dead, Exhausted
<1>2. attempts'[a] >= MaxAttempts
  BY <1>1
<1>3. ~InSomePass(a)'
  BY DEF Dead, InSomePass
<1>4. QED
  BY <1>2, <1>3 DEF Dead, Exhausted

LEMMA DeadStep ==
  TypeOK /\ [Next]_vars => \A a \in Alerts : Dead(a) => Dead(a)'
<1>1. SUFFICES ASSUME TypeOK, [Next]_vars, NEW a \in Alerts, Dead(a)
               PROVE  Dead(a)'
  OBVIOUS
<1>2. a # NoAlert /\ attempts[a] \in Nat
  BY <1>1, QueueAssumption DEF QueueAssumption, TypeOK
<1>3. ASSUME NEW w \in Workers, GetPendingAlerts(w) PROVE Dead(a)'
  <2>1. a \notin Sendable
    BY <1>1, <1>2, QueueAssumption DEF QueueAssumption, Dead, Exhausted, Sendable
  <2>2. QED
    BY <1>1, <1>2, <1>3, <2>1, DrawnFromHand DEF GetPendingAlerts, TypeOK, queueVars
<1>4. ASSUME NEW w \in Workers, IncrementAttempt(w) PROVE Dead(a)'
  <2>1. attempts'[a] \in Nat /\ attempts'[a] >= attempts[a]
    BY <1>2, <1>1, <1>4 DEF IncrementAttempt, TypeOK
  <2>2. QED
    BY <1>1, <1>2, <1>4, <2>1, DrawnFromHand DEF IncrementAttempt, TypeOK
<1>5. ASSUME NEW w \in Workers, PickRow(w) PROVE Dead(a)'
  BY <1>1, <1>2, <1>5, DrawnFromHand DEF PickRow, TypeOK, queueVars
<1>6. ASSUME NEW w \in Workers,
             EndPass(w) \/ DeleteAlert(w) \/ HandlerFails(w)
      PROVE  Dead(a)'
  BY <1>1, <1>2, <1>6, DrawnFromHand
  DEF EndPass, DeleteAlert, HandlerFails, TypeOK, queueVars
<1>7. ASSUME Crash PROVE Dead(a)'
  BY <1>1, <1>2, <1>7, DrawnFromHand DEF Crash
<1>8. ASSUME UNCHANGED <<attempts, batch, cur>> PROVE Dead(a)'
  BY <1>1, <1>2, <1>8, DrawnFromHand
<1>9. ASSUME NEW w \in Workers,
             \/ StartRetry(w) \/ Leave(w) \/ GetPendingFails(w) \/ Post(w)
             \/ DeleteFails(w) \/ IncrementFails(w) \/ Wake(w)
      PROVE  UNCHANGED <<attempts, batch, cur>>
  BY <1>9 DEF StartRetry, Leave, GetPendingFails, Post, PostAccepted, PostUnanswered,
              PostRefused, PostUnreachable, DeleteFails, IncrementFails, Wake, queueVars
<1>10. ASSUME NEW b \in Alerts, AddToEndpoint(b) \/ AddSync(b) \/ AddFails(b)
       PROVE  UNCHANGED <<attempts, batch, cur>>
  BY <1>10 DEF AddToEndpoint, AddSync, AddFails, workerVars
<1>11. QED
  BY <1>1, <1>3, <1>4, <1>5, <1>6, <1>7, <1>8, <1>9, <1>10
  DEF Next, RetryWorker, StopRetry, vars, queueVars, workerVars

(* A row that is out of attempts and out of every running pass stays so. *)
THEOREM DeadForGood == Spec => DeadRowsStayDead
<1>1. TypeOK /\ [Next]_vars => [\A a \in Alerts : Dead(a) => Dead(a)']_vars
  BY DeadStep
<1>2. QED
  BY <1>1, TypeInit, TypeStep, PTL DEF Spec, DeadRowsStayDead

-----------------------------------------------------------------------------
\* Between its answer and its DELETE.
Settling(a) == \E w \in Workers : pc[w] = "delete" /\ cur[w] = a

\* While threads never overlap, what the one thread has still to send is in the
\* table: nobody else deletes.
OneThread ==
  /\ \A v, w \in Workers : pc[v] # "none" /\ pc[w] # "none" => v = w
  /\ \A w \in Workers :
       /\ pc[w] \in Holding \cup {"next"} => batch[w] \subseteq table
       /\ pc[w] \in Holding => cur[w] \in table \ batch[w]

\* A row that is in the table and not about to leave it has no acceptance that
\* is not accounted for; one that has left it has one.
Accounted ==
  \A a \in Alerts :
    /\ received[a] <= 1 + unacked[a]
    /\ a \in table /\ ~Settling(a) => received[a] <= unacked[a]

SurplusInv == IInv /\ (~overlap => OneThread /\ Accounted)

\* Threads that a crash catches between an answer and the DELETE are counted.
LEMMA CaughtThreads ==
  ASSUME NEW a \in Alerts, Settling(a)
  PROVE  Cardinality({w \in Workers : pc[w] = "delete" /\ cur[w] = a}) >= 1
<1> DEFINE S == {w \in Workers : pc[w] = "delete" /\ cur[w] = a}
<1>1. IsFiniteSet(S)
  BY FS_Subset, QueueAssumption
<1>2. S # {}
  BY DEF Settling
<1>3. Cardinality(S) \in Nat /\ Cardinality(S) # 0
  BY <1>1, <1>2, FS_CardinalityType, FS_EmptySet
<1> HIDE DEF S
<1>4. Cardinality(S) >= 1
  BY <1>3
<1>5. QED
  BY <1>4 DEF S

LEMMA SurplusStep == SurplusInv /\ [Next]_vars => SurplusInv'
<1>1. SUFFICES ASSUME SurplusInv, [Next]_vars, ~overlap'
               PROVE  OneThread' /\ Accounted'
  BY ConsistentStep DEF SurplusInv
<1>2. IInv /\ TypeOK /\ TypeOK'
  BY <1>1, TypeStep DEF SurplusInv, IInv
<1>3. ~overlap
  BY <1>1, <1>2 DEF TypeOK, Next, AddToEndpoint, AddSync, AddFails, StartRetry, StopRetry,
     RetryWorker, Leave, GetPendingAlerts, GetPendingFails, PickRow, EndPass, Post,
     PostAccepted, PostUnanswered, PostRefused, PostUnreachable, DeleteAlert, DeleteFails,
     IncrementAttempt, IncrementFails, HandlerFails, Wake, Crash, vars, workerVars
<1>4. OneThread /\ Accounted /\ TypeOK /\ RowsConsistent
  BY <1>1, <1>2, <1>3 DEF SurplusInv, IInv, Consistent
<1>5. QED
  <2> USE <1>1, <1>4, QueueAssumption DEF
    OneThread, Accounted, Settling, TypeOK, RowsConsistent, Stored, Holding, queueVars,
    workerVars
  <2> DEFINE Goal == OneThread' /\ Accounted'
  <2>1. ASSUME NEW a \in Alerts, AddToEndpoint(a) PROVE Goal
    BY <2>1 DEF AddToEndpoint
  <2>2. ASSUME NEW a \in Alerts, AddSync(a) PROVE Goal
    BY <2>2 DEF AddSync
  <2>3. ASSUME NEW a \in Alerts, AddFails(a) PROVE Goal
    BY <2>3 DEF AddFails
  <2>4. ASSUME NEW w \in Workers, StartRetry(w) PROVE Goal
    BY <2>4 DEF StartRetry
  <2>5. ASSUME NEW w \in Workers, Leave(w) PROVE Goal
    BY <2>5 DEF Leave, Goto
  <2>6. ASSUME NEW w \in Workers, GetPendingAlerts(w) PROVE Goal
    BY <2>6 DEF GetPendingAlerts, Goto, Sendable
  <2>7. ASSUME NEW w \in Workers, GetPendingFails(w) PROVE Goal
    BY <2>7 DEF GetPendingFails, Goto
  <2>8. ASSUME NEW w \in Workers, PickRow(w) PROVE Goal
    BY <2>8 DEF PickRow, Goto
  <2>9. ASSUME NEW w \in Workers, EndPass(w) PROVE Goal
    BY <2>9 DEF EndPass, Goto
  <2>10. ASSUME NEW w \in Workers, PostAccepted(w) PROVE Goal
    BY <2>10 DEF PostAccepted, Goto
  <2>11. ASSUME NEW w \in Workers, PostUnanswered(w) PROVE Goal
    BY <2>11 DEF PostUnanswered, Goto
  <2>12. ASSUME NEW w \in Workers, PostRefused(w) PROVE Goal
    BY <2>12 DEF PostRefused, Goto
  <2>13. ASSUME NEW w \in Workers, PostUnreachable(w) PROVE Goal
    BY <2>13 DEF PostUnreachable, Goto
  <2>14. ASSUME NEW w \in Workers, DeleteAlert(w) PROVE Goal
    BY <2>14 DEF DeleteAlert, Goto
  <2>15. ASSUME NEW w \in Workers, DeleteFails(w) PROVE Goal
    BY <2>15 DEF DeleteFails, Goto
  <2>16. ASSUME NEW w \in Workers, IncrementAttempt(w) PROVE Goal
    BY <2>16 DEF IncrementAttempt, Goto
  <2>17. ASSUME NEW w \in Workers, IncrementFails(w) PROVE Goal
    BY <2>17 DEF IncrementFails, Goto
  <2>18. ASSUME NEW w \in Workers, HandlerFails(w) PROVE Goal
    BY <2>18 DEF HandlerFails, Goto
  <2>19. ASSUME NEW w \in Workers, Wake(w) PROVE Goal
    BY <2>19 DEF Wake, Goto
  <2>20. ASSUME StopRetry PROVE Goal
    BY <2>20 DEF StopRetry
  <2>21. ASSUME Crash PROVE Goal
    BY <2>21, CountedThreads, CaughtThreads DEF Crash
  <2>22. ASSUME UNCHANGED vars PROVE Goal
    BY <2>22 DEF vars
  <2>23. QED
    BY <2>1, <2>2, <2>3, <2>4, <2>5, <2>6, <2>7, <2>8, <2>9, <2>10, <2>11, <2>12, <2>13,
       <2>14, <2>15, <2>16, <2>17, <2>18, <2>19, <2>20, <2>21, <2>22
    DEF Next, RetryWorker, Post

(* Every copy beyond the first is owed to an acceptance that the queue could *)
(* not record, as long as no retry thread is started beside another.         *)
THEOREM SurplusIsExplained == Spec => []SurplusCopiesExplained
<1>1. Init => SurplusInv
  BY TypeInit DEF Init, SurplusInv, IInv, Consistent, RowsConsistent, ThreadsConsistent,
     NoSilentLoss, Stored, Holding, OneThread, Accounted
<1>2. SurplusInv => SurplusCopiesExplained
  BY DEF SurplusInv, Accounted, SurplusCopiesExplained
<1>3. QED
  BY <1>1, <1>2, SurplusStep, PTL DEF Spec
=============================================================================
