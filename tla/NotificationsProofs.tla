------------------------- MODULE NotificationsProofs -------------------------
(***************************************************************************)
(* For every number of alerts, keys, channels and attempts: the queue      *)
(* neither loses an item nor holds it twice, a pass misses nothing that    *)
(* was due, and deduplication does not hide an alert behind a dead one; it *)
(* implements NotificationPromise.                                         *)
(***************************************************************************)
EXTENDS Notifications, SequenceTheorems, TLAPS

\* An alert that has not been handed over has left no trace.
Untouched ==
  /\ \A x \in InQueue \cup sent \cup failed \cup lost : x[1] \in called
  /\ sending # NoItem => sending[1] \in called
  /\ \A x \in Items : x[1] \notin called => attempts[x] = 0 /\ wait[x] = 0

\* What the pass still owes lies before its index.
OwedIsAhead ==
  \A x \in due : x \notin late /\ \E i \in 1..pos : queue[i] = x

\* What the pass has found due stays due until it is tried.
TriedWhenDue ==
  /\ sending # NoItem => wait[sending] = 0
  /\ \A i \in 1..pos : queue[i] \notin late => wait[queue[i]] = 0

\* The sum of an item's first n delays.
DelaysUpTo(n) == BaseDelay * (2 ^ n - 1)

\* Alert b may still reach every channel, and each item of it has used up as
\* much of the dedupe time as the delays it has seen.
Covers(b, left) ==
  \A i \in 1..NumChannels :
    /\ <<b, i>> \notin failed \cup lost
    /\ left + DelaysUpTo(attempts[<<b, i>>]) <= DedupeTime + wait[<<b, i>>]

WindowsAreCovered ==
  \A k \in Keys : window[k] > 0 =>
    \E b \in called \ suppressed : KeyOf[b] = k /\ Covers(b, window[k])

QueueInv ==
  /\ TypeOK
  /\ EachItemInOnePlace
  /\ Untouched
  /\ OwedIsAhead
  /\ PassIsComplete
  /\ TriedWhenDue
  /\ \A x \in InQueue \cup ({sending} \ {NoItem}) : attempts[x] < MaxAttempts
  /\ WindowsAreCovered

-----------------------------------------------------------------------------
(* The queue as a sequence without repetitions *)

Distinct(q) == \A i, j \in 1..Len(q) : q[i] = q[j] => i = j
Has(q, x) == \E i \in 1..Len(q) : q[i] = x

LEMMA NoItemIsNone == NoItem \notin Items
BY DEF NoItem, Items

\* Taking element i out moves what is behind it up by one.
LEMMA WithoutShape ==
  ASSUME NEW S, NEW q \in Seq(S), NEW i \in 1..Len(q)
  PROVE  /\ Without(q, i) \in Seq(S) /\ Len(Without(q, i)) = Len(q) - 1
         /\ \A j \in 1..(Len(q) - 1) :
              Without(q, i)[j] = IF j < i THEN q[j] ELSE q[j + 1]
<1> DEFINE a == SubSeq(q, 1, i - 1)
           b == SubSeq(q, i + 1, Len(q))
<1>1. Len(q) \in Nat /\ i \in Int /\ 1 <= i /\ i <= Len(q)
  OBVIOUS
<1>2. /\ a \in Seq(S) /\ Len(a) = i - 1
      /\ \A j \in 1..(i - 1) : a[j] = q[j]
  <2>1. \A j \in 1..(i - 1) : q[j] \in S
    BY <1>1, ElementOfSeq
  <2>2. QED
    BY <1>1, <2>1, SubSeqProperties
<1>3. /\ b \in Seq(S) /\ Len(b) = Len(q) - i
      /\ \A j \in 1..(Len(q) - i) : b[j] = q[i + j]
  <2>1. \A j \in (i + 1)..Len(q) : q[j] \in S
    BY <1>1, ElementOfSeq
  <2>2. QED
    BY <1>1, <2>1, SubSeqProperties
<1> HIDE DEF a, b
<1> DEFINE c == a \o b
<1>4. /\ c \in Seq(S) /\ Len(c) = Len(a) + Len(b)
      /\ \A j \in 1..(Len(a) + Len(b)) :
           c[j] = IF j <= Len(a) THEN a[j] ELSE b[j - Len(a)]
  BY <1>2, <1>3, ConcatProperties, Zenon
<1> HIDE DEF c
<1>5. Len(c) = Len(q) - 1
  BY <1>1, <1>2, <1>3, <1>4
<1>6. ASSUME NEW j \in 1..(Len(q) - 1)
      PROVE  c[j] = IF j < i THEN q[j] ELSE q[j + 1]
  <2>1. c[j] = IF j <= i - 1 THEN a[j] ELSE b[j - (i - 1)]
    BY <1>1, <1>2, <1>3, <1>4
  <2>2. CASE j < i
    BY <1>1, <1>2, <2>1, <2>2
  <2>3. CASE j >= i
    <3>1. j - (i - 1) \in 1..(Len(q) - i) /\ i + (j - (i - 1)) = j + 1
      BY <1>1, <2>3
    <3>2. c[j] = b[j - (i - 1)]
      BY <1>1, <2>1, <2>3
    <3>3. b[j - (i - 1)] = q[j + 1]
      BY <1>3, <3>1
    <3>4. QED
      BY <1>1, <2>3, <3>2, <3>3
  <2>4. QED
    BY <1>1, <2>2, <2>3
<1>7. Without(q, i) = c
  BY DEF Without, a, b, c
<1>8. QED
  BY <1>4, <1>5, <1>6, <1>7

\* What is taken out is gone, and nothing else is.
LEMMA WithoutHas ==
  ASSUME NEW S, NEW q \in Seq(S), Distinct(q), NEW i \in 1..Len(q)
  PROVE  /\ Distinct(Without(q, i))
         /\ \A x : Has(Without(q, i), x) <=> Has(q, x) /\ x # q[i]
<1> DEFINE w == Without(q, i)
<1>1. /\ Len(q) \in Nat /\ Len(w) = Len(q) - 1
      /\ \A j \in 1..(Len(q) - 1) : w[j] = IF j < i THEN q[j] ELSE q[j + 1]
  BY WithoutShape
<1> HIDE DEF w
<1>2. Distinct(w)
  BY <1>1 DEF Distinct
<1>3. ASSUME NEW x, Has(w, x) PROVE Has(q, x) /\ x # q[i]
  <2>1. PICK j \in 1..(Len(q) - 1) : w[j] = x
    BY <1>1, <1>3 DEF Has
  <2>2. PICK m \in 1..Len(q) : m # i /\ q[m] = x
    <3>1. CASE j < i
      BY <1>1, <2>1, <3>1
    <3>2. CASE j >= i
      <4>1. j + 1 \in 1..Len(q) /\ j + 1 # i /\ q[j + 1] = x
        BY <1>1, <2>1, <3>2
      <4>2. QED
        BY <4>1
    <3>3. QED
      BY <1>1, <3>1, <3>2
  <2>3. QED
    BY <2>2 DEF Distinct, Has
<1>4. ASSUME NEW x, Has(q, x), x # q[i] PROVE Has(w, x)
  <2>1. PICK m \in 1..Len(q) : q[m] = x
    BY <1>4 DEF Has
  <2>2. m # i
    BY <1>4, <2>1
  <2>3. CASE m < i
    <3>1. m \in 1..Len(w) /\ w[m] = x
      BY <1>1, <2>1, <2>3
    <3>2. QED
      BY <3>1 DEF Has
  <2>4. CASE m > i
    <3>1. m - 1 \in 1..Len(w) /\ w[m - 1] = q[(m - 1) + 1] /\ (m - 1) + 1 = m
      BY <1>1, <2>1, <2>4
    <3>2. QED
      BY <2>1, <3>1 DEF Has
  <2>5. QED
    BY <2>2, <2>3, <2>4
<1>5. QED
  BY <1>2, <1>3, <1>4 DEF w

-----------------------------------------------------------------------------
(* One step of a pass: whatever the loop goes on with, it keeps the items   *)
(* together and everything it still owes ahead of it.                       *)
Sound(q, from, skip, owed) ==
  /\ q \in Seq(Items) /\ Distinct(q) /\ from \in 0..Len(q)
  /\ skip \in SUBSET Items /\ owed \in SUBSET Items
  /\ \A x \in owed : x \notin skip /\ \E i \in 1..from : q[i] = x

Continued(q, from, skip) ==
  /\ queue' \in Seq(Items) /\ Distinct(queue')
  /\ sending' \in Items \cup {NoItem}
  /\ \A x \in Items : Has(q, x) <=> Has(queue', x) \/ x = sending'
  /\ ~Has(queue', sending')
  /\ pos' \in 0..Len(queue')
  /\ \A i \in 1..pos' : i \in 1..from /\ queue'[i] = q[i]
  /\ late' \in SUBSET Items /\ (sending' # NoItem => late' = skip)
  /\ due' \in SUBSET Items
  /\ \A x \in due' : x \notin late' /\ \E i \in 1..pos' : queue'[i] = x
  /\ sending' = NoItem => due' = {} /\ pos' = 0
  /\ sending' # NoItem => \E i \in 1..from : q[i] = sending' /\ q[i] \notin skip

LEMMA ContinueShape ==
  ASSUME NEW q, NEW from, NEW skip, NEW owed,
         Sound(q, from, skip, owed), Continue(q, from, skip, owed)
  PROVE  Continued(q, from, skip)
<1>s. /\ q \in Seq(Items) /\ Distinct(q) /\ from \in 0..Len(q)
      /\ skip \in SUBSET Items /\ owed \in SUBSET Items
      /\ \A x \in owed : x \notin skip /\ \E i \in 1..from : q[i] = x
  BY Zenon DEF Sound
<1> DEFINE ready == {i \in 1..from : q[i] \notin skip}
<1>1. /\ Len(q) \in Nat /\ from \in Nat /\ from <= Len(q)
      /\ \A i \in 1..Len(q) : q[i] \in Items
      /\ ready \subseteq 1..from /\ \A i \in 1..from : i \in ready <=> q[i] \notin skip
      /\ 1..from \subseteq 1..Len(q)
  BY <1>s, ElementOfSeq
<1>2. \/ /\ ready = {} /\ queue' = q /\ sending' = NoItem /\ pos' = 0
         /\ late' = {} /\ due' = owed
      \/ \E i \in ready : /\ \A j \in ready : j <= i
                         /\ queue' = Without(q, i) /\ sending' = q[i] /\ pos' = i - 1
                         /\ late' = skip /\ due' = owed \ {q[i]}
  BY DEF Continue, Taken, Descend
<1> HIDE DEF ready
<1>3. CASE ready = {} /\ queue' = q /\ sending' = NoItem /\ pos' = 0
           /\ late' = {} /\ due' = owed
  <2>1. owed = {}
    BY <1>s, <1>1, <1>3
  <2>2. ~Has(q, NoItem)
    BY <1>1, NoItemIsNone DEF Has
  <2>3. \A x \in Items : x # NoItem
    BY NoItemIsNone
  <2>4. QED
    BY <1>s, <1>1, <1>3, <2>1, <2>2, <2>3 DEF Continued
<1>4. CASE \E i \in ready : /\ \A j \in ready : j <= i
                         /\ queue' = Without(q, i) /\ sending' = q[i] /\ pos' = i - 1
                         /\ late' = skip /\ due' = owed \ {q[i]}
  <2>1. PICK i \in ready : /\ \A j \in ready : j <= i
                         /\ queue' = Without(q, i) /\ sending' = q[i] /\ pos' = i - 1
                         /\ late' = skip /\ due' = owed \ {q[i]}
    BY <1>4, Zenon
  <2>2. i \in 1..from /\ i \in 1..Len(q) /\ q[i] \in Items /\ q[i] \notin skip
    BY <1>1
  <2>3. /\ queue' \in Seq(Items) /\ Len(queue') = Len(q) - 1
        /\ \A j \in 1..(Len(q) - 1) : queue'[j] = IF j < i THEN q[j] ELSE q[j + 1]
    BY <1>s, <2>1, <2>2, WithoutShape, Zenon
  <2>4. Distinct(queue') /\ \A x : Has(queue', x) <=> Has(q, x) /\ x # q[i]
    BY <1>s, <2>1, <2>2, WithoutHas, Zenon
  <2>5. \A x \in Items : Has(q, x) <=> Has(queue', x) \/ x = sending'
    <3>1. Has(q, q[i])
      BY <2>2 DEF Has
    <3>2. QED
      BY <2>1, <2>4, <3>1, Zenon
  <2>6. pos' \in 0..Len(queue')
    BY <1>1, <2>1, <2>2, <2>3
  <2>7. ASSUME NEW j \in 1..pos' PROVE j \in 1..from /\ queue'[j] = q[j]
    <3>1. j \in 1..from /\ j < i /\ j \in 1..(Len(q) - 1)
      BY <1>1, <2>1, <2>2
    <3>2. QED
      BY <2>3, <3>1
  <2>8. ASSUME NEW x \in due' PROVE x \notin late' /\ \E j \in 1..pos' : queue'[j] = x
    <3>1. x \notin skip /\ x # q[i]
      BY <1>s, <2>1, Zenon
    <3>2. PICK j \in 1..from : q[j] = x
      BY <1>s, <2>1, Zenon
    <3>3. j \in ready
      BY <1>1, <3>1, <3>2
    <3>4. j <= i /\ j # i
      BY <2>1, <3>1, <3>2, <3>3
    <3>5. j \in 1..pos'
      BY <1>1, <2>1, <2>2, <3>4
    <3>6. QED
      BY <2>1, <2>7, <3>1, <3>2, <3>5
  <2>9. sending' # NoItem
    BY <2>1, <2>2, NoItemIsNone
  <2>10. QED
    <3>1. late' \in SUBSET Items /\ due' \in SUBSET Items
      BY <1>s, <2>1
    <3>2. sending' \in Items \cup {NoItem} /\ ~Has(queue', sending')
      BY <2>1, <2>2, <2>4
    <3>3. QED
      BY <2>1, <2>2, <2>3, <2>4, <2>5, <2>6, <2>7, <2>8, <2>9, <3>1, <3>2, Zenon
      DEF Continued
<1>5. QED
  BY <1>2, <1>3, <1>4

\* What the pass holds: the items in the array and the one being delivered.
Held(x) == Has(queue, x) \/ x = sending

LEMMA QueueIsHas == \A x : x \in InQueue <=> Has(queue, x)
BY DEF InQueue, Has

Places ==
  /\ Distinct(queue) /\ ~Has(queue, sending)
  /\ \A x : Held(x) => ~Ended(x)
  /\ \A x \in sent : x \notin failed \cup lost
  /\ failed \cap lost = {}
  /\ \A a \in called \ suppressed, i \in 1..NumChannels :
       Held(<<a, i>>) \/ Ended(<<a, i>>)

LEMMA OnePlace == EachItemInOnePlace <=> Places
<1>1. \A x : x \in InQueue \cup {sending} <=> Held(x)
  BY QueueIsHas, Zenon DEF Held
<1>2. sending \notin InQueue <=> ~Has(queue, sending)
  BY QueueIsHas, Zenon
<1>3. QED
  BY <1>1, <1>2, Zenon DEF EachItemInOnePlace, Places, Distinct

LEMMA OnePlaceNext == EachItemInOnePlace' <=> Places'
BY OnePlace, PTL

(* A step of a pass that goes on with array q, from index `from': the items  *)
(* of E have ended in it, all others that were held are in q.                *)
PassTo(q, from, skip, E) ==
  /\ E \in SUBSET {x \in Items : x = sending}
  /\ \/ sent' = sent \cup E /\ failed' = failed
     \/ sent' = sent /\ failed' = failed \cup E
  /\ \A x \in Items : Has(q, x) <=> Held(x) /\ x \notin E
  /\ attempts' \in [Items -> 0..MaxAttempts] /\ wait' \in [Items -> Nat]
  /\ \A x \in Items : x # sending => attempts'[x] = attempts[x] /\ wait'[x] = wait[x]
  /\ \A i \in 1..from : q[i] \notin skip => wait'[q[i]] = 0
  /\ Has(q, sending) => attempts'[sending] < MaxAttempts

LEMMA PassStep ==
  ASSUME QueueInv, NEW q, NEW from, NEW skip, NEW owed, NEW E,
         Sound(q, from, skip, owed), Continue(q, from, skip, owed),
         PassTo(q, from, skip, E),
         UNCHANGED <<called, window, suppressed, restarts, lost>>, WindowsAreCovered'
  PROVE  QueueInv'
<1>1. Continued(q, from, skip)
  BY ContinueShape, Zenon
<1>t. TypeOK /\ Untouched /\ EachItemInOnePlace /\ NoItem \notin Items
  BY NoItemIsNone DEF QueueInv
<1>u. /\ called' = called /\ window' = window /\ suppressed' = suppressed
      /\ restarts' = restarts /\ lost' = lost
  OBVIOUS
<1>e. E \in SUBSET {x \in Items : x = sending}
  BY Zenon DEF PassTo
<1>f. \/ sent' = sent \cup E /\ failed' = failed
      \/ sent' = sent /\ failed' = failed \cup E
  BY Zenon DEF PassTo
<1>q. \A x \in Items : Has(q, x) <=> Held(x) /\ x \notin E
  BY Zenon DEF PassTo
<1>k. /\ attempts' \in [Items -> 0..MaxAttempts] /\ wait' \in [Items -> Nat]
      /\ \A x \in Items : x # sending => attempts'[x] = attempts[x] /\ wait'[x] = wait[x]
  BY Zenon DEF PassTo
<1>2. TypeOK'
  <2>1. /\ queue' \in Seq(Items) /\ sending' \in Items \cup {NoItem}
        /\ pos' \in 0..Len(queue') /\ late' \in SUBSET Items /\ due' \in SUBSET Items
    BY <1>1, Zenon DEF Continued
  <2>2. QED
    BY <1>t, <1>u, <1>e, <1>f, <1>k, <2>1 DEF TypeOK
<1>3. \A x \in Items : Held(x)' <=> Has(q, x)
  BY <1>1, Zenon DEF Continued, Held, Has
<1>4. \A x : Has(queue', x) => x \in Items
  BY <1>2, ElementOfSeq, Zenon DEF TypeOK, Has
<1>5. \A x : Held(x)' => x \in Items \/ x = NoItem
  BY <1>2, <1>4, Zenon DEF TypeOK, Held, Has
<1>6. \A x : Ended(x)' <=> Ended(x) \/ x \in E
  BY <1>u, <1>f DEF Ended
<1>7. \A x : Ended(x) => x \in Items
  BY <1>t DEF Ended, TypeOK
<1>8. EachItemInOnePlace'
  <2>1. \A x \in Items : Held(x)' => ~Ended(x)'
    BY <1>3, <1>6, <1>q, <1>t, OnePlace, Zenon DEF Places
  <2>2. \A x : Held(x)' => ~Ended(x)'
    BY <2>1, <1>5, <1>6, <1>7, <1>t, <1>e, Zenon
  <2>3. \A x \in E : ~Ended(x)
    BY <1>t, <1>e, OnePlace, Zenon DEF Places, Held
  <2>4. (\A x \in sent : x \notin failed \cup lost) /\ failed \cap lost = {}
    BY <1>t, OnePlace, Zenon DEF Places
  <2>5. (\A x \in sent' : x \notin failed' \cup lost') /\ failed' \cap lost' = {}
    BY <2>3, <2>4, <1>u, <1>f DEF Ended
  <2>6. ASSUME NEW a \in called' \ suppressed', NEW i \in 1..NumChannels
        PROVE  Held(<<a, i>>)' \/ Ended(<<a, i>>)'
    <3>1. <<a, i>> \in Items /\ a \in called \ suppressed
      BY <1>t, <1>u DEF TypeOK, Items
    <3>2. Held(<<a, i>>) \/ Ended(<<a, i>>)
      BY <1>t, <3>1, OnePlace, Zenon DEF Places
    <3>3. QED
      BY <1>3, <1>6, <1>q, <3>1, <3>2, Zenon
  <2>7. Distinct(queue') /\ ~Has(queue', sending')
    BY <1>1, Zenon DEF Continued
  <2>8. QED
    BY <2>2, <2>5, <2>6, <2>7, OnePlaceNext, Zenon DEF Places
<1>9. Untouched'
  <2>1. \A x \in Items : Held(x) \/ Ended(x) => x[1] \in called
    <3>1. Untouched
      BY <1>t
    <3>2. \A x : Ended(x) => x[1] \in called
      BY <3>1 DEF Untouched, Ended
    <3>3. \A x \in Items : Held(x) => x[1] \in called
      BY <1>t, QueueIsHas DEF Untouched, Held
    <3>4. QED
      BY <3>2, <3>3
  <2>2. \A x \in Items : Held(x)' => x[1] \in called'
    BY <1>3, <1>u, <1>q, <2>1, Zenon
  <2>3. \A x \in Items : Ended(x)' => x[1] \in called'
    BY <1>6, <1>u, <1>e, <2>1, Zenon DEF Held
  <2>4. \A x \in InQueue' \cup sent' \cup failed' \cup lost' : x[1] \in called'
    <3>1. \A x \in InQueue' : x \in Items /\ Held(x)'
      BY <1>4 DEF InQueue, Has, Held
    <3>2. \A x \in sent' \cup failed' \cup lost' : x \in Items /\ Ended(x)'
      BY <1>2 DEF TypeOK, Ended
    <3>3. QED
      BY <2>2, <2>3, <3>1, <3>2
  <2>5. sending' # NoItem => sending'[1] \in called'
    <3>1. sending' # NoItem => sending' \in Items /\ Held(sending)'
      BY <1>2 DEF TypeOK, Held
    <3>2. QED
      BY <2>2, <3>1 DEF Held
  <2>6. \A x \in Items : x[1] \notin called' => attempts'[x] = 0 /\ wait'[x] = 0
    <3>1. \A x \in Items : x[1] \notin called => x # sending
      BY <2>1 DEF Held
    <3>2. QED
      BY <1>t, <1>u, <1>k, <3>1 DEF Untouched
  <2>7. QED
    BY <2>4, <2>5, <2>6, Zenon DEF Untouched
<1>10. OwedIsAhead' /\ PassIsComplete'
  BY <1>1, Zenon DEF Continued, OwedIsAhead, PassIsComplete
<1>11. TriedWhenDue'
  <2>1. \A i \in 1..from : q[i] \notin skip => wait'[q[i]] = 0
    BY Zenon DEF PassTo
  <2>2. sending' # NoItem => wait'[sending'] = 0
    BY <1>1, <2>1, Zenon DEF Continued
  <2>3. ASSUME NEW i \in 1..pos', queue'[i] \notin late' PROVE wait'[queue'[i]] = 0
    <3>1. i \in 1..from /\ queue'[i] = q[i]
      BY <1>1, Zenon DEF Continued
    <3>2. sending' = NoItem => pos' = 0
      BY <1>1, Zenon DEF Continued
    <3>3. sending' # NoItem
      BY <3>2
    <3>4. late' = skip
      BY <1>1, <3>3, Zenon DEF Continued
    <3>5. QED
      BY <2>1, <2>3, <3>1, <3>4, Zenon
  <2>4. QED
    BY <2>2, <2>3, Zenon DEF TriedWhenDue
<1>12. ASSUME NEW x \in InQueue' \cup ({sending'} \ {NoItem})
       PROVE  attempts'[x] < MaxAttempts
  <2>1. x \in Items
    BY <1>2, <1>4 DEF InQueue, Has, TypeOK
  <2>2. Held(x)'
    BY <2>1 DEF InQueue, Has, Held
  <2>3. Has(q, x) /\ Held(x)
    BY <1>3, <1>q, <2>1, <2>2
  <2>4. CASE x = sending
    BY <2>3, <2>4, Zenon DEF PassTo
  <2>5. CASE x # sending
    <3>1. x \in InQueue \cup ({sending} \ {NoItem})
      BY <2>3, <2>5, QueueIsHas DEF Held
    <3>2. attempts[x] < MaxAttempts
      BY <3>1, Zenon DEF QueueInv
    <3>3. QED
      BY <1>k, <2>1, <2>5, <3>2
  <2>6. QED
    BY <2>4, <2>5
<1>13. QED
  BY <1>2, <1>8, <1>9, <1>10, <1>11, <1>12, Zenon DEF QueueInv

-----------------------------------------------------------------------------
(* The delays of an item, added up *)

LEMMA NoDelayYet == DelaysUpTo(0) = 0
<1>1. 2 ^ 0 = 1 /\ BaseDelay \in Nat
  BY DelaysAssumption, NotificationsAssumption
  DEF DelaysAssumption, NotificationsAssumption
<1>2. QED
  BY <1>1 DEF DelaysUpTo

LEMMA DelaysAdd ==
  ASSUME NEW n \in Nat, n < MaxAttempts
  PROVE  /\ Delay(n + 1) \in Nat /\ DelaysUpTo(n) \in Int
         /\ DelaysUpTo(n + 1) = DelaysUpTo(n) + Delay(n + 1)
<1>1. BaseDelay \in Nat /\ MaxAttempts \in Nat /\ 2 ^ 0 = 1
  BY DelaysAssumption, NotificationsAssumption
  DEF DelaysAssumption, NotificationsAssumption
<1>2. n + 1 \in 1..MaxAttempts /\ (n + 1) - 1 = n
  BY <1>1
<1>3. 2 ^ (n + 1) = 2 * 2 ^ n
  BY <1>2, DelaysAssumption DEF DelaysAssumption
<1>4. 2 ^ n \in Nat
  <2>1. CASE n = 0
    BY <1>1, <2>1
  <2>2. CASE n # 0
    <3>1. n \in 1..MaxAttempts
      BY <1>1, <2>2
    <3>2. QED
      BY <3>1, DelaysAssumption DEF DelaysAssumption
  <2>3. QED
    BY <2>1, <2>2
<1>5. PICK p, r : p = 2 ^ n /\ r = 2 ^ (n + 1)
  OBVIOUS
<1>6. /\ Delay(n + 1) = BaseDelay * p /\ DelaysUpTo(n) = BaseDelay * (p - 1)
      /\ DelaysUpTo(n + 1) = BaseDelay * (r - 1) /\ r = 2 * p /\ p \in Nat
  BY <1>2, <1>3, <1>4, <1>5 DEF Delay, DelaysUpTo
<1>7. /\ BaseDelay * p \in Nat /\ BaseDelay * (p - 1) \in Int
      /\ BaseDelay * (2 * p - 1) = BaseDelay * (p - 1) + BaseDelay * p
  BY <1>1, <1>6
<1>8. QED
  BY <1>6, <1>7

LEMMA DelaysAreNumbers == \A n \in 0..MaxAttempts : DelaysUpTo(n) \in Int
<1>1. BaseDelay \in Nat /\ MaxAttempts \in Nat /\ 2 ^ 0 = 1
  BY DelaysAssumption, NotificationsAssumption
  DEF DelaysAssumption, NotificationsAssumption
<1> TAKE n \in 0..MaxAttempts
<1>2. 2 ^ n \in Nat
  <2>1. CASE n = 0
    BY <1>1, <2>1
  <2>2. CASE n # 0
    <3>1. n \in 1..MaxAttempts
      BY <1>1, <2>2
    <3>2. QED
      BY <3>1, DelaysAssumption DEF DelaysAssumption
  <2>3. QED
    BY <2>1, <2>2
<1>3. PICK p : p = 2 ^ n
  OBVIOUS
<1>4. DelaysUpTo(n) = BaseDelay * (p - 1) /\ p \in Nat
  BY <1>2, <1>3 DEF DelaysUpTo
<1>5. BaseDelay * (p - 1) \in Int
  BY <1>1, <1>4
<1>6. QED
  BY <1>4, <1>5

LEMMA AllDelays == DedupeTime <= DelaysUpTo(MaxAttempts - 1)
BY DelaysAssumption DEF DelaysAssumption, DelaysUpTo

\* The items of an alert are items.
LEMMA ItemsOf ==
  ASSUME NEW a \in Alerts, NEW i \in 1..NumChannels
  PROVE  <<a, i>> \in Items /\ <<a, i>>[1] = a
BY DEF Items

-----------------------------------------------------------------------------
(* The steps of a pass *)

LEMMA WindowsStay ==
  ASSUME WindowsAreCovered,
         UNCHANGED <<called, suppressed, window, attempts, wait, failed, lost>>
  PROVE  WindowsAreCovered'
BY DEF WindowsAreCovered, Covers

\* The pass in progress may go on with the array as it is.
LEMMA RestIsSound ==
  ASSUME QueueInv, sending # NoItem
  PROVE  /\ Sound(queue, pos, late, due) /\ sending \in Items
         /\ ~Has(queue, sending)
         /\ \A x \in due : x # sending
<1>1. TypeOK /\ OwedIsAhead /\ Places
  BY OnePlace, Zenon DEF QueueInv
<1>2. ~Has(queue, sending) /\ Distinct(queue)
  BY <1>1, Zenon DEF Places
<1>3. /\ queue \in Seq(Items) /\ pos \in 0..Len(queue)
      /\ late \in SUBSET Items /\ due \in SUBSET Items /\ sending \in Items
  BY <1>1 DEF TypeOK
<1>4. \A x \in due : x \notin late /\ \E i \in 1..pos : queue[i] = x
  BY <1>1, Zenon DEF OwedIsAhead
<1>5. \A x \in due : Has(queue, x)
  BY <1>3, <1>4 DEF Has
<1>6. QED
  BY <1>2, <1>3, <1>4, <1>5, Zenon DEF Sound

\* A pass starts on the array as it is.
LEMMA StartIsSound ==
  ASSUME QueueInv, StartPass
  PROVE  /\ Sound(queue, Len(queue), NotDue, InQueue \ NotDue)
         /\ PassTo(queue, Len(queue), NotDue, {})
<1>1. TypeOK /\ Places /\ WindowsAreCovered
  BY OnePlace, Zenon DEF QueueInv
<1>2. /\ sending = NoItem /\ Continue(queue, Len(queue), NotDue, InQueue \ NotDue)
      /\ called' = called /\ window' = window /\ suppressed' = suppressed
      /\ restarts' = restarts /\ lost' = lost /\ sent' = sent /\ failed' = failed
      /\ attempts' = attempts /\ wait' = wait
  BY Zenon DEF StartPass, ends
<1>3. /\ queue \in Seq(Items) /\ Len(queue) \in Nat
      /\ \A i \in 1..Len(queue) : queue[i] \in Items
  BY <1>1, ElementOfSeq DEF TypeOK
<1>4. Sound(queue, Len(queue), NotDue, InQueue \ NotDue)
  <2>1. InQueue \in SUBSET Items /\ NotDue \in SUBSET InQueue
    BY <1>3 DEF InQueue, NotDue
  <2>2. \A x \in InQueue : \E i \in 1..Len(queue) : queue[i] = x
    BY DEF InQueue
  <2>3. Distinct(queue)
    BY <1>1, Zenon DEF Places
  <2>4. QED
    BY <1>3, <2>1, <2>2, <2>3 DEF Sound
<1>5. PassTo(queue, Len(queue), NotDue, {})
  <2>1. \A x \in Items : Has(queue, x) <=> Held(x) /\ x \notin {}
    BY <1>2, NoItemIsNone DEF Held
  <2>2. \A i \in 1..Len(queue) : queue[i] \notin NotDue => wait'[queue[i]] = 0
    BY <1>1, <1>2, <1>3 DEF NotDue, InQueue, TypeOK
  <2>3. ~Has(queue, sending)
    BY <1>1, Zenon DEF Places
  <2>4. attempts' \in [Items -> 0..MaxAttempts] /\ wait' \in [Items -> Nat]
    BY <1>1, <1>2 DEF TypeOK
  <2>5. QED
    BY <1>2, <2>1, <2>2, <2>3, <2>4 DEF PassTo
<1>6. QED
  BY <1>4, <1>5

LEMMA StartPassStep ==
  ASSUME QueueInv, StartPass
  PROVE  QueueInv'
<1>1. /\ Continue(queue, Len(queue), NotDue, InQueue \ NotDue)
      /\ UNCHANGED <<called, window, suppressed, restarts, lost>>
      /\ UNCHANGED <<called, suppressed, window, attempts, wait, failed, lost>>
  BY Zenon DEF StartPass, ends
<1>2. WindowsAreCovered'
  BY <1>1, WindowsStay, Zenon DEF QueueInv
<1>3. QED
  BY <1>1, <1>2, StartIsSound, PassStep

\* After the delivery of the item that is being sent, for the last time.
LEMMA ItemEnds ==
  ASSUME QueueInv, sending # NoItem,
         \/ sent' = sent \cup {sending} /\ failed' = failed
         \/ sent' = sent /\ failed' = failed \cup {sending},
         attempts' \in [Items -> 0..MaxAttempts],
         \A x \in Items : x # sending => attempts'[x] = attempts[x],
         UNCHANGED wait
  PROVE  PassTo(queue, pos, late, {sending})
<1>1. TypeOK /\ TriedWhenDue
  BY Zenon DEF QueueInv
<1>2. ~Has(queue, sending) /\ sending \in Items
  BY RestIsSound, Zenon
<1>3. \A x \in Items : Has(queue, x) <=> Held(x) /\ x \notin {sending}
  BY <1>2 DEF Held
<1>4. \A i \in 1..pos : queue[i] \notin late => wait'[queue[i]] = 0
  BY <1>1 DEF TriedWhenDue
<1>5. wait' \in [Items -> Nat]
  BY <1>1 DEF TypeOK
<1>6. QED
  BY <1>2, <1>3, <1>4, <1>5 DEF PassTo

LEMMA DeliveredStep ==
  ASSUME QueueInv, Delivered
  PROVE  QueueInv'
<1>1. /\ sending # NoItem /\ sent' = sent \cup {sending} /\ failed' = failed
      /\ Continue(queue, pos, late, due)
      /\ called' = called /\ window' = window /\ suppressed' = suppressed
      /\ restarts' = restarts /\ lost' = lost
      /\ attempts' = attempts /\ wait' = wait
  BY Zenon DEF Delivered
<1>2. attempts' \in [Items -> 0..MaxAttempts]
  BY <1>1 DEF QueueInv, TypeOK
<1>3. PassTo(queue, pos, late, {sending})
  BY <1>1, <1>2, ItemEnds
<1>4. WindowsAreCovered'
  BY <1>1, WindowsStay DEF QueueInv
<1>5. QED
  BY <1>1, <1>3, <1>4, RestIsSound, PassStep

\* Counting another failure of an item.
LEMMA Attempted ==
  ASSUME QueueInv, sending # NoItem,
         attempts' = [attempts EXCEPT ![sending] = attempts[sending] + 1]
  PROVE  /\ sending \in Items /\ attempts[sending] \in Nat
         /\ attempts[sending] < MaxAttempts
         /\ attempts' \in [Items -> 0..MaxAttempts]
         /\ attempts'[sending] = attempts[sending] + 1
         /\ \A x \in Items : x # sending => attempts'[x] = attempts[x]
<1>1. sending \in Items /\ attempts \in [Items -> 0..MaxAttempts]
  BY DEF QueueInv, TypeOK
<1>m. MaxAttempts \in Nat
  BY NotificationsAssumption DEF NotificationsAssumption
<1>2. attempts[sending] < MaxAttempts
  <2>1. sending \in InQueue \cup ({sending} \ {NoItem})
    OBVIOUS
  <2>2. QED
    BY <2>1, Zenon DEF QueueInv
<1>3. QED
  BY <1>1, <1>m, <1>2

\* What covers a window, with the types of the numbers in it.
LEMMA Covering ==
  ASSUME QueueInv, NEW k \in Keys, window[k] > 0
  PROVE  \E b \in called \ suppressed :
           /\ KeyOf[b] = k /\ b \in Alerts /\ Covers(b, window[k])
<1>1. WindowsAreCovered /\ called \subseteq Alerts
  BY DEF QueueInv, TypeOK
<1>2. QED
  BY <1>1 DEF WindowsAreCovered

LEMMA Constants ==
  /\ DedupeTime \in Nat /\ BaseDelay \in Nat /\ MaxAttempts \in Nat \ {0}
  /\ KeyOf \in [Alerts -> Keys] /\ NumChannels \in Nat
BY NotificationsAssumption DEF NotificationsAssumption

(* Another delay is added to what an item has used up, and to what it still *)
(* waits for.                                                               *)
LEMMA FailureCovers ==
  ASSUME QueueInv, DeliveryFails
  PROVE  WindowsAreCovered'
<1> DEFINE n == attempts[sending]
<1>1. /\ sending # NoItem
      /\ attempts' = [attempts EXCEPT ![sending] = n + 1]
      /\ wait' = [wait EXCEPT ![sending] = Delay(n + 1)]
      /\ called' = called /\ suppressed' = suppressed /\ window' = window
      /\ failed' = failed /\ lost' = lost
  BY Zenon DEF DeliveryFails, ends
<1>2. /\ sending \in Items /\ n \in Nat /\ n < MaxAttempts
      /\ attempts'[sending] = n + 1
      /\ \A x \in Items : x # sending => attempts'[x] = attempts[x]
  BY <1>1, Attempted
<1>3. /\ wait[sending] = 0 /\ wait'[sending] = Delay(n + 1)
      /\ \A x \in Items : x # sending => wait'[x] = wait[x]
  BY <1>1, <1>2 DEF QueueInv, TypeOK, TriedWhenDue
<1> HIDE DEF n
<1>4. ASSUME NEW k \in Keys, window'[k] > 0
      PROVE  \E b \in called' \ suppressed' : KeyOf[b] = k /\ Covers(b, window[k])'
  <2>1. PICK b \in called \ suppressed :
          KeyOf[b] = k /\ b \in Alerts /\ Covers(b, window[k])
    BY <1>1, <1>4, Covering
  <2>2. ASSUME NEW i \in 1..NumChannels
        PROVE  /\ <<b, i>> \notin failed' \cup lost'
               /\ window'[k] + DelaysUpTo(attempts'[<<b, i>>])
                    <= DedupeTime + wait'[<<b, i>>]
    <3> DEFINE x == <<b, i>>
    <3>1. /\ x \in Items /\ x \notin failed \cup lost
          /\ window[k] + DelaysUpTo(attempts[x]) <= DedupeTime + wait[x]
      BY <2>1, ItemsOf DEF Covers
    <3> HIDE DEF x
    <3>2. CASE x # sending
      BY <1>1, <1>2, <1>3, <3>1, <3>2 DEF x
    <3>3. CASE x = sending
      <4>1. window[k] + DelaysUpTo(n) <= DedupeTime + 0
        BY <1>3, <3>1, <3>3 DEF n
      <4>2. /\ Delay(n + 1) \in Nat /\ DelaysUpTo(n) \in Int
            /\ DelaysUpTo(n + 1) = DelaysUpTo(n) + Delay(n + 1)
        BY <1>2, DelaysAdd
      <4>3. window[k] \in Nat /\ DedupeTime \in Nat
        BY Constants DEF QueueInv, TypeOK
      <4>4. window[k] + DelaysUpTo(n + 1) <= DedupeTime + Delay(n + 1)
        BY <4>1, <4>2, <4>3
      <4>5. QED
        BY <1>1, <1>2, <1>3, <3>1, <3>3, <4>4 DEF x
    <3>4. QED
      BY <3>2, <3>3
  <2>3. Covers(b, window[k])'
    BY <2>2 DEF Covers
  <2>4. QED
    BY <1>1, <2>1, <2>3
<1>5. QED
  BY <1>4 DEF WindowsAreCovered

(* An item that has used up its attempts has outlived every window that its *)
(* alert might cover.                                                       *)
LEMMA GivenUpCovers ==
  ASSUME QueueInv, GiveUp
  PROVE  WindowsAreCovered'
<1> DEFINE n == attempts[sending]
<1>1. /\ sending # NoItem /\ n + 1 >= MaxAttempts
      /\ attempts' = [attempts EXCEPT ![sending] = n + 1]
      /\ failed' = failed \cup {sending}
      /\ called' = called /\ suppressed' = suppressed /\ window' = window
      /\ wait' = wait /\ lost' = lost
  BY Zenon DEF GiveUp
<1>2. /\ sending \in Items /\ n \in Nat /\ n < MaxAttempts
      /\ \A x \in Items : x # sending => attempts'[x] = attempts[x]
  BY <1>1, Attempted
<1>3. wait[sending] = 0
  BY <1>1 DEF QueueInv, TriedWhenDue
<1> HIDE DEF n
<1>4. n = MaxAttempts - 1
  BY <1>1, <1>2, Constants
<1>5. ASSUME NEW k \in Keys, window'[k] > 0
      PROVE  \E b \in called' \ suppressed' : KeyOf[b] = k /\ Covers(b, window[k])'
  <2>1. PICK b \in called \ suppressed :
          KeyOf[b] = k /\ b \in Alerts /\ Covers(b, window[k])
    BY <1>1, <1>5, Covering
  <2>2. ASSUME NEW i \in 1..NumChannels
        PROVE  /\ <<b, i>> \notin failed' \cup lost'
               /\ window'[k] + DelaysUpTo(attempts'[<<b, i>>])
                    <= DedupeTime + wait'[<<b, i>>]
    <3> DEFINE x == <<b, i>>
    <3>1. /\ x \in Items /\ x \notin failed \cup lost
          /\ window[k] + DelaysUpTo(attempts[x]) <= DedupeTime + wait[x]
      BY <2>1, ItemsOf DEF Covers
    <3> HIDE DEF x
    <3>2. ASSUME x = sending PROVE FALSE
      <4>1. window[k] + DelaysUpTo(n) <= DedupeTime + 0
        BY <1>3, <3>1, <3>2 DEF n
      <4>2. DelaysUpTo(n) \in Int /\ DedupeTime <= DelaysUpTo(n)
        BY <1>2, <1>4, DelaysAdd, AllDelays
      <4>3. window[k] \in Nat /\ DedupeTime \in Nat /\ window[k] > 0
        BY <1>1, <1>5, Constants DEF QueueInv, TypeOK
      <4>4. QED
        BY <4>1, <4>2, <4>3
    <3>3. QED
      BY <1>1, <1>2, <3>1, <3>2 DEF x
  <2>3. Covers(b, window[k])'
    BY <2>2 DEF Covers
  <2>4. QED
    BY <1>1, <2>1, <2>3
<1>6. QED
  BY <1>5 DEF WindowsAreCovered

\* A failed item goes to the end of the array, and the pass leaves it alone.
LEMMA FailureIsSound ==
  ASSUME QueueInv, DeliveryFails
  PROVE  /\ Sound(Append(queue, sending), pos, late \cup {sending}, due)
         /\ PassTo(Append(queue, sending), pos, late \cup {sending}, {})
<1> DEFINE q == Append(queue, sending)
           n == attempts[sending]
<1>1. /\ sending # NoItem /\ n + 1 < MaxAttempts
      /\ attempts' = [attempts EXCEPT ![sending] = n + 1]
      /\ wait' = [wait EXCEPT ![sending] = Delay(n + 1)]
      /\ Continue(q, pos, late \cup {sending}, due)
      /\ called' = called /\ window' = window /\ suppressed' = suppressed
      /\ restarts' = restarts /\ sent' = sent /\ failed' = failed /\ lost' = lost
  BY Zenon DEF DeliveryFails, ends
<1>2. /\ sending \in Items /\ n \in Nat /\ n < MaxAttempts
      /\ attempts' \in [Items -> 0..MaxAttempts] /\ attempts'[sending] = n + 1
      /\ \A x \in Items : x # sending => attempts'[x] = attempts[x]
  BY <1>1, Attempted
<1> HIDE DEF n
<1>3. TypeOK /\ TriedWhenDue /\ Sound(queue, pos, late, due)
      /\ ~Has(queue, sending) /\ \A x \in due : x # sending
  BY <1>1, RestIsSound, Zenon DEF QueueInv
<1>4. /\ wait' \in [Items -> Nat]
      /\ \A x \in Items : x # sending => wait'[x] = wait[x]
  <2>1. Delay(n + 1) \in Nat
    BY <1>2, DelaysAdd
  <2>2. QED
    BY <1>1, <1>2, <1>3, <2>1 DEF TypeOK
<1>5. /\ queue \in Seq(Items) /\ Distinct(queue) /\ pos \in 0..Len(queue)
      /\ late \in SUBSET Items /\ due \in SUBSET Items
      /\ \A x \in due : x \notin late /\ \E i \in 1..pos : queue[i] = x
  BY <1>3, Zenon DEF Sound
<1>6. /\ q \in Seq(Items) /\ Len(q) = Len(queue) + 1 /\ q[Len(queue) + 1] = sending
      /\ \A i \in 1..Len(queue) : q[i] = queue[i]
      /\ Len(queue) \in Nat
  BY <1>2, <1>5
<1> HIDE DEF q
<1>7. \A x : Has(q, x) <=> Held(x)
  <2>1. \A i \in 1..Len(q) : i \in 1..Len(queue) \/ i = Len(queue) + 1
    BY <1>6
  <2>2. \A i \in 1..Len(queue) : i \in 1..Len(q)
    BY <1>6
  <2>3. Len(queue) + 1 \in 1..Len(q)
    BY <1>6
  <2>4. QED
    BY <1>6, <2>1, <2>2, <2>3, Zenon DEF Has, Held
<1>8. Distinct(q)
  BY <1>3, <1>5, <1>6 DEF Distinct, Has
<1>9. Sound(q, pos, late \cup {sending}, due)
  <2>1. pos \in 0..Len(q) /\ \A i \in 1..pos : q[i] = queue[i]
    BY <1>5, <1>6
  <2>2. QED
    BY <1>2, <1>3, <1>5, <1>6, <1>8, <2>1 DEF Sound
<1>10. PassTo(q, pos, late \cup {sending}, {})
  <2>1. \A x \in Items : Has(q, x) <=> Held(x) /\ x \notin {}
    BY <1>7
  <2>2. ASSUME NEW i \in 1..pos, q[i] \notin late \cup {sending} PROVE wait'[q[i]] = 0
    <3>1. i \in 1..Len(queue) /\ q[i] = queue[i] /\ queue[i] \in Items
      BY <1>5, <1>6, ElementOfSeq
    <3>2. wait[queue[i]] = 0
      BY <1>3, <2>2, <3>1 DEF TriedWhenDue
    <3>3. QED
      BY <1>4, <2>2, <3>1, <3>2
  <2>3. attempts'[sending] < MaxAttempts
    BY <1>1, <1>2
  <2>4. QED
    BY <1>1, <1>2, <1>4, <2>1, <2>2, <2>3 DEF PassTo
<1>11. QED
  BY <1>9, <1>10 DEF q

LEMMA DeliveryFailsStep ==
  ASSUME QueueInv, DeliveryFails
  PROVE  QueueInv'
<1>1. /\ Continue(Append(queue, sending), pos, late \cup {sending}, due)
      /\ UNCHANGED <<called, window, suppressed, restarts, lost>>
  BY Zenon DEF DeliveryFails, ends
<1>2. QED
  BY <1>1, FailureIsSound, FailureCovers, PassStep

LEMMA GiveUpStep ==
  ASSUME QueueInv, GiveUp
  PROVE  QueueInv'
<1>1. /\ sending # NoItem
      /\ attempts' = [attempts EXCEPT ![sending] = attempts[sending] + 1]
      /\ failed' = failed \cup {sending} /\ sent' = sent
      /\ Continue(queue, pos, late, due)
      /\ called' = called /\ window' = window /\ suppressed' = suppressed
      /\ restarts' = restarts /\ lost' = lost /\ wait' = wait
  BY Zenon DEF GiveUp
<1>2. PassTo(queue, pos, late, {sending})
  BY <1>1, Attempted, ItemEnds
<1>3. QED
  BY <1>1, <1>2, GivenUpCovers, RestIsSound, PassStep
-----------------------------------------------------------------------------
(* The steps outside a pass *)

\* A dropped alert leaves everything as it was but the books.
LEMMA SuppressStep ==
  ASSUME QueueInv, NEW a \in Alerts, Suppress(a)
  PROVE  QueueInv'
<1>1. /\ a \notin called /\ called' = called \cup {a}
      /\ suppressed' = suppressed \cup {a} /\ window' = window /\ restarts' = restarts
      /\ queue' = queue /\ sending' = sending /\ pos' = pos /\ late' = late /\ due' = due
      /\ attempts' = attempts /\ wait' = wait
      /\ sent' = sent /\ failed' = failed /\ lost' = lost
  BY Zenon DEF Suppress, pass, ends
<1>2. TypeOK'
  BY <1>1 DEF QueueInv, TypeOK
<1>3. called' \ suppressed' = called \ suppressed
  BY <1>1 DEF QueueInv, TypeOK
<1>4. InQueue' = InQueue
  BY <1>1, Zenon DEF InQueue
<1>5. EachItemInOnePlace'
  BY <1>1, <1>3, <1>4, Zenon DEF QueueInv, EachItemInOnePlace, Ended
<1>6. Untouched'
  BY <1>1, <1>4 DEF QueueInv, Untouched
<1>7. OwedIsAhead' /\ PassIsComplete' /\ TriedWhenDue'
  BY <1>1, Zenon DEF QueueInv, OwedIsAhead, PassIsComplete, TriedWhenDue
<1>8. \A x \in InQueue' \cup ({sending'} \ {NoItem}) : attempts'[x] < MaxAttempts
  BY <1>1, <1>4, Zenon DEF QueueInv
<1>9. WindowsAreCovered'
  BY <1>1, <1>3, Zenon DEF QueueInv, WindowsAreCovered, Covers
<1>10. QED
  BY <1>2, <1>5, <1>6, <1>7, <1>8, <1>9, Zenon DEF QueueInv

\* An alert's items are all new, and behind what the pass has in hand.
LEMMA EnqueuedShape ==
  ASSUME QueueInv, NEW a \in Alerts, Enqueue(a)
  PROVE  /\ queue' \in Seq(Items) /\ Len(queue') >= Len(queue)
         /\ \A i \in 1..Len(queue) : queue'[i] = queue[i]
         /\ \A x : Has(queue', x) <=>
              Has(queue, x) \/ \E c \in 1..NumChannels : x = <<a, c>>
         /\ Distinct(queue')
<1> DEFINE new == [c \in 1..NumChannels |-> <<a, c>>]
           m == Len(queue)
<1>1. /\ a \notin called /\ queue' = queue \o new
  BY Zenon DEF Enqueue
<1>2. NumChannels \in Nat
  BY Constants
<1>3. /\ queue \in Seq(Items) /\ m \in Nat
      /\ \A i \in 1..m : queue[i] \in Items /\ queue[i][1] \in called
  <2>1. queue \in Seq(Items)
    BY DEF QueueInv, TypeOK
  <2>2. \A i \in 1..m : queue[i] \in InQueue
    BY DEF InQueue
  <2>3. QED
    BY <2>1, <2>2, ElementOfSeq DEF QueueInv, Untouched
<1>4. new \in Seq(Items) /\ Len(new) = NumChannels
  BY <1>2, ItemsOf
<1>5. \A c \in 1..NumChannels : new[c] = <<a, c>>
  OBVIOUS
<1> HIDE DEF new, m
<1>6. /\ queue' \in Seq(Items) /\ Len(queue') = m + NumChannels
      /\ \A i \in 1..(m + NumChannels) :
           queue'[i] = IF i <= m THEN queue[i] ELSE new[i - m]
  <2>1. /\ queue \o new \in Seq(Items) /\ Len(queue \o new) = Len(queue) + Len(new)
        /\ \A i \in 1..(Len(queue) + Len(new)) :
             (queue \o new)[i] = IF i <= Len(queue) THEN queue[i] ELSE new[i - Len(queue)]
    BY <1>3, <1>4, ConcatProperties, Zenon
  <2>2. QED
    BY <1>1, <1>4, <2>1, Zenon DEF m
<1>7. \A i \in 1..m : i \in 1..(m + NumChannels) /\ queue'[i] = queue[i]
  BY <1>2, <1>3, <1>6
<1>8. \A c \in 1..NumChannels :
        m + c \in 1..(m + NumChannels) /\ queue'[m + c] = <<a, c>>
  <2> TAKE c \in 1..NumChannels
  <2>1. m + c \in 1..(m + NumChannels) /\ ~(m + c <= m) /\ (m + c) - m = c
    BY <1>2, <1>3
  <2>2. QED
    BY <1>5, <1>6, <2>1
<1>9. \A i \in 1..(m + NumChannels) :
        i \in 1..m \/ \E c \in 1..NumChannels : i = m + c
  <2> TAKE i \in 1..(m + NumChannels)
  <2>1. CASE i > m
    <3>1. i - m \in 1..NumChannels /\ i = m + (i - m)
      BY <1>2, <1>3, <2>1
    <3>2. QED
      BY <3>1
  <2>2. QED
    BY <1>2, <1>3, <2>1
<1>10. \A x : Has(queue', x) <=>
        Has(queue, x) \/ \E c \in 1..NumChannels : x = <<a, c>>
  <2>1. ASSUME NEW x, Has(queue', x)
        PROVE  Has(queue, x) \/ \E c \in 1..NumChannels : x = <<a, c>>
    <3>1. PICK i \in 1..(m + NumChannels) : queue'[i] = x
      BY <1>6, <2>1 DEF Has
    <3>2. CASE i \in 1..m
      <4>1. queue[i] = x
        BY <1>7, <3>1, <3>2
      <4>2. QED
        BY <3>2, <4>1 DEF Has, m
    <3>3. ASSUME NEW c \in 1..NumChannels, i = m + c PROVE x = <<a, c>>
      BY <1>8, <3>1, <3>3
    <3>4. QED
      BY <1>9, <3>2, <3>3
  <2>2. ASSUME NEW x, Has(queue, x) PROVE Has(queue', x)
    <3>1. PICK i \in 1..m : queue[i] = x
      BY <2>2 DEF Has, m
    <3>2. QED
      BY <1>6, <1>7, <3>1 DEF Has
  <2>3. ASSUME NEW c \in 1..NumChannels PROVE Has(queue', <<a, c>>)
    BY <1>6, <1>8 DEF Has
  <2>4. QED
    BY <2>1, <2>2, <2>3
<1>11. Distinct(queue')
  <2>1. Distinct(queue)
    BY OnePlace, Zenon DEF QueueInv, Places
  <2>2. ASSUME NEW i \in 1..(m + NumChannels), NEW j \in 1..(m + NumChannels),
               queue'[i] = queue'[j]
        PROVE  i = j
    <3>1. CASE i \in 1..m /\ j \in 1..m
      BY <1>7, <2>1, <2>2, <3>1 DEF Distinct, m
    <3>2. ASSUME NEW u \in 1..m, NEW c \in 1..NumChannels, queue'[u] = queue'[m + c]
          PROVE  FALSE
      <4>1. queue[u][1] \in called /\ queue[u] = <<a, c>>
        BY <1>3, <1>7, <1>8, <3>2
      <4>2. QED
        BY <1>1, <4>1
    <3>3. ASSUME NEW c \in 1..NumChannels, NEW d \in 1..NumChannels,
                 queue'[m + c] = queue'[m + d]
          PROVE  c = d
      BY <1>8, <3>3
    <3>4. QED
      BY <1>9, <2>2, <3>1, <3>2, <3>3
  <2>3. QED
    BY <1>6, <2>2 DEF Distinct
<1>12. Len(queue') >= Len(queue)
  BY <1>2, <1>3, <1>6 DEF m
<1>13. QED
  BY <1>6, <1>7, <1>10, <1>11, <1>12 DEF m

\* The new items hold all that the new window needs.
LEMMA EnqueueCovers ==
  ASSUME QueueInv, NEW a \in Alerts, Enqueue(a)
  PROVE  WindowsAreCovered'
<1>1. /\ a \notin called /\ called' = called \cup {a} /\ suppressed' = suppressed
      /\ window' = IF a \in Forced THEN window ELSE [window EXCEPT ![KeyOf[a]] = DedupeTime]
      /\ attempts' = attempts /\ wait' = wait /\ failed' = failed /\ lost' = lost
  BY Zenon DEF Enqueue, ends
<1>2. TypeOK /\ Untouched /\ WindowsAreCovered
  BY Zenon DEF QueueInv
<1>3. a \in called' \ suppressed'
  BY <1>1, <1>2 DEF TypeOK
<1>4. ASSUME NEW k \in Keys, window'[k] > 0
      PROVE  \E b \in called' \ suppressed' : KeyOf[b] = k /\ Covers(b, window[k])'
  <2>1. CASE a \notin Forced /\ k = KeyOf[a]
    <3>1. window'[k] = DedupeTime
      BY <1>1, <1>2, <2>1 DEF TypeOK
    <3>2. ASSUME NEW i \in 1..NumChannels
          PROVE  /\ <<a, i>> \notin failed' \cup lost'
                 /\ attempts'[<<a, i>>] = 0 /\ wait'[<<a, i>>] = 0
      BY <1>1, <1>2, ItemsOf DEF Untouched
    <3>3. Covers(a, window[k])'
      <4>1. DedupeTime + 0 <= DedupeTime + 0
        BY Constants
      <4>2. QED
        BY <3>1, <3>2, <4>1, NoDelayYet DEF Covers
    <3>4. QED
      BY <1>3, <2>1, <3>3
  <2>2. CASE ~(a \notin Forced /\ k = KeyOf[a])
    <3>1. window'[k] = window[k]
      BY <1>1, <1>2, <2>2 DEF TypeOK
    <3>2. PICK b \in called \ suppressed : KeyOf[b] = k /\ Covers(b, window[k])
      BY <1>2, <1>4, <3>1 DEF WindowsAreCovered
    <3>3. Covers(b, window[k])'
      BY <1>1, <3>1, <3>2 DEF Covers
    <3>4. QED
      BY <1>1, <3>2, <3>3
  <2>3. QED
    BY <2>1, <2>2
<1>5. QED
  BY <1>4 DEF WindowsAreCovered

LEMMA EnqueueStep ==
  ASSUME QueueInv, NEW a \in Alerts, Enqueue(a)
  PROVE  QueueInv'
<1>1. /\ a \notin called /\ called' = called \cup {a} /\ suppressed' = suppressed
      /\ window' = IF a \in Forced THEN window ELSE [window EXCEPT ![KeyOf[a]] = DedupeTime]
      /\ sending' = sending /\ pos' = pos /\ late' = late /\ due' = due
      /\ attempts' = attempts /\ wait' = wait /\ restarts' = restarts
      /\ sent' = sent /\ failed' = failed /\ lost' = lost
  BY Zenon DEF Enqueue, ends
<1>2. /\ TypeOK /\ Untouched /\ Places /\ OwedIsAhead /\ PassIsComplete /\ TriedWhenDue
      /\ \A x \in InQueue \cup ({sending} \ {NoItem}) : attempts[x] < MaxAttempts
  BY OnePlace, Zenon DEF QueueInv
<1>3. /\ queue' \in Seq(Items) /\ Len(queue') >= Len(queue)
      /\ \A i \in 1..Len(queue) : queue'[i] = queue[i]
      /\ \A x : Has(queue', x) <=>
           Has(queue, x) \/ \E c \in 1..NumChannels : x = <<a, c>>
      /\ Distinct(queue')
  BY EnqueuedShape, Zenon
<1>4. pos \in 0..Len(queue) /\ Len(queue) \in Nat /\ Len(queue') \in Nat
  BY <1>2, <1>3 DEF TypeOK
<1>5. TypeOK'
  <2>1. window' \in [Keys -> Nat]
    BY <1>1, <1>2, Constants DEF TypeOK
  <2>2. pos' \in 0..Len(queue')
    BY <1>1, <1>3, <1>4
  <2>3. QED
    BY <1>1, <1>2, <1>3, <2>1, <2>2 DEF TypeOK
<1>6. \A x : Held(x)' <=> Held(x) \/ \E c \in 1..NumChannels : x = <<a, c>>
  BY <1>1, <1>3, Zenon DEF Held, Has
<1>7. \A x : Ended(x)' <=> Ended(x)
  BY <1>1, Zenon DEF Ended
<1>8. \A c \in 1..NumChannels : ~Ended(<<a, c>>) /\ <<a, c>> # sending
  <2> TAKE c \in 1..NumChannels
  <2>1. <<a, c>> \in Items /\ <<a, c>>[1] \notin called
    BY <1>1, ItemsOf
  <2>2. <<a, c>> # NoItem
    BY <2>1, NoItemIsNone
  <2>3. QED
    BY <1>2, <2>1, <2>2 DEF Untouched, Ended
<1>9. EachItemInOnePlace'
  <2>1. ~Has(queue', sending')
    BY <1>1, <1>2, <1>3, <1>8 DEF Places
  <2>2. \A x : Held(x)' => ~Ended(x)'
    BY <1>2, <1>6, <1>7, <1>8, Zenon DEF Places
  <2>3. ASSUME NEW b \in called' \ suppressed', NEW i \in 1..NumChannels
        PROVE  Held(<<b, i>>)' \/ Ended(<<b, i>>)'
    <3>1. CASE b = a
      BY <1>6, <3>1
    <3>2. CASE b # a
      <4>1. b \in called \ suppressed
        BY <1>1, <2>3, <3>2
      <4>2. QED
        BY <1>2, <1>6, <1>7, <4>1, Zenon DEF Places
    <3>3. QED
      BY <3>1, <3>2
  <2>4. (\A x \in sent' : x \notin failed' \cup lost') /\ failed' \cap lost' = {}
    BY <1>1, <1>2, Zenon DEF Places
  <2>5. QED
    BY <1>3, <2>1, <2>2, <2>3, <2>4, OnePlaceNext, Zenon DEF Places
<1>10. \A x : x \in InQueue' <=> x \in InQueue \/ \E c \in 1..NumChannels : x = <<a, c>>
  <2>1. \A x : x \in InQueue' <=> Has(queue', x)
    BY Zenon DEF InQueue, Has
  <2>2. QED
    BY <1>3, <2>1, QueueIsHas, Zenon
<1>11. Untouched'
  <2>1. \A x \in InQueue' : x[1] \in called'
    BY <1>1, <1>2, <1>10 DEF Untouched
  <2>2. QED
    BY <1>1, <1>2, <2>1 DEF Untouched
<1>12. OwedIsAhead' /\ TriedWhenDue' /\ PassIsComplete'
  <2>1. \A i \in 1..pos : queue'[i] = queue[i]
    BY <1>3, <1>4
  <2>2. QED
    BY <1>1, <1>2, <2>1 DEF OwedIsAhead, TriedWhenDue, PassIsComplete
<1>13. \A x \in InQueue' \cup ({sending'} \ {NoItem}) : attempts'[x] < MaxAttempts
  <2>1. \A c \in 1..NumChannels : attempts[<<a, c>>] < MaxAttempts
    <3> TAKE c \in 1..NumChannels
    <3>1. attempts[<<a, c>>] = 0
      BY <1>1, <1>2, ItemsOf DEF Untouched
    <3>2. QED
      BY <3>1, Constants
  <2>2. QED
    BY <1>1, <1>2, <1>10, <2>1
<1>14. WindowsAreCovered'
  BY EnqueueCovers
<1>15. QED
  BY <1>5, <1>9, <1>11, <1>12, <1>13, <1>14, Zenon DEF QueueInv

\* Windows and delays run down together.
LEMMA ClockStep ==
  ASSUME QueueInv, Clock
  PROVE  QueueInv'
<1>1. /\ window' = [k \in Keys |-> Elapsed(window[k])]
      /\ wait' = [x \in Items |-> Elapsed(wait[x])]
      /\ called' = called /\ suppressed' = suppressed /\ restarts' = restarts
      /\ queue' = queue /\ sending' = sending /\ pos' = pos /\ late' = late /\ due' = due
      /\ attempts' = attempts /\ sent' = sent /\ failed' = failed /\ lost' = lost
  BY Zenon DEF Clock, pass, ends
<1>2. /\ TypeOK /\ Untouched /\ EachItemInOnePlace /\ OwedIsAhead /\ PassIsComplete
      /\ TriedWhenDue /\ WindowsAreCovered
      /\ \A x \in InQueue \cup ({sending} \ {NoItem}) : attempts[x] < MaxAttempts
  BY Zenon DEF QueueInv
<1>3. \A t \in Nat : /\ Elapsed(t) \in Nat /\ (t = 0 => Elapsed(t) = 0)
                     /\ t <= Elapsed(t) + 1
                     /\ (Elapsed(t) > 0 => t > 0 /\ Elapsed(t) = t - 1)
  BY DEF Elapsed
<1>4. /\ \A k \in Keys : window[k] \in Nat /\ window'[k] = Elapsed(window[k])
      /\ \A x \in Items : wait[x] \in Nat /\ wait'[x] = Elapsed(wait[x])
  BY <1>1, <1>2 DEF TypeOK
<1>5. TypeOK'
  <2>1. window' \in [Keys -> Nat] /\ wait' \in [Items -> Nat]
    BY <1>1, <1>3, <1>4
  <2>2. QED
    BY <1>1, <1>2, <2>1 DEF TypeOK
<1>6. InQueue' = InQueue
  BY <1>1, Zenon DEF InQueue
<1>7. EachItemInOnePlace' /\ OwedIsAhead' /\ PassIsComplete'
  BY <1>1, <1>2, <1>6, Zenon
  DEF EachItemInOnePlace, Ended, OwedIsAhead, PassIsComplete
<1>8. Untouched'
  BY <1>1, <1>2, <1>3, <1>4, <1>6 DEF Untouched
<1>9. TriedWhenDue'
  <2>1. sending # NoItem => sending \in Items
    BY <1>2 DEF TypeOK
  <2>2. \A i \in 1..pos : queue[i] \in Items
    BY <1>2, ElementOfSeq DEF TypeOK
  <2>3. QED
    BY <1>1, <1>2, <1>3, <1>4, <2>1, <2>2 DEF TriedWhenDue
<1>10. ASSUME NEW k \in Keys, window'[k] > 0
       PROVE  \E b \in called' \ suppressed' : KeyOf[b] = k /\ Covers(b, window[k])'
  <2>1. window[k] > 0 /\ window'[k] = window[k] - 1
    BY <1>3, <1>4, <1>10
  <2>2. PICK b \in called \ suppressed :
          KeyOf[b] = k /\ b \in Alerts /\ Covers(b, window[k])
    BY <2>1, Covering
  <2>3. ASSUME NEW i \in 1..NumChannels
        PROVE  /\ <<b, i>> \notin failed' \cup lost'
               /\ window'[k] + DelaysUpTo(attempts'[<<b, i>>])
                    <= DedupeTime + wait'[<<b, i>>]
    <3>1. PICK x : x = <<b, i>>
      OBVIOUS
    <3>2. /\ x \in Items /\ x \notin failed \cup lost
          /\ window[k] + DelaysUpTo(attempts[x]) <= DedupeTime + wait[x]
      BY <2>2, <3>1, ItemsOf DEF Covers
    <3>3. /\ wait[x] \in Nat /\ wait'[x] \in Nat /\ wait[x] <= wait'[x] + 1
          /\ window[k] \in Nat /\ DedupeTime \in Nat
      BY <1>3, <1>4, <3>2, Constants
    <3>4. DelaysUpTo(attempts[x]) \in Int
      BY <1>2, <3>2, DelaysAreNumbers DEF TypeOK
    <3>5. QED
      BY <1>1, <2>1, <3>1, <3>2, <3>3, <3>4
  <2>4. Covers(b, window[k])'
    BY <2>3 DEF Covers
  <2>5. QED
    BY <1>1, <2>2, <2>4
<1>11. WindowsAreCovered'
  BY <1>10 DEF WindowsAreCovered
<1>12. \A x \in InQueue' \cup ({sending'} \ {NoItem}) : attempts'[x] < MaxAttempts
  BY <1>1, <1>2, <1>6, Zenon
<1>13. QED
  BY <1>5, <1>7, <1>8, <1>9, <1>11, <1>12, Zenon DEF QueueInv

\* A restart leaves neither items nor windows.
LEMMA RestartStep ==
  ASSUME QueueInv, Restart
  PROVE  QueueInv'
<1>1. /\ lost' = lost \cup InQueue \cup ({sending} \ {NoItem})
      /\ restarts' = restarts + 1
      /\ window' = [k \in Keys |-> 0] /\ wait' = [x \in Items |-> 0]
      /\ queue' = <<>> /\ sending' = NoItem /\ pos' = 0 /\ late' = {} /\ due' = {}
      /\ called' = called /\ suppressed' = suppressed /\ attempts' = attempts
      /\ sent' = sent /\ failed' = failed
  BY Zenon DEF Restart
<1>2. /\ TypeOK /\ Untouched /\ Places
  BY OnePlace, Zenon DEF QueueInv
<1>3. \A x : x \in InQueue => x \in Items
  BY <1>2, ElementOfSeq DEF InQueue, TypeOK
<1>4. \A x : ~Has(queue', x)
  BY <1>1 DEF Has
<1>5. InQueue' = {}
  BY <1>1 DEF InQueue
<1>6. TypeOK'
  <2>1. lost' \subseteq Items /\ queue' \in Seq(Items) /\ pos' \in 0..Len(queue')
    BY <1>1, <1>2, <1>3 DEF TypeOK
  <2>2. window' \in [Keys -> Nat] /\ wait' \in [Items -> Nat]
    BY <1>1
  <2>3. QED
    BY <1>1, <1>2, <2>1, <2>2 DEF TypeOK
<1>7. \A x \in Items : x \in lost' <=> x \in lost \/ Held(x)
  <2>1. \A x \in Items : x # NoItem
    BY NoItemIsNone
  <2>2. QED
    BY <1>1, <2>1, QueueIsHas DEF Held
<1>8. EachItemInOnePlace'
  <2>1. Distinct(queue')
    BY <1>1 DEF Distinct
  <2>2. \A x : Held(x)' => ~Ended(x)'
    BY <1>1, <1>4, <1>6, NoItemIsNone DEF Held, Has, Ended, TypeOK
  <2>3. \A x \in sent' : x \notin failed' \cup lost'
    <3>1. \A x \in sent : x \in Items /\ x \notin failed \cup lost /\ ~Held(x)
      BY <1>2 DEF Places, Ended, TypeOK
    <3>2. QED
      BY <1>1, <1>7, <3>1
  <2>4. failed' \cap lost' = {}
    <3>1. \A x \in failed : x \in Items /\ x \notin lost /\ ~Held(x)
      BY <1>2 DEF Places, Ended, TypeOK
    <3>2. QED
      BY <1>1, <1>7, <3>1
  <2>5. ASSUME NEW a \in called' \ suppressed', NEW i \in 1..NumChannels
        PROVE  Ended(<<a, i>>)'
    <3>1. <<a, i>> \in Items /\ a \in called \ suppressed
      BY <1>1, <1>2, ItemsOf DEF TypeOK
    <3>2. Held(<<a, i>>) \/ Ended(<<a, i>>)
      BY <1>2, <3>1, Zenon DEF Places
    <3>3. QED
      BY <1>1, <1>7, <3>1, <3>2 DEF Ended
  <2>6. QED
    BY <1>4, <2>1, <2>2, <2>3, <2>4, <2>5, OnePlaceNext, Zenon DEF Places
<1>9. Untouched'
  <2>1. \A x \in lost' : x[1] \in called
    BY <1>1, <1>2 DEF Untouched
  <2>2. QED
    BY <1>1, <1>2, <1>5, <2>1 DEF Untouched
<1>10. OwedIsAhead' /\ PassIsComplete' /\ TriedWhenDue' /\ WindowsAreCovered'
  BY <1>1 DEF OwedIsAhead, PassIsComplete, TriedWhenDue, WindowsAreCovered
<1>11. \A x \in InQueue' \cup ({sending'} \ {NoItem}) : attempts'[x] < MaxAttempts
  BY <1>1, <1>5
<1>12. QED
  BY <1>6, <1>8, <1>9, <1>10, <1>11, Zenon DEF QueueInv

-----------------------------------------------------------------------------
(* The theorems *)

LEMMA QueueInit == Init => QueueInv
<1> SUFFICES ASSUME Init PROVE QueueInv
  OBVIOUS
<1>1. InQueue = {} /\ \A x : ~Has(queue, x)
  BY DEF Init, InQueue, Has
<1>2. TypeOK
  BY Constants DEF Init, TypeOK
<1>3. EachItemInOnePlace
  BY <1>1 DEF Init, EachItemInOnePlace, Ended
<1>4. Untouched
  BY <1>1 DEF Init, Untouched
<1>5. OwedIsAhead /\ PassIsComplete /\ TriedWhenDue /\ WindowsAreCovered
  BY DEF Init, OwedIsAhead, PassIsComplete, TriedWhenDue, WindowsAreCovered
<1>6. \A x \in InQueue \cup ({sending} \ {NoItem}) : attempts[x] < MaxAttempts
  BY <1>1 DEF Init
<1>7. QED
  BY <1>2, <1>3, <1>4, <1>5, <1>6, Zenon DEF QueueInv

LEMMA QueueStep == QueueInv /\ [Next]_vars => QueueInv'
<1> SUFFICES ASSUME QueueInv, [Next]_vars PROVE QueueInv'
  OBVIOUS
<1>1. ASSUME NEW a \in Alerts, Suppress(a) PROVE QueueInv'
  BY <1>1, SuppressStep
<1>2. ASSUME NEW a \in Alerts, Enqueue(a) PROVE QueueInv'
  BY <1>2, EnqueueStep
<1>3. CASE UNCHANGED vars
  <2>1. /\ called' = called /\ window' = window /\ queue' = queue
        /\ sending' = sending /\ pos' = pos /\ late' = late /\ due' = due
        /\ attempts' = attempts /\ wait' = wait /\ suppressed' = suppressed
        /\ sent' = sent /\ failed' = failed /\ lost' = lost /\ restarts' = restarts
    BY <1>3, Zenon DEF vars, pass, ends
  <2>2. InQueue' = InQueue
    BY <2>1, Zenon DEF InQueue
  <2>3. TypeOK' /\ EachItemInOnePlace'
    BY <2>1, <2>2, Zenon DEF QueueInv, TypeOK, EachItemInOnePlace, Ended
  <2>4. Untouched' /\ OwedIsAhead' /\ PassIsComplete' /\ TriedWhenDue'
    BY <2>1, <2>2, Zenon
    DEF QueueInv, Untouched, OwedIsAhead, PassIsComplete, TriedWhenDue
  <2>5. WindowsAreCovered'
    BY <2>1, WindowsStay DEF QueueInv
  <2>6. QED
    BY <2>1, <2>2, <2>3, <2>4, <2>5, Zenon DEF QueueInv
<1>4. QED
  BY <1>1, <1>2, <1>3, StartPassStep, DeliveredStep, DeliveryFailsStep, GiveUpStep,
    ClockStep, RestartStep, Zenon DEF Next

LEMMA QueueAlways == Spec => []QueueInv
BY QueueInit, QueueStep, PTL DEF Spec

\* Every variable keeps its type; the index of a pass stays within the array
\* (notification.service.js:113-141).
THEOREM TypeCorrect == Spec => []TypeOK
<1>1. QueueInv => TypeOK
  BY Zenon DEF QueueInv
<1>2. QED
  BY <1>1, QueueAlways, PTL

\* Nothing vanishes and nothing is in two places, however many alerts come
\* in during the awaits of a pass (notification.service.js:87-99, 113-141).
THEOREM EachItemAlwaysInOnePlace == Spec => []EachItemInOnePlace
<1>1. QueueInv => EachItemInOnePlace
  BY Zenon DEF QueueInv
<1>2. QED
  BY <1>1, QueueAlways, PTL

\* A pass tries everything that was due when it read the clock, whatever is
\* appended to the array it walks (notification.service.js:116-120).
THEOREM PassIsAlwaysComplete == Spec => []PassIsComplete
<1>1. QueueInv => PassIsComplete
  BY Zenon DEF QueueInv
<1>2. QED
  BY <1>1, QueueAlways, PTL

\* An alert is dropped as a duplicate only while an equal one has been sent or
\* still may be, on every channel: the delays of the attempts add up to no less
\* than the dedupe time (notification.service.js:83-89 against 126-139).
THEOREM DroppedAlertIsCovered == Spec => SuppressedIsCovered
<1> DEFINE Covered ==
      \A a \in suppressed' \ suppressed :
        \E b \in called \ suppressed :
          /\ KeyOf[b] = KeyOf[a]
          /\ \A i \in 1..NumChannels : <<b, i>> \notin failed \cup lost
<1>1. ASSUME QueueInv, [Next]_vars PROVE [Covered]_vars
  <2>1. ASSUME NEW a \in Alerts, Suppress(a) PROVE Covered
    <3>1. suppressed' = suppressed \cup {a} /\ window[KeyOf[a]] > 0
      BY <2>1 DEF Suppress, Duplicate
    <3>2. KeyOf[a] \in Keys
      BY Constants
    <3>3. PICK b \in called \ suppressed :
            KeyOf[b] = KeyOf[a] /\ Covers(b, window[KeyOf[a]])
      BY <1>1, <3>1, <3>2 DEF QueueInv, WindowsAreCovered
    <3>4. QED
      BY <3>1, <3>3 DEF Covers
  <2>2. CASE UNCHANGED suppressed
    BY <2>2
  <2>3. QED
    BY <1>1, <2>1, <2>2, Zenon DEF Next, Enqueue, StartPass, Delivered, DeliveryFails,
      GiveUp, Clock, Restart, vars
<1>2. QED
  BY <1>1, QueueAlways, PTL DEF Spec, SuppressedIsCovered

-----------------------------------------------------------------------------
(* The service keeps what NotificationPromise promises *)

\* What the books say of an item is where it is.
Booked(x) ==
  /\ Outcome(x) = "open" <=> Held(x)
  /\ Outcome(x) = "sent" <=> x \in sent
  /\ Outcome(x) = "failed" <=> x \in failed
  /\ Outcome(x) = "lost" <=> x \in lost
  /\ Outcome(x) \in {"open", "sent", "failed", "lost", "none"}

Books == \A x \in Items : Booked(x)

LEMMA BooksAreRight == QueueInv => Books
<1> SUFFICES ASSUME QueueInv, NEW x \in Items PROVE Booked(x)
  BY Zenon DEF Books
<1>1. Places
  BY OnePlace, Zenon DEF QueueInv
<1>2. x \in InQueue \cup {sending} <=> Held(x)
  BY QueueIsHas, Zenon DEF Held
<1>3. /\ Held(x) => x \notin sent /\ x \notin failed /\ x \notin lost
      /\ x \in sent => x \notin failed /\ x \notin lost
      /\ x \in failed => x \notin lost
  BY <1>1 DEF Places, Ended
<1>4. Outcome(x) = IF Held(x) THEN "open" ELSE IF x \in sent THEN "sent"
                   ELSE IF x \in failed THEN "failed" ELSE IF x \in lost THEN "lost"
                   ELSE "none"
  BY <1>2, <1>3 DEF Outcome
<1>5. QED
  BY <1>3, <1>4 DEF Booked

LEMMA BooksStayRight == QueueInv' => Books'
BY BooksAreRight, PTL

\* An item that is where it was has the outcome it had.
LEMMA SamePlace ==
  ASSUME Books, Books', NEW x \in Items, Held(x)' <=> Held(x),
         x \in sent' <=> x \in sent, x \in failed' <=> x \in failed,
         x \in lost' <=> x \in lost
  PROVE  Outcome(x)' = Outcome(x)
<1>1. Booked(x) /\ Booked(x)'
  BY Zenon DEF Books
<1>2. QED
  BY <1>1 DEF Booked

\* A step of a pass changes the outcomes of the items that end in it.
LEMMA PassOutcomes ==
  ASSUME QueueInv, QueueInv', NEW q, NEW from, NEW skip, NEW owed, NEW E,
         Sound(q, from, skip, owed), Continue(q, from, skip, owed),
         PassTo(q, from, skip, E), UNCHANGED lost
  PROVE  \A x \in Items : x \notin E => Outcome(x)' = Outcome(x)
<1>1. Continued(q, from, skip)
  BY ContinueShape, Zenon
<1>2. Books /\ Books'
  BY BooksAreRight, BooksStayRight, Zenon
<1> SUFFICES ASSUME NEW x \in Items, x \notin E PROVE Outcome(x)' = Outcome(x)
  OBVIOUS
<1>3. Held(x)' <=> Held(x)
  <2>1. Has(q, x) <=> Has(queue', x) \/ x = sending'
    BY <1>1, Zenon DEF Continued
  <2>2. Held(x)' <=> Has(queue', x) \/ x = sending'
    BY DEF Held, Has
  <2>3. Has(q, x) <=> Held(x)
    BY Zenon DEF PassTo
  <2>4. QED
    BY <2>1, <2>2, <2>3, Zenon
<1>4. (x \in sent' <=> x \in sent) /\ (x \in failed' <=> x \in failed)
  BY DEF PassTo
<1>5. QED
  BY <1>2, <1>3, <1>4, SamePlace, Zenon

-----------------------------------------------------------------------------
(* Each step is a step of the promise or leaves it alone *)

\* The service seen as the promise sees it.
Book == [x \in Items |-> Outcome(x)]
Accepted == called \ suppressed
promised == <<Accepted, suppressed, attempts, Book>>

LEMMA BookIs ==
  /\ Promise!Items = Items
  /\ Promise!promiseVars = promised
  /\ Promise!promiseVars' = promised'
  /\ Book = [x \in Items |-> Outcome(x)] /\ Book' = [x \in Items |-> Outcome(x)']
BY DEF Promise!Items, Items, Promise!promiseVars, promised, Book, Accepted

\* The promise's actions, in the service's terms.
LEMMA SendIs ==
  ASSUME NEW x \in Items, Outcome(x) = "open", UNCHANGED <<called, suppressed, attempts>>,
         Outcome(x)' = "sent", \A y \in Items : y # x => Outcome(y)' = Outcome(y)
  PROVE  Promise!Send(x)
<1>1. Book' = [Book EXCEPT ![x] = "sent"] /\ Book[x] = "open"
  BY BookIs
<1>2. QED
  BY <1>1 DEF Promise!Send, Book

LEMMA FailIs ==
  ASSUME NEW x \in Items, Outcome(x) = "open", UNCHANGED <<called, suppressed>>,
         attempts' = [attempts EXCEPT ![x] = attempts[x] + 1],
         Outcome(x)' = IF attempts[x] + 1 = MaxAttempts THEN "failed" ELSE "open",
         \A y \in Items : y # x => Outcome(y)' = Outcome(y)
  PROVE  Promise!Fail(x)
<1>1. Book[x] = "open" /\ Book' = IF attempts[x] + 1 = MaxAttempts
                                   THEN [Book EXCEPT ![x] = "failed"] ELSE Book
  BY BookIs
<1>2. QED
  BY <1>1 DEF Promise!Fail, Book

LEMMA NothingHappens ==
  ASSUME UNCHANGED <<called, suppressed, attempts>>,
         \A y \in Items : Outcome(y)' = Outcome(y)
  PROVE  UNCHANGED Promise!promiseVars
<1>1. Book' = Book
  BY BookIs
<1>2. QED
  BY <1>1, BookIs DEF promised, Accepted

LEMMA StartPassKeeps ==
  ASSUME QueueInv, QueueInv', StartPass
  PROVE  UNCHANGED Promise!promiseVars
<1>1. /\ Continue(queue, Len(queue), NotDue, InQueue \ NotDue)
      /\ UNCHANGED <<called, suppressed, attempts, lost>>
  BY Zenon DEF StartPass, ends
<1>2. \A x \in Items : x \notin {} => Outcome(x)' = Outcome(x)
  BY <1>1, StartIsSound, PassOutcomes
<1>3. QED
  BY <1>1, <1>2, NothingHappens

\* The item whose delivery has ended is out of the array.
LEMMA SendingIsOpen ==
  ASSUME QueueInv, sending # NoItem
  PROVE  sending \in Items /\ Outcome(sending) = "open"
<1>1. sending \in Items /\ Held(sending)
  BY RestIsSound DEF Held
<1>2. QED
  BY <1>1, BooksAreRight DEF Books, Booked

LEMMA DeliveredKeeps ==
  ASSUME QueueInv, QueueInv', Delivered
  PROVE  \E x \in Items : Promise!Send(x)
<1>1. PICK x : x = sending
  OBVIOUS
<1>2. /\ sending # NoItem /\ sent' = sent \cup {sending} /\ failed' = failed
      /\ Continue(queue, pos, late, due)
      /\ UNCHANGED <<called, suppressed, attempts, wait, lost>>
  BY Zenon DEF Delivered
<1>3. x \in Items /\ Outcome(x) = "open"
  BY <1>1, <1>2, SendingIsOpen
<1>4. PassTo(queue, pos, late, {sending})
  <2>1. attempts' \in [Items -> 0..MaxAttempts]
    BY <1>2 DEF QueueInv, TypeOK
  <2>2. QED
    BY <1>2, <2>1, ItemEnds
<1>5. \A y \in Items : y \notin {sending} => Outcome(y)' = Outcome(y)
  BY <1>2, <1>4, RestIsSound, PassOutcomes
<1>6. Outcome(x)' = "sent"
  <2>1. x \in sent' /\ Books'
    BY <1>1, <1>2, BooksStayRight
  <2>2. QED
    BY <1>3, <2>1 DEF Books, Booked
<1>7. Promise!Send(x)
  BY <1>1, <1>2, <1>3, <1>5, <1>6, SendIs
<1>8. QED
  BY <1>3, <1>7

LEMMA DeliveryFailsKeeps ==
  ASSUME QueueInv, QueueInv', DeliveryFails
  PROVE  \E x \in Items : Promise!Fail(x)
<1>1. PICK x : x = sending
  OBVIOUS
<1>2. /\ sending # NoItem /\ attempts[x] + 1 < MaxAttempts
      /\ attempts' = [attempts EXCEPT ![x] = attempts[x] + 1]
      /\ Continue(Append(queue, sending), pos, late \cup {sending}, due)
      /\ UNCHANGED <<called, suppressed, lost>>
  BY <1>1, Zenon DEF DeliveryFails, ends
<1>3. x \in Items /\ Outcome(x) = "open"
  BY <1>1, <1>2, SendingIsOpen
<1>4. \A y \in Items : y \notin {} => Outcome(y)' = Outcome(y)
  BY <1>2, FailureIsSound, PassOutcomes
<1>5. attempts[x] + 1 # MaxAttempts
  <2>1. attempts[x] \in Nat /\ MaxAttempts \in Nat
    BY <1>1, <1>2, Attempted, Constants
  <2>2. QED
    BY <1>2, <2>1
<1>6. Promise!Fail(x)
  BY <1>2, <1>3, <1>4, <1>5, FailIs
<1>7. QED
  BY <1>3, <1>6

LEMMA GiveUpKeeps ==
  ASSUME QueueInv, QueueInv', GiveUp
  PROVE  \E x \in Items : Promise!Fail(x)
<1>1. PICK x : x = sending
  OBVIOUS
<1>2. /\ sending # NoItem /\ attempts[x] + 1 >= MaxAttempts
      /\ attempts' = [attempts EXCEPT ![sending] = attempts[sending] + 1]
      /\ failed' = failed \cup {sending} /\ sent' = sent
      /\ Continue(queue, pos, late, due)
      /\ UNCHANGED <<called, suppressed, wait, lost>>
  BY <1>1, Zenon DEF GiveUp
<1>3. x \in Items /\ Outcome(x) = "open"
  BY <1>1, <1>2, SendingIsOpen
<1>4. PassTo(queue, pos, late, {sending})
  BY <1>2, Attempted, ItemEnds
<1>5. \A y \in Items : y \notin {sending} => Outcome(y)' = Outcome(y)
  BY <1>2, <1>4, RestIsSound, PassOutcomes
<1>6. Outcome(x)' = "failed"
  <2>1. x \in failed' /\ Books'
    BY <1>1, <1>2, BooksStayRight
  <2>2. QED
    BY <1>3, <2>1 DEF Books, Booked
<1>7. attempts[x] + 1 = MaxAttempts
  <2>1. attempts[x] \in Nat /\ attempts[x] < MaxAttempts /\ MaxAttempts \in Nat
    BY <1>1, <1>2, Attempted, Constants
  <2>2. QED
    BY <1>2, <2>1
<1>8. Promise!Fail(x)
  BY <1>1, <1>2, <1>3, <1>5, <1>6, <1>7, FailIs
<1>9. QED
  BY <1>3, <1>8

LEMMA ClockKeeps ==
  ASSUME QueueInv, QueueInv', Clock
  PROVE  UNCHANGED Promise!promiseVars
<1>1. /\ queue' = queue /\ sending' = sending
      /\ UNCHANGED <<called, suppressed, attempts, sent, failed, lost>>
  BY Zenon DEF Clock, pass, ends
<1>2. Books /\ Books'
  BY BooksAreRight, BooksStayRight, Zenon
<1>3. \A x \in Items : Held(x)' <=> Held(x)
  BY <1>1, Zenon DEF Held, Has
<1>4. \A x \in Items : Outcome(x)' = Outcome(x)
  BY <1>1, <1>2, <1>3, SamePlace, Zenon
<1>5. QED
  BY <1>1, <1>4, NothingHappens

\* A duplicate is dropped while an equal alert is alive.
LEMMA SuppressKeeps ==
  ASSUME QueueInv, QueueInv', NEW a \in Alerts, Suppress(a)
  PROVE  Promise!Drop(a)
<1>1. /\ a \notin called /\ called' = called \cup {a} /\ suppressed' = suppressed \cup {a}
      /\ a \notin Forced /\ window[KeyOf[a]] > 0
      /\ queue' = queue /\ sending' = sending
      /\ UNCHANGED <<attempts, sent, failed, lost>>
  BY Zenon DEF Suppress, Duplicate, pass, ends
<1>2. Books /\ Books' /\ Places /\ suppressed \subseteq called
  BY BooksAreRight, BooksStayRight, OnePlace, Zenon DEF QueueInv, TypeOK
<1>3. \A x \in Items : Outcome(x)' = Outcome(x)
  <2>1. \A x \in Items : Held(x)' <=> Held(x)
    BY <1>1, Zenon DEF Held, Has
  <2>2. QED
    BY <1>1, <1>2, <2>1, SamePlace, Zenon
<1>4. Book' = Book
  BY <1>3, BookIs
<1>5. Accepted' = Accepted /\ a \notin Accepted \cup suppressed
  BY <1>1, <1>2 DEF Accepted
<1>6. PICK b \in called \ suppressed :
        KeyOf[b] = KeyOf[a] /\ b \in Alerts /\ Covers(b, window[KeyOf[a]])
  BY <1>1, Constants, Covering
<1>7. ASSUME NEW i \in 1..NumChannels PROVE Book[<<b, i>>] \in {"open", "sent"}
  <2>1. <<b, i>> \in Items
    BY <1>6, ItemsOf
  <2>2. Held(<<b, i>>) \/ <<b, i>> \in sent
    BY <1>2, <1>6 DEF Places, Ended, Covers
  <2>3. Outcome(<<b, i>>) \in {"open", "sent"}
    BY <1>2, <2>1, <2>2 DEF Books, Booked
  <2>4. QED
    BY <2>1, <2>3 DEF Book
<1>8. b \in Accepted /\ Promise!Alive(b)
  BY <1>6, <1>7 DEF Accepted, Promise!Alive, Book
<1>9. QED
  BY <1>1, <1>4, <1>5, <1>6, <1>8 DEF Promise!Drop, Promise!New, Accepted, Book

\* An accepted alert is open on every channel.
LEMMA EnqueueKeeps ==
  ASSUME QueueInv, QueueInv', NEW a \in Alerts, Enqueue(a)
  PROVE  Promise!Accept(a)
<1>1. /\ a \notin called /\ called' = called \cup {a} /\ sending' = sending
      /\ UNCHANGED <<suppressed, attempts, sent, failed, lost>>
  BY Zenon DEF Enqueue, ends
<1>2. Books /\ Books' /\ suppressed \subseteq called
  BY BooksAreRight, BooksStayRight, Zenon DEF QueueInv, TypeOK
<1>3. \A x : Has(queue', x) <=> Has(queue, x) \/ \E c \in 1..NumChannels : x = <<a, c>>
  BY EnqueuedShape, Zenon
<1>4. ASSUME NEW x \in Items, x[1] = a PROVE Outcome(x)' = "open"
  <2>1. \E c \in 1..NumChannels : x = <<a, c>>
    BY <1>4 DEF Items
  <2>2. Held(x)'
    BY <1>3, <2>1 DEF Held, Has
  <2>3. QED
    BY <1>2, <2>2 DEF Books, Booked
<1>5. ASSUME NEW x \in Items, x[1] # a PROVE Outcome(x)' = Outcome(x)
  <2>1. \A c \in 1..NumChannels : x # <<a, c>>
    BY <1>5
  <2>2. Has(queue', x) <=> Has(queue, x)
    BY <1>3, <2>1
  <2>3. Held(x)' <=> Held(x)
    BY <1>1, <2>2, Zenon DEF Held, Has
  <2>4. QED
    BY <1>1, <1>2, <2>3, SamePlace, Zenon
<1>6. Book' = [x \in Items |-> IF x[1] = a THEN "open" ELSE Book[x]]
  BY <1>4, <1>5, BookIs
<1>7. Accepted' = Accepted \cup {a} /\ a \notin Accepted \cup suppressed
  BY <1>1, <1>2 DEF Accepted
<1>8. QED
  BY <1>1, <1>6, <1>7, BookIs DEF Promise!Accept, Promise!New, Accepted, Book

LEMMA RestartKeeps ==
  ASSUME QueueInv, QueueInv', Restart
  PROVE  Promise!Die
<1>1. /\ lost' = lost \cup InQueue \cup ({sending} \ {NoItem})
      /\ queue' = <<>> /\ sending' = NoItem
      /\ UNCHANGED <<called, suppressed, attempts, sent, failed>>
  BY Zenon DEF Restart
<1>2. Books /\ Books'
  BY BooksAreRight, BooksStayRight, Zenon
<1>3. ASSUME NEW x \in Items
      PROVE  Outcome(x)' = IF Outcome(x) = "open" THEN "lost" ELSE Outcome(x)
  <2>1. x # NoItem
    BY NoItemIsNone
  <2>2. ~Held(x)'
    BY <1>1, <2>1 DEF Held, Has
  <2>3. x \in lost' <=> x \in lost \/ Held(x)
    BY <1>1, <2>1, QueueIsHas DEF Held
  <2>4. Booked(x) /\ Booked(x)'
    BY <1>2, Zenon DEF Books
  <2>5. QED
    BY <1>1, <2>2, <2>3, <2>4 DEF Booked
<1>4. Book' = [x \in Items |-> IF Book[x] = "open" THEN "lost" ELSE Book[x]]
  BY <1>3, BookIs
<1>5. QED
  BY <1>1, <1>4, BookIs DEF Promise!Die, Book

LEMMA PromiseInit == Init => Promise!Init
<1> SUFFICES ASSUME Init PROVE Promise!Init
  OBVIOUS
<1>1. \A x \in Items : Outcome(x) = "none"
  <2>1. \A x \in Items : x # NoItem /\ x \notin InQueue \cup {sending}
    BY NoItemIsNone DEF Init, InQueue
  <2>2. QED
    BY <2>1 DEF Init, Outcome
<1>2. QED
  BY <1>1, BookIs DEF Init, Promise!Init, Book

LEMMA PromiseStep ==
  ASSUME QueueInv, QueueInv', [Next]_vars
  PROVE  [Promise!Next]_(Promise!promiseVars)
<1>1. ASSUME NEW a \in Alerts, Suppress(a) PROVE Promise!Next
  BY <1>1, SuppressKeeps DEF Promise!Next
<1>2. ASSUME NEW a \in Alerts, Enqueue(a) PROVE Promise!Next
  BY <1>2, EnqueueKeeps DEF Promise!Next
<1>3. ASSUME Delivered \/ DeliveryFails \/ GiveUp PROVE Promise!Next
  BY <1>3, DeliveredKeeps, DeliveryFailsKeeps, GiveUpKeeps, BookIs DEF Promise!Next
<1>4. ASSUME Restart PROVE Promise!Next
  BY <1>4, RestartKeeps DEF Promise!Next
<1>5. ASSUME UNCHANGED vars PROVE UNCHANGED Promise!promiseVars
  <2>1. /\ queue' = queue /\ sending' = sending
        /\ UNCHANGED <<called, suppressed, attempts, sent, failed, lost>>
    BY <1>5, Zenon DEF vars, pass, ends
  <2>2. Books /\ Books'
    BY BooksAreRight, BooksStayRight, Zenon
  <2>3. \A x \in Items : Held(x)' <=> Held(x)
    BY <2>1, Zenon DEF Held, Has
  <2>4. \A x \in Items : Outcome(x)' = Outcome(x)
    BY <2>1, <2>2, <2>3, SamePlace, Zenon
  <2>5. QED
    BY <2>1, <2>4, NothingHappens
<1>6. QED
  BY <1>1, <1>2, <1>3, <1>4, <1>5, StartPassKeeps, ClockKeeps, Zenon DEF Next

\* Calls, passes, awaits, failures, the clock and restarts together do nothing
\* to an alert but what the promise allows: taken on, it is open on every
\* channel until it is sent, audited after exactly MaxAttempts failures, or lost
\* with the process; dropped, it has an equal that no channel has given up
\* (notification.service.js:75-143).
THEOREM ServiceKeepsPromise == Spec => KeepsPromise
<1>1. QueueInv /\ QueueInv' /\ [Next]_vars => [Promise!Next]_(Promise!promiseVars)
  BY PromiseStep
<1>2. QED
  BY <1>1, PromiseInit, QueueAlways, PTL DEF Spec, KeepsPromise, Promise!Spec
=============================================================================
