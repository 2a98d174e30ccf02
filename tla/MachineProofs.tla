---------------------------- MODULE MachineProofs ---------------------------
(***************************************************************************)
(* Proofs about four of the components MCMachine runs beside each other,   *)
(* each for every value of its constants:                                  *)
(*   - the header queue (VchiuQueue): QueueExact needs to know how the     *)
(*     places of the two threads limit the indexes, and which headers are  *)
(*     whose;                                                              *)
(*   - the timers (Jiffies): that a wrapping counter compares times rightly*)
(*     needs every pending time within reach of the present one, so that   *)
(*     the list is in the order of the times themselves;                   *)
(*   - what a user process is told (UserPort): what the ring, the message  *)
(*     queue and the semaphores hold when a thread of either side is at a  *)
(*     given place;                                                        *)
(*   - the page lists (PageList): what the words of a list name, by        *)
(*     induction over the pages, and where the fragments are.              *)
(***************************************************************************)
EXTENDS VchiuQueue, Jiffies, UserPort, PageList,
        FiniteSetTheorems, WellFoundedInduction, TLAPS


(* The headers in the hands of the client's call, by the place it is at.     *)
ClientInv ==
  /\ client \in {"restore", "load", "advance", "reading"} => queue.read < queue.write
  /\ client \in {"advance", "reading"} => inHand = queue.read + 1
  /\ client \in {"up", "return"} => inHand = queue.read /\ inHand > 0
  /\ call = "peek" => client \notin {"advance", "up", "return"}
  /\ call # "peek" => client \notin {"restore", "reading"}
  /\ held \subseteq 1..queue.read
  /\ client \in {"up", "return"} => inHand \notin held

(* What the slot handler has arrived at, by the place it is at.              *)
PusherInv ==
  /\ arrived = IF pusher \in {"test", "wait", "store", "publish"}
               THEN queue.write + 1 ELSE queue.write
  /\ pusher \in {"store", "publish"} => queue.write < queue.read + QueueSize
  /\ pusher = "publish" => queue.storage[QIndex(queue.write)] = arrived

IInv == QueueTypeOK /\ QueueExact /\ ClientInv /\ PusherInv

-----------------------------------------------------------------------------
(* Two headers in the ring at once have different entries.                   *)
LEMMA QIndexApart ==
  ASSUME NEW r \in Nat, NEW a \in Nat, NEW b \in Nat,
         r <= a, a < b, b < r + QueueSize
  PROVE  QIndex(a) # QIndex(b)
<1>1. QueueSize \in Nat \ {0}
  BY QueueAssumption
<1>2. \A n \in Nat : n = QueueSize * (n \div QueueSize) + (n % QueueSize)
                     /\ n \div QueueSize \in Nat /\ n % QueueSize \in Nat
  BY <1>1
<1>. DEFINE p == a \div QueueSize
            q == b \div QueueSize
            m == a % QueueSize
<1>3. SUFFICES ASSUME a % QueueSize = b % QueueSize PROVE FALSE
  BY DEF QIndex
<1>4. /\ p \in Nat /\ q \in Nat /\ m \in Nat
      /\ a = QueueSize * p + m /\ b = QueueSize * q + m
  BY <1>2, <1>3
<1>. HIDE DEF p, q, m
<1>5. CASE q <= p
  <2>1. QueueSize * q <= QueueSize * p
    BY <1>1, <1>4, <1>5
  <2>. QED BY <2>1, <1>4, <1>1
<1>6. CASE q >= p + 1
  <2>1. QueueSize * q >= QueueSize * (p + 1)
    BY <1>1, <1>4, <1>6
  <2>2. QueueSize * (p + 1) = QueueSize * p + QueueSize
    BY <1>1, <1>4
  <2>3. QueueSize * p \in Nat /\ QueueSize * q \in Nat
    BY <1>1, <1>4
  <2>. QED BY <2>1, <2>2, <2>3, <1>4, <1>1
<1>. QED BY <1>4, <1>5, <1>6

(* ... and every header has one.                                             *)
LEMMA QIndexInRing == \A n \in Nat : QIndex(n) \in 0..(QueueSize - 1)
<1>1. QueueSize \in Nat \ {0}
  BY QueueAssumption
<1>. QED BY <1>1 DEF QIndex

(* What each update of the record leaves of it.                              *)
LEMMA QueueUpdates ==
  ASSUME queue \in HeaderQueues, NEW n \in Nat,
         NEW st \in [0..(QueueSize - 1) -> Nat]
  PROVE  /\ queue.read \in Nat /\ queue.write \in Nat
         /\ queue.push \in Nat /\ queue.pop \in Nat
         /\ queue.storage \in [0..(QueueSize - 1) -> Nat]
         /\ [queue EXCEPT !.read = n] =
              [read |-> n, write |-> queue.write, push |-> queue.push,
               pop |-> queue.pop, storage |-> queue.storage]
         /\ [queue EXCEPT !.write = n] =
              [read |-> queue.read, write |-> n, push |-> queue.push,
               pop |-> queue.pop, storage |-> queue.storage]
         /\ [queue EXCEPT !.push = n] =
              [read |-> queue.read, write |-> queue.write, push |-> n,
               pop |-> queue.pop, storage |-> queue.storage]
         /\ [queue EXCEPT !.pop = n] =
              [read |-> queue.read, write |-> queue.write, push |-> queue.push,
               pop |-> n, storage |-> queue.storage]
         /\ [queue EXCEPT !.storage = st] =
              [read |-> queue.read, write |-> queue.write, push |-> queue.push,
               pop |-> queue.pop, storage |-> st]
BY DEF HeaderQueues

(* The empty queue, and nobody in a call.                                    *)
LEMMA QueueStarts == QueueInit => IInv
<1>1. QueueSize \in Nat \ {0}
  BY QueueAssumption
<1>. QED BY <1>1 DEF QueueInit, IInv, QueueTypeOK, HeaderQueues, QueueExact,
       QueueOrder, QueueEntries, QueueClaims, QueueAwake, ClientInv, PusherInv,
       Queued, BeingPushed, Popped, QueueFull, QueueEmpty

(* The invariant is about the state alone.                                   *)
LEMMA QueueStutters == IInv /\ UNCHANGED queueVars => IInv'
BY DEF queueVars, IInv, QueueTypeOK, QueueExact, QueueOrder, QueueEntries,
       QueueClaims, QueueAwake, ClientInv, PusherInv,
       Queued, BeingPushed, Popped, QueueFull, QueueEmpty, QIndex

(* A step of the slot handler keeps all of it.                               *)
LEMMA PusherKeeps ==
  ASSUME IInv, MessageAvailable \/ PusherStep
  PROVE  IInv'
<1>0. /\ QueueSize \in Nat \ {0}
      /\ queue \in HeaderQueues /\ queue.read \in Nat /\ queue.write \in Nat
      /\ queue.push \in Nat /\ queue.pop \in Nat
      /\ queue.storage \in [0..(QueueSize - 1) -> Nat]
      /\ QueueTypeOK /\ QueueOrder /\ QueueEntries /\ QueueClaims /\ QueueAwake
      /\ ClientInv /\ PusherInv
  BY QueueAssumption DEF IInv, QueueTypeOK, QueueExact, HeaderQueues
<1>1. CASE MessageAvailable
  <2>1. queue' = queue
    BY <1>1 DEF MessageAvailable
  <2>2. QueueTypeOK'
    <3>1. /\ arrived' = arrived + 1 /\ arrived \in Nat
          /\ claimed' = claimed \union {arrived + 1} /\ held' = held
          /\ \A x \in claimed \union held : x \in Nat /\ 1 <= x /\ x <= arrived
      BY ONLY <1>1, <1>0 DEF MessageAvailable, QueueTypeOK
    <3>2. claimed' \in SUBSET (1..arrived') /\ held' \in SUBSET (1..arrived')
      BY <3>1
    <3>. QED BY <1>1, <1>0, <2>1, <3>1, <3>2
         DEF MessageAvailable, PusherAt, QueueTypeOK
  <2>3. QueueOrder'
    BY <1>1, <1>0, <2>1 DEF MessageAvailable, PusherAt, QueueOrder, ClientInv, PusherInv, QueueTypeOK, QueueFull
  <2>4. QueueEntries'
    BY <1>1, <1>0, <2>1 DEF MessageAvailable, PusherAt, QueueEntries, QueueOrder, PusherInv, Queued, QueueTypeOK
  <2>5. QueueClaims'
    BY <1>1, <1>0, <2>1 DEF MessageAvailable, PusherAt, QueueClaims, QueueOrder, ClientInv, PusherInv, Queued, BeingPushed, Popped, QueueTypeOK
  <2>6. QueueAwake'
    BY <1>1, <1>0, <2>1 DEF MessageAvailable, PusherAt, QueueAwake, QueueFull, QueueEmpty, QueueTypeOK
  <2>7. ClientInv'
    BY <1>1, <1>0, <2>1 DEF MessageAvailable, PusherAt, ClientInv, QueueOrder, QueueEntries, Queued, QueueTypeOK, QueueEmpty
  <2>8. PusherInv'
    BY <1>1, <1>0, <2>1 DEF MessageAvailable, PusherAt, PusherInv, QueueOrder, QueueFull, QueueTypeOK
  <2>. QED BY <2>2, <2>3, <2>4, <2>5, <2>6, <2>7, <2>8 DEF IInv, QueueExact
<1>2. CASE PushTest
  <2>1. queue' = queue
    BY <1>2 DEF PushTest
  <2>2. QueueTypeOK'
    BY <1>2, <1>0, <2>1 DEF PushTest, PusherAt, QueueTypeOK, ClientInv, PusherInv
  <2>3. QueueOrder'
    BY <1>2, <1>0, <2>1 DEF PushTest, PusherAt, QueueOrder, ClientInv, PusherInv, QueueTypeOK, QueueFull
  <2>4. QueueEntries'
    BY <1>2, <1>0, <2>1 DEF PushTest, PusherAt, QueueEntries, QueueOrder, PusherInv, Queued, QueueTypeOK
  <2>5. QueueClaims'
    BY <1>2, <1>0, <2>1 DEF PushTest, PusherAt, QueueClaims, QueueOrder, ClientInv, PusherInv, Queued, BeingPushed, Popped, QueueTypeOK
  <2>6. QueueAwake'
    BY <1>2, <1>0, <2>1 DEF PushTest, PusherAt, QueueAwake, QueueFull, QueueEmpty, QueueTypeOK
  <2>7. ClientInv'
    BY <1>2, <1>0, <2>1 DEF PushTest, PusherAt, ClientInv, QueueOrder, QueueEntries, Queued, QueueTypeOK, QueueEmpty
  <2>8. PusherInv'
    BY <1>2, <1>0, <2>1 DEF PushTest, PusherAt, PusherInv, QueueOrder, QueueFull, QueueTypeOK
  <2>. QED BY <2>2, <2>3, <2>4, <2>5, <2>6, <2>7, <2>8 DEF IInv, QueueExact
<1>3. CASE PushWait
  <2>1. /\ queue'.read = queue.read
        /\ queue'.write = queue.write
        /\ queue'.push = queue.push
        /\ queue'.pop = queue.pop - 1
        /\ queue'.storage = queue.storage
        /\ queue' \in HeaderQueues
    <3>1. queue.pop - 1 \in Nat
      BY <1>3, <1>0 DEF PushWait
    <3>2. queue' = [queue EXCEPT !.pop = queue.pop - 1]
      BY <1>3 DEF PushWait
    <3>. QED BY <3>1, <3>2, <1>0, QueueUpdates DEF HeaderQueues
  <2>2. QueueTypeOK'
    BY <1>3, <1>0, <2>1 DEF PushWait, PusherAt, QueueTypeOK, ClientInv, PusherInv
  <2>3. QueueOrder'
    BY <1>3, <1>0, <2>1 DEF PushWait, PusherAt, QueueOrder, ClientInv, PusherInv, QueueTypeOK, QueueFull
  <2>4. QueueEntries'
    BY <1>3, <1>0, <2>1 DEF PushWait, PusherAt, QueueEntries, QueueOrder, PusherInv, Queued, QueueTypeOK
  <2>5. QueueClaims'
    BY <1>3, <1>0, <2>1 DEF PushWait, PusherAt, QueueClaims, QueueOrder, ClientInv, PusherInv, Queued, BeingPushed, Popped, QueueTypeOK
  <2>6. QueueAwake'
    BY <1>3, <1>0, <2>1 DEF PushWait, PusherAt, QueueAwake, QueueFull, QueueEmpty, QueueTypeOK
  <2>7. ClientInv'
    BY <1>3, <1>0, <2>1 DEF PushWait, PusherAt, ClientInv, QueueOrder, QueueEntries, Queued, QueueTypeOK, QueueEmpty
  <2>8. PusherInv'
    BY <1>3, <1>0, <2>1 DEF PushWait, PusherAt, PusherInv, QueueOrder, QueueFull, QueueTypeOK
  <2>. QED BY <2>2, <2>3, <2>4, <2>5, <2>6, <2>7, <2>8 DEF IInv, QueueExact
<1>4. CASE PushStore
  <2>1. /\ queue'.read = queue.read
        /\ queue'.write = queue.write
        /\ queue'.push = queue.push
        /\ queue'.pop = queue.pop
        /\ queue'.storage = [queue.storage EXCEPT ![QIndex(queue.write)] = arrived]
        /\ queue' \in HeaderQueues
    BY <1>4, <1>0, QueueUpdates DEF PushStore, QueueTypeOK, HeaderQueues
  <2>2. QueueTypeOK'
    BY <1>4, <1>0, <2>1 DEF PushStore, PusherAt, QueueTypeOK, ClientInv, PusherInv
  <2>3. QueueOrder'
    BY <1>4, <1>0, <2>1 DEF PushStore, PusherAt, QueueOrder, ClientInv, PusherInv, QueueTypeOK, QueueFull
  <2>4. QueueEntries'
    <3>1. SUFFICES ASSUME NEW h \in Queued PROVE queue'.storage[QIndex(h - 1)] = h
      BY <2>1 DEF QueueEntries, Queued
    <3>2. /\ h - 1 \in Nat /\ queue.read <= h - 1 /\ h - 1 < queue.write
          /\ queue.write < queue.read + QueueSize
      BY <1>4, <1>0 DEF Queued, PushStore, PusherAt, PusherInv
    <3>3. QIndex(h - 1) # QIndex(queue.write)
      BY <3>2, <1>0, QIndexApart
    <3>4. queue.storage[QIndex(h - 1)] = h
      BY <1>0 DEF QueueEntries
    <3>. QED BY <2>1, <3>2, <3>3, <3>4, <1>0, QIndexInRing
  <2>5. QueueClaims'
    BY <1>4, <1>0, <2>1 DEF PushStore, PusherAt, QueueClaims, QueueOrder, ClientInv, PusherInv, Queued, BeingPushed, Popped, QueueTypeOK
  <2>6. QueueAwake'
    BY <1>4, <1>0, <2>1 DEF PushStore, PusherAt, QueueAwake, QueueFull, QueueEmpty, QueueTypeOK
  <2>7. ClientInv'
    BY <1>4, <1>0, <2>1 DEF PushStore, PusherAt, ClientInv, QueueOrder, QueueEntries, Queued, QueueTypeOK, QueueEmpty
  <2>8. PusherInv'
    <3>1. queue'.storage[QIndex(queue.write)] = arrived
      BY <2>1, <1>0, QIndexInRing
    <3>2. queue'.read = queue.read /\ queue'.write = queue.write
      BY <2>1
    <3>. QED BY <1>4, <1>0, <3>1, <3>2 DEF PushStore, PusherAt, PusherInv
  <2>. QED BY <2>2, <2>3, <2>4, <2>5, <2>6, <2>7, <2>8 DEF IInv, QueueExact
<1>5. CASE PushPublish
  <2>1. /\ queue'.read = queue.read
        /\ queue'.write = queue.write + 1
        /\ queue'.push = queue.push
        /\ queue'.pop = queue.pop
        /\ queue'.storage = queue.storage
        /\ queue' \in HeaderQueues
    <3>1. queue.write + 1 \in Nat
      BY <1>5, <1>0
    <3>2. queue' = [queue EXCEPT !.write = queue.write + 1]
      BY <1>5 DEF PushPublish
    <3>. QED BY <3>1, <3>2, <1>0, QueueUpdates DEF HeaderQueues
  <2>2. QueueTypeOK'
    BY <1>5, <1>0, <2>1 DEF PushPublish, PusherAt, QueueTypeOK, ClientInv, PusherInv
  <2>3. QueueOrder'
    BY <1>5, <1>0, <2>1 DEF PushPublish, PusherAt, QueueOrder, ClientInv, PusherInv, QueueTypeOK, QueueFull
  <2>4. QueueEntries'
    BY <1>5, <1>0, <2>1 DEF PushPublish, PusherAt, QueueEntries, QueueOrder, PusherInv, Queued, QueueTypeOK
  <2>5. QueueClaims'
    BY <1>5, <1>0, <2>1 DEF PushPublish, PusherAt, QueueClaims, QueueOrder, ClientInv, PusherInv, Queued, BeingPushed, Popped, QueueTypeOK
  <2>6. QueueAwake'
    BY <1>5, <1>0, <2>1 DEF PushPublish, PusherAt, QueueAwake, QueueFull, QueueEmpty, QueueTypeOK
  <2>7. ClientInv'
    BY <1>5, <1>0, <2>1 DEF PushPublish, PusherAt, ClientInv, QueueOrder, QueueEntries, Queued, QueueTypeOK, QueueEmpty
  <2>8. PusherInv'
    BY <1>5, <1>0, <2>1 DEF PushPublish, PusherAt, PusherInv, QueueOrder, QueueFull, QueueTypeOK
  <2>. QED BY <2>2, <2>3, <2>4, <2>5, <2>6, <2>7, <2>8 DEF IInv, QueueExact
<1>6. CASE PushUp
  <2>1. /\ queue'.read = queue.read
        /\ queue'.write = queue.write
        /\ queue'.push = queue.push + 1
        /\ queue'.pop = queue.pop
        /\ queue'.storage = queue.storage
        /\ queue' \in HeaderQueues
    <3>1. queue.push + 1 \in Nat
      BY <1>6, <1>0
    <3>2. queue' = [queue EXCEPT !.push = queue.push + 1]
      BY <1>6 DEF PushUp
    <3>. QED BY <3>1, <3>2, <1>0, QueueUpdates DEF HeaderQueues
  <2>2. QueueTypeOK'
    BY <1>6, <1>0, <2>1 DEF PushUp, PusherAt, QueueTypeOK, ClientInv, PusherInv
  <2>3. QueueOrder'
    BY <1>6, <1>0, <2>1 DEF PushUp, PusherAt, QueueOrder, ClientInv, PusherInv, QueueTypeOK, QueueFull
  <2>4. QueueEntries'
    BY <1>6, <1>0, <2>1 DEF PushUp, PusherAt, QueueEntries, QueueOrder, PusherInv, Queued, QueueTypeOK
  <2>5. QueueClaims'
    BY <1>6, <1>0, <2>1 DEF PushUp, PusherAt, QueueClaims, QueueOrder, ClientInv, PusherInv, Queued, BeingPushed, Popped, QueueTypeOK
  <2>6. QueueAwake'
    BY <1>6, <1>0, <2>1 DEF PushUp, PusherAt, QueueAwake, QueueFull, QueueEmpty, QueueTypeOK
  <2>7. ClientInv'
    BY <1>6, <1>0, <2>1 DEF PushUp, PusherAt, ClientInv, QueueOrder, QueueEntries, Queued, QueueTypeOK, QueueEmpty
  <2>8. PusherInv'
    BY <1>6, <1>0, <2>1 DEF PushUp, PusherAt, PusherInv, QueueOrder, QueueFull, QueueTypeOK
  <2>. QED BY <2>2, <2>3, <2>4, <2>5, <2>6, <2>7, <2>8 DEF IInv, QueueExact
<1>. QED BY <1>1, <1>2, <1>3, <1>4, <1>5, <1>6 DEF PusherStep

(* A step of the client keeps all of it.                                     *)
LEMMA ClientKeeps ==
  ASSUME IInv,
         \/ ClientStep
         \/ \E c \in {"dequeue", "hold", "peek"}, blocking \in BOOLEAN :
              ClientCall(c, blocking)
         \/ \E h \in held : HeldRelease(h)
  PROVE  IInv'
<1>0. /\ QueueSize \in Nat \ {0}
      /\ queue \in HeaderQueues /\ queue.read \in Nat /\ queue.write \in Nat
      /\ queue.push \in Nat /\ queue.pop \in Nat
      /\ queue.storage \in [0..(QueueSize - 1) -> Nat]
      /\ QueueTypeOK /\ QueueOrder /\ QueueEntries /\ QueueClaims /\ QueueAwake
      /\ ClientInv /\ PusherInv
  BY QueueAssumption DEF IInv, QueueTypeOK, QueueExact, HeaderQueues
<1>1. CASE PopTest
  <2>1. queue' = queue
    BY <1>1 DEF PopTest
  <2>2. QueueTypeOK'
    BY <1>1, <1>0, <2>1 DEF PopTest, ClientAt, QueueTypeOK, ClientInv, PusherInv
  <2>3. QueueOrder'
    BY <1>1, <1>0, <2>1 DEF PopTest, ClientAt, QueueOrder, ClientInv, PusherInv, QueueTypeOK, QueueFull
  <2>4. QueueEntries'
    BY <1>1, <1>0, <2>1 DEF PopTest, ClientAt, QueueEntries, QueueOrder, PusherInv, Queued, QueueTypeOK
  <2>5. QueueClaims'
    BY <1>1, <1>0, <2>1 DEF PopTest, ClientAt, QueueClaims, QueueOrder, ClientInv, PusherInv, Queued, BeingPushed, Popped, QueueTypeOK
  <2>6. QueueAwake'
    BY <1>1, <1>0, <2>1 DEF PopTest, ClientAt, QueueAwake, QueueFull, QueueEmpty, QueueTypeOK
  <2>7. ClientInv'
    BY <1>1, <1>0, <2>1 DEF PopTest, ClientAt, ClientInv, QueueOrder, QueueEntries, Queued, QueueTypeOK, QueueEmpty
  <2>8. PusherInv'
    BY <1>1, <1>0, <2>1 DEF PopTest, ClientAt, PusherInv, QueueOrder, QueueFull, QueueTypeOK
  <2>. QED BY <2>2, <2>3, <2>4, <2>5, <2>6, <2>7, <2>8 DEF IInv, QueueExact
<1>2. CASE PopWait
  <2>1. /\ queue'.read = queue.read
        /\ queue'.write = queue.write
        /\ queue'.push = queue.push - 1
        /\ queue'.pop = queue.pop
        /\ queue'.storage = queue.storage
        /\ queue' \in HeaderQueues
    <3>1. queue.push - 1 \in Nat
      BY <1>2, <1>0 DEF PopWait
    <3>2. queue' = [queue EXCEPT !.push = queue.push - 1]
      BY <1>2 DEF PopWait
    <3>. QED BY <3>1, <3>2, <1>0, QueueUpdates DEF HeaderQueues
  <2>2. QueueTypeOK'
    BY <1>2, <1>0, <2>1 DEF PopWait, ClientAt, QueueTypeOK, ClientInv, PusherInv
  <2>3. QueueOrder'
    BY <1>2, <1>0, <2>1 DEF PopWait, ClientAt, QueueOrder, ClientInv, PusherInv, QueueTypeOK, QueueFull
  <2>4. QueueEntries'
    BY <1>2, <1>0, <2>1 DEF PopWait, ClientAt, QueueEntries, QueueOrder, PusherInv, Queued, QueueTypeOK
  <2>5. QueueClaims'
    BY <1>2, <1>0, <2>1 DEF PopWait, ClientAt, QueueClaims, QueueOrder, ClientInv, PusherInv, Queued, BeingPushed, Popped, QueueTypeOK
  <2>6. QueueAwake'
    BY <1>2, <1>0, <2>1 DEF PopWait, ClientAt, QueueAwake, QueueFull, QueueEmpty, QueueTypeOK
  <2>7. ClientInv'
    BY <1>2, <1>0, <2>1 DEF PopWait, ClientAt, ClientInv, QueueOrder, QueueEntries, Queued, QueueTypeOK, QueueEmpty
  <2>8. PusherInv'
    BY <1>2, <1>0, <2>1 DEF PopWait, ClientAt, PusherInv, QueueOrder, QueueFull, QueueTypeOK
  <2>. QED BY <2>2, <2>3, <2>4, <2>5, <2>6, <2>7, <2>8 DEF IInv, QueueExact
<1>3. CASE PeekUp
  <2>1. /\ queue'.read = queue.read
        /\ queue'.write = queue.write
        /\ queue'.push = queue.push + 1
        /\ queue'.pop = queue.pop
        /\ queue'.storage = queue.storage
        /\ queue' \in HeaderQueues
    <3>1. queue.push + 1 \in Nat
      BY <1>3, <1>0
    <3>2. queue' = [queue EXCEPT !.push = queue.push + 1]
      BY <1>3 DEF PeekUp
    <3>. QED BY <3>1, <3>2, <1>0, QueueUpdates DEF HeaderQueues
  <2>2. QueueTypeOK'
    BY <1>3, <1>0, <2>1 DEF PeekUp, ClientAt, QueueTypeOK, ClientInv, PusherInv
  <2>3. QueueOrder'
    BY <1>3, <1>0, <2>1 DEF PeekUp, ClientAt, QueueOrder, ClientInv, PusherInv, QueueTypeOK, QueueFull
  <2>4. QueueEntries'
    BY <1>3, <1>0, <2>1 DEF PeekUp, ClientAt, QueueEntries, QueueOrder, PusherInv, Queued, QueueTypeOK
  <2>5. QueueClaims'
    BY <1>3, <1>0, <2>1 DEF PeekUp, ClientAt, QueueClaims, QueueOrder, ClientInv, PusherInv, Queued, BeingPushed, Popped, QueueTypeOK
  <2>6. QueueAwake'
    BY <1>3, <1>0, <2>1 DEF PeekUp, ClientAt, QueueAwake, QueueFull, QueueEmpty, QueueTypeOK
  <2>7. ClientInv'
    BY <1>3, <1>0, <2>1 DEF PeekUp, ClientAt, ClientInv, QueueOrder, QueueEntries, Queued, QueueTypeOK, QueueEmpty
  <2>8. PusherInv'
    BY <1>3, <1>0, <2>1 DEF PeekUp, ClientAt, PusherInv, QueueOrder, QueueFull, QueueTypeOK
  <2>. QED BY <2>2, <2>3, <2>4, <2>5, <2>6, <2>7, <2>8 DEF IInv, QueueExact
<1>4. CASE PopLoad
  <2>1. queue' = queue
    BY <1>4 DEF PopLoad
  <2>2. QueueTypeOK'
    <3>0. client = "load" /\ inHand' = queue.storage[QIndex(queue.read)] /\ UNCHANGED held
          /\ client' = IF call = "peek" THEN "reading" ELSE "advance"
      BY <1>4 DEF PopLoad, ClientAt
    <3>1. queue.read + 1 \in Queued
      BY <3>0, <1>0 DEF ClientInv, Queued
    <3>2. queue.storage[QIndex((queue.read + 1) - 1)] = queue.read + 1
      BY <3>1, <1>0 DEF QueueEntries
    <3>3. (queue.read + 1) - 1 = queue.read
      BY <1>0
    <3>4. inHand' = queue.read + 1
      BY <3>0, <3>2, <3>3
    <3>. QED BY <1>4, <1>0, <2>1, <3>4 DEF PopLoad, ClientAt, QueueTypeOK
  <2>3. QueueOrder'
    <3>0. client = "load" /\ inHand' = queue.storage[QIndex(queue.read)] /\ UNCHANGED held
          /\ client' = IF call = "peek" THEN "reading" ELSE "advance"
      BY <1>4 DEF PopLoad, ClientAt
    <3>1. queue.read + 1 \in Queued
      BY <3>0, <1>0 DEF ClientInv, Queued
    <3>2. queue.storage[QIndex((queue.read + 1) - 1)] = queue.read + 1
      BY <3>1, <1>0 DEF QueueEntries
    <3>3. (queue.read + 1) - 1 = queue.read
      BY <1>0
    <3>4. inHand' = queue.read + 1
      BY <3>0, <3>2, <3>3
    <3>. QED BY <1>0, <2>1, <3>0, <3>4 DEF QueueOrder
  <2>4. QueueEntries'
    BY <1>4, <1>0, <2>1 DEF PopLoad, ClientAt, QueueEntries, QueueOrder, PusherInv, Queued, QueueTypeOK
  <2>5. QueueClaims'
    BY <1>4, <1>0, <2>1 DEF PopLoad, ClientAt, QueueClaims, QueueOrder, ClientInv, PusherInv, Queued, BeingPushed, Popped, QueueTypeOK
  <2>6. QueueAwake'
    BY <1>4, <1>0, <2>1 DEF PopLoad, ClientAt, QueueAwake, QueueFull, QueueEmpty, QueueTypeOK
  <2>7. ClientInv'
    <3>0. client = "load" /\ inHand' = queue.storage[QIndex(queue.read)] /\ UNCHANGED held
          /\ client' = IF call = "peek" THEN "reading" ELSE "advance"
      BY <1>4 DEF PopLoad, ClientAt
    <3>1. queue.read + 1 \in Queued
      BY <3>0, <1>0 DEF ClientInv, Queued
    <3>2. queue.storage[QIndex((queue.read + 1) - 1)] = queue.read + 1
      BY <3>1, <1>0 DEF QueueEntries
    <3>3. (queue.read + 1) - 1 = queue.read
      BY <1>0
    <3>4. inHand' = queue.read + 1
      BY <3>0, <3>2, <3>3
    <3>. QED BY <1>4, <1>0, <2>1, <3>0, <3>4 DEF PopLoad, ClientInv
  <2>8. PusherInv'
    BY <1>4, <1>0, <2>1 DEF PopLoad, ClientAt, PusherInv, QueueOrder, QueueFull, QueueTypeOK
  <2>. QED BY <2>2, <2>3, <2>4, <2>5, <2>6, <2>7, <2>8 DEF IInv, QueueExact
<1>5. CASE PopAdvance
  <2>1. /\ queue'.read = queue.read + 1
        /\ queue'.write = queue.write
        /\ queue'.push = queue.push
        /\ queue'.pop = queue.pop
        /\ queue'.storage = queue.storage
        /\ queue' \in HeaderQueues
    <3>1. queue.read + 1 \in Nat
      BY <1>5, <1>0
    <3>2. queue' = [queue EXCEPT !.read = queue.read + 1]
      BY <1>5 DEF PopAdvance
    <3>. QED BY <3>1, <3>2, <1>0, QueueUpdates DEF HeaderQueues
  <2>2. QueueTypeOK'
    BY <1>5, <1>0, <2>1 DEF PopAdvance, ClientAt, QueueTypeOK, ClientInv, PusherInv
  <2>3. QueueOrder'
    BY <1>5, <1>0, <2>1 DEF PopAdvance, ClientAt, QueueOrder, ClientInv, PusherInv, QueueTypeOK, QueueFull
  <2>4. QueueEntries'
    BY <1>5, <1>0, <2>1 DEF PopAdvance, ClientAt, QueueEntries, QueueOrder, PusherInv, Queued, QueueTypeOK
  <2>5. QueueClaims'
    BY <1>5, <1>0, <2>1 DEF PopAdvance, ClientAt, QueueClaims, QueueOrder, ClientInv, PusherInv, Queued, BeingPushed, Popped, QueueTypeOK
  <2>6. QueueAwake'
    BY <1>5, <1>0, <2>1 DEF PopAdvance, ClientAt, QueueAwake, QueueFull, QueueEmpty, QueueTypeOK
  <2>7. ClientInv'
    BY <1>5, <1>0, <2>1 DEF PopAdvance, ClientAt, ClientInv, QueueOrder, QueueEntries, Queued, QueueTypeOK, QueueEmpty
  <2>8. PusherInv'
    BY <1>5, <1>0, <2>1 DEF PopAdvance, ClientAt, PusherInv, QueueOrder, QueueFull, QueueTypeOK
  <2>. QED BY <2>2, <2>3, <2>4, <2>5, <2>6, <2>7, <2>8 DEF IInv, QueueExact
<1>6. CASE PopUp
  <2>1. /\ queue'.read = queue.read
        /\ queue'.write = queue.write
        /\ queue'.push = queue.push
        /\ queue'.pop = queue.pop + 1
        /\ queue'.storage = queue.storage
        /\ queue' \in HeaderQueues
    <3>1. queue.pop + 1 \in Nat
      BY <1>6, <1>0
    <3>2. queue' = [queue EXCEPT !.pop = queue.pop + 1]
      BY <1>6 DEF PopUp
    <3>. QED BY <3>1, <3>2, <1>0, QueueUpdates DEF HeaderQueues
  <2>2. QueueTypeOK'
    BY <1>6, <1>0, <2>1 DEF PopUp, ClientAt, QueueTypeOK, ClientInv, PusherInv
  <2>3. QueueOrder'
    BY <1>6, <1>0, <2>1 DEF PopUp, ClientAt, QueueOrder, ClientInv, PusherInv, QueueTypeOK, QueueFull
  <2>4. QueueEntries'
    BY <1>6, <1>0, <2>1 DEF PopUp, ClientAt, QueueEntries, QueueOrder, PusherInv, Queued, QueueTypeOK
  <2>5. QueueClaims'
    BY <1>6, <1>0, <2>1 DEF PopUp, ClientAt, QueueClaims, QueueOrder, ClientInv, PusherInv, Queued, BeingPushed, Popped, QueueTypeOK
  <2>6. QueueAwake'
    BY <1>6, <1>0, <2>1 DEF PopUp, ClientAt, QueueAwake, QueueFull, QueueEmpty, QueueTypeOK
  <2>7. ClientInv'
    BY <1>6, <1>0, <2>1 DEF PopUp, ClientAt, ClientInv, QueueOrder, QueueEntries, Queued, QueueTypeOK, QueueEmpty
  <2>8. PusherInv'
    BY <1>6, <1>0, <2>1 DEF PopUp, ClientAt, PusherInv, QueueOrder, QueueFull, QueueTypeOK
  <2>. QED BY <2>2, <2>3, <2>4, <2>5, <2>6, <2>7, <2>8 DEF IInv, QueueExact
<1>7. CASE RemovePeeked
  <2>1. queue' = queue
    BY <1>7 DEF RemovePeeked
  <2>2. QueueTypeOK'
    BY <1>7, <1>0, <2>1 DEF RemovePeeked, ClientAt, QueueTypeOK, ClientInv, PusherInv
  <2>3. QueueOrder'
    BY <1>7, <1>0, <2>1 DEF RemovePeeked, ClientAt, QueueOrder, ClientInv, PusherInv, QueueTypeOK, QueueFull
  <2>4. QueueEntries'
    BY <1>7, <1>0, <2>1 DEF RemovePeeked, ClientAt, QueueEntries, QueueOrder, PusherInv, Queued, QueueTypeOK
  <2>5. QueueClaims'
    BY <1>7, <1>0, <2>1 DEF RemovePeeked, ClientAt, QueueClaims, QueueOrder, ClientInv, PusherInv, Queued, BeingPushed, Popped, QueueTypeOK
  <2>6. QueueAwake'
    BY <1>7, <1>0, <2>1 DEF RemovePeeked, ClientAt, QueueAwake, QueueFull, QueueEmpty, QueueTypeOK
  <2>7. ClientInv'
    BY <1>7, <1>0, <2>1 DEF RemovePeeked, ClientAt, ClientInv, QueueOrder, QueueEntries, Queued, QueueTypeOK, QueueEmpty
  <2>8. PusherInv'
    BY <1>7, <1>0, <2>1 DEF RemovePeeked, ClientAt, PusherInv, QueueOrder, QueueFull, QueueTypeOK
  <2>. QED BY <2>2, <2>3, <2>4, <2>5, <2>6, <2>7, <2>8 DEF IInv, QueueExact
<1>8. CASE MessageReturn
  <2>1. queue' = queue
    BY <1>8 DEF MessageReturn
  <2>2. QueueTypeOK'
    <3>1. /\ claimed \in SUBSET (1..arrived) /\ held \in SUBSET (1..arrived)
          /\ inHand \in 1..arrived
      BY <1>8, <1>0 DEF MessageReturn, ClientAt, QueueTypeOK, ClientInv, QueueOrder, PusherInv
    <3>2. /\ claimed' \in SUBSET (1..arrived) /\ held' \in SUBSET (1..arrived)
          /\ arrived' = arrived
      BY <1>8, <3>1 DEF MessageReturn
    <3>. QED BY <1>8, <1>0, <2>1, <3>2 DEF MessageReturn, ClientAt, QueueTypeOK
  <2>3. QueueOrder'
    BY <1>8, <1>0, <2>1 DEF MessageReturn, ClientAt, QueueOrder, ClientInv, PusherInv, QueueTypeOK, QueueFull
  <2>4. QueueEntries'
    BY <1>8, <1>0, <2>1 DEF MessageReturn, ClientAt, QueueEntries, QueueOrder, PusherInv, Queued, QueueTypeOK
  <2>5. QueueClaims'
    BY <1>8, <1>0, <2>1 DEF MessageReturn, ClientAt, QueueClaims, QueueOrder, ClientInv, PusherInv, Queued, BeingPushed, Popped, QueueTypeOK
  <2>6. QueueAwake'
    BY <1>8, <1>0, <2>1 DEF MessageReturn, ClientAt, QueueAwake, QueueFull, QueueEmpty, QueueTypeOK
  <2>7. ClientInv'
    <3>1. inHand \in 1..queue.read /\ held \subseteq 1..queue.read
      BY <1>8, <1>0 DEF MessageReturn, ClientAt, ClientInv, QueueOrder, QueueTypeOK
    <3>2. held' \subseteq 1..queue.read
      BY <1>8, <3>1 DEF MessageReturn
    <3>. QED BY <1>8, <1>0, <2>1, <3>2 DEF MessageReturn, ClientAt, ClientInv, QueueTypeOK
  <2>8. PusherInv'
    BY <1>8, <1>0, <2>1 DEF MessageReturn, ClientAt, PusherInv, QueueOrder, QueueFull, QueueTypeOK
  <2>. QED BY <2>2, <2>3, <2>4, <2>5, <2>6, <2>7, <2>8 DEF IInv, QueueExact
<1>9. ASSUME NEW c \in {"dequeue", "hold", "peek"}, NEW blocking \in BOOLEAN,
             ClientCall(c, blocking)
      PROVE IInv'
  <2>1. queue' = queue
    BY <1>9 DEF ClientCall
  <2>2. QueueTypeOK'
    BY <1>9, <1>0, <2>1 DEF ClientCall, ClientAt, QueueTypeOK, ClientInv, PusherInv
  <2>3. QueueOrder'
    BY <1>9, <1>0, <2>1 DEF ClientCall, ClientAt, QueueOrder, ClientInv, PusherInv, QueueTypeOK, QueueFull
  <2>4. QueueEntries'
    BY <1>9, <1>0, <2>1 DEF ClientCall, ClientAt, QueueEntries, QueueOrder, PusherInv, Queued, QueueTypeOK
  <2>5. QueueClaims'
    BY <1>9, <1>0, <2>1 DEF ClientCall, ClientAt, QueueClaims, QueueOrder, ClientInv, PusherInv, Queued, BeingPushed, Popped, QueueTypeOK
  <2>6. QueueAwake'
    BY <1>9, <1>0, <2>1 DEF ClientCall, ClientAt, QueueAwake, QueueFull, QueueEmpty, QueueTypeOK
  <2>7. ClientInv'
    BY <1>9, <1>0, <2>1 DEF ClientCall, ClientAt, ClientInv, QueueOrder, QueueEntries, Queued, QueueTypeOK, QueueEmpty
  <2>8. PusherInv'
    BY <1>9, <1>0, <2>1 DEF ClientCall, ClientAt, PusherInv, QueueOrder, QueueFull, QueueTypeOK
  <2>. QED BY <2>2, <2>3, <2>4, <2>5, <2>6, <2>7, <2>8 DEF IInv, QueueExact
<1>10. ASSUME NEW h \in held, HeldRelease(h) PROVE IInv'
  <2>1. queue' = queue
    BY <1>10 DEF HeldRelease
  <2>2. QueueTypeOK'
    BY <1>10, <1>0, <2>1 DEF HeldRelease, ClientAt, QueueTypeOK, ClientInv, PusherInv
  <2>3. QueueOrder'
    BY <1>10, <1>0, <2>1 DEF HeldRelease, ClientAt, QueueOrder, ClientInv, PusherInv, QueueTypeOK, QueueFull
  <2>4. QueueEntries'
    BY <1>10, <1>0, <2>1 DEF HeldRelease, ClientAt, QueueEntries, QueueOrder, PusherInv, Queued, QueueTypeOK
  <2>5. QueueClaims'
    BY <1>10, <1>0, <2>1 DEF HeldRelease, ClientAt, QueueClaims, QueueOrder, ClientInv, PusherInv, Queued, BeingPushed, Popped, QueueTypeOK
  <2>6. QueueAwake'
    BY <1>10, <1>0, <2>1 DEF HeldRelease, ClientAt, QueueAwake, QueueFull, QueueEmpty, QueueTypeOK
  <2>7. ClientInv'
    BY <1>10, <1>0, <2>1 DEF HeldRelease, ClientAt, ClientInv, QueueOrder, QueueEntries, Queued, QueueTypeOK, QueueEmpty
  <2>8. PusherInv'
    BY <1>10, <1>0, <2>1 DEF HeldRelease, ClientAt, PusherInv, QueueOrder, QueueFull, QueueTypeOK
  <2>. QED BY <2>2, <2>3, <2>4, <2>5, <2>6, <2>7, <2>8 DEF IInv, QueueExact
<1>. QED BY <1>1, <1>2, <1>3, <1>4, <1>5, <1>6, <1>7, <1>8, <1>9, <1>10
     DEF ClientStep

(* A header is in one place at a time: the ring, the client's hands, or the  *)
(* slots' claims; and neither side of vchiu_queue_push and vchiu_queue_pop   *)
(* sleeps when the other has made what it waits for.                         *)
THEOREM QueueExactAlways == QueueSpec => [](QueueTypeOK /\ QueueExact)
<1>1. QueueInit => IInv
  BY QueueStarts
<1>2. IInv /\ [QueueNext]_queueVars => IInv'
  BY QueueStutters, PusherKeeps, ClientKeeps DEF QueueNext
<1>3. IInv => QueueTypeOK /\ QueueExact
  BY DEF IInv
<1>. QED BY <1>1, <1>2, <1>3, PTL DEF QueueSpec

-----------------------------------------------------------------------------
(* The timers.                                                               *)

(* The types, and the bound on the ticks that is in the guards.              *)
JiffyTypes ==
  /\ ticks \in Nat /\ ticks <= MaxTicks /\ done \in Nat
  /\ timerList \in Seq(TimerIds)
  /\ expires \in [TimerIds -> Nat]
  /\ handler \in {"idle", "scans", "calls"}
  /\ sleeper \in [asleep : BOOLEAN, start : Nat, timeout : Nat]
  /\ tickLog \in [crowded : BOOLEAN, early : BOOLEAN, completes : Nat, woken : Nat]

(* A timer is linked into timer_list once, as its list entry is one.         *)
ListedOnce ==
  \A i, j \in DOMAIN timerList : timerList[i] = timerList[j] => i = j

(* Every time that is set lies within reach of the present one, so that the  *)
(* difference modulo Wrap has the right sign.                                *)
WithinReach ==
  /\ \A t \in TimerIds : expires[t] <= ticks + MaxDelay
  /\ sleeper.start <= ticks /\ sleeper.timeout <= MaxDelay

(* The list is in the order of the times while there are at most two timers, *)
(* and none of them is past.                                                 *)
SoonestFirst ==
  ~tickLog.crowded =>
    /\ Len(timerList) <= 2
    /\ \A t \in Linked : expires[t] >= ticks
    /\ handler = "idle" => \A t \in Linked : expires[t] > ticks
    /\ Len(timerList) = 2 => expires[timerList[1]] <= expires[timerList[2]]

(* The inductive invariant of the timers.                                    *)
JiffyInv ==
  /\ JiffyTypes /\ ListedOnce /\ WithinReach /\ SoonestFirst
  /\ ~tickLog.early /\ done + tickLog.woken = tickLog.completes

(* Division with remainder, by the size of the counter.                      *)
LEMMA WrapDiv ==
  ASSUME NEW i \in Nat
  PROVE  i \div Wrap \in Nat /\ i % Wrap \in 0 .. Wrap - 1
         /\ i = Wrap * (i \div Wrap) + (i % Wrap)
<1>0. Wrap \in Nat \ {0}
  BY JiffiesAssumption
<1>1. i \div Wrap \in Int /\ i % Wrap \in 0 .. Wrap - 1
  BY <1>0
<1>2. i = Wrap * (i \div Wrap) + (i % Wrap)
  BY <1>0
<1>3. i \div Wrap >= 0
  BY <1>0
<1> QED BY <1>1, <1>2, <1>3

(* A remainder is what is left when a multiple is taken away.                *)
LEMMA WrapUnique ==
  ASSUME NEW x \in Int, NEW k \in Int, NEW r \in 0 .. Wrap - 1, x = Wrap * k + r
  PROVE  x % Wrap = r
<1>0. Wrap \in Nat \ {0}
  BY JiffiesAssumption
<1> DEFINE q == x \div Wrap
           s == x % Wrap
<1>1. q \in Int /\ s \in 0 .. Wrap - 1 /\ x = Wrap * q + s
  BY <1>0
<1> HIDE DEF q, s
<1>2. Wrap * (k - q) = s - r
  BY <1>0, <1>1
<1>3. CASE k - q >= 1
  <2>1. Wrap * (k - q) >= Wrap
    BY <1>0, <1>1, <1>3
  <2> QED BY <1>0, <1>1, <1>2, <2>1
<1>4. CASE k - q <= -1
  <2>1. Wrap * (k - q) <= -Wrap
    BY <1>0, <1>1, <1>4
  <2> QED BY <1>0, <1>1, <1>2, <2>1
<1>5. CASE k - q = 0
  <2>1. Wrap * (k - q) = 0
    BY <1>0, <1>5
  <2> QED BY <1>1, <1>2, <2>1 DEF s
<1> QED BY <1>1, <1>3, <1>4, <1>5

(* The difference of two readings of jiffies, less than a turn apart, is the *)
(* time between them.                                                        *)
LEMMA WrappedDifference ==
  ASSUME NEW a \in Nat, NEW b \in Nat, b <= a, a - b < Wrap
  PROVE  (Wrapped(a) - Wrapped(b)) % Wrap = a - b
<1> DEFINE i == a \div Wrap  r == a % Wrap  j == b \div Wrap  s == b % Wrap
<1>0. Wrap \in Nat \ {0}
  BY JiffiesAssumption
<1>1. i \in Nat /\ r \in 0 .. Wrap - 1 /\ a = Wrap * i + r
  BY WrapDiv
<1>2. j \in Nat /\ s \in 0 .. Wrap - 1 /\ b = Wrap * j + s
  BY WrapDiv
<1>3. Wrapped(a) = r /\ Wrapped(b) = s
  BY DEF Wrapped
<1> HIDE DEF i, r, j, s
<1>4. r - s = Wrap * (j - i) + (a - b)
  BY <1>0, <1>1, <1>2
<1>5. a - b \in 0 .. Wrap - 1 /\ j - i \in Int /\ r - s \in Int
  BY <1>0, <1>1, <1>2
<1>6. (r - s) % Wrap = a - b
  BY <1>4, <1>5, WrapUnique
<1> QED BY <1>3, <1>6

(* And it is never more than that time, however many turns that takes.       *)
LEMMA WrappedAtMost ==
  ASSUME NEW a \in Nat, NEW b \in Nat, b <= a
  PROVE  Wrapped(Wrapped(a) - Wrapped(b)) <= a - b
<1> DEFINE i == a \div Wrap  r == a % Wrap  j == b \div Wrap  s == b % Wrap
           k == (a - b) \div Wrap  e == (a - b) % Wrap
<1>0. Wrap \in Nat \ {0}
  BY JiffiesAssumption
<1>1. i \in Nat /\ r \in 0 .. Wrap - 1 /\ a = Wrap * i + r
  BY WrapDiv
<1>2. j \in Nat /\ s \in 0 .. Wrap - 1 /\ b = Wrap * j + s
  BY WrapDiv
<1>3. k \in Nat /\ e \in 0 .. Wrap - 1 /\ a - b = Wrap * k + e
  <2>1. a - b \in Nat
    OBVIOUS
  <2> QED BY <2>1, WrapDiv
<1>4. Wrapped(a) = r /\ Wrapped(b) = s
  BY DEF Wrapped
<1> HIDE DEF i, r, j, s, k, e
<1>5. r - s = Wrap * (j - i + k) + e
  BY <1>0, <1>1, <1>2, <1>3
<1>6. r - s \in Int /\ j - i + k \in Int
  BY <1>1, <1>2, <1>3
<1>7. (r - s) % Wrap = e
  BY <1>3, <1>5, <1>6, WrapUnique
<1>8. Wrap * k >= 0
  BY <1>0, <1>3
<1>9. e <= a - b
  BY <1>3, <1>8, <1>0
<1> QED BY <1>4, <1>7, <1>9 DEF Wrapped

(* The signed difference of two readings tells the order of the times, as    *)
(* long as they are less than half a turn apart.                             *)
LEMMA SignedDiffIs ==
  ASSUME NEW a \in Nat, NEW b \in Nat, 2 * (a - b) < Wrap, 2 * (b - a) < Wrap
  PROVE  SignedDiff(Wrapped(a), Wrapped(b)) = a - b
<1>0. Wrap \in Nat \ {0}
  BY JiffiesAssumption
<1>1. CASE b <= a
  <2>1. (Wrapped(a) - Wrapped(b)) % Wrap = a - b
    BY <1>0, <1>1, WrappedDifference
  <2> QED BY <1>0, <1>1, <2>1 DEF SignedDiff
<1>2. CASE a < b
  <2> DEFINE i == a \div Wrap  r == a % Wrap  j == b \div Wrap  s == b % Wrap
  <2>1. i \in Nat /\ r \in 0 .. Wrap - 1 /\ a = Wrap * i + r
    BY WrapDiv
  <2>2. j \in Nat /\ s \in 0 .. Wrap - 1 /\ b = Wrap * j + s
    BY WrapDiv
  <2>3. Wrapped(a) = r /\ Wrapped(b) = s
    BY DEF Wrapped
  <2> HIDE DEF i, r, j, s
  <2>4. r - s = Wrap * (j - i - 1) + (a - b + Wrap)
    BY <1>0, <2>1, <2>2
  <2>5. a - b + Wrap \in 0 .. Wrap - 1 /\ j - i - 1 \in Int /\ r - s \in Int
    BY <1>0, <1>2, <2>1, <2>2
  <2>6. (r - s) % Wrap = a - b + Wrap
    BY <2>4, <2>5, WrapUnique
  <2> QED BY <1>0, <1>2, <2>3, <2>6 DEF SignedDiff
<1> QED BY <1>1, <1>2

(* The list with a timer put in at a place.                                  *)
LEMMA InsertedIs ==
  ASSUME timerList \in Seq(TimerIds), NEW t \in TimerIds,
         NEW p \in 0 .. Len(timerList)
  PROVE  /\ Inserted(t, p) \in Seq(TimerIds)
         /\ Len(Inserted(t, p)) = Len(timerList) + 1
         /\ \A i \in 1 .. Len(timerList) + 1 :
              Inserted(t, p)[i] = IF i <= p THEN timerList[i]
                                  ELSE IF i = p + 1 THEN t ELSE timerList[i - 1]
<1> DEFINE a == SubSeq(timerList, 1, p)
           b == SubSeq(timerList, p + 1, Len(timerList))
<1>0. Len(timerList) \in Nat /\ p \in Nat
  OBVIOUS
<1>1. /\ a \in Seq(TimerIds) /\ Len(a) = p
      /\ \A i \in 1 .. p : a[i] = timerList[i]
  OBVIOUS
<1>2. /\ b \in Seq(TimerIds) /\ Len(b) = Len(timerList) - p
      /\ \A i \in 1 .. Len(timerList) - p : b[i] = timerList[i + p]
  OBVIOUS
<1>3. Inserted(t, p) = a \o <<t>> \o b
  BY DEF Inserted
<1> HIDE DEF a, b
<1>4. /\ a \o <<t>> \in Seq(TimerIds) /\ Len(a \o <<t>>) = p + 1
      /\ \A i \in 1 .. p : (a \o <<t>>)[i] = timerList[i]
      /\ (a \o <<t>>)[p + 1] = t
  BY <1>1
<1> DEFINE c == a \o <<t>>
<1>5. /\ c \in Seq(TimerIds) /\ Len(c) = p + 1
      /\ \A i \in 1 .. p : c[i] = timerList[i]
      /\ c[p + 1] = t
  BY <1>4
<1>6. Inserted(t, p) = c \o b
  BY <1>3
<1> HIDE DEF c
<1>7. /\ c \o b \in Seq(TimerIds) /\ Len(c \o b) = Len(timerList) + 1
  <2>1. c \o b \in Seq(TimerIds)
    BY <1>2, <1>5
  <2>2. Len(c \o b) = Len(c) + Len(b)
    <3>1. c \in Seq(TimerIds) /\ b \in Seq(TimerIds)
      BY <1>2, <1>5
    <3> QED BY ONLY <3>1
  <2>3. Len(c) + Len(b) = Len(timerList) + 1
    BY ONLY <1>0, <1>2, <1>5
  <2> QED BY <2>1, <2>2, <2>3
<1>8. ASSUME NEW i \in 1 .. Len(timerList) + 1
      PROVE  (c \o b)[i] = IF i <= p THEN timerList[i]
                           ELSE IF i = p + 1 THEN t ELSE timerList[i - 1]
  <2>1. CASE i <= p + 1
    <3>1. (c \o b)[i] = c[i]
      BY <1>0, <1>2, <1>5, <2>1
    <3> QED BY <1>0, <1>5, <2>1, <3>1
  <2>2. CASE i > p + 1
    <3>1. (c \o b)[i] = b[i - (p + 1)]
      BY <1>0, <1>2, <1>5, <2>2
    <3>2. i - (p + 1) \in 1 .. Len(timerList) - p /\ i - (p + 1) + p = i - 1
      BY <1>0, <2>2
    <3> QED BY <1>0, <1>2, <2>2, <3>1, <3>2
  <2>3. i \in Nat
    OBVIOUS
  <2>4. i <= p + 1 \/ i > p + 1
    BY ONLY <1>0, <2>3
  <2> QED BY ONLY <2>1, <2>2, <2>4
<1> QED BY <1>6, <1>7, <1>8

(* The list without the timer at a place.                                    *)
LEMMA UnlinkedIs ==
  ASSUME timerList \in Seq(TimerIds), NEW p \in DOMAIN timerList
  PROVE  /\ Unlinked(p) \in Seq(TimerIds)
         /\ Len(Unlinked(p)) = Len(timerList) - 1
         /\ \A i \in 1 .. Len(timerList) - 1 :
              Unlinked(p)[i] = IF i < p THEN timerList[i] ELSE timerList[i + 1]
<1> DEFINE a == SubSeq(timerList, 1, p - 1)
           b == SubSeq(timerList, p + 1, Len(timerList))
<1>0. Len(timerList) \in Nat /\ p \in 1 .. Len(timerList)
  OBVIOUS
<1>1. /\ a \in Seq(TimerIds) /\ Len(a) = p - 1
      /\ \A i \in 1 .. p - 1 : a[i] = timerList[i]
  BY <1>0
<1>2. /\ b \in Seq(TimerIds) /\ Len(b) = Len(timerList) - p
      /\ \A i \in 1 .. Len(timerList) - p : b[i] = timerList[i + p]
  BY <1>0
<1>3. Unlinked(p) = a \o b
  BY DEF Unlinked
<1> HIDE DEF a, b
<1>4. a \o b \in Seq(TimerIds) /\ Len(a \o b) = Len(timerList) - 1
  BY <1>0, <1>1, <1>2
<1>5. ASSUME NEW i \in 1 .. Len(timerList) - 1
      PROVE  (a \o b)[i] = IF i < p THEN timerList[i] ELSE timerList[i + 1]
  <2>1. CASE i < p
    <3>1. (a \o b)[i] = a[i]
      BY <1>0, <1>1, <1>2, <2>1
    <3> QED BY <1>0, <1>1, <2>1, <3>1
  <2>2. CASE i >= p
    <3>1. (a \o b)[i] = b[i - (p - 1)]
      BY <1>0, <1>1, <1>2, <2>2
    <3>2. i - (p - 1) \in 1 .. Len(timerList) - p /\ i - (p - 1) + p = i + 1
      BY <1>0, <2>2
    <3> QED BY <1>0, <1>2, <2>2, <3>1, <3>2
  <2>3. i \in Nat
    OBVIOUS
  <2>4. i < p \/ i >= p
    BY ONLY <1>0, <2>3
  <2> QED BY ONLY <2>1, <2>2, <2>4
<1> QED BY <1>3, <1>4, <1>5

(* A set of numbers has a least one.                                         *)
LEMMA Smallest ==
  ASSUME NEW S \in SUBSET Nat, S # {}
  PROVE \E i \in S : \A j \in S : i <= j
<1> DEFINE R == {p \in Nat \X Nat : p[1] < p[2]}
<1>1. OpToRel(<,Nat) = R
  BY DEF OpToRel
<1>2. IsWellFoundedOn(R, Nat)
  BY <1>1, NatLessThanWellFounded
<1>3. PICK i \in S : \A j \in S : ~(<<j, i>> \in R)
  <2> HIDE DEF R
  <2> QED BY <1>2, WFMin
<1>4. ASSUME NEW j \in S PROVE i <= j
  <2>1. <<j, i>> \notin R
    BY <1>3
  <2>2. j \in Nat /\ i \in Nat
    OBVIOUS
  <2>3. <<j, i>> \in R <=> j < i
    BY <2>2
  <2> HIDE DEF R
  <2> QED BY <2>1, <2>2, <2>3
<1> QED BY <1>4

(* The place add_timer finds is one of the list; in front of everything when *)
(* nothing expires earlier, and behind what does when there is one timer.    *)
LEMMA PlaceForIs ==
  ASSUME timerList \in Seq(TimerIds), expires \in [TimerIds -> Nat], NEW e \in Nat
  PROVE  /\ PlaceFor(e) \in 0 .. Len(timerList)
         /\ Len(timerList) = 1 /\ 2 * (expires[timerList[1]] - e) < Wrap
              /\ 2 * (e - expires[timerList[1]]) < Wrap
            => PlaceFor(e) = IF expires[timerList[1]] < e THEN 1 ELSE 0
<1> DEFINE earlier == {i \in DOMAIN timerList :
                    SignedDiff(Wrapped(expires[timerList[i]]), Wrapped(e)) < 0}
           first == CHOOSE i \in earlier : \A j \in earlier : i <= j
<1>0. Len(timerList) \in Nat /\ earlier \subseteq 1 .. Len(timerList)
  OBVIOUS
<1>1. PlaceFor(e) = IF earlier = {} THEN 0 ELSE first
  BY DEF PlaceFor
<1>2. earlier # {} => first \in earlier
  <2> SUFFICES ASSUME earlier # {} PROVE \E i \in earlier : \A j \in earlier : i <= j
    OBVIOUS
  <2>1. earlier \in SUBSET Nat
    BY <1>0
  <2> HIDE DEF earlier
  <2> QED BY <2>1, Smallest
<1>3. PlaceFor(e) \in 0 .. Len(timerList)
  BY <1>0, <1>1, <1>2
<1>4. ASSUME Len(timerList) = 1,
             2 * (expires[timerList[1]] - e) < Wrap,
             2 * (e - expires[timerList[1]]) < Wrap
      PROVE  PlaceFor(e) = IF expires[timerList[1]] < e THEN 1 ELSE 0
  <2>0. 1 \in 1 .. Len(timerList)
    BY ONLY <1>4
  <2>1. timerList[1] \in TimerIds
    BY ONLY <2>0, timerList \in Seq(TimerIds)
  <2>2. expires[timerList[1]] \in Nat
    BY <2>1
  <2>3. SignedDiff(Wrapped(expires[timerList[1]]), Wrapped(e))
          = expires[timerList[1]] - e
    BY <1>4, <2>2, SignedDiffIs
  <2>4. 1 \in earlier <=> expires[timerList[1]] < e
    BY <1>4, <2>2, <2>3
  <2>5. earlier = {} \/ (1 \in earlier /\ first = 1)
    <3>1. earlier \subseteq {1}
      BY <1>0, <1>4
    <3> HIDE DEF earlier
    <3> QED BY <1>2, <3>1
  <2> HIDE DEF earlier, first
  <2> QED BY <1>1, <2>4, <2>5
<1> QED BY <1>3, <1>4

(* Everything but the list stays, and so does what is said of the list.      *)
LEMMA JiffyQuiet ==
  ASSUME JiffyInv, UNCHANGED <<ticks, timerList, expires, handler>>,
         UNCHANGED tickLog.crowded, UNCHANGED tickLog.early,
         JiffyTypes', sleeper'.start <= ticks, sleeper'.timeout <= MaxDelay,
         done' + tickLog'.woken = tickLog'.completes
  PROVE  JiffyInv'
<1>1. ListedOnce'
  BY DEF JiffyInv, ListedOnce
<1>2. WithinReach'
  BY DEF JiffyInv, WithinReach
<1>3. SoonestFirst'
  BY DEF JiffyInv, SoonestFirst, Linked
<1> QED BY <1>1, <1>2, <1>3 DEF JiffyInv

(* No timer is set and nobody sleeps at first.                               *)
LEMMA JiffyInitially == JiffiesInit => JiffyInv
<1> SUFFICES ASSUME JiffiesInit PROVE JiffyInv
  OBVIOUS
<1>0. MaxTicks \in Nat /\ MaxDelay \in Nat
  BY JiffiesAssumption
<1>1. JiffyTypes
  BY <1>0 DEF JiffyTypes, JiffiesInit, Awake
<1>2. ListedOnce /\ SoonestFirst
  BY DEF ListedOnce, SoonestFirst, Linked, JiffiesInit
<1>3. WithinReach
  BY <1>0 DEF WithinReach, JiffiesInit, Awake
<1>4. ~tickLog.early /\ done + tickLog.woken = tickLog.completes
  BY DEF JiffiesInit
<1> QED BY <1>1, <1>2, <1>3, <1>4 DEF JiffyInv

(* A timer is added, by a thread or by the function of another.              *)
LEMMA AddTimerStep ==
  ASSUME JiffyInv, NEW t \in TimerIds, NEW delay \in 1 .. MaxDelay,
         AddTimer(t, delay), UNCHANGED <<ticks, done, sleeper>>,
         handler' \in {"idle", "scans"}, handler' = "idle" => handler = "idle"
  PROVE  JiffyInv'
<1> DEFINE e == ticks + delay
           p == PlaceFor(e)
           n == Len(timerList)
<1>0. /\ MaxDelay \in Nat /\ Wrap \in Nat /\ 2 * MaxDelay < Wrap
      /\ ticks \in Nat /\ delay \in Nat /\ e \in Nat
      /\ e > ticks /\ e <= ticks + MaxDelay
  BY JiffiesAssumption DEF JiffyInv, JiffyTypes
<1>1. /\ timerList \in Seq(TimerIds) /\ n \in Nat /\ DOMAIN timerList = 1 .. n
      /\ expires \in [TimerIds -> Nat]
  BY DEF JiffyInv, JiffyTypes
<1>2. p \in 0 .. n
  BY <1>0, <1>1, PlaceForIs
<1>3. /\ expires' = [expires EXCEPT ![t] = e]
      /\ timerList' = Inserted(t, p)
      /\ tickLog' = [tickLog EXCEPT !.crowded = @ \/ n >= 2]
      /\ t \notin Linked
  BY DEF AddTimer
<1> HIDE DEF e, p
<1>4. /\ timerList' \in Seq(TimerIds) /\ Len(timerList') = n + 1
      /\ DOMAIN timerList' = 1 .. n + 1
      /\ \A i \in 1 .. n + 1 :
           timerList'[i] = IF i <= p THEN timerList[i]
                           ELSE IF i = p + 1 THEN t ELSE timerList[i - 1]
  <2>1. /\ Inserted(t, p) \in Seq(TimerIds)
        /\ Len(Inserted(t, p)) = n + 1
        /\ \A i \in 1 .. n + 1 :
             Inserted(t, p)[i] = IF i <= p THEN timerList[i]
                                 ELSE IF i = p + 1 THEN t ELSE timerList[i - 1]
    BY <1>1, <1>2, InsertedIs
  <2>2. DOMAIN Inserted(t, p) = 1 .. n + 1
    BY <2>1
  <2> QED BY ONLY <1>3, <2>1, <2>2
<1>5. \A i \in 1 .. n : timerList[i] \in TimerIds /\ timerList[i] # t
  BY <1>1, <1>3 DEF Linked
<1>6. /\ expires' \in [TimerIds -> Nat] /\ expires'[t] = e
      /\ \A u \in TimerIds : u # t => expires'[u] = expires[u]
  BY <1>0, <1>1, <1>3
<1>7. /\ tickLog' \in [crowded : BOOLEAN, early : BOOLEAN, completes : Nat, woken : Nat]
      /\ tickLog'.early = tickLog.early /\ tickLog'.completes = tickLog.completes
      /\ tickLog'.woken = tickLog.woken
      /\ ~tickLog'.crowded => ~tickLog.crowded /\ n < 2
  <2>1. tickLog \in [crowded : BOOLEAN, early : BOOLEAN, completes : Nat, woken : Nat]
    BY DEF JiffyInv, JiffyTypes
  <2> DEFINE c == tickLog.crowded \/ n >= 2
  <2>2. tickLog' = [tickLog EXCEPT !.crowded = c]
    BY <1>3
  <2>3. c \in BOOLEAN
    OBVIOUS
  <2>4. ~c => ~tickLog.crowded /\ n < 2
    BY <1>1
  <2> HIDE DEF c
  <2> QED BY <2>1, <2>2, <2>3, <2>4
<1>8. JiffyTypes'
  BY <1>4, <1>6, <1>7 DEF JiffyInv, JiffyTypes
<1>9. ListedOnce'
  <2> SUFFICES ASSUME NEW i \in 1 .. n + 1, NEW j \in 1 .. n + 1,
                      timerList'[i] = timerList'[j], i < j
               PROVE  FALSE
    BY <1>1, <1>4 DEF ListedOnce
  <2>1. \A k, l \in 1 .. n : timerList[k] = timerList[l] => k = l
    BY <1>1 DEF JiffyInv, ListedOnce
  <2>2. CASE j <= p
    BY <1>1, <1>2, <1>4, <2>1, <2>2
  <2>3. CASE j = p + 1
    <3>1. i \in 1 .. n /\ timerList'[i] = timerList[i] /\ timerList'[j] = t
      BY <1>1, <1>2, <1>4, <2>3
    <3> QED BY <1>5, <3>1
  <2>4. CASE j > p + 1
    <3>1. timerList'[j] = timerList[j - 1] /\ j - 1 \in 1 .. n
      BY <1>1, <1>2, <1>4, <2>4
    <3>2. CASE i <= p
      <4>1. timerList'[i] = timerList[i] /\ i \in 1 .. n /\ i # j - 1
        BY <1>1, <1>2, <1>4, <2>4, <3>2
      <4> QED BY <2>1, <3>1, <4>1
    <3>3. CASE i = p + 1
      <4>1. timerList'[i] = t
        BY <1>2, <1>4, <3>3
      <4> QED BY <1>5, <3>1, <4>1
    <3>4. CASE i > p + 1
      <4>1. timerList'[i] = timerList[i - 1] /\ i - 1 \in 1 .. n /\ i - 1 # j - 1
        BY <1>1, <1>2, <1>4, <2>4, <3>4
      <4> QED BY <2>1, <3>1, <4>1
    <3> QED BY <1>2, <3>2, <3>3, <3>4
  <2> QED BY <1>2, <2>2, <2>3, <2>4
<1>10. WithinReach'
  BY <1>0, <1>6 DEF JiffyInv, WithinReach
<1>11. SoonestFirst'
  <2> SUFFICES ASSUME ~tickLog'.crowded PROVE SoonestFirst'
    BY DEF SoonestFirst
  <2>1. ~tickLog.crowded /\ n < 2
    BY <1>7
  <2>2. /\ \A i \in 1 .. n : expires[timerList[i]] >= ticks
        /\ handler = "idle" => \A i \in 1 .. n : expires[timerList[i]] > ticks
    BY <1>1, <2>1 DEF JiffyInv, SoonestFirst, Linked
  <2>3. \A i \in 1 .. n + 1 : timerList'[i] = t \/ \E j \in 1 .. n : timerList'[i] = timerList[j]
    <3> SUFFICES ASSUME NEW i \in 1 .. n + 1
                 PROVE  timerList'[i] = t \/ \E j \in 1 .. n : timerList'[i] = timerList[j]
      OBVIOUS
    <3>1. CASE i <= p
      <4>1. i \in 1 .. n /\ timerList'[i] = timerList[i]
        BY <1>1, <1>2, <1>4, <3>1
      <4> QED BY <4>1
    <3>2. CASE i = p + 1
      BY <1>1, <1>2, <1>4, <3>2
    <3>3. CASE i > p + 1
      <4>1. i - 1 \in 1 .. n /\ timerList'[i] = timerList[i - 1]
        BY <1>1, <1>2, <1>4, <3>3
      <4> QED BY <4>1
    <3> QED BY <1>2, <3>1, <3>2, <3>3
  <2>4. /\ \A i \in 1 .. n + 1 : expires'[timerList'[i]] >= ticks'
        /\ handler' = "idle" => \A i \in 1 .. n + 1 : expires'[timerList'[i]] > ticks'
    <3> SUFFICES ASSUME NEW i \in 1 .. n + 1
                 PROVE  /\ expires'[timerList'[i]] >= ticks
                        /\ handler' = "idle" => expires'[timerList'[i]] > ticks
      OBVIOUS
    <3>1. CASE timerList'[i] = t
      <4>1. expires'[timerList'[i]] = e
        BY <1>6, <3>1
      <4> QED BY <1>0, <4>1
    <3>2. ASSUME NEW j \in 1 .. n, timerList'[i] = timerList[j]
          PROVE  /\ expires'[timerList'[i]] >= ticks
                 /\ handler' = "idle" => expires'[timerList'[i]] > ticks
      BY <1>5, <1>6, <2>2, <3>2
    <3> QED BY <2>3, <3>1, <3>2
  <2>5. Len(timerList') = 2 => expires'[timerList'[1]] <= expires'[timerList'[2]]
    <3> SUFFICES ASSUME n = 1 PROVE expires'[timerList'[1]] <= expires'[timerList'[2]]
      <4>1. Len(timerList') = 2 => n = 1
        <5>1. Len(timerList') = n + 1 /\ n \in Nat
          BY <1>1, <1>4
        <5> HIDE DEF n
        <5> QED BY ONLY <5>1
      <4> QED BY <4>1
    <3> DEFINE x == expires[timerList[1]]
    <3>1. x \in Nat /\ x >= ticks /\ x <= ticks + MaxDelay
      BY <1>1, <1>5, <2>2 DEF JiffyInv, WithinReach
    <3>2. 2 * (x - e) < Wrap /\ 2 * (e - x) < Wrap
      BY <1>0, <3>1
    <3>3. p = IF x < e THEN 1 ELSE 0
      BY <1>0, <1>1, <3>2, PlaceForIs DEF p
    <3>4. expires'[timerList[1]] = x /\ expires'[t] = e
      BY <1>5, <1>6
    <3>5. CASE x < e
      <4>1. timerList'[1] = timerList[1] /\ timerList'[2] = t
        BY <1>4, <3>3, <3>5
      <4> QED BY <1>0, <3>1, <3>4, <3>5, <4>1
    <3>6. CASE ~(x < e)
      <4>1. timerList'[1] = t /\ timerList'[2] = timerList[1]
        BY <1>4, <3>3, <3>6
      <4> QED BY <1>0, <3>1, <3>4, <3>6, <4>1
    <3> QED BY <3>5, <3>6
  <2>6. Linked' = {timerList'[i] : i \in 1 .. n + 1}
    BY <1>4 DEF Linked
  <2> QED BY <1>1, <1>4, <2>1, <2>4, <2>5, <2>6 DEF SoonestFirst
<1> QED BY <1>7, <1>8, <1>9, <1>10, <1>11 DEF JiffyInv

(* del_timer.                                                                *)
LEMMA ThreadDeletesStep ==
  ASSUME JiffyInv, NEW t \in TimerIds, ThreadDeletes(t)
  PROVE  JiffyInv'
<1> DEFINE n == Len(timerList)
<1>1. PICK p \in DOMAIN timerList : timerList[p] = t /\ timerList' = Unlinked(p)
  BY DEF ThreadDeletes
<1>2. /\ timerList \in Seq(TimerIds) /\ n \in Nat /\ DOMAIN timerList = 1 .. n
      /\ p \in 1 .. n /\ expires \in [TimerIds -> Nat]
  BY DEF JiffyInv, JiffyTypes
<1>3. /\ expires' = [expires EXCEPT ![t] = 0]
      /\ UNCHANGED <<ticks, handler, done, sleeper, tickLog>>
  BY DEF ThreadDeletes
<1>4. /\ timerList' \in Seq(TimerIds) /\ Len(timerList') = n - 1
      /\ DOMAIN timerList' = 1 .. n - 1
      /\ \A i \in 1 .. n - 1 :
           timerList'[i] = IF i < p THEN timerList[i] ELSE timerList[i + 1]
  <2>1. /\ Unlinked(p) \in Seq(TimerIds) /\ Len(Unlinked(p)) = n - 1
        /\ \A i \in 1 .. n - 1 :
             Unlinked(p)[i] = IF i < p THEN timerList[i] ELSE timerList[i + 1]
    BY <1>2, UnlinkedIs
  <2>2. DOMAIN Unlinked(p) = 1 .. n - 1
    BY <2>1
  <2> QED BY ONLY <1>1, <2>1, <2>2
<1>5. \A i, j \in 1 .. n : timerList[i] = timerList[j] => i = j
  BY <1>2 DEF JiffyInv, ListedOnce
<1> HIDE DEF n
<1>6. ASSUME NEW i \in 1 .. n - 1
      PROVE  \E j \in 1 .. n : j # p /\ timerList'[i] = timerList[j]
                               /\ j = IF i < p THEN i ELSE i + 1
  <2>1. CASE i < p
    <3>1. i \in 1 .. n /\ i # p /\ timerList'[i] = timerList[i]
      BY <1>2, <1>4, <2>1
    <3> QED BY <2>1, <3>1
  <2>2. CASE ~(i < p)
    <3>1. i + 1 \in 1 .. n /\ i + 1 # p /\ timerList'[i] = timerList[i + 1]
      BY <1>2, <1>4, <2>2
    <3> QED BY <2>2, <3>1
  <2> QED BY <2>1, <2>2
<1>7. ASSUME NEW i \in 1 .. n - 1
      PROVE  /\ timerList'[i] \in Linked /\ timerList'[i] \in TimerIds
             /\ expires'[timerList'[i]] = expires[timerList'[i]]
  <2>1. PICK j \in 1 .. n : j # p /\ timerList'[i] = timerList[j]
    BY <1>6
  <2>2. timerList[j] # t /\ timerList[j] \in TimerIds
    BY <1>1, <1>2, <1>5, <2>1
  <2> QED BY <1>2, <1>3, <2>1, <2>2 DEF Linked
<1>8. JiffyTypes'
  BY <1>2, <1>3, <1>4 DEF JiffyInv, JiffyTypes
<1>9. ListedOnce'
  <2> SUFFICES ASSUME NEW i \in 1 .. n - 1, NEW j \in 1 .. n - 1,
                      timerList'[i] = timerList'[j]
               PROVE  i = j
    BY <1>4 DEF ListedOnce
  <2>1. PICK k \in 1 .. n : timerList'[i] = timerList[k]
                            /\ k = IF i < p THEN i ELSE i + 1
    BY <1>6
  <2>2. PICK l \in 1 .. n : timerList'[j] = timerList[l]
                            /\ l = IF j < p THEN j ELSE j + 1
    BY <1>6
  <2>3. k = l
    BY <1>5, <2>1, <2>2
  <2>4. i \in Nat /\ j \in Nat /\ p \in Nat
    BY <1>2
  <2> QED BY <2>1, <2>2, <2>3, <2>4
<1>10. WithinReach'
  <2>1. ticks \in Nat /\ MaxDelay \in Nat
    BY JiffiesAssumption DEF JiffyInv, JiffyTypes
  <2> QED BY <1>2, <1>3, <2>1 DEF JiffyInv, WithinReach
<1>11. SoonestFirst'
  <2> SUFFICES ASSUME ~tickLog'.crowded PROVE SoonestFirst'
    BY DEF SoonestFirst
  <2>1. n <= 2 /\ (\A u \in Linked : expires[u] >= ticks)
        /\ (handler = "idle" => \A u \in Linked : expires[u] > ticks)
    BY <1>3 DEF JiffyInv, SoonestFirst, n
  <2>2. Linked' = {timerList'[i] : i \in 1 .. n - 1}
    BY <1>4 DEF Linked
  <2>3. \A u \in Linked' : u \in Linked /\ expires'[u] = expires[u]
    BY <1>7, <2>2
  <2>4. Len(timerList') <= 1 /\ Len(timerList') \in Int
    BY <1>2, <1>4, <2>1
  <2> QED BY <1>3, <2>1, <2>3, <2>4 DEF SoonestFirst
<1>12. ~tickLog'.early /\ done' + tickLog'.woken = tickLog'.completes
  BY <1>3 DEF JiffyInv
<1> QED BY <1>8, <1>9, <1>10, <1>11, <1>12 DEF JiffyInv

(* periodic_handler takes the timer at the head, which is due.               *)
LEMMA FireStep ==
  ASSUME JiffyInv, Fire
  PROVE  JiffyInv'
<1> DEFINE n == Len(timerList)
           h == Head(timerList)
<1>0. /\ MaxDelay \in Nat /\ Wrap \in Nat /\ 0 < MaxDelay /\ 2 * MaxDelay < Wrap
      /\ ticks \in Nat
  BY JiffiesAssumption DEF JiffyInv, JiffyTypes
<1>1. /\ timerList \in Seq(TimerIds) /\ n \in Nat \ {0} /\ DOMAIN timerList = 1 .. n
      /\ h = timerList[1] /\ h \in TimerIds /\ expires \in [TimerIds -> Nat]
  <2>1. timerList \in Seq(TimerIds) /\ timerList # <<>> /\ expires \in [TimerIds -> Nat]
    BY DEF JiffyInv, JiffyTypes, Fire, HeadDue
  <2> QED BY <2>1
<1>2. /\ handler = "scans" /\ handler' = "calls" /\ timerList' = Tail(timerList)
      /\ expires' = [expires EXCEPT ![h] = 0]
      /\ tickLog' = [tickLog EXCEPT !.early = @ \/ expires[h] > ticks]
      /\ ~NotExpired(Wrapped(expires[h]), Now)
      /\ UNCHANGED <<ticks, done, sleeper>>
  BY DEF Fire, HeadDue
<1>3. /\ timerList' \in Seq(TimerIds) /\ Len(timerList') = n - 1
      /\ DOMAIN timerList' = 1 .. n - 1
      /\ \A i \in 1 .. n - 1 : timerList'[i] = timerList[i + 1]
  BY <1>1, <1>2
<1>4. expires[h] \in Nat /\ expires[h] <= ticks + MaxDelay
  BY <1>1 DEF JiffyInv, WithinReach
<1>5. ~(expires[h] > ticks)
  <2> SUFFICES ASSUME expires[h] > ticks PROVE FALSE
    OBVIOUS
  <2>1. 2 * (expires[h] - ticks) < Wrap /\ 2 * (ticks - expires[h]) < Wrap
    BY <1>0, <1>4
  <2>2. SignedDiff(Wrapped(expires[h]), Wrapped(ticks)) = expires[h] - ticks
    BY <1>0, <1>4, <2>1, SignedDiffIs
  <2> QED BY <1>0, <1>2, <1>4, <2>2 DEF NotExpired, Now
<1>6. tickLog' = tickLog
  <2>1. /\ tickLog \in [crowded : BOOLEAN, early : BOOLEAN, completes : Nat, woken : Nat]
        /\ ~tickLog.early
    BY DEF JiffyInv, JiffyTypes
  <2> DEFINE c == tickLog.early \/ expires[h] > ticks
  <2>2. c = FALSE /\ tickLog.early = FALSE
    BY <1>5, <2>1
  <2>3. tickLog' = [tickLog EXCEPT !.early = c]
    BY <1>2
  <2> HIDE DEF c
  <2> QED BY <2>1, <2>2, <2>3
<1>7. \A i, j \in 1 .. n : timerList[i] = timerList[j] => i = j
  BY <1>1 DEF JiffyInv, ListedOnce
<1> HIDE DEF h
<1>8. ASSUME NEW i \in 1 .. n - 1
      PROVE  /\ timerList'[i] \in Linked /\ timerList'[i] \in TimerIds
             /\ expires'[timerList'[i]] = expires[timerList'[i]]
  <2>1. i + 1 \in 1 .. n /\ 1 \in 1 .. n /\ i + 1 # 1 /\ timerList'[i] = timerList[i + 1]
    BY <1>1, <1>3
  <2>2. timerList[i + 1] # h /\ timerList[i + 1] \in TimerIds
    BY <1>1, <1>7, <2>1
  <2> QED BY <1>1, <1>2, <2>1, <2>2 DEF Linked
<1>9. JiffyTypes'
  BY <1>1, <1>2, <1>3, <1>6 DEF JiffyInv, JiffyTypes
<1>10. ListedOnce'
  <2> SUFFICES ASSUME NEW i \in 1 .. n - 1, NEW j \in 1 .. n - 1,
                      timerList'[i] = timerList'[j]
               PROVE  i = j
    BY <1>3 DEF ListedOnce
  <2>1. /\ i + 1 \in 1 .. n /\ j + 1 \in 1 .. n
        /\ timerList[i + 1] = timerList[j + 1] /\ i \in Nat /\ j \in Nat
    BY <1>1, <1>3
  <2>2. i + 1 = j + 1
    BY <1>7, <2>1
  <2> QED BY ONLY <2>1, <2>2
<1>11. WithinReach'
  BY <1>0, <1>1, <1>2 DEF JiffyInv, WithinReach
<1>12. SoonestFirst'
  <2> SUFFICES ASSUME ~tickLog'.crowded PROVE SoonestFirst'
    BY DEF SoonestFirst
  <2>1. n <= 2 /\ (\A u \in Linked : expires[u] >= ticks)
    BY <1>6 DEF JiffyInv, SoonestFirst
  <2>2. Linked' = {timerList'[i] : i \in 1 .. n - 1}
    BY <1>3 DEF Linked
  <2>3. \A u \in Linked' : u \in Linked /\ expires'[u] = expires[u]
    BY <1>8, <2>2
  <2>4. Len(timerList') <= 1 /\ Len(timerList') \in Int
    BY <1>1, <1>3, <2>1
  <2> QED BY <1>2, <2>1, <2>3, <2>4 DEF SoonestFirst
<1>13. ~tickLog'.early /\ done' + tickLog'.woken = tickLog'.completes
  BY <1>2, <1>6 DEF JiffyInv
<1> QED BY <1>9, <1>10, <1>11, <1>12, <1>13 DEF JiffyInv

(* The clock ticks.                                                          *)
LEMMA TickStep ==
  ASSUME JiffyInv, Tick
  PROVE  JiffyInv'
<1>0. /\ MaxDelay \in Nat /\ MaxTicks \in Nat /\ ticks \in Nat
      /\ timerList \in Seq(TimerIds) /\ expires \in [TimerIds -> Nat]
      /\ sleeper \in [asleep : BOOLEAN, start : Nat, timeout : Nat]
  BY JiffiesAssumption DEF JiffyInv, JiffyTypes
<1>1. /\ ticks' = ticks + 1 /\ ticks < MaxTicks /\ handler = "idle"
      /\ handler' = "scans"
      /\ UNCHANGED <<timerList, expires, done, sleeper, tickLog>>
  BY DEF Tick
<1>2. JiffyTypes'
  BY <1>0, <1>1 DEF JiffyInv, JiffyTypes
<1>3. ListedOnce'
  BY <1>1 DEF JiffyInv, ListedOnce
<1>4. WithinReach'
  <2>1. sleeper.start \in Nat
    BY <1>0
  <2>2. \A t \in TimerIds : expires[t] \in Nat
    BY <1>0
  <2> QED BY <1>0, <1>1, <2>1, <2>2 DEF JiffyInv, WithinReach
<1>5. SoonestFirst'
  <2>1. Linked \subseteq TimerIds /\ Linked' = Linked
    BY <1>0, <1>1 DEF Linked
  <2>2. \A t \in Linked : expires[t] \in Nat /\ (expires[t] > ticks => expires[t] >= ticks + 1)
    BY <1>0, <2>1
  <2> QED BY <1>1, <2>1, <2>2 DEF JiffyInv, SoonestFirst
<1>6. ~tickLog'.early /\ done' + tickLog'.woken = tickLog'.completes
  BY <1>1 DEF JiffyInv
<1> QED BY <1>2, <1>3, <1>4, <1>5, <1>6 DEF JiffyInv

(* The handler returns, when what is at the head is not due.                 *)
LEMMA TickEndsStep ==
  ASSUME JiffyInv, TickEnds
  PROVE  JiffyInv'
<1>0. /\ MaxDelay \in Nat /\ Wrap \in Nat /\ 0 < MaxDelay /\ 2 * MaxDelay < Wrap
      /\ ticks \in Nat
  BY JiffiesAssumption DEF JiffyInv, JiffyTypes
<1>1. /\ timerList \in Seq(TimerIds) /\ expires \in [TimerIds -> Nat]
  BY DEF JiffyInv, JiffyTypes
<1>2. /\ handler = "scans" /\ handler' = "idle" /\ ~HeadDue
      /\ UNCHANGED <<ticks, timerList, expires, done, sleeper, tickLog>>
  BY DEF TickEnds
<1>3. JiffyTypes' /\ ListedOnce' /\ WithinReach'
  BY <1>2 DEF JiffyInv, JiffyTypes, ListedOnce, WithinReach
<1>4. SoonestFirst'
  <2> SUFFICES ASSUME ~tickLog.crowded
               PROVE  \A i \in 1 .. Len(timerList) : expires[timerList[i]] > ticks
    BY <1>1, <1>2 DEF JiffyInv, SoonestFirst, Linked
  <2>1. /\ Len(timerList) <= 2 /\ Len(timerList) \in Nat
        /\ \A i \in 1 .. Len(timerList) : /\ timerList[i] \in TimerIds
                                          /\ expires[timerList[i]] \in Nat
                                          /\ expires[timerList[i]] >= ticks
                                          /\ expires[timerList[i]] <= ticks + MaxDelay
        /\ Len(timerList) = 2 => expires[timerList[1]] <= expires[timerList[2]]
    BY <1>1 DEF JiffyInv, SoonestFirst, Linked, WithinReach
  <2>2. CASE Len(timerList) = 0
    BY <2>2
  <2>3. CASE Len(timerList) >= 1
    <3> DEFINE e == expires[timerList[1]]
    <3>1. e \in Nat /\ e >= ticks /\ e <= ticks + MaxDelay
      BY <2>1, <2>3
    <3>2. timerList # <<>> /\ Head(timerList) = timerList[1]
      BY <1>1, <2>3
    <3>3. NotExpired(Wrapped(e), Wrapped(ticks))
      BY <1>2, <3>2 DEF HeadDue, Now
    <3>4. 2 * (e - ticks) < Wrap /\ 2 * (ticks - e) < Wrap
      BY <1>0, <3>1
    <3> HIDE DEF e
    <3>5. e > ticks
      BY <1>0, <3>1, <3>3, <3>4, SignedDiffIs DEF NotExpired
    <3> SUFFICES ASSUME NEW i \in 1 .. Len(timerList) PROVE expires[timerList[i]] > ticks
      OBVIOUS
    <3>6. i = 1 \/ (i = 2 /\ Len(timerList) = 2)
      <4>1. Len(timerList) \in Nat /\ Len(timerList) <= 2 /\ i \in 1 .. Len(timerList)
        BY <2>1
      <4> DEFINE n == Len(timerList)
      <4>2. n \in Nat /\ n <= 2 /\ i \in 1 .. n
        BY <4>1
      <4> HIDE DEF n
      <4>3. i = 1 \/ (i = 2 /\ n = 2)
        BY ONLY <4>2
      <4> QED BY <4>3 DEF n
    <3>7. CASE i = 1
      BY <3>5, <3>7 DEF e
    <3>8. CASE i = 2 /\ Len(timerList) = 2
      BY <1>0, <2>1, <3>5, <3>8 DEF e
    <3> QED BY <3>6, <3>7, <3>8
  <2> QED BY <2>1, <2>2, <2>3
<1>5. ~tickLog'.early /\ done' + tickLog'.woken = tickLog'.completes
  BY <1>2 DEF JiffyInv
<1> QED BY <1>3, <1>4, <1>5 DEF JiffyInv

(* A waiting thread gives up only when its time is over.                     *)
LEMMA WaitTimesOutStep ==
  ASSUME JiffyInv, WaitTimesOut
  PROVE  JiffyInv'
<1>0. /\ MaxDelay \in Nat /\ ticks \in Nat /\ Wrap \in Nat \ {0}
      /\ sleeper \in [asleep : BOOLEAN, start : Nat, timeout : Nat]
      /\ sleeper.start <= ticks
      /\ tickLog \in [crowded : BOOLEAN, early : BOOLEAN, completes : Nat, woken : Nat]
      /\ ~tickLog.early
  BY JiffiesAssumption DEF JiffyInv, JiffyTypes, WithinReach
<1>1. /\ Wrapped(Now - Wrapped(sleeper.start)) >= sleeper.timeout
      /\ sleeper' = Awake
      /\ tickLog' = [tickLog EXCEPT !.early = @ \/ ticks - sleeper.start < sleeper.timeout]
      /\ UNCHANGED <<ticks, timerList, expires, handler, done>>
  BY DEF WaitTimesOut
<1>2. ~(ticks - sleeper.start < sleeper.timeout)
  <2> DEFINE s == sleeper.start  w == Wrapped(Wrapped(ticks) - Wrapped(s))
  <2>1. s \in Nat /\ sleeper.timeout \in Nat /\ s <= ticks
    BY <1>0
  <2>2. w <= ticks - s
    BY <1>0, <2>1, WrappedAtMost
  <2>3. w \in Int
    BY <1>0, <2>1 DEF Wrapped
  <2>4. w >= sleeper.timeout
    BY <1>1 DEF Now
  <2> HIDE DEF w
  <2> QED BY <1>0, <2>1, <2>2, <2>3, <2>4
<1>3. tickLog' = tickLog
  <2> DEFINE c == tickLog.early \/ ticks - sleeper.start < sleeper.timeout
  <2>1. c = FALSE /\ tickLog.early = FALSE
    BY <1>0, <1>2
  <2>2. tickLog' = [tickLog EXCEPT !.early = c]
    BY <1>1
  <2> HIDE DEF c
  <2> QED BY <1>0, <2>1, <2>2
<1>4. JiffyTypes'
  BY <1>1, <1>3 DEF JiffyInv, JiffyTypes, Awake
<1>5. sleeper'.start <= ticks /\ sleeper'.timeout <= MaxDelay
  BY <1>0, <1>1 DEF Awake
<1>6. done' + tickLog'.woken = tickLog'.completes
  BY <1>1, <1>3 DEF JiffyInv
<1> QED BY <1>1, <1>3, <1>4, <1>5, <1>6, JiffyQuiet

(* complete, and the thread that waits.                                      *)
LEMMA CompletionStep ==
  ASSUME JiffyInv, Complete \/ WaitCall \/ WaitDone
  PROVE  JiffyInv'
<1>0. /\ MaxDelay \in Nat /\ ticks \in Nat /\ done \in Nat
      /\ sleeper \in [asleep : BOOLEAN, start : Nat, timeout : Nat]
      /\ sleeper.start <= ticks /\ sleeper.timeout <= MaxDelay
      /\ tickLog \in [crowded : BOOLEAN, early : BOOLEAN, completes : Nat, woken : Nat]
      /\ done + tickLog.woken = tickLog.completes
  BY JiffiesAssumption DEF JiffyInv, JiffyTypes, WithinReach
<1> DEFINE c == tickLog.completes + 1
           w == tickLog.woken + 1
<1>1. c \in Nat /\ w \in Nat
  BY <1>0
<1>2. CASE Complete
  <2>1. /\ tickLog' = [tickLog EXCEPT !.completes = c] /\ done' = done + 1
        /\ UNCHANGED <<ticks, timerList, expires, handler, sleeper>>
    BY <1>2 DEF Complete
  <2> HIDE DEF c
  <2>2. /\ tickLog' \in [crowded : BOOLEAN, early : BOOLEAN, completes : Nat, woken : Nat]
        /\ tickLog'.completes = c /\ tickLog'.woken = tickLog.woken
        /\ tickLog'.crowded = tickLog.crowded /\ tickLog'.early = tickLog.early
    BY <1>0, <1>1, <2>1
  <2>3. JiffyTypes'
    BY <1>0, <2>1, <2>2 DEF JiffyInv, JiffyTypes
  <2>4. done' + tickLog'.woken = tickLog'.completes
    BY <1>0, <2>1, <2>2 DEF c
  <2> QED BY <1>0, <2>1, <2>2, <2>3, <2>4, JiffyQuiet
<1>3. CASE WaitCall
  <2>1. PICK timeout \in 1 .. MaxDelay :
          sleeper' = [asleep |-> TRUE, start |-> ticks, timeout |-> timeout]
    BY <1>3 DEF WaitCall
  <2>2. UNCHANGED <<ticks, timerList, expires, handler, done, tickLog>>
    BY <1>3 DEF WaitCall
  <2>3. /\ sleeper' \in [asleep : BOOLEAN, start : Nat, timeout : Nat]
        /\ sleeper'.start <= ticks /\ sleeper'.timeout <= MaxDelay
    BY <1>0, <2>1
  <2>4. JiffyTypes'
    BY <2>2, <2>3 DEF JiffyInv, JiffyTypes
  <2> QED BY <1>0, <2>2, <2>3, <2>4, JiffyQuiet
<1>4. CASE WaitDone
  <2>1. /\ tickLog' = [tickLog EXCEPT !.woken = w] /\ done' = done - 1 /\ done > 0
        /\ sleeper' = Awake
        /\ UNCHANGED <<ticks, timerList, expires, handler>>
    BY <1>4 DEF WaitDone
  <2> HIDE DEF w
  <2>2. /\ tickLog' \in [crowded : BOOLEAN, early : BOOLEAN, completes : Nat, woken : Nat]
        /\ tickLog'.completes = tickLog.completes /\ tickLog'.woken = w
        /\ tickLog'.crowded = tickLog.crowded /\ tickLog'.early = tickLog.early
    BY <1>0, <1>1, <2>1
  <2>3. /\ sleeper' \in [asleep : BOOLEAN, start : Nat, timeout : Nat]
        /\ sleeper'.start <= ticks /\ sleeper'.timeout <= MaxDelay
    BY <1>0, <2>1 DEF Awake
  <2>4. JiffyTypes'
    BY <1>0, <2>1, <2>2, <2>3 DEF JiffyInv, JiffyTypes
  <2>5. done' + tickLog'.woken = tickLog'.completes
    <3>1. tickLog.woken \in Nat /\ tickLog.completes \in Nat
      BY <1>0
    <3> QED BY <1>0, <2>1, <2>2, <3>1 DEF w
  <2> QED BY <1>0, <2>1, <2>2, <2>3, <2>4, <2>5, JiffyQuiet
<1> QED BY <1>2, <1>3, <1>4

(* Nothing happens.                                                          *)
LEMMA JiffyStutter ==
  ASSUME JiffyInv, UNCHANGED <<ticks, timerList, expires, done, sleeper, tickLog>>,
         UNCHANGED handler \/ (handler = "calls" /\ handler' = "scans")
  PROVE  JiffyInv'
BY DEF JiffyInv, JiffyTypes, ListedOnce, WithinReach, SoonestFirst, Linked

(* Every action keeps the invariant.                                         *)
LEMMA JiffyStep == JiffyInv /\ [JiffiesNext]_jiffyVars => JiffyInv'
<1> SUFFICES ASSUME JiffyInv, [JiffiesNext]_jiffyVars PROVE JiffyInv'
  OBVIOUS
<1>1. ASSUME NEW t \in TimerIds, ThreadAdds(t) PROVE JiffyInv'
  <2>1. PICK delay \in 1 .. MaxDelay : AddTimer(t, delay)
    BY <1>1 DEF ThreadAdds
  <2>2. UNCHANGED <<ticks, done, sleeper>> /\ handler' = "idle" /\ handler = "idle"
    BY <1>1 DEF ThreadAdds
  <2> QED BY <2>1, <2>2, AddTimerStep
<1>2. CASE Function
  <2>1. UNCHANGED <<ticks, done, sleeper>> /\ handler' = "scans" /\ handler = "calls"
    BY <1>2 DEF Function
  <2>2. ASSUME NEW t \in TimerIds, NEW delay \in 1 .. MaxDelay, AddTimer(t, delay)
        PROVE  JiffyInv'
    BY <2>1, <2>2, AddTimerStep
  <2>3. CASE UNCHANGED <<timerList, expires, tickLog>>
    BY <2>1, <2>3, JiffyStutter
  <2> QED BY <1>2, <2>2, <2>3 DEF Function
<1>3. CASE UNCHANGED jiffyVars
  BY <1>3, JiffyStutter DEF jiffyVars
<1> QED
  BY <1>1, <1>2, <1>3, ThreadDeletesStep, FireStep, TickStep, TickEndsStep,
     WaitTimesOutStep, CompletionStep DEF JiffiesNext

(* The list of timers and the tick counter keep their types.                 *)
LEMMA JiffyTyped == JiffyInv => JiffiesTypeOK
<1> SUFFICES ASSUME JiffyInv PROVE JiffiesTypeOK
  OBVIOUS
<1>1. MaxTicks \in Nat /\ MaxDelay \in Nat
  BY JiffiesAssumption
<1>2. /\ ticks \in 0 .. MaxTicks /\ done \in Nat /\ timerList \in Seq(TimerIds)
      /\ handler \in {"idle", "scans", "calls"} /\ ticks \in Nat
      /\ tickLog \in [crowded : BOOLEAN, early : BOOLEAN, completes : Nat, woken : Nat]
  BY <1>1 DEF JiffyInv, JiffyTypes
<1>3. expires \in [TimerIds -> 0 .. MaxTicks + MaxDelay]
  <2>1. expires \in [TimerIds -> Nat] /\ \A t \in TimerIds : expires[t] <= ticks + MaxDelay
    BY DEF JiffyInv, JiffyTypes, WithinReach
  <2>2. \A t \in TimerIds : expires[t] \in 0 .. MaxTicks + MaxDelay
    <3> TAKE t \in TimerIds
    <3>1. expires[t] \in Nat /\ expires[t] <= ticks + MaxDelay
      BY <2>1
    <3>2. ticks \in 0 .. MaxTicks
      BY <1>2
    <3> QED BY ONLY <1>1, <3>1, <3>2
  <2> QED BY <2>1, <2>2
<1>4. sleeper \in [asleep : BOOLEAN, start : 0 .. MaxTicks, timeout : 0 .. MaxDelay]
  BY <1>1, <1>2 DEF JiffyInv, JiffyTypes, WithinReach
<1> QED BY <1>2, <1>3, <1>4 DEF JiffiesTypeOK

(* The types of the timers: the list holds timers, and every time that is    *)
(* set lies within the ticks and the longest delay (add_timer,               *)
(* periodic_handler, wait_for_completion_interruptible_timeout).             *)
THEOREM JiffiesTypes == JiffiesSpec => []JiffiesTypeOK
<1> QED BY JiffyInitially, JiffyStep, JiffyTyped, PTL DEF JiffiesSpec

(* Whatever jiffies wraps at, provided that is more than twice the longest   *)
(* delay: no timer and no timeout ends before its time, no timer is late     *)
(* while there are at most two, and no completion is lost (add_timer,        *)
(* periodic_handler, wait_for_completion_interruptible_timeout).             *)
THEOREM TimersOnTime == JiffiesSpec => []JiffiesOnTime
<1>1. JiffyInv => JiffiesOnTime
  <2> SUFFICES ASSUME JiffyInv PROVE JiffiesOnTime
    OBVIOUS
  <2>1. handler = "idle" /\ ~tickLog.crowded => \A t \in Linked : expires[t] > ticks
    BY DEF JiffyInv, SoonestFirst
  <2> QED BY <2>1 DEF JiffyInv, JiffiesOnTime
<1> QED BY <1>1, JiffyInitially, JiffyStep, PTL DEF JiffiesSpec

-----------------------------------------------------------------------------
(* What a user process is told.                                              *)

(* The reasons of the completions, and the records of the semaphores.        *)
Reasons == {"MESSAGE_AVAILABLE", "SERVICE_CLOSED"}
Sems == [insert : Nat, remove : Nat, msgInsert : Nat, msgRemove : Nat, close : Nat]

(* The types, and the bounds of the two rings.                               *)
PortTypes ==
  /\ ring \in Seq(Reasons) /\ Len(ring) <= RingSize
  /\ removed \in Nat /\ received \in Nat
  /\ inbox \in Seq(Nat) /\ Len(inbox) <= InboxSize
  /\ port \in [available : Int, pending : BOOLEAN, closePending : BOOLEAN,
               there : BOOLEAN, refs : Int]
  /\ sems \in Sems
  /\ shutting \in BOOLEAN /\ delivering \in BOOLEAN
  /\ telling \in [at : {"idle", "full", "insert", "add", "extra", "addDown", "extraDown"},
                  reason : Reasons \cup {"none"}]
  /\ awaiter \in [at : {"idle", "down", "copy", "advance", "handle"}, got : Seq(Reasons)]
  /\ dequeuer \in {"idle", "blocked", "interrupted"}
  /\ portCloser \in {"idle", "closing", "down"}
  /\ file \in {"open", "releasing", "released"}

(* message_available_pos is that of a MESSAGE_AVAILABLE in the ring, or it   *)
(* has been removed.                                                         *)
Position ==
  /\ port.available >= -1 /\ port.available < Filled
  /\ port.available >= removed =>
       ring[port.available - removed + 1] = "MESSAGE_AVAILABLE"

(* What the slot handler wants to tell.                                      *)
Reason ==
  /\ telling.at \in {"add", "addDown"} => telling.reason \in Reasons
  /\ telling.at \in {"extra", "extraDown"} => telling.reason = "MESSAGE_AVAILABLE"
  /\ ~port.there => telling.at = "idle"

(* What the completion thread was given.                                     *)
Given ==
  /\ awaiter.at \in {"idle", "down"} => awaiter.got = <<>>
  /\ awaiter.at = "advance" =>
       /\ ring # <<>> /\ awaiter.got # <<>>
       /\ awaiter.got[Len(awaiter.got)] = Head(ring)
  /\ file # "open" => awaiter.at = "idle"

(* dequeue_pending is set for a thread that is yet to be woken.              *)
Pending ==
  /\ port.pending /\ port.there =>
       inbox = <<>> /\ dequeuer \in {"blocked", "interrupted"}
  /\ dequeuer = "blocked" /\ inbox # <<>> => sems.msgInsert > 0

(* A second message has a completion.                                        *)
SecondTold ==
  Len(inbox) >= 2 /\ port.there /\ ~shutting /\ telling.at \in {"idle", "full"} =>
    Has(ring, "MESSAGE_AVAILABLE") \/ Has(awaiter.got, "MESSAGE_AVAILABLE")

(* Of a message in the queue somebody in the process will know.              *)
FirstTold ==
  inbox # <<>> /\ port.there /\ ~shutting /\ telling.at \in {"idle", "full"} => WillLook

(* The slot handler waits for room only while there is none, or somebody has *)
(* given the semaphore it waits for.                                         *)
RoomMade ==
  /\ telling.at = "insert" => Len(inbox) < InboxSize
  /\ telling.at \in {"full", "extra", "extraDown"} /\ Len(inbox) < InboxSize =>
       sems.msgRemove > 0
  /\ telling.at \in {"addDown", "extraDown"} /\ Len(ring) < RingSize =>
       sems.remove > 0 \/ awaiter.at = "advance"
       \/ (awaiter.at = "copy" /\ awaiter.got # <<>>)

(* CLOSED comes last, and once.                                              *)
ClosedLast ==
  /\ \A i \in DOMAIN ring : ring[i] = "SERVICE_CLOSED" => i = Len(ring) /\ ~port.there
  /\ Has(awaiter.got, "SERVICE_CLOSED") =>
       /\ ~port.there
       /\ IF awaiter.at = "advance"
          THEN Len(ring) = 1 /\ ring[1] = "SERVICE_CLOSED"
          ELSE ring = <<>>
  /\ \A i \in DOMAIN awaiter.got :
       awaiter.got[i] = "SERVICE_CLOSED" => i = Len(awaiter.got)

(* CLOSED is in the ring, and the thread that was given it has not moved     *)
(* completion_remove past it.                                                *)
ClosedWaits ==
  Len(ring) > 0 /\ ring[Len(ring)] = "SERVICE_CLOSED"
  /\ ~(Len(ring) = 1 /\ awaiter.at = "advance")

(* The reference that CLOSED holds on the service, by where CLOSED is.       *)
ClosedCounts ==
  /\ port.there => port.refs = 0 /\ ~port.closePending
  /\ delivering /\ Has(ring, "SERVICE_CLOSED") => port.closePending
  /\ file # "released" =>
       port.refs = IF delivering THEN IF port.closePending THEN 1 ELSE 0
                   ELSE IF ClosedWaits THEN 1 ELSE 0
  /\ file = "released" => ring = <<>> /\ port.refs \in 0 .. 1 /\ ~port.there

(* The inductive invariant of a user process's service.                      *)
PortInv ==
  /\ PortTypes /\ Position /\ Reason /\ Given /\ Pending /\ SecondTold /\ FirstTold
  /\ RoomMade /\ ClosedLast /\ ClosedCounts

(* insert_event is upped, or downed.                                       *)
LEMMA UpInsert ==
  ASSUME sems \in Sems
  PROVE  /\ UpSem("insert") \in Sems
         /\ UpSem("insert").insert = sems.insert + 1
         /\ UpSem("insert").remove = sems.remove
         /\ UpSem("insert").msgInsert = sems.msgInsert
         /\ UpSem("insert").msgRemove = sems.msgRemove
         /\ UpSem("insert").close = sems.close
<1> DEFINE v == sems.insert + 1
<1>1. v \in Nat
  BY DEF Sems
<1>2. UpSem("insert") = [sems EXCEPT !.insert = v]
  BY DEF UpSem
<1> HIDE DEF v
<1>3. /\ UpSem("insert") \in Sems /\ UpSem("insert").insert = v
      /\ UpSem("insert").remove = sems.remove
      /\ UpSem("insert").msgInsert = sems.msgInsert
      /\ UpSem("insert").msgRemove = sems.msgRemove
      /\ UpSem("insert").close = sems.close
  BY <1>1, <1>2 DEF Sems
<1> QED BY <1>3 DEF v

(* One down of insert_event.                                                 *)
LEMMA DownInsert ==
  ASSUME sems \in Sems, sems.insert > 0
  PROVE  /\ DownSem("insert") \in Sems
         /\ DownSem("insert").insert = sems.insert - 1
         /\ DownSem("insert").remove = sems.remove
         /\ DownSem("insert").msgInsert = sems.msgInsert
         /\ DownSem("insert").msgRemove = sems.msgRemove
         /\ DownSem("insert").close = sems.close
<1> DEFINE v == sems.insert - 1
<1>1. v \in Nat
  BY DEF Sems
<1>2. DownSem("insert") = [sems EXCEPT !.insert = v]
  BY DEF DownSem
<1> HIDE DEF v
<1>3. /\ DownSem("insert") \in Sems /\ DownSem("insert").insert = v
      /\ DownSem("insert").remove = sems.remove
      /\ DownSem("insert").msgInsert = sems.msgInsert
      /\ DownSem("insert").msgRemove = sems.msgRemove
      /\ DownSem("insert").close = sems.close
  BY <1>1, <1>2 DEF Sems
<1> QED BY <1>3 DEF v

(* remove_event is upped, or downed.                                       *)
LEMMA UpRemove ==
  ASSUME sems \in Sems
  PROVE  /\ UpSem("remove") \in Sems
         /\ UpSem("remove").insert = sems.insert
         /\ UpSem("remove").remove = sems.remove + 1
         /\ UpSem("remove").msgInsert = sems.msgInsert
         /\ UpSem("remove").msgRemove = sems.msgRemove
         /\ UpSem("remove").close = sems.close
<1> DEFINE v == sems.remove + 1
<1>1. v \in Nat
  BY DEF Sems
<1>2. UpSem("remove") = [sems EXCEPT !.remove = v]
  BY DEF UpSem
<1> HIDE DEF v
<1>3. /\ UpSem("remove") \in Sems /\ UpSem("remove").remove = v
      /\ UpSem("remove").insert = sems.insert
      /\ UpSem("remove").msgInsert = sems.msgInsert
      /\ UpSem("remove").msgRemove = sems.msgRemove
      /\ UpSem("remove").close = sems.close
  BY <1>1, <1>2 DEF Sems
<1> QED BY <1>3 DEF v

(* One down of remove_event.                                                 *)
LEMMA DownRemove ==
  ASSUME sems \in Sems, sems.remove > 0
  PROVE  /\ DownSem("remove") \in Sems
         /\ DownSem("remove").insert = sems.insert
         /\ DownSem("remove").remove = sems.remove - 1
         /\ DownSem("remove").msgInsert = sems.msgInsert
         /\ DownSem("remove").msgRemove = sems.msgRemove
         /\ DownSem("remove").close = sems.close
<1> DEFINE v == sems.remove - 1
<1>1. v \in Nat
  BY DEF Sems
<1>2. DownSem("remove") = [sems EXCEPT !.remove = v]
  BY DEF DownSem
<1> HIDE DEF v
<1>3. /\ DownSem("remove") \in Sems /\ DownSem("remove").remove = v
      /\ DownSem("remove").insert = sems.insert
      /\ DownSem("remove").msgInsert = sems.msgInsert
      /\ DownSem("remove").msgRemove = sems.msgRemove
      /\ DownSem("remove").close = sems.close
  BY <1>1, <1>2 DEF Sems
<1> QED BY <1>3 DEF v

(* msgInsert_event is upped, or downed.                                    *)
LEMMA UpMsgInsert ==
  ASSUME sems \in Sems
  PROVE  /\ UpSem("msgInsert") \in Sems
         /\ UpSem("msgInsert").insert = sems.insert
         /\ UpSem("msgInsert").remove = sems.remove
         /\ UpSem("msgInsert").msgInsert = sems.msgInsert + 1
         /\ UpSem("msgInsert").msgRemove = sems.msgRemove
         /\ UpSem("msgInsert").close = sems.close
<1> DEFINE v == sems.msgInsert + 1
<1>1. v \in Nat
  BY DEF Sems
<1>2. UpSem("msgInsert") = [sems EXCEPT !.msgInsert = v]
  BY DEF UpSem
<1> HIDE DEF v
<1>3. /\ UpSem("msgInsert") \in Sems /\ UpSem("msgInsert").msgInsert = v
      /\ UpSem("msgInsert").insert = sems.insert
      /\ UpSem("msgInsert").remove = sems.remove
      /\ UpSem("msgInsert").msgRemove = sems.msgRemove
      /\ UpSem("msgInsert").close = sems.close
  BY <1>1, <1>2 DEF Sems
<1> QED BY <1>3 DEF v

(* One down of the service's insert_event.                                   *)
LEMMA DownMsgInsert ==
  ASSUME sems \in Sems, sems.msgInsert > 0
  PROVE  /\ DownSem("msgInsert") \in Sems
         /\ DownSem("msgInsert").insert = sems.insert
         /\ DownSem("msgInsert").remove = sems.remove
         /\ DownSem("msgInsert").msgInsert = sems.msgInsert - 1
         /\ DownSem("msgInsert").msgRemove = sems.msgRemove
         /\ DownSem("msgInsert").close = sems.close
<1> DEFINE v == sems.msgInsert - 1
<1>1. v \in Nat
  BY DEF Sems
<1>2. DownSem("msgInsert") = [sems EXCEPT !.msgInsert = v]
  BY DEF DownSem
<1> HIDE DEF v
<1>3. /\ DownSem("msgInsert") \in Sems /\ DownSem("msgInsert").msgInsert = v
      /\ DownSem("msgInsert").insert = sems.insert
      /\ DownSem("msgInsert").remove = sems.remove
      /\ DownSem("msgInsert").msgRemove = sems.msgRemove
      /\ DownSem("msgInsert").close = sems.close
  BY <1>1, <1>2 DEF Sems
<1> QED BY <1>3 DEF v

(* msgRemove_event is upped, or downed.                                    *)
LEMMA UpMsgRemove ==
  ASSUME sems \in Sems
  PROVE  /\ UpSem("msgRemove") \in Sems
         /\ UpSem("msgRemove").insert = sems.insert
         /\ UpSem("msgRemove").remove = sems.remove
         /\ UpSem("msgRemove").msgInsert = sems.msgInsert
         /\ UpSem("msgRemove").msgRemove = sems.msgRemove + 1
         /\ UpSem("msgRemove").close = sems.close
<1> DEFINE v == sems.msgRemove + 1
<1>1. v \in Nat
  BY DEF Sems
<1>2. UpSem("msgRemove") = [sems EXCEPT !.msgRemove = v]
  BY DEF UpSem
<1> HIDE DEF v
<1>3. /\ UpSem("msgRemove") \in Sems /\ UpSem("msgRemove").msgRemove = v
      /\ UpSem("msgRemove").insert = sems.insert
      /\ UpSem("msgRemove").remove = sems.remove
      /\ UpSem("msgRemove").msgInsert = sems.msgInsert
      /\ UpSem("msgRemove").close = sems.close
  BY <1>1, <1>2 DEF Sems
<1> QED BY <1>3 DEF v

(* One down of the service's remove_event.                                   *)
LEMMA DownMsgRemove ==
  ASSUME sems \in Sems, sems.msgRemove > 0
  PROVE  /\ DownSem("msgRemove") \in Sems
         /\ DownSem("msgRemove").insert = sems.insert
         /\ DownSem("msgRemove").remove = sems.remove
         /\ DownSem("msgRemove").msgInsert = sems.msgInsert
         /\ DownSem("msgRemove").msgRemove = sems.msgRemove - 1
         /\ DownSem("msgRemove").close = sems.close
<1> DEFINE v == sems.msgRemove - 1
<1>1. v \in Nat
  BY DEF Sems
<1>2. DownSem("msgRemove") = [sems EXCEPT !.msgRemove = v]
  BY DEF DownSem
<1> HIDE DEF v
<1>3. /\ DownSem("msgRemove") \in Sems /\ DownSem("msgRemove").msgRemove = v
      /\ DownSem("msgRemove").insert = sems.insert
      /\ DownSem("msgRemove").remove = sems.remove
      /\ DownSem("msgRemove").msgInsert = sems.msgInsert
      /\ DownSem("msgRemove").close = sems.close
  BY <1>1, <1>2 DEF Sems
<1> QED BY <1>3 DEF v

(* close_event is upped, or downed.                                        *)
LEMMA UpClose ==
  ASSUME sems \in Sems
  PROVE  /\ UpSem("close") \in Sems
         /\ UpSem("close").insert = sems.insert
         /\ UpSem("close").remove = sems.remove
         /\ UpSem("close").msgInsert = sems.msgInsert
         /\ UpSem("close").msgRemove = sems.msgRemove
         /\ UpSem("close").close = sems.close + 1
<1> DEFINE v == sems.close + 1
<1>1. v \in Nat
  BY DEF Sems
<1>2. UpSem("close") = [sems EXCEPT !.close = v]
  BY DEF UpSem
<1> HIDE DEF v
<1>3. /\ UpSem("close") \in Sems /\ UpSem("close").close = v
      /\ UpSem("close").insert = sems.insert
      /\ UpSem("close").remove = sems.remove
      /\ UpSem("close").msgInsert = sems.msgInsert
      /\ UpSem("close").msgRemove = sems.msgRemove
  BY <1>1, <1>2 DEF Sems
<1> QED BY <1>3 DEF v

(* One down of close_event.                                                  *)
LEMMA DownClose ==
  ASSUME sems \in Sems, sems.close > 0
  PROVE  /\ DownSem("close") \in Sems
         /\ DownSem("close").insert = sems.insert
         /\ DownSem("close").remove = sems.remove
         /\ DownSem("close").msgInsert = sems.msgInsert
         /\ DownSem("close").msgRemove = sems.msgRemove
         /\ DownSem("close").close = sems.close - 1
<1> DEFINE v == sems.close - 1
<1>1. v \in Nat
  BY DEF Sems
<1>2. DownSem("close") = [sems EXCEPT !.close = v]
  BY DEF DownSem
<1> HIDE DEF v
<1>3. /\ DownSem("close") \in Sems /\ DownSem("close").close = v
      /\ DownSem("close").insert = sems.insert
      /\ DownSem("close").remove = sems.remove
      /\ DownSem("close").msgInsert = sems.msgInsert
      /\ DownSem("close").msgRemove = sems.msgRemove
  BY <1>1, <1>2 DEF Sems
<1> QED BY <1>3 DEF v

(* What a queue has, with something behind it or without its head.           *)
LEMMA HasAppend ==
  ASSUME NEW T, NEW s \in Seq(T), NEW x \in T, NEW r
  PROVE  Has(Append(s, x), r) <=> Has(s, r) \/ x = r
<1>1. /\ DOMAIN Append(s, x) = 1 .. Len(s) + 1 /\ Append(s, x)[Len(s) + 1] = x
      /\ \A i \in 1 .. Len(s) : Append(s, x)[i] = s[i]
      /\ DOMAIN s = 1 .. Len(s) /\ Len(s) \in Nat
  OBVIOUS
<1>2. \A i \in 1 .. Len(s) + 1 : i = Len(s) + 1 \/ i \in 1 .. Len(s)
  BY <1>1
<1>3. \A i \in 1 .. Len(s) : i \in 1 .. Len(s) + 1
  BY <1>1
<1>4. Len(s) + 1 \in 1 .. Len(s) + 1
  BY <1>1
<1> QED BY <1>1, <1>2, <1>3, <1>4 DEF Has

(* What is after the first entry is in the sequence.                         *)
LEMMA HasTail ==
  ASSUME NEW T, NEW s \in Seq(T), s # <<>>, NEW r
  PROVE  Has(s, r) <=> Head(s) = r \/ Has(Tail(s), r)
<1>1. /\ DOMAIN s = 1 .. Len(s) /\ Len(s) \in Nat \ {0} /\ Head(s) = s[1]
      /\ DOMAIN Tail(s) = 1 .. Len(s) - 1
      /\ \A i \in 1 .. Len(s) - 1 : Tail(s)[i] = s[i + 1]
  OBVIOUS
<1>2. \A i \in 1 .. Len(s) : i = 1 \/ (i - 1 \in 1 .. Len(s) - 1 /\ i - 1 + 1 = i)
  BY <1>1
<1>3. \A i \in 1 .. Len(s) - 1 : i + 1 \in 1 .. Len(s)
  BY <1>1
<1>4. 1 \in 1 .. Len(s)
  BY <1>1
<1>5. ASSUME Has(s, r), Head(s) # r PROVE Has(Tail(s), r)
  <2>1. PICK i \in 1 .. Len(s) : s[i] = r
    BY <1>1, <1>5 DEF Has
  <2>2. i # 1 /\ i - 1 \in 1 .. Len(s) - 1 /\ i - 1 + 1 = i
    BY <1>1, <1>2, <1>5, <2>1
  <2>3. Tail(s)[i - 1] = r
    BY <1>1, <2>1, <2>2
  <2> QED BY <1>1, <2>2, <2>3 DEF Has
<1>6. Has(Tail(s), r) => Has(s, r)
  BY <1>1, <1>3 DEF Has
<1>7. Head(s) = r => Has(s, r)
  BY <1>1, <1>4 DEF Has
<1> QED BY <1>5, <1>6, <1>7

(* There is nothing in the empty sequence.                                   *)
LEMMA HasNothing == ASSUME NEW r PROVE ~Has(<<>>, r)
BY DEF Has

(* The records of the service.                                               *)
PortRecord == [available : Int, pending : BOOLEAN, closePending : BOOLEAN,
               there : BOOLEAN, refs : Int]

(* Where the slot handler may be in service_callback.                        *)
Ats == {"idle", "full", "insert", "add", "extra", "addDown", "extraDown"}

(* The types, one by one.                                                    *)
LEMMA PortTyped ==
  ASSUME PortInv
  PROVE  /\ RingSize \in Nat \ {0} /\ InboxSize \in Nat \ {0} /\ MaxInbox \in Nat
         /\ ring \in Seq(Reasons) /\ Len(ring) \in Nat /\ Len(ring) <= RingSize
         /\ DOMAIN ring = 1 .. Len(ring)
         /\ removed \in Nat /\ received \in Nat
         /\ inbox \in Seq(Nat) /\ Len(inbox) \in Nat /\ Len(inbox) <= InboxSize
         /\ port \in PortRecord /\ sems \in Sems
         /\ shutting \in BOOLEAN /\ delivering \in BOOLEAN
         /\ telling.at \in Ats
         /\ awaiter.at \in {"idle", "down", "copy", "advance", "handle"}
         /\ awaiter.got \in Seq(Reasons) /\ Len(awaiter.got) \in Nat
         /\ DOMAIN awaiter.got = 1 .. Len(awaiter.got)
BY UserPortAssumption DEF PortInv, PortTypes, PortRecord, Ats

(* Both rings are empty at first and nobody waits.                           *)
LEMMA PortInitially == PortInit => PortInv
<1> SUFFICES ASSUME PortInit PROVE PortInv
  OBVIOUS
<1>0. RingSize \in Nat \ {0} /\ InboxSize \in Nat \ {0} /\ MaxInbox \in Nat
  BY UserPortAssumption
<1>1. PortTypes
  <2>1. port \in PortRecord
    BY DEF PortInit, UserService, PortRecord
  <2>2. sems \in Sems
    BY DEF PortInit, Sems
  <2>3. /\ ring = <<>> /\ removed = 0 /\ inbox = <<>> /\ received = 0
        /\ shutting \in BOOLEAN /\ delivering \in BOOLEAN
        /\ dequeuer = "idle" /\ portCloser = "idle" /\ file = "open"
    BY DEF PortInit
  <2>6. <<>> \in Seq(Reasons) /\ <<>> \in Seq(Nat) /\ Len(<<>>) = 0
    OBVIOUS
  <2>4. /\ telling \in [at : Ats, reason : Reasons \cup {"none"}]
    BY DEF PortInit, Ats
  <2>5. awaiter \in [at : {"idle", "down", "copy", "advance", "handle"}, got : Seq(Reasons)]
    BY <2>6 DEF PortInit
  <2> QED BY <1>0, <2>1, <2>2, <2>3, <2>4, <2>5, <2>6 DEF PortTypes, PortRecord, Ats
<1>2. Position /\ Reason /\ Given /\ Pending /\ SecondTold /\ FirstTold
  BY DEF PortInit, UserService, Position, Reason, Given, Pending, SecondTold,
         FirstTold, Filled
<1>3. RoomMade /\ ClosedLast /\ ClosedCounts
  BY DEF PortInit, UserService, RoomMade, ClosedLast, ClosedCounts, Has, ClosedWaits
<1> QED BY <1>1, <1>2, <1>3 DEF PortInv

(* What service_callback does before and after it waits changes neither the  *)
(* rings nor the process.                                                    *)
LEMMA InsertStep ==
  ASSUME PortInv, InsertMessage, Len(inbox) < InboxSize, port.there
  PROVE  PortInv'
<1>0. /\ InboxSize \in Nat \ {0} /\ Len(inbox) \in Nat /\ inbox \in Seq(Nat)
      /\ received \in Nat /\ port \in PortRecord /\ sems \in Sems /\ telling.at \in Ats
      /\ removed \in Nat
      /\ Len(ring) \in Nat /\ DOMAIN ring = 1 .. Len(ring)
  BY PortTyped
<1>1. /\ inbox' = Append(inbox, received) /\ received' = received + 1
      /\ sems' = UpSem("msgInsert")
      /\ UNCHANGED <<ring, removed, shutting, awaiter, dequeuer, portCloser, file, delivering>>
  BY DEF InsertMessage, processVars
<1>2. /\ inbox' \in Seq(Nat) /\ Len(inbox') = Len(inbox) + 1 /\ inbox' # <<>>
      /\ received' \in Nat
  BY <1>0, <1>1
<1>3. /\ sems' \in Sems /\ sems'.msgInsert = sems.msgInsert + 1
      /\ sems'.msgRemove = sems.msgRemove /\ sems'.remove = sems.remove
      /\ sems.msgInsert \in Nat
  BY <1>0, <1>1, UpMsgInsert DEF Sems
<1>4. /\ port' \in PortRecord /\ port'.pending = FALSE
      /\ port'.available = port.available /\ port'.closePending = port.closePending
      /\ port'.there = port.there /\ port'.refs = port.refs
      /\ \/ /\ telling' = [at |-> "idle", reason |-> "none"] /\ Known
         \/ telling' = [at |-> "add", reason |-> "MESSAGE_AVAILABLE"]
  <2>1. CASE Known
    BY <1>0, <2>1 DEF InsertMessage, TellingIs, PortRecord
  <2>2. CASE ~Known
    BY <1>0, <2>2 DEF InsertMessage, TellingIs, PortRecord, Known
  <2> QED BY <2>1, <2>2
<1>5. PortTypes'
  BY <1>0, <1>1, <1>2, <1>3, <1>4 DEF PortInv, PortTypes, PortRecord, Reasons
<1>6. Position' /\ Reason' /\ Given'
  BY <1>1, <1>4 DEF PortInv, Position, Reason, Given, Filled, Reasons
<1>7. Pending'
  BY <1>3, <1>4 DEF Pending
<1>8. port.available >= removed => Has(ring, "MESSAGE_AVAILABLE")
  <2> SUFFICES ASSUME port.available >= removed PROVE Has(ring, "MESSAGE_AVAILABLE")
    OBVIOUS
  <2>1. port.available \in Int
    BY <1>0 DEF PortRecord
  <2>2. /\ port.available < removed + Len(ring)
        /\ ring[port.available - removed + 1] = "MESSAGE_AVAILABLE"
    BY DEF PortInv, Position, Filled
  <2>3. port.available - removed + 1 \in 1 .. Len(ring)
    BY <1>0, <2>1, <2>2
  <2> QED BY <1>0, <2>2, <2>3 DEF Has
<1>9. port.pending => inbox = <<>> /\ dequeuer \in {"blocked", "interrupted"}
  BY DEF PortInv, Pending
<1>10. SecondTold'
  <2>1. inbox = <<>> => Len(inbox') = 1
    BY <1>0, <1>2
  <2> QED BY <1>1, <1>4, <1>8, <1>9, <2>1 DEF SecondTold, Known
<1>11. FirstTold'
  BY <1>1, <1>3, <1>4, <1>8, <1>9 DEF FirstTold, WillLook, Known
<1>12. RoomMade'
  BY <1>4 DEF RoomMade
<1>13. ClosedLast' /\ ClosedCounts'
  BY <1>1, <1>4 DEF PortInv, ClosedLast, ClosedCounts, ClosedWaits
<1> QED BY <1>5, <1>6, <1>7, <1>10, <1>11, <1>12, <1>13 DEF PortInv

(* A step of the slot handler alone, that waits, looks again or has nothing  *)
(* to tell.                                                                  *)
LEMMA TellingStep ==
  ASSUME PortInv,
         UNCHANGED <<ring, removed, inbox, shutting, awaiter, dequeuer, portCloser,
                     file, delivering, received, port>>,
         sems' \in Sems, sems'.msgInsert = sems.msgInsert,
         telling' \in [at : Ats, reason : Reasons \cup {"none"}],
         Reason', RoomMade',
         telling'.at \in {"idle", "full"} => shutting \/ telling.at \in {"idle", "full"}
  PROVE  PortInv'
<1>1. PortTypes'
  BY DEF PortInv, PortTypes, Ats, Reasons
<1>2. Position' /\ Given' /\ Pending' /\ ClosedLast' /\ ClosedCounts'
  BY DEF PortInv, Position, Filled, Given, Pending, ClosedLast, ClosedCounts, ClosedWaits
<1>3. SecondTold' /\ FirstTold'
  BY DEF PortInv, SecondTold, FirstTold, WillLook
<1> QED BY <1>1, <1>2, <1>3 DEF PortInv

(* While the file is being closed, the slot handler gives up the service.    *)
LEMMA GivesUpStep ==
  ASSUME PortInv, shutting, NEW b \in BOOLEAN, b => port.there,
         port' = [port EXCEPT !.there = b],
         UNCHANGED <<ring, removed, inbox, shutting, awaiter, dequeuer, portCloser,
                     file, delivering, received>>,
         sems' \in Sems, sems'.msgInsert = sems.msgInsert,
         telling' \in [at : Ats, reason : Reasons \cup {"none"}],
         Reason', RoomMade'
  PROVE  PortInv'
<1>0. port \in PortRecord
  BY PortTyped
<1>1. /\ port' \in PortRecord /\ port'.there = b /\ port'.available = port.available
      /\ port'.pending = port.pending /\ port'.closePending = port.closePending
      /\ port'.refs = port.refs
  BY <1>0 DEF PortRecord
<1>2. PortTypes'
  BY <1>1 DEF PortInv, PortTypes, Ats, Reasons, PortRecord
<1>3. Position' /\ Given' /\ Pending' /\ ClosedLast'
  BY <1>1 DEF PortInv, Position, Filled, Given, Pending, ClosedLast
<1>4. ClosedCounts'
  BY <1>1 DEF PortInv, ClosedCounts, ClosedWaits
<1>5. SecondTold' /\ FirstTold'
  BY DEF SecondTold, FirstTold
<1> QED BY <1>2, <1>3, <1>4, <1>5 DEF PortInv

(* service_callback with a message, with room for it or without.             *)
LEMMA TellMessageStep ==
  ASSUME PortInv, TellMessage
  PROVE  PortInv'
<1>0. port.there /\ telling.at = "idle" /\ sems \in Sems
  BY PortTyped DEF TellMessage
<1>1. CASE Len(inbox) < InboxSize /\ InsertMessage
  BY <1>0, <1>1, InsertStep
<1>2. CASE Len(inbox) = InboxSize /\ WaitForRoom /\ UNCHANGED sems
  <2>0. InboxSize \in Nat
    BY PortTyped
  <2>1. /\ UNCHANGED <<ring, removed, inbox, port, shutting, received>>
        /\ UNCHANGED <<awaiter, dequeuer, portCloser, file, delivering>>
        /\ \/ telling' = [at |-> "extra", reason |-> "MESSAGE_AVAILABLE"]
           \/ telling' = [at |-> "full", reason |-> "none"]
    BY <1>2 DEF WaitForRoom, processVars, TellingIs
  <2>2. Reason' /\ telling' \in [at : Ats, reason : Reasons \cup {"none"}]
    BY <1>0, <2>1 DEF Reason, Reasons, Ats
  <2>3. RoomMade'
    BY <1>2, <2>0, <2>1 DEF RoomMade
  <2> QED BY <1>0, <1>2, <2>1, <2>2, <2>3, TellingStep
<1> QED BY <1>1, <1>2 DEF TellMessage

(* service_callback wakes from the wait for room in msg_queue.               *)
LEMMA RoomWokenStep ==
  ASSUME PortInv, RoomWoken
  PROVE  PortInv'
<1>0. /\ telling.at = "full" /\ sems.msgRemove > 0 /\ sems \in Sems /\ port.there
      /\ InboxSize \in Nat /\ Len(inbox) \in Nat /\ Len(inbox) <= InboxSize
      /\ telling \in [at : Ats, reason : Reasons \cup {"none"}]
  BY PortTyped DEF RoomWoken, PortInv, Reason, PortTypes, Ats
<1>1. /\ UNCHANGED <<ring, removed, inbox, port, shutting, received>>
      /\ UNCHANGED <<awaiter, dequeuer, portCloser, file, delivering>>
      /\ sems' = DownSem("msgRemove")
  BY DEF RoomWoken, processVars
<1>2. sems' \in Sems /\ sems'.msgInsert = sems.msgInsert
  BY <1>0, <1>1, DownMsgRemove
<1>3. \/ shutting /\ telling' = [at |-> "idle", reason |-> "none"]
      \/ Len(inbox) < InboxSize /\ telling' = [at |-> "insert", reason |-> "none"]
      \/ Len(inbox) = InboxSize /\ telling' = [at |-> "extra", reason |-> "MESSAGE_AVAILABLE"]
      \/ Len(inbox) = InboxSize /\ telling' = [at |-> "full", reason |-> "MESSAGE_AVAILABLE"]
  <2>1. CASE shutting
    BY <2>1 DEF RoomWoken, TellingIs
  <2>2. CASE ~shutting /\ Len(inbox) < InboxSize
    BY <2>2 DEF RoomWoken, TellingIs
  <2>3. CASE ~shutting /\ ~(Len(inbox) < InboxSize)
    <3>1. Len(inbox) = InboxSize
      BY <1>0, <2>3
    <3> QED BY <1>0, <2>3, <3>1 DEF RoomWoken
  <2> QED BY <2>1, <2>2, <2>3
<1>4. Reason' /\ telling' \in [at : Ats, reason : Reasons \cup {"none"}]
  BY <1>0, <1>1, <1>3 DEF Reason, Reasons, Ats
<1>5. RoomMade'
  BY <1>0, <1>1, <1>3 DEF RoomMade
<1> QED BY <1>0, <1>1, <1>2, <1>3, <1>4, <1>5, TellingStep

(* service_callback puts its message into the room it waited for.            *)
LEMMA RoomInsertStep ==
  ASSUME PortInv, RoomInsert
  PROVE  PortInv'
<1>1. port.there /\ Len(inbox) < InboxSize /\ InsertMessage
  BY DEF RoomInsert, PortInv, Reason, RoomMade
<1> QED BY <1>1, InsertStep

(* add_completion finds the ring full and waits.                             *)
LEMMA AddFullStep ==
  ASSUME PortInv, AddFull
  PROVE  PortInv'
<1>0. /\ RingSize \in Nat /\ sems \in Sems /\ telling.at \in {"add", "extra"}
      /\ Len(ring) = RingSize /\ port.there
      /\ telling \in [at : Ats, reason : Reasons \cup {"none"}]
      /\ telling.reason \in Reasons
      /\ telling.at = "extra" => telling.reason = "MESSAGE_AVAILABLE"
  BY PortTyped DEF AddFull, PortInv, Reason, PortTypes, Ats, Reasons
<1>1. /\ UNCHANGED <<ring, removed, inbox, port, sems, shutting, received>>
      /\ UNCHANGED <<awaiter, dequeuer, portCloser, file, delivering>>
  BY DEF AddFull, processVars
<1>2. /\ telling'.at = IF telling.at = "add" THEN "addDown" ELSE "extraDown"
      /\ telling'.reason = telling.reason
      /\ telling' \in [at : Ats, reason : Reasons \cup {"none"}]
  BY <1>0 DEF AddFull, Ats
<1>3. Reason'
  BY <1>0, <1>1, <1>2 DEF Reason
<1>4. RoomMade'
  BY <1>0, <1>1, <1>2 DEF PortInv, RoomMade
<1> QED BY <1>0, <1>1, <1>2, <1>3, <1>4, TellingStep

(* add_completion wakes, and gives up if the instance is closing.            *)
LEMMA AddWokenStep ==
  ASSUME PortInv, AddWoken
  PROVE  PortInv'
<1>0. /\ sems \in Sems /\ telling.at \in {"addDown", "extraDown"} /\ sems.remove > 0
      /\ port.there /\ port \in PortRecord
      /\ telling \in [at : Ats, reason : Reasons \cup {"none"}]
      /\ telling.reason \in Reasons
      /\ telling.at = "extraDown" => telling.reason = "MESSAGE_AVAILABLE"
  BY PortTyped DEF AddWoken, PortInv, Reason, PortTypes, Ats
<1>1. /\ UNCHANGED <<ring, removed, inbox, shutting, received>>
      /\ UNCHANGED <<awaiter, dequeuer, portCloser, file, delivering>>
      /\ sems' = DownSem("remove")
  BY DEF AddWoken, processVars
<1>2. /\ sems' \in Sems /\ sems'.msgInsert = sems.msgInsert
      /\ sems'.msgRemove = sems.msgRemove
  BY <1>0, <1>1, DownRemove
<1>3. CASE ~shutting
  <2>1. /\ telling'.at = IF telling.at = "addDown" THEN "add" ELSE "extra"
        /\ telling'.reason = telling.reason /\ UNCHANGED port
        /\ telling' \in [at : Ats, reason : Reasons \cup {"none"}]
    BY <1>0, <1>3 DEF AddWoken, Ats
  <2>2. Reason'
    BY <1>0, <1>1, <2>1 DEF Reason
  <2>3. RoomMade'
    BY <1>0, <1>1, <1>2, <2>1 DEF PortInv, RoomMade
  <2> QED BY <1>0, <1>1, <1>2, <2>1, <2>2, <2>3, TellingStep
<1>4. CASE shutting
  <2> DEFINE b == port.there /\ telling.reason # "SERVICE_CLOSED"
  <2>1. /\ port' = [port EXCEPT !.there = b]
        /\ telling' = IF telling.at = "extraDown" THEN [at |-> "full", reason |-> "none"]
                      ELSE [at |-> "idle", reason |-> "none"]
    BY <1>4 DEF AddWoken, TellingIs
  <2>2. b \in BOOLEAN /\ (b => port.there) /\ (telling.at = "extraDown" => b)
    BY <1>0
  <2> HIDE DEF b
  <2>3. telling' \in [at : Ats, reason : Reasons \cup {"none"}]
    BY <2>1 DEF Ats
  <2>4. port'.there = b
    BY <1>0, <2>1, <2>2 DEF PortRecord
  <2>5. Reason'
    BY <1>0, <2>1, <2>2, <2>4 DEF Reason
  <2>6. RoomMade'
    BY <1>0, <1>1, <1>2, <2>1 DEF PortInv, RoomMade
  <2> QED BY <1>1, <1>2, <1>4, <2>1, <2>2, <2>3, <2>5, <2>6, GivesUpStep
<1> QED BY <1>3, <1>4

(* service_callback with SERVICE_CLOSED.                                     *)
LEMMA TellClosedStep ==
  ASSUME PortInv, TellClosed
  PROVE  PortInv'
<1>0. /\ telling.at = "idle" /\ port.there /\ sems \in Sems /\ port \in PortRecord
      /\ telling \in [at : Ats, reason : Reasons \cup {"none"}]
  BY PortTyped DEF TellClosed, PortInv, PortTypes, Ats
<1>1. /\ UNCHANGED <<ring, removed, inbox, sems, shutting, received>>
      /\ UNCHANGED <<awaiter, dequeuer, portCloser, file, delivering>>
  BY DEF TellClosed, processVars
<1>2. CASE shutting
  <2>1. port' = [port EXCEPT !.there = FALSE] /\ UNCHANGED telling
    BY <1>2 DEF TellClosed
  <2>2. Reason' /\ RoomMade'
    BY <1>0, <1>1, <2>1 DEF Reason, RoomMade
  <2>3. FALSE \in BOOLEAN
    OBVIOUS
  <2> QED BY <1>0, <1>1, <1>2, <2>1, <2>2, <2>3, GivesUpStep
<1>3. CASE ~shutting
  <2>1. telling' = [at |-> "add", reason |-> "SERVICE_CLOSED"] /\ UNCHANGED port
    BY <1>3 DEF TellClosed, TellingIs
  <2>2. telling' \in [at : Ats, reason : Reasons \cup {"none"}]
    BY <2>1 DEF Ats, Reasons
  <2>3. Reason' /\ RoomMade'
    BY <1>0, <1>1, <2>1 DEF Reason, RoomMade, Reasons
  <2> QED BY <1>0, <1>1, <2>1, <2>2, <2>3, TellingStep
<1> QED BY <1>2, <1>3

(* A completion is put into the ring.                                        *)
LEMMA AddCompletionStep ==
  ASSUME PortInv, AddCompletion
  PROVE  PortInv'
<1> DEFINE r == telling.reason
           n == Len(ring)
<1>0. /\ RingSize \in Nat \ {0} /\ ring \in Seq(Reasons) /\ n \in Nat /\ n < RingSize
      /\ DOMAIN ring = 1 .. n /\ removed \in Nat
      /\ port \in PortRecord /\ sems \in Sems /\ port.there
      /\ telling.at \in {"add", "extra"} /\ r \in Reasons
      /\ telling.at = "extra" => r = "MESSAGE_AVAILABLE"
      /\ file # "released"
  BY PortTyped DEF AddCompletion, PortInv, Reason, Reasons, ClosedCounts
<1>1. /\ UNCHANGED <<removed, inbox, shutting, received>>
      /\ UNCHANGED <<awaiter, dequeuer, portCloser, file, delivering>>
      /\ sems' = UpSem("insert") /\ ring' = Append(ring, r)
      /\ telling' = IF telling.at = "extra" THEN [at |-> "full", reason |-> "none"]
                    ELSE [at |-> "idle", reason |-> "none"]
  BY DEF AddCompletion, processVars, TellingIs
<1>2. /\ sems' \in Sems /\ sems'.msgInsert = sems.msgInsert
      /\ sems'.msgRemove = sems.msgRemove
  BY <1>0, <1>1, UpInsert
<1>3. /\ ring' \in Seq(Reasons) /\ Len(ring') = n + 1 /\ DOMAIN ring' = 1 .. n + 1
      /\ ring'[n + 1] = r /\ \A i \in 1 .. n : ring'[i] = ring[i]
      /\ n >= 1 => Head(ring') = Head(ring)
  BY <1>0, <1>1
<1>4. \A x \in Reasons : Has(ring', x) <=> Has(ring, x) \/ r = x
  BY <1>0, <1>1, HasAppend
<1>5. port' = IF r = "MESSAGE_AVAILABLE" THEN [port EXCEPT !.available = removed + n]
              ELSE [port EXCEPT !.refs = @ + 1, !.there = FALSE, !.closePending = delivering]
  BY <1>0 DEF AddCompletion, Filled, Reasons
<1>6. /\ port.available \in Int /\ port.available >= -1
      /\ port.available < removed + n
      /\ port.available >= removed => ring[port.available - removed + 1] = "MESSAGE_AVAILABLE"
      /\ port.refs = 0 /\ port.closePending = FALSE /\ port.pending \in BOOLEAN
  BY <1>0 DEF PortInv, Position, Filled, ClosedCounts, PortRecord
<1>7. delivering \in BOOLEAN
  BY PortTyped
<1>8. /\ telling' \in [at : Ats, reason : Reasons \cup {"none"}] 
      /\ telling'.at \in {"idle", "full"}
      /\ telling'.at = "full" => telling.at = "extra"
  BY <1>0, <1>1 DEF Ats
<1>9. ~Has(ring, "SERVICE_CLOSED") /\ ~Has(awaiter.got, "SERVICE_CLOSED")
  BY <1>0 DEF PortInv, ClosedLast, Has
<1>10. awaiter.at = "advance" => n >= 1
  <2>1. awaiter.at = "advance" => ring # <<>>
    BY DEF PortInv, Given
  <2>2. n = 0 => ring = <<>>
    BY <1>0
  <2> QED BY <1>0, <2>1, <2>2
<1> HIDE DEF r, n
<1>11. Given'
  <2>1. awaiter.at = "advance" => ring' # <<>> /\ Head(ring') = Head(ring)
    BY <1>0, <1>3, <1>10
  <2> QED BY <1>1, <2>1 DEF PortInv, Given
<1>12. RoomMade'
  BY <1>1, <1>2, <1>8 DEF PortInv, RoomMade
<1>13. CASE r = "MESSAGE_AVAILABLE"
  <2> DEFINE v == removed + n
  <2>1. port' = [port EXCEPT !.available = v] /\ v \in Nat
    BY <1>0, <1>5, <1>13
  <2> HIDE DEF v
  <2>2. /\ port' \in PortRecord /\ port'.available = v /\ port'.there
        /\ port'.refs = 0 /\ port'.closePending = FALSE /\ port'.pending = port.pending
    BY <1>0, <1>6, <2>1 DEF PortRecord
  <2>3. PortTypes'
    <3>1. Len(ring') <= RingSize
      BY <1>0, <1>3
    <3> QED BY <1>1, <1>2, <1>3, <1>8, <2>2, <3>1 DEF PortInv, PortTypes, PortRecord, Ats
  <2>4. Position'
    <3>1. v < removed + (n + 1) /\ v >= -1 /\ v - removed + 1 = n + 1
      BY <1>0 DEF v
    <3> QED BY <1>1, <1>3, <1>13, <2>2, <3>1 DEF Position, Filled
  <2>5. Reason'
    BY <1>8, <2>2 DEF Reason
  <2>6. Pending'
    BY <1>0, <1>1, <1>2, <2>2 DEF PortInv, Pending
  <2>7. Has(ring', "MESSAGE_AVAILABLE")
    BY <1>4, <1>13 DEF Reasons
  <2>8. SecondTold' /\ FirstTold'
    BY <2>7 DEF SecondTold, FirstTold, WillLook
  <2>9. ~Has(ring', "SERVICE_CLOSED")
    BY <1>4, <1>9, <1>13 DEF Reasons
  <2>10. ClosedLast'
    BY <1>1, <1>9, <2>9 DEF PortInv, ClosedLast, Has
  <2>11. ~ClosedWaits'
    <3>1. ring'[n + 1] # "SERVICE_CLOSED"
      BY <1>3, <1>13
    <3> QED BY <1>3, <3>1 DEF ClosedWaits
  <2>12. ClosedCounts'
    BY <1>0, <1>1, <2>2, <2>9, <2>11 DEF ClosedCounts
  <2> QED BY <1>11, <1>12, <2>3, <2>4, <2>5, <2>6, <2>8, <2>10, <2>12 DEF PortInv
<1>14. CASE r = "SERVICE_CLOSED"
  <2> DEFINE v == port.refs + 1
  <2>1. port' = [port EXCEPT !.refs = v, !.there = FALSE, !.closePending = delivering]
        /\ v = 1
    BY <1>5, <1>6, <1>14
  <2> HIDE DEF v
  <2>2. /\ port' \in PortRecord /\ port'.available = port.available /\ port'.there = FALSE
        /\ port'.refs = 1 /\ port'.closePending = delivering /\ port'.pending = port.pending
    <3>1. v \in Int /\ FALSE \in BOOLEAN
      BY <2>1
    <3>2. /\ port' \in PortRecord /\ port'.available = port.available /\ port'.there = FALSE
          /\ port'.refs = v /\ port'.closePending = delivering
          /\ port'.pending = port.pending
      <4>1. port' = [port EXCEPT !.refs = v, !.there = FALSE, !.closePending = delivering]
        BY <2>1
      <4> QED BY ONLY <1>0, <1>7, <3>1, <4>1 DEF PortRecord
    <3> QED BY <2>1, <3>2
  <2>3. PortTypes'
    <3>1. Len(ring') <= RingSize
      BY <1>0, <1>3
    <3> QED BY <1>1, <1>2, <1>3, <1>8, <2>2, <3>1 DEF PortInv, PortTypes, PortRecord, Ats
  <2>4. Position'
    <3> DEFINE a == port.available
    <3>1. a \in Int /\ a >= -1 /\ a < removed + n
          /\ (a >= removed => ring[a - removed + 1] = "MESSAGE_AVAILABLE")
      BY <1>6
    <3> HIDE DEF a
    <3>2. a < removed + (n + 1)
      BY <1>0, <3>1
    <3>3. a >= removed => ring'[a - removed + 1] = "MESSAGE_AVAILABLE"
      <4> SUFFICES ASSUME a >= removed PROVE ring'[a - removed + 1] = "MESSAGE_AVAILABLE"
        OBVIOUS
      <4>1. a - removed + 1 \in 1 .. n
        BY <1>0, <3>1
      <4> QED BY <1>3, <3>1, <4>1
    <3>4. port'.available = a /\ removed' = removed /\ Len(ring') = n + 1
      BY <1>1, <1>3, <2>2 DEF a
    <3> QED BY <3>1, <3>2, <3>3, <3>4 DEF Position, Filled
  <2>5. Reason'
    BY <1>0, <1>1, <1>14, <2>2 DEF Reason
  <2>6. Pending'
    BY <1>1, <1>2, <2>2 DEF PortInv, Pending
  <2>7. SecondTold' /\ FirstTold'
    BY <2>2 DEF SecondTold, FirstTold
  <2>8. ClosedLast'
    <3>1. \A i \in 1 .. n + 1 : ring'[i] = "SERVICE_CLOSED" => i = n + 1
      <4> SUFFICES ASSUME NEW i \in 1 .. n + 1, i # n + 1
                   PROVE  ring'[i] # "SERVICE_CLOSED"
        OBVIOUS
      <4>1. i \in 1 .. n
        BY <1>0
      <4> QED BY <1>0, <1>3, <1>9, <4>1 DEF Has
    <3> QED BY <1>1, <1>3, <1>9, <2>2, <3>1 DEF PortInv, ClosedLast
  <2>9. ClosedWaits'
    <3>1. n + 1 > 0 /\ ~(n + 1 = 1 /\ awaiter.at = "advance")
      BY <1>0, <1>10
    <3> QED BY <1>1, <1>3, <1>14, <3>1 DEF ClosedWaits
  <2>10. ClosedCounts'
    BY <1>0, <1>1, <2>2, <2>9 DEF ClosedCounts
  <2> QED BY <1>11, <1>12, <2>3, <2>4, <2>5, <2>6, <2>7, <2>8, <2>10 DEF PortInv
<1> QED BY <1>0, <1>13, <1>14 DEF Reasons

(* Where the completion thread may be, and what it was given.                *)
Awaiters == [at : {"idle", "down", "copy", "advance", "handle"}, got : Seq(Reasons)]

(* The completion thread, or the one in CLOSE_SERVICE, goes on; it touches   *)
(* neither the rings nor what it was given.                                  *)
LEMMA MovesStep ==
  ASSUME PortInv,
         UNCHANGED <<ring, removed, inbox, port, telling, dequeuer, shutting, file,
                     delivering, received>>,
         portCloser' \in {"idle", "closing", "down"},
         sems' \in Sems, sems'.msgInsert = sems.msgInsert,
         awaiter' \in Awaiters, awaiter'.got = awaiter.got,
         awaiter'.at = "advance" <=> awaiter.at = "advance",
         Given', RoomMade'
  PROVE  PortInv'
<1>1. PortTypes'
  BY DEF PortInv, PortTypes, Awaiters
<1>2. Position' /\ Reason' /\ Pending' /\ SecondTold' /\ FirstTold'
  BY DEF PortInv, Position, Filled, Reason, Pending, SecondTold, FirstTold, WillLook
<1>3. ClosedLast'
  BY DEF PortInv, ClosedLast
<1>4. ClosedCounts'
  BY DEF PortInv, ClosedCounts, ClosedWaits
<1> QED BY <1>1, <1>2, <1>3, <1>4 DEF PortInv

(* The completion thread moves, with what it was given.                      *)
LEMMA AwaitAtIs ==
  ASSUME PortInv, NEW at \in {"idle", "down", "copy", "advance", "handle"}, AwaitAt(at)
  PROVE  awaiter' \in Awaiters /\ awaiter'.at = at /\ awaiter'.got = awaiter.got
<1>1. awaiter \in Awaiters
  BY DEF PortInv, PortTypes, Awaiters
<1> QED BY <1>1 DEF AwaitAt, Awaiters

(* AWAIT_COMPLETION begins, or waits for a completion.                       *)
LEMMA AwaitCallStep ==
  ASSUME PortInv, AwaitCall \/ AwaitDown
  PROVE  PortInv'
<1>0. /\ sems \in Sems /\ awaiter.at \in {"idle", "down"} /\ file = "open"
      /\ portCloser \in {"idle", "closing", "down"} /\ awaiter.got = <<>>
      /\ UNCHANGED <<ring, removed, inbox, port, telling, dequeuer, shutting, file,
                     delivering, received, portCloser>>
  <2>1. awaiter.at \in {"idle", "down"}
    BY DEF AwaitCall, AwaitDown
  <2>2. file = "open" /\ awaiter.got = <<>>
    BY <2>1 DEF PortInv, Given, AwaitCall, AwaitDown
  <2> QED BY <2>1, <2>2, PortTyped DEF AwaitCall, AwaitDown, PortInv, PortTypes, otherVars
<1>1. /\ sems' \in Sems /\ sems'.msgInsert = sems.msgInsert
      /\ sems'.msgRemove = sems.msgRemove /\ sems'.remove = sems.remove
  <2>1. CASE AwaitCall
    BY <1>0, <2>1 DEF AwaitCall
  <2>2. CASE AwaitDown
    BY <1>0, <2>2, DownInsert DEF AwaitDown
  <2> QED BY <2>1, <2>2
<1>2. /\ awaiter' \in Awaiters /\ awaiter'.at \in {"down", "copy"}
      /\ awaiter'.got = awaiter.got
  <2>1. CASE ring = <<>> /\ ~shutting
    <3>1. AwaitAt("down")
      BY <2>1 DEF AwaitCall, AwaitDown
    <3> QED BY <3>1, AwaitAtIs
  <2>2. CASE ~(ring = <<>> /\ ~shutting)
    <3>1. AwaitAt("copy")
      BY <2>2 DEF AwaitCall, AwaitDown
    <3> QED BY <3>1, AwaitAtIs
  <2> QED BY <2>1, <2>2
<1>3. Given'
  BY <1>0, <1>2 DEF Given
<1>4. RoomMade'
  BY <1>0, <1>1, <1>2 DEF PortInv, RoomMade
<1> QED BY <1>0, <1>1, <1>2, <1>3, <1>4, MovesStep

(* AWAIT_COMPLETION returns.                                                 *)
LEMMA AwaitReturnStep ==
  ASSUME PortInv, AwaitReturn
  PROVE  PortInv'
<1>0. /\ sems \in Sems /\ awaiter.at = "copy" /\ file = "open" /\ RingSize \in Nat \ {0}
      /\ portCloser \in {"idle", "closing", "down"}
      /\ UNCHANGED <<ring, removed, inbox, port, telling, dequeuer, shutting, file,
                     delivering, received, portCloser>>
  <2>1. awaiter.at = "copy"
    BY DEF AwaitReturn
  <2>2. file = "open"
    BY <2>1 DEF PortInv, Given
  <2> QED BY <2>1, <2>2, PortTyped DEF AwaitReturn, PortInv, PortTypes, otherVars
<1>1. /\ sems' \in Sems /\ sems'.msgInsert = sems.msgInsert /\ sems.remove \in Nat
      /\ sems'.msgRemove = sems.msgRemove
      /\ sems'.remove = IF awaiter.got = <<>> THEN sems.remove ELSE sems.remove + 1
  <2>1. CASE awaiter.got = <<>>
    BY <1>0, <2>1 DEF AwaitReturn, Sems
  <2>2. CASE awaiter.got # <<>>
    BY <1>0, <2>2, UpRemove DEF AwaitReturn, Sems
  <2> QED BY <2>1, <2>2
<1>2. /\ awaiter' \in Awaiters /\ awaiter'.at = "handle" /\ awaiter'.got = awaiter.got
  <2>1. AwaitAt("handle")
    BY DEF AwaitReturn
  <2> QED BY <2>1, AwaitAtIs
<1>3. Given'
  BY <1>0, <1>2 DEF Given
<1>4. RoomMade'
  <2>1. telling.at \in {"addDown", "extraDown"} /\ Len(ring) < RingSize => sems'.remove > 0
    BY <1>0, <1>1 DEF PortInv, RoomMade
  <2> QED BY <1>0, <1>1, <1>2, <2>1 DEF PortInv, RoomMade
<1> QED BY <1>0, <1>1, <1>2, <1>3, <1>4, MovesStep

(* The library has handled all it was given.                                 *)
LEMMA HandleEndsStep ==
  ASSUME PortInv, HandleEnds
  PROVE  PortInv'
<1>0. /\ sems \in Sems /\ awaiter.at = "handle" /\ awaiter.got = <<>>
      /\ portCloser \in {"idle", "closing", "down"}
      /\ UNCHANGED <<ring, removed, inbox, port, telling, dequeuer, shutting, file,
                     delivering, received, portCloser, sems>>
  BY PortTyped DEF HandleEnds, PortInv, PortTypes, otherVars
<1>1. /\ awaiter' \in Awaiters /\ awaiter'.at = "idle" /\ awaiter'.got = awaiter.got
  <2>1. AwaitAt("idle")
    BY DEF HandleEnds
  <2> QED BY <2>1, AwaitAtIs
<1>2. Given'
  BY <1>0, <1>1 DEF Given
<1>3. RoomMade'
  BY <1>0, <1>1 DEF PortInv, RoomMade
<1> QED BY <1>0, <1>1, <1>2, <1>3, MovesStep

(* CLOSE_SERVICE: the call, its wait for close_event, its end.               *)
LEMMA PortCloserStep ==
  ASSUME PortInv, PortCloseCall \/ PortClosed \/ PortCloseDown
  PROVE  PortInv'
<1>0. /\ sems \in Sems /\ awaiter \in Awaiters
      /\ UNCHANGED <<ring, removed, inbox, port, telling, dequeuer, shutting, file,
                     delivering, received, awaiter>>
  BY PortTyped DEF PortCloseCall, PortClosed, PortCloseDown, PortInv, PortTypes,
                   otherVars, Awaiters
<1>1. /\ sems' \in Sems /\ sems'.msgInsert = sems.msgInsert
      /\ sems'.msgRemove = sems.msgRemove /\ sems'.remove = sems.remove
  <2>1. CASE PortCloseDown
    BY <1>0, <2>1, DownClose DEF PortCloseDown
  <2>2. CASE ~PortCloseDown
    BY <1>0, <2>2 DEF PortCloseCall, PortClosed
  <2> QED BY <2>1, <2>2
<1>2. portCloser' \in {"idle", "closing", "down"}
  BY DEF PortCloseCall, PortClosed, PortCloseDown
<1>3. Given' /\ RoomMade'
  BY <1>0, <1>1 DEF PortInv, Given, RoomMade
<1> QED BY <1>0, <1>1, <1>2, <1>3, MovesStep

(* A message is taken out of the queue.                                      *)
LEMMA TakenStep ==
  ASSUME PortInv, inbox # <<>>, inbox' = Tail(inbox),
         UNCHANGED <<ring, removed, port, telling, shutting, file, delivering,
                     received, portCloser, awaiter>>,
         sems' \in Sems, sems'.msgRemove = sems.msgRemove + 1,
         sems'.remove = sems.remove,
         \/ dequeuer' = "idle"
         \/ /\ UNCHANGED dequeuer /\ sems'.msgInsert = sems.msgInsert
            /\ Has(awaiter.got, "MESSAGE_AVAILABLE")
  PROVE  PortInv'
<1>0. /\ inbox \in Seq(Nat) /\ Len(inbox) \in Nat /\ Len(inbox) <= InboxSize
      /\ InboxSize \in Nat /\ sems.msgRemove \in Nat
  BY PortTyped DEF Sems
<1>1. /\ inbox' \in Seq(Nat) /\ Len(inbox') = Len(inbox) - 1 /\ Len(inbox') \in Nat
      /\ inbox' # <<>> => Len(inbox) >= 2
  BY <1>0
<1>2. PortTypes'
  <2>1. Len(inbox') <= InboxSize
    BY <1>0, <1>1
  <2> QED BY <1>1, <2>1 DEF PortInv, PortTypes
<1>3. Position' /\ Reason' /\ Given' /\ ClosedLast' /\ ClosedCounts'
  BY DEF PortInv, Position, Filled, Reason, Given, ClosedLast, ClosedCounts, ClosedWaits
<1>4. Pending'
  BY <1>0 DEF PortInv, Pending
<1>5. Len(inbox') >= 2 => Len(inbox) >= 2
  BY <1>0, <1>1
<1>6. SecondTold'
  BY <1>5 DEF PortInv, SecondTold
<1>7. FirstTold'
  BY <1>1 DEF PortInv, SecondTold, FirstTold, WillLook
<1>8. RoomMade'
  <2>1. sems'.msgRemove > 0 /\ (telling.at = "insert" => Len(inbox') < InboxSize)
    BY <1>0, <1>1
  <2> QED BY <2>1 DEF PortInv, RoomMade
<1> QED BY <1>2, <1>3, <1>4, <1>6, <1>7, <1>8 DEF PortInv

(* DEQUEUE_MESSAGE takes a message, at once or after it was woken.           *)
LEMMA DequeueStep ==
  ASSUME PortInv, DequeueCall \/ DequeueWoken
  PROVE  PortInv'
<1>0. /\ sems \in Sems /\ port \in PortRecord
      /\ UNCHANGED <<ring, removed, telling, shutting, file, delivering,
                     received, portCloser, awaiter>>
  BY PortTyped DEF DequeueCall, DequeueWoken, otherVars
<1>1. CASE DequeueCall /\ inbox # <<>>
  BY <1>0, <1>1, UpMsgRemove, TakenStep DEF DequeueCall, TakeMessage
<1>2. CASE DequeueWoken /\ inbox # <<>>
  <2> DEFINE v == sems.msgInsert - 1
             w == sems.msgRemove + 1
  <2>1. sems' = [DownSem("msgInsert") EXCEPT !.msgRemove = @ + 1]
        /\ inbox' = Tail(inbox) /\ dequeuer' = "idle" /\ UNCHANGED port
    BY <1>2 DEF DequeueWoken, TakeMessage
  <2>2. /\ DownSem("msgInsert") \in Sems
        /\ DownSem("msgInsert").msgRemove = sems.msgRemove
        /\ DownSem("msgInsert").remove = sems.remove /\ sems.msgRemove \in Nat
    BY <1>0, <1>2, DownMsgInsert DEF DequeueWoken, Sems
  <2>3. sems' = [DownSem("msgInsert") EXCEPT !.msgRemove = w] /\ w \in Nat
    BY <2>1, <2>2
  <2> HIDE DEF w
  <2>4. sems' \in Sems /\ sems'.msgRemove = w /\ sems'.remove = sems.remove
    BY <2>2, <2>3 DEF Sems
  <2>5. sems'.msgRemove = sems.msgRemove + 1
    BY <2>4 DEF w
  <2> QED BY <1>0, <1>2, <2>1, <2>4, <2>5, TakenStep
<1>3. CASE DequeueCall /\ inbox = <<>>
  <2>1. /\ port' = [port EXCEPT !.pending = TRUE] /\ dequeuer' = "blocked"
        /\ UNCHANGED <<inbox, sems>>
    BY <1>3 DEF DequeueCall
  <2>2. /\ port' \in PortRecord /\ port'.available = port.available
        /\ port'.there = port.there /\ port'.refs = port.refs
        /\ port'.closePending = port.closePending
    <3>1. TRUE \in BOOLEAN
      OBVIOUS
    <3> QED BY <1>0, <2>1, <3>1 DEF PortRecord
  <2>3. PortTypes'
    BY <1>0, <2>1, <2>2 DEF PortInv, PortTypes, PortRecord
  <2>4. Len(inbox) = 0
    BY <1>3
  <2>5. Position' /\ Reason' /\ Given' /\ Pending' /\ SecondTold' /\ FirstTold'
    BY <1>0, <1>3, <2>1, <2>2, <2>4 DEF PortInv, Position, Filled, Reason, Given,
       Pending, SecondTold, FirstTold
  <2>6. RoomMade' /\ ClosedLast' /\ ClosedCounts'
    BY <1>0, <2>1, <2>2 DEF PortInv, RoomMade, ClosedLast, ClosedCounts, ClosedWaits
  <2> QED BY <2>3, <2>5, <2>6 DEF PortInv
<1>4. CASE DequeueWoken /\ inbox = <<>>
  <2>1. /\ sems' = DownSem("msgInsert") /\ UNCHANGED <<inbox, dequeuer, port>>
    BY <1>4 DEF DequeueWoken
  <2>2. /\ sems' \in Sems /\ sems'.msgRemove = sems.msgRemove
        /\ sems'.remove = sems.remove
    BY <1>0, <1>4, <2>1, DownMsgInsert DEF DequeueWoken
  <2>3. PortTypes'
    BY <1>0, <2>1, <2>2 DEF PortInv, PortTypes
  <2>4. Len(inbox) = 0
    BY <1>4
  <2>5. Position' /\ Reason' /\ Given' /\ Pending' /\ SecondTold' /\ FirstTold'
    BY <1>0, <1>4, <2>1, <2>2, <2>4 DEF PortInv, Position, Filled, Reason, Given,
       Pending, SecondTold, FirstTold
  <2>6. RoomMade' /\ ClosedLast' /\ ClosedCounts'
    BY <1>0, <2>1, <2>2 DEF PortInv, RoomMade, ClosedLast, ClosedCounts, ClosedWaits
  <2> QED BY <2>3, <2>5, <2>6 DEF PortInv
<1> QED BY <1>1, <1>2, <1>3, <1>4

(* DEQUEUE_MESSAGE is interrupted, or finds the service gone.                *)
LEMMA DequeueEndsStep ==
  ASSUME PortInv, DequeueInterrupted \/ DequeueGone
  PROVE  PortInv'
<1>0. /\ UNCHANGED <<ring, removed, inbox, port, sems, telling, shutting, file,
                     delivering, received, portCloser, awaiter>>
      /\ dequeuer' = IF port.there THEN "interrupted" ELSE "idle"
  BY DEF DequeueInterrupted, DequeueGone, otherVars
<1>1. PortTypes'
  BY <1>0 DEF PortInv, PortTypes
<1>2. Position' /\ Reason' /\ Given' /\ SecondTold'
  BY <1>0 DEF PortInv, Position, Filled, Reason, Given, SecondTold
<1>3. Pending' /\ FirstTold'
  BY <1>0 DEF PortInv, Pending, FirstTold, WillLook
<1>4. RoomMade' /\ ClosedLast' /\ ClosedCounts'
  BY <1>0 DEF PortInv, RoomMade, ClosedLast, ClosedCounts, ClosedWaits
<1> QED BY <1>1, <1>2, <1>3, <1>4 DEF PortInv

(* One completion is copied: a CLOSED is the last one, and its reference goes*)
(* unless close_delivered will see to that.                                  *)
LEMMA AwaitCopyStep ==
  ASSUME PortInv, AwaitCopy
  PROVE  PortInv'
<1> DEFINE n == Len(ring)
           h == Head(ring)
           g == awaiter.got
           closes == h = "SERVICE_CLOSED" /\ ~delivering
           v == IF closes THEN port.refs - 1 ELSE port.refs
<1>0. /\ ring \in Seq(Reasons) /\ n \in Nat \ {0} /\ DOMAIN ring = 1 .. n
      /\ h = ring[1] /\ h \in Reasons /\ ring # <<>>
      /\ awaiter.at = "copy" /\ g \in Seq(Reasons) /\ Len(g) \in Nat
      /\ DOMAIN g = 1 .. Len(g)
      /\ port \in PortRecord /\ sems \in Sems
  <2>1. ring # <<>> /\ ring \in Seq(Reasons) /\ awaiter.at = "copy"
    BY PortTyped DEF AwaitCopy
  <2> QED BY <2>1, PortTyped
<1>1. /\ awaiter' = [at |-> "advance", got |-> Append(g, h)]
      /\ port' = [port EXCEPT !.refs = v]
      /\ UNCHANGED <<ring, removed, inbox, sems, telling, dequeuer, portCloser,
                     shutting, file, delivering, received>>
  BY DEF AwaitCopy, otherVars
<1>2. v \in Int
  BY <1>0 DEF PortRecord
<1> HIDE DEF v
<1>3. /\ port' \in PortRecord /\ port'.refs = v /\ port'.available = port.available
      /\ port'.there = port.there /\ port'.pending = port.pending
      /\ port'.closePending = port.closePending
  BY <1>0, <1>1, <1>2 DEF PortRecord
<1>4. /\ awaiter'.at = "advance" /\ awaiter'.got \in Seq(Reasons)
      /\ awaiter'.got # <<>> /\ Len(awaiter'.got) = Len(g) + 1
      /\ awaiter'.got[Len(g) + 1] = h
      /\ DOMAIN awaiter'.got = 1 .. Len(g) + 1
      /\ \A i \in 1 .. Len(g) : awaiter'.got[i] = g[i]
      /\ awaiter' \in Awaiters
  <2>1. Append(g, h) \in Seq(Reasons) /\ Append(g, h) # <<>>
    BY <1>0
  <2>2. /\ Len(Append(g, h)) = Len(g) + 1 /\ Append(g, h)[Len(g) + 1] = h
        /\ DOMAIN Append(g, h) = 1 .. Len(g) + 1
        /\ \A i \in 1 .. Len(g) : Append(g, h)[i] = g[i]
    BY <1>0
  <2> QED BY <1>1, <2>1, <2>2 DEF Awaiters
<1>5. \A x : Has(awaiter'.got, x) <=> Has(g, x) \/ h = x
  <2>1. awaiter'.got = Append(g, h)
    BY <1>1
  <2> QED BY <1>0, <2>1, HasAppend
<1>6. file = "open"
  BY <1>0 DEF PortInv, Given
<1>7. ~Has(g, "SERVICE_CLOSED")
  BY <1>0 DEF PortInv, ClosedLast
<1>8. h = "SERVICE_CLOSED" => n = 1 /\ ~port.there
  BY <1>0 DEF PortInv, ClosedLast
<1> HIDE DEF g, h, n
<1>9. PortTypes'
  BY <1>1, <1>3, <1>4 DEF PortInv, PortTypes, PortRecord, Awaiters
<1>10. Position' /\ Reason' /\ Pending'
  BY <1>1, <1>3 DEF PortInv, Position, Filled, Reason, Pending
<1>11. Given'
  BY <1>0, <1>1, <1>4, <1>6 DEF Given, h
<1>12. SecondTold' /\ FirstTold'
  BY <1>1, <1>3, <1>5 DEF PortInv, SecondTold, FirstTold, WillLook, g
<1>13. RoomMade'
  BY <1>1, <1>4 DEF PortInv, RoomMade
<1>14. ClosedLast'
  <2>1. \A i \in DOMAIN ring' : ring'[i] = "SERVICE_CLOSED" => i = Len(ring') /\ ~port'.there
    BY <1>1, <1>3 DEF PortInv, ClosedLast
  <2>2. Has(awaiter'.got, "SERVICE_CLOSED") =>
          ~port'.there /\ Len(ring') = 1 /\ ring'[1] = "SERVICE_CLOSED"
    BY <1>0, <1>1, <1>3, <1>5, <1>7, <1>8 DEF n, h
  <2>3. \A i \in DOMAIN awaiter'.got :
          awaiter'.got[i] = "SERVICE_CLOSED" => i = Len(awaiter'.got)
    <3> SUFFICES ASSUME NEW i \in 1 .. Len(g) + 1, i # Len(g) + 1
                 PROVE  awaiter'.got[i] # "SERVICE_CLOSED"
      BY <1>4
    <3>1. i \in 1 .. Len(g)
      BY <1>0
    <3> QED BY <1>0, <1>4, <1>7, <3>1 DEF Has
  <2> QED BY <1>4, <2>1, <2>2, <2>3 DEF ClosedLast
<1>15. ClosedCounts'
  <2>1. delivering => v = port.refs
    BY DEF v, closes
  <2>2. h = "SERVICE_CLOSED" => ClosedWaits /\ ~ClosedWaits'
    BY <1>0, <1>1, <1>4, <1>8 DEF ClosedWaits, n, h
  <2>3. h # "SERVICE_CLOSED" => (ClosedWaits' <=> ClosedWaits)
    BY <1>0, <1>1, <1>4 DEF ClosedWaits, n, h
  <2>4. /\ port.refs = IF delivering THEN IF port.closePending THEN 1 ELSE 0
                       ELSE IF ClosedWaits THEN 1 ELSE 0
        /\ port.there => port.refs = 0 /\ ~port.closePending
        /\ delivering /\ Has(ring, "SERVICE_CLOSED") => port.closePending
    BY <1>6 DEF PortInv, ClosedCounts
  <2>5. ~delivering => v = IF ClosedWaits' THEN 1 ELSE 0
    <3>1. CASE h = "SERVICE_CLOSED" /\ ~delivering
      BY <2>2, <2>4, <3>1 DEF v, closes
    <3>2. CASE h # "SERVICE_CLOSED" /\ ~delivering
      BY <2>3, <2>4, <3>2 DEF v, closes
    <3> QED BY <3>1, <3>2
  <2>6. port.there => v = 0
    <3>1. port.there => ~closes
      BY <1>8 DEF closes
    <3> QED BY <2>4, <3>1 DEF v
  <2> QED BY <1>1, <1>3, <1>6, <2>1, <2>4, <2>5, <2>6 DEF ClosedCounts
<1> QED BY <1>9, <1>10, <1>11, <1>12, <1>13, <1>14, <1>15 DEF PortInv

(* ... and taken out of the ring.                                            *)
LEMMA AwaitAdvanceStep ==
  ASSUME PortInv, AwaitAdvance
  PROVE  PortInv'
<1> DEFINE n == Len(ring)
           g == awaiter.got
<1>0. /\ ring \in Seq(Reasons) /\ n \in Nat \ {0} /\ n <= RingSize /\ RingSize \in Nat
      /\ DOMAIN ring = 1 .. n /\ Head(ring) = ring[1] /\ ring # <<>>
      /\ awaiter.at = "advance" /\ awaiter \in Awaiters
      /\ g \in Seq(Reasons) /\ Len(g) \in Nat /\ DOMAIN g = 1 .. Len(g) /\ g # <<>>
      /\ g[Len(g)] = ring[1] /\ removed \in Nat /\ port \in PortRecord
  <2>1. /\ awaiter.at = "advance" /\ ring # <<>> /\ g # <<>> /\ g[Len(g)] = Head(ring)
        /\ awaiter \in Awaiters
    BY DEF AwaitAdvance, PortInv, Given, PortTypes, Awaiters
  <2> QED BY <2>1, PortTyped
<1>1. /\ ring' = Tail(ring) /\ removed' = removed + 1
      /\ UNCHANGED <<inbox, port, sems, telling, dequeuer, portCloser,
                     shutting, file, delivering, received>>
  BY DEF AwaitAdvance, otherVars
<1>2. /\ awaiter' \in Awaiters /\ awaiter'.at = "copy" /\ awaiter'.got = g
  <2>1. AwaitAt("copy")
    BY DEF AwaitAdvance
  <2> QED BY <2>1, AwaitAtIs
<1>3. /\ ring' \in Seq(Reasons) /\ Len(ring') = n - 1 /\ DOMAIN ring' = 1 .. n - 1
      /\ \A i \in 1 .. n - 1 : ring'[i] = ring[i + 1]
      /\ n = 1 => ring' = <<>>
  BY <1>0, <1>1
<1>4. Has(g, ring[1])
  <2>1. Len(g) # 0
    BY <1>0
  <2>2. Len(g) \in 1 .. Len(g)
    BY <1>0, <2>1
  <2> QED BY <1>0, <2>2 DEF Has
<1>5. \A x : Has(ring, x) <=> ring[1] = x \/ Has(ring', x)
  BY <1>0, <1>1, HasTail
<1>6. file = "open"
  BY <1>0 DEF PortInv, Given
<1> HIDE DEF g, n
<1>7. PortTypes'
  <2>1. Len(ring') <= RingSize /\ removed' \in Nat
    BY <1>0, <1>1, <1>3
  <2> QED BY <1>1, <1>2, <1>3, <2>1 DEF PortInv, PortTypes, Awaiters
<1>8. Position'
  <2> DEFINE a == port.available
  <2>1. a \in Int /\ a >= -1 /\ a < removed + n
        /\ (a >= removed => ring[a - removed + 1] = "MESSAGE_AVAILABLE")
    BY <1>0 DEF PortInv, Position, Filled, PortRecord, n
  <2>2. a = port'.available
    BY <1>1
  <2> HIDE DEF a
  <2>3. a < removed' + (n - 1)
    BY <1>0, <1>1, <2>1
  <2>4. ASSUME a >= removed' PROVE ring'[a - removed' + 1] = "MESSAGE_AVAILABLE"
    <3>1. a - removed' + 1 \in 1 .. n - 1 /\ a - removed' + 1 + 1 = a - removed + 1
          /\ a >= removed
      BY <1>0, <1>1, <2>1, <2>4
    <3>2. ring'[a - removed' + 1] = ring[a - removed' + 1 + 1]
      BY <1>3, <3>1
    <3> QED BY <2>1, <3>1, <3>2
  <2> QED BY <1>3, <2>1, <2>2, <2>3, <2>4 DEF Position, Filled
<1>9. Reason' /\ Given' /\ Pending'
  BY <1>1, <1>2, <1>6 DEF PortInv, Reason, Given, Pending
<1>10. SecondTold' /\ FirstTold'
  <2>1. Has(ring, "MESSAGE_AVAILABLE") \/ Has(g, "MESSAGE_AVAILABLE")
          => Has(ring', "MESSAGE_AVAILABLE") \/ Has(g, "MESSAGE_AVAILABLE")
    BY <1>4, <1>5
  <2> QED BY <1>1, <1>2, <2>1 DEF PortInv, SecondTold, FirstTold, WillLook, g
<1>11. RoomMade'
  BY <1>0, <1>1, <1>2 DEF PortInv, RoomMade
<1>12. ClosedLast'
  <2>1. \A i \in 1 .. n : ring[i] = "SERVICE_CLOSED" => i = n /\ ~port.there
    BY <1>0 DEF PortInv, ClosedLast, n
  <2>2. \A i \in DOMAIN ring' : ring'[i] = "SERVICE_CLOSED" => i = Len(ring') /\ ~port'.there
    <3> SUFFICES ASSUME NEW i \in 1 .. n - 1, ring'[i] = "SERVICE_CLOSED"
                 PROVE  i = n - 1 /\ ~port.there
      BY <1>1, <1>3
    <3>1. i + 1 \in 1 .. n /\ ring[i + 1] = "SERVICE_CLOSED" /\ i \in Nat
      BY <1>0, <1>3
    <3>2. i + 1 = n /\ ~port.there
      BY <2>1, <3>1
    <3> QED BY <3>1, <3>2
  <2>3. Has(g, "SERVICE_CLOSED") => ~port.there /\ n = 1
    BY <1>0 DEF PortInv, ClosedLast, n, g
  <2>4. \A i \in DOMAIN g : g[i] = "SERVICE_CLOSED" => i = Len(g)
    BY DEF PortInv, ClosedLast, g
  <2> QED BY <1>1, <1>2, <1>3, <2>2, <2>3, <2>4 DEF ClosedLast
<1>13. ClosedCounts'
  <2>1. ClosedWaits' <=> ClosedWaits
    <3>1. CASE n = 1
      BY <1>0, <1>3, <3>1 DEF ClosedWaits, n
    <3>2. CASE n # 1
      <4>1. n - 1 \in 1 .. n - 1 /\ n - 1 > 0 /\ n > 0 /\ n - 1 + 1 = n
        BY <1>0, <3>2
      <4>2. ring'[n - 1] = ring[n]
        BY <1>3, <4>1
      <4> QED BY <1>0, <1>2, <1>3, <3>2, <4>1, <4>2 DEF ClosedWaits, n
    <3> QED BY <3>1, <3>2
  <2>2. Has(ring', "SERVICE_CLOSED") => Has(ring, "SERVICE_CLOSED")
    BY <1>5
  <2> QED BY <1>1, <1>6, <2>1, <2>2 DEF PortInv, ClosedCounts
<1> QED BY <1>7, <1>8, <1>9, <1>10, <1>11, <1>12, <1>13 DEF PortInv

(* What the completion thread has left of a completion it handled.           *)
LEMMA GivenTail ==
  ASSUME PortInv, awaiter.at = "handle", awaiter.got # <<>>,
         awaiter' = [awaiter EXCEPT !.got = Tail(@)]
  PROVE  /\ awaiter' \in Awaiters /\ awaiter'.at = "handle"
         /\ \A x : Has(awaiter.got, x) <=> Head(awaiter.got) = x \/ Has(awaiter'.got, x)
         /\ \A i \in DOMAIN awaiter'.got :
              awaiter'.got[i] = "SERVICE_CLOSED" => i = Len(awaiter'.got)
         /\ Head(awaiter.got) \in Reasons
         /\ Has(awaiter.got, "SERVICE_CLOSED") => ~port.there /\ ring = <<>>
<1> DEFINE g == awaiter.got
           t == Tail(g)
<1>1. /\ awaiter \in Awaiters /\ g \in Seq(Reasons) /\ g # <<>>
      /\ Len(g) \in Nat \ {0} /\ DOMAIN g = 1 .. Len(g)
  <2>1. awaiter \in Awaiters /\ g # <<>>
    BY DEF PortInv, PortTypes, Awaiters
  <2> QED BY <2>1 DEF Awaiters
<1>2. /\ t \in Seq(Reasons) /\ Len(t) = Len(g) - 1 /\ DOMAIN t = 1 .. Len(g) - 1
      /\ \A i \in 1 .. Len(g) - 1 : t[i] = g[i + 1]
      /\ Head(g) \in Reasons
  BY <1>1
<1>3. \A x : Has(g, x) <=> Head(g) = x \/ Has(t, x)
  BY <1>1, HasTail
<1>4. \A i \in 1 .. Len(g) : g[i] = "SERVICE_CLOSED" => i = Len(g)
  BY <1>1 DEF PortInv, ClosedLast
<1>5. awaiter' = [awaiter EXCEPT !.got = t]
  OBVIOUS
<1>6. Has(g, "SERVICE_CLOSED") => ~port.there /\ ring = <<>>
  BY DEF PortInv, ClosedLast
<1> HIDE DEF g, t
<1>7. awaiter' \in Awaiters /\ awaiter'.at = "handle" /\ awaiter'.got = t
  BY <1>1, <1>2, <1>5 DEF Awaiters
<1>8. \A i \in DOMAIN t : t[i] = "SERVICE_CLOSED" => i = Len(t)
  <2> SUFFICES ASSUME NEW i \in 1 .. Len(g) - 1, t[i] = "SERVICE_CLOSED"
               PROVE  i = Len(g) - 1
    BY <1>2
  <2>1. i + 1 \in 1 .. Len(g) /\ g[i + 1] = "SERVICE_CLOSED" /\ i \in Nat
    BY <1>1, <1>2
  <2>2. i + 1 = Len(g)
    BY <1>4, <2>1
  <2> QED BY <2>1, <2>2
<1> QED BY <1>2, <1>3, <1>6, <1>7, <1>8 DEF g

(* On MESSAGE_AVAILABLE the library empties the queue.                       *)
LEMMA HandleMessageStep ==
  ASSUME PortInv, HandleMessage
  PROVE  PortInv'
<1>0. /\ awaiter.at = "handle" /\ awaiter.got # <<>> /\ awaiter.got \in Seq(Reasons)
      /\ Head(awaiter.got) = "MESSAGE_AVAILABLE" /\ sems \in Sems
      /\ UNCHANGED <<ring, removed, port, telling, dequeuer, portCloser, shutting,
                     file, delivering, received>>
  BY PortTyped DEF HandleMessage, otherVars
<1>1. CASE inbox # <<>> /\ port.there
  <2>1. inbox' = Tail(inbox) /\ sems' = UpSem("msgRemove") /\ UNCHANGED awaiter
    BY <1>1 DEF HandleMessage, TakeMessage
  <2>2. Has(awaiter.got, "MESSAGE_AVAILABLE")
    BY <1>0, HasTail
  <2> QED BY <1>0, <1>1, <2>1, <2>2, UpMsgRemove, TakenStep
<1>2. CASE ~(inbox # <<>> /\ port.there)
  <2>1. awaiter' = [awaiter EXCEPT !.got = Tail(@)] /\ UNCHANGED <<inbox, sems>>
    BY <1>2 DEF HandleMessage
  <2>2. /\ awaiter' \in Awaiters /\ awaiter'.at = "handle"
        /\ \A x : Has(awaiter.got, x) <=> Head(awaiter.got) = x \/ Has(awaiter'.got, x)
        /\ \A i \in DOMAIN awaiter'.got :
             awaiter'.got[i] = "SERVICE_CLOSED" => i = Len(awaiter'.got)
        /\ Has(awaiter.got, "SERVICE_CLOSED") => ~port.there /\ ring = <<>>
    BY <1>0, <2>1, GivenTail
  <2>3. PortTypes'
    BY <1>0, <2>1, <2>2 DEF PortInv, PortTypes, Awaiters
  <2>4. inbox = <<>> => Len(inbox) = 0
    OBVIOUS
  <2>5. Position' /\ Reason' /\ Given' /\ Pending' /\ SecondTold' /\ FirstTold'
    BY <1>0, <1>2, <2>1, <2>2, <2>4 DEF PortInv, Position, Filled, Reason, Given,
       Pending, SecondTold, FirstTold
  <2>6. RoomMade'
    BY <1>0, <2>1, <2>2 DEF PortInv, RoomMade
  <2>7. ClosedLast' /\ ClosedCounts'
    BY <1>0, <2>1, <2>2 DEF PortInv, ClosedLast, ClosedCounts, ClosedWaits
  <2> QED BY <2>3, <2>5, <2>6, <2>7 DEF PortInv
<1> QED BY <1>1, <1>2

(* The library handles CLOSED: close_delivered gives up its reference.       *)
LEMMA HandleClosedStep ==
  ASSUME PortInv, HandleClosed
  PROVE  PortInv'
<1> DEFINE v == port.refs - 1
<1>0. /\ awaiter.at = "handle" /\ awaiter.got # <<>> /\ awaiter.got \in Seq(Reasons)
      /\ Head(awaiter.got) = "SERVICE_CLOSED" /\ sems \in Sems /\ port \in PortRecord
      /\ awaiter' = [awaiter EXCEPT !.got = Tail(@)]
      /\ UNCHANGED <<ring, removed, inbox, telling, dequeuer, portCloser, shutting,
                     file, delivering, received>>
      /\ file = "open"
  BY PortTyped DEF HandleClosed, otherVars, PortInv, Given
<1>1. /\ awaiter' \in Awaiters /\ awaiter'.at = "handle"
      /\ \A x : Has(awaiter.got, x) <=> Head(awaiter.got) = x \/ Has(awaiter'.got, x)
      /\ \A i \in DOMAIN awaiter'.got :
           awaiter'.got[i] = "SERVICE_CLOSED" => i = Len(awaiter'.got)
      /\ Has(awaiter.got, "SERVICE_CLOSED") => ~port.there /\ ring = <<>>
  BY <1>0, GivenTail
<1>2. ~port.there /\ ring = <<>> /\ ~Has(ring, "SERVICE_CLOSED")
  BY <1>0, <1>1 DEF Has
<1>3. /\ port' \in PortRecord /\ port'.available = port.available
      /\ port'.there = port.there /\ port'.pending = port.pending
      /\ port'.refs = IF delivering /\ port.closePending THEN v ELSE port.refs
      /\ delivering => ~port'.closePending
      /\ ~delivering => port'.closePending = port.closePending
  <2>1. CASE delivering /\ port.closePending
    <3>1. port' = [port EXCEPT !.refs = v, !.closePending = FALSE] /\ v \in Int
          /\ FALSE \in BOOLEAN
      BY <1>0, <2>1 DEF HandleClosed, PortRecord
    <3> HIDE DEF v
    <3> QED BY <1>0, <2>1, <3>1 DEF PortRecord
  <2>2. CASE ~(delivering /\ port.closePending)
    <3>1. port' = port
      BY <2>2 DEF HandleClosed
    <3> QED BY <1>0, <2>2, <3>1
  <2> QED BY <2>1, <2>2
<1>4. /\ sems' \in Sems /\ sems'.msgInsert = sems.msgInsert
      /\ sems'.msgRemove = sems.msgRemove /\ sems'.remove = sems.remove
  <2>1. CASE delivering /\ port.closePending
    BY <1>0, <2>1, UpClose DEF HandleClosed
  <2>2. CASE ~(delivering /\ port.closePending)
    BY <1>0, <2>2 DEF HandleClosed
  <2> QED BY <2>1, <2>2
<1>5. PortTypes'
  BY <1>0, <1>1, <1>3, <1>4 DEF PortInv, PortTypes, Awaiters, PortRecord
<1>6. Position' /\ Reason' /\ Given'
  BY <1>0, <1>1, <1>3 DEF PortInv, Position, Filled, Reason, Given
<1>7. Pending' /\ SecondTold' /\ FirstTold'
  BY <1>0, <1>2, <1>3, <1>4 DEF PortInv, Pending, SecondTold, FirstTold
<1>8. RoomMade'
  BY <1>0, <1>1, <1>4 DEF PortInv, RoomMade
<1>9. ClosedLast'
  BY <1>0, <1>1, <1>2, <1>3 DEF ClosedLast
<1>10. ClosedCounts'
  <2>1. port.refs = IF delivering THEN IF port.closePending THEN 1 ELSE 0
                    ELSE IF ClosedWaits THEN 1 ELSE 0
    BY <1>0 DEF PortInv, ClosedCounts
  <2>2. ~ClosedWaits /\ ~ClosedWaits'
    BY <1>0, <1>2 DEF ClosedWaits
  <2>3. delivering => port'.refs = 0
    BY <1>3, <2>1
  <2>4. ~delivering => port'.refs = 0
    BY <1>3, <2>1, <2>2
  <2>5. ~port'.there /\ ~Has(ring', "SERVICE_CLOSED")
    BY <1>0, <1>2, <1>3
  <2> QED BY <1>0, <1>3, <2>2, <2>3, <2>4, <2>5 DEF ClosedCounts
<1> QED BY <1>5, <1>6, <1>7, <1>8, <1>9, <1>10 DEF PortInv

(* vchiq_release tells the slot handler not to wait any more.                *)
LEMMA ReleaseStep ==
  ASSUME PortInv, Release
  PROVE  PortInv'
<1> DEFINE i == sems.insert + 1
           r == sems.remove + 1
           m == sems.msgRemove + 1
<1>0. /\ sems \in Sems /\ file = "open" /\ awaiter.at \in {"idle", "handle"}
      /\ sems' = [sems EXCEPT !.insert = i, !.remove = r, !.msgRemove = m]
      /\ awaiter' = [at |-> "idle", got |-> <<>>] /\ shutting' = TRUE
      /\ file' = "releasing"
      /\ UNCHANGED <<ring, removed, inbox, port, telling, dequeuer, portCloser,
                     delivering, received>>
  BY PortTyped DEF Release
<1>1. i \in Nat /\ r \in Nat /\ m \in Nat /\ r > 0 /\ m > 0
  BY <1>0 DEF Sems
<1> HIDE DEF i, r, m
<1>2. sems' \in Sems /\ sems'.remove = r /\ sems'.msgRemove = m
      /\ sems'.msgInsert = sems.msgInsert
  BY <1>0, <1>1 DEF Sems
<1>3. awaiter' \in Awaiters
  <2>1. <<>> \in Seq(Reasons)
    OBVIOUS
  <2> QED BY <1>0, <2>1 DEF Awaiters
<1>4. PortTypes'
  <2>1. shutting' \in BOOLEAN
    BY <1>0
  <2> QED BY <1>0, <1>2, <1>3, <2>1 DEF PortInv, PortTypes, Awaiters
<1>5. Position' /\ Reason' /\ Given' /\ Pending' /\ SecondTold' /\ FirstTold'
  BY <1>0, <1>2 DEF PortInv, Position, Filled, Reason, Given, Pending, SecondTold,
     FirstTold
<1>6. RoomMade'
  BY <1>0, <1>1, <1>2 DEF PortInv, RoomMade
<1>7. ClosedLast'
  BY <1>0 DEF PortInv, ClosedLast, Has
<1>8. ClosedCounts'
  <2>1. ClosedWaits' <=> ClosedWaits
    BY <1>0 DEF ClosedWaits
  <2> QED BY <1>0, <2>1 DEF PortInv, ClosedCounts
<1> QED BY <1>4, <1>5, <1>6, <1>7, <1>8 DEF PortInv

(* The completions that say CLOSED, as a number: at most one.                *)
LEMMA ClosedNumber ==
  ASSUME PortInv
  PROVE  /\ Cardinality({i \in DOMAIN ring : ring[i] = "SERVICE_CLOSED"})
              = IF Has(ring, "SERVICE_CLOSED") THEN 1 ELSE 0
         /\ Cardinality({i \in DOMAIN ring :
                           ring[i] = "SERVICE_CLOSED" /\ ~(i = 1 /\ awaiter.at = "advance")})
              = IF ClosedWaits THEN 1 ELSE 0
         /\ Has(ring, "SERVICE_CLOSED") /\ awaiter.at # "advance" => ClosedWaits
         /\ ClosedWaits => Has(ring, "SERVICE_CLOSED")
<1> DEFINE n == Len(ring)
           A == {i \in DOMAIN ring : ring[i] = "SERVICE_CLOSED"}
           B == {i \in DOMAIN ring :
                   ring[i] = "SERVICE_CLOSED" /\ ~(i = 1 /\ awaiter.at = "advance")}
<1>1. n \in Nat /\ DOMAIN ring = 1 .. n
  BY PortTyped
<1>2. \A i \in 1 .. n : ring[i] = "SERVICE_CLOSED" => i = n
  BY <1>1 DEF PortInv, ClosedLast
<1>3. Cardinality({}) = 0 /\ Cardinality({n}) = 1
  BY FS_EmptySet, FS_Singleton
<1>4. A = IF Has(ring, "SERVICE_CLOSED") THEN {n} ELSE {}
  <2>1. CASE Has(ring, "SERVICE_CLOSED")
    <3>1. PICK i \in 1 .. n : ring[i] = "SERVICE_CLOSED"
      BY <1>1, <2>1 DEF Has
    <3>2. i = n
      BY <1>2, <3>1
    <3> QED BY <1>1, <1>2, <2>1, <3>1, <3>2
  <2>2. CASE ~Has(ring, "SERVICE_CLOSED")
    BY <2>2 DEF Has
  <2> QED BY <2>1, <2>2
<1>5. B = IF ClosedWaits THEN {n} ELSE {}
  <2>1. CASE ClosedWaits
    <3>1. n > 0 /\ ring[n] = "SERVICE_CLOSED" /\ ~(n = 1 /\ awaiter.at = "advance")
      BY <2>1 DEF ClosedWaits
    <3>2. n \in 1 .. n
      BY <1>1, <3>1
    <3>3. n \in B
      BY <1>1, <3>1, <3>2
    <3>4. \A i \in B : i = n
      BY <1>1, <1>2
    <3> HIDE DEF B
    <3> QED BY <2>1, <3>3, <3>4
  <2>2. CASE ~ClosedWaits
    <3> SUFFICES ASSUME NEW i \in B PROVE FALSE
      BY <2>2
    <3>1. i \in 1 .. n /\ ring[i] = "SERVICE_CLOSED" /\ ~(i = 1 /\ awaiter.at = "advance")
      BY <1>1
    <3>2. i = n /\ n > 0
      <4>1. i = n
        BY <1>2, <3>1
      <4>2. n \in Nat /\ i \in 1 .. n
        BY <1>1, <3>1
      <4> HIDE DEF n
      <4> QED BY ONLY <4>1, <4>2
    <3> QED BY <2>2, <3>1, <3>2 DEF ClosedWaits
  <2> QED BY <2>1, <2>2
<1>6. Has(ring, "SERVICE_CLOSED") /\ awaiter.at # "advance" => ClosedWaits
  <2> SUFFICES ASSUME Has(ring, "SERVICE_CLOSED"), awaiter.at # "advance"
               PROVE  ClosedWaits
    OBVIOUS
  <2>1. PICK i \in 1 .. n : ring[i] = "SERVICE_CLOSED"
    BY <1>1 DEF Has
  <2>2. i = n /\ n > 0
    <3>1. i = n
      BY <1>2, <2>1
    <3>2. n \in Nat /\ i \in 1 .. n
      BY <1>1, <2>1
    <3> HIDE DEF n
    <3> QED BY ONLY <3>1, <3>2
  <2> QED BY <2>1, <2>2 DEF ClosedWaits
<1>7. ClosedWaits => Has(ring, "SERVICE_CLOSED")
  <2> SUFFICES ASSUME ClosedWaits PROVE Has(ring, "SERVICE_CLOSED")
    OBVIOUS
  <2>1. n \in 1 .. n /\ ring[n] = "SERVICE_CLOSED"
    BY <1>1 DEF ClosedWaits
  <2> QED BY <1>1, <2>1 DEF Has
<1> HIDE DEF A, B
<1>8. Cardinality(A) = (IF Has(ring, "SERVICE_CLOSED") THEN 1 ELSE 0)
      /\ Cardinality(B) = (IF ClosedWaits THEN 1 ELSE 0)
  BY <1>3, <1>4, <1>5
<1> QED BY <1>6, <1>7, <1>8 DEF A, B

(* ... and takes back the references that nobody will.                       *)
LEMMA ReleasedStep ==
  ASSUME PortInv, Released
  PROVE  PortInv'
<1> DEFINE c == Cardinality({i \in DOMAIN ring : ring[i] = "SERVICE_CLOSED"})
           v == port.refs - c
<1>0. /\ file = "releasing" /\ ~port.there /\ telling.at = "idle"
      /\ file' = "released" /\ inbox' = <<>> /\ ring' = <<>>
      /\ removed' = removed + Len(ring)
      /\ port' = [port EXCEPT !.refs = v]
      /\ UNCHANGED <<sems, shutting, telling, awaiter, dequeuer, portCloser,
                     delivering, received>>
  BY DEF Released
<1>1. /\ port \in PortRecord /\ Len(ring) \in Nat /\ removed \in Nat
      /\ RingSize \in Nat /\ InboxSize \in Nat
  BY PortTyped
<1>2. c = IF Has(ring, "SERVICE_CLOSED") THEN 1 ELSE 0
  BY ClosedNumber
<1>3. awaiter.at = "idle" /\ awaiter.got = <<>>
  BY <1>0 DEF PortInv, Given
<1>4. v \in 0 .. 1
  <2>1. port.refs = IF delivering THEN IF port.closePending THEN 1 ELSE 0
                    ELSE IF ClosedWaits THEN 1 ELSE 0
    BY <1>0 DEF PortInv, ClosedCounts
  <2>2. delivering /\ Has(ring, "SERVICE_CLOSED") => port.closePending
    BY DEF PortInv, ClosedCounts
  <2>3. ClosedWaits <=> Has(ring, "SERVICE_CLOSED")
    BY <1>3, ClosedNumber
  <2> HIDE DEF c
  <2> QED BY <1>2, <2>1, <2>2, <2>3
<1> HIDE DEF v
<1>5. /\ port' \in PortRecord /\ port'.refs = v /\ port'.available = port.available
      /\ port'.there = port.there /\ port'.pending = port.pending
  <2>1. v \in Int
    BY <1>4
  <2> QED BY <1>0, <1>1, <2>1 DEF PortRecord
<1>6. PortTypes'
  <2>1. /\ ring' \in Seq(Reasons) /\ Len(ring') <= RingSize /\ removed' \in Nat
        /\ inbox' \in Seq(Nat) /\ Len(inbox') <= InboxSize
    BY <1>0, <1>1, UserPortAssumption
  <2>2. file' \in {"open", "releasing", "released"}
    BY <1>0
  <2> QED BY <1>0, <1>5, <2>1, <2>2 DEF PortInv, PortTypes, PortRecord
<1>7. Position'
  <2>1. /\ port.available \in Int /\ port.available >= -1
        /\ port.available < removed + Len(ring)
    BY <1>1 DEF PortInv, Position, Filled, PortRecord
  <2>2. Len(ring') = 0 /\ removed' \in Nat
    BY <1>0, <1>1
  <2>3. port'.available < removed' + Len(ring') /\ ~(port'.available >= removed')
    BY <1>0, <1>1, <1>5, <2>1, <2>2
  <2> QED BY <1>5, <2>1, <2>3 DEF Position, Filled
<1>8. Reason' /\ Given' /\ Pending' /\ SecondTold' /\ FirstTold'
  BY <1>0, <1>3, <1>5 DEF PortInv, Reason, Given, Pending, SecondTold, FirstTold
<1>9. RoomMade'
  BY <1>0 DEF RoomMade
<1>10. ClosedLast' /\ ClosedCounts'
  BY <1>0, <1>3, <1>4, <1>5 DEF ClosedLast, ClosedCounts, Has
<1> QED BY <1>6, <1>7, <1>8, <1>9, <1>10 DEF PortInv

(* Every action keeps the invariant.                                         *)
LEMMA PortStep == PortInv /\ [PortNext]_portVars => PortInv'
<1> SUFFICES ASSUME PortInv, [PortNext]_portVars PROVE PortInv'
  OBVIOUS
<1>1. CASE PortNext
  BY <1>1, TellMessageStep, RoomWokenStep, RoomInsertStep, AddCompletionStep,
     AddFullStep, AddWokenStep, TellClosedStep, AwaitCallStep, AwaitCopyStep,
     AwaitAdvanceStep, AwaitReturnStep, HandleMessageStep, HandleClosedStep,
     HandleEndsStep, DequeueStep, DequeueEndsStep, PortCloserStep, ReleaseStep,
     ReleasedStep
     DEF PortNext
<1>2. CASE UNCHANGED portVars
  BY <1>2 DEF portVars, PortInv, PortTypes, Position, Filled, Reason, Given, Pending,
     SecondTold, FirstTold, WillLook, RoomMade, ClosedLast, ClosedCounts, ClosedWaits
<1> QED BY <1>1, <1>2

(* The types of the model follow from the invariant.                         *)
LEMMA PortTypedOK == PortInv => PortTypeOK
<1> SUFFICES ASSUME PortInv PROVE PortTypeOK
  OBVIOUS
<1>1. /\ RingSize \in Nat \ {0} /\ ring \in Seq(Reasons) /\ Len(ring) <= RingSize
      /\ Len(ring) \in Nat /\ removed \in Nat /\ port \in PortRecord /\ sems \in Sems
      /\ telling.at \in Ats /\ Len(inbox) <= InboxSize
  BY PortTyped
<1>2. port.available \in -1 .. removed + RingSize
  <2>1. /\ port.available \in Int /\ port.available >= -1
        /\ port.available < removed + Len(ring)
    BY <1>1 DEF PortInv, Position, Filled, PortRecord
  <2> QED BY <1>1, <2>1
<1>3. port.refs \in 0 .. 1
  <2>1. CASE file = "released"
    BY <2>1 DEF PortInv, ClosedCounts
  <2>2. CASE file # "released"
    BY <2>2 DEF PortInv, ClosedCounts
  <2> QED BY <2>1, <2>2
<1>4. \A e \in DOMAIN sems : sems[e] \in Nat
  BY <1>1 DEF Sems
<1> QED BY <1>1, <1>2, <1>3, <1>4 DEF PortTypeOK, Reasons, Ats

(* What is kept for a user process keeps its types: neither ring grows       *)
(* beyond its size, message_available_pos stays below completion_insert, and *)
(* no semaphore or reference goes below zero (add_completion,                *)
(* service_callback, AWAIT_COMPLETION, DEQUEUE_MESSAGE).                     *)
THEOREM PortTypesKept == PortSpec => []PortTypeOK
<1> QED BY PortInitially, PortStep, PortTypedOK, PTL DEF PortSpec

(* For every size of the two rings: a message is never left in the queue     *)
(* with nobody in the process about to look, the slot handler never waits    *)
(* for room that nobody will make, and CLOSED keeps the service exactly      *)
(* until the process knows (service_callback, add_completion,                *)
(* AWAIT_COMPLETION, DEQUEUE_MESSAGE, close_delivered, vchiq_release).       *)
THEOREM ProcessIsTold == PortSpec => []ProcessTold
<1>1. PortInv => ProcessTold
  <2> SUFFICES ASSUME PortInv PROVE ProcessTold
    OBVIOUS
  <2>1. /\ telling.at \in {"addDown", "extraDown"} /\ Len(ring) < RingSize =>
             sems.remove > 0 \/ awaiter.at \in {"copy", "advance"}
        /\ telling.at = "full" /\ ~shutting /\ Len(inbox) < InboxSize =>
             sems.msgRemove > 0
    BY DEF PortInv, RoomMade
  <2>2. file # "released" =>
          port.refs = IF delivering THEN IF port.closePending THEN 1 ELSE 0
                      ELSE IF ClosedWaits THEN 1 ELSE 0
    BY DEF PortInv, ClosedCounts
  <2>3. Cardinality({i \in DOMAIN ring :
                       ring[i] = "SERVICE_CLOSED" /\ ~(i = 1 /\ awaiter.at = "advance")})
          = IF ClosedWaits THEN 1 ELSE 0
    BY ClosedNumber
  <2>4. inbox # <<>> /\ port.there /\ ~shutting /\ telling.at \in {"idle", "full"} =>
          WillLook
    BY DEF PortInv, FirstTold
  <2> QED BY <2>1, <2>2, <2>3, <2>4 DEF ProcessTold
<1> QED BY <1>1, PortInitially, PortStep, PTL DEF PortSpec

-----------------------------------------------------------------------------
(* Induction up to a number, for a set.                                      *)
LEMMA UpTo ==
  ASSUME NEW n \in Nat, NEW S, 0 \in S, \A i \in 0 .. n - 1 : i \in S => i + 1 \in S
  PROVE  \A i \in 0 .. n : i \in S
<1> DEFINE missing == {i \in 0 .. n : i \notin S}
<1>1. SUFFICES ASSUME missing # {} PROVE FALSE
  OBVIOUS
<1>2. missing \in SUBSET Nat
  OBVIOUS
<1>3. PICK i \in missing : \A j \in missing : i <= j
  BY <1>1, <1>2, Smallest
<1>4. i \in 0 .. n /\ i \notin S /\ i # 0
  BY <1>3
<1>5. i - 1 \in 0 .. n - 1 /\ ~(i <= i - 1)
  BY <1>4
<1>6. i - 1 \in S
  BY <1>3, <1>5
<1>7. i - 1 + 1 = i
  BY <1>4
<1> QED BY <1>4, <1>5, <1>6, <1>7

(* PagesUpTo is what its definition by recursion says: there is such a       *)
(* function for any number of words, since there is one for each number less.*)
LEMMA PagesUpToIs ==
  ASSUME NEW words, Len(words) \in Nat
  PROVE  PagesUpTo(words) = [i \in 0 .. Len(words) |->
           IF i = 0 THEN <<>> ELSE PagesUpTo(words)[i - 1] \o PagesOf(words[i])]
<1> DEFINE F(f, m) == [i \in 0 .. m |-> IF i = 0 THEN <<>> ELSE f[i - 1] \o PagesOf(words[i])]
           S == {m \in Nat : \E f : f = F(f, m)}
<1>1. 0 \in S
  <2> DEFINE f == [i \in {0} |-> <<>>]
  <2>1. f = F(f, 0)
    OBVIOUS
  <2> QED BY <2>1
<1>2. ASSUME NEW m \in 0 .. Len(words) - 1, m \in S PROVE m + 1 \in S
  <2>1. PICK f : f = F(f, m)
    BY <1>2
  <2> DEFINE g == [i \in 0 .. m + 1 |-> IF i = m + 1 THEN f[m] \o PagesOf(words[m + 1]) ELSE f[i]]
  <2>2. \A i \in 0 .. m : f[i] = IF i = 0 THEN <<>> ELSE f[i - 1] \o PagesOf(words[i])
    BY <2>1
  <2>3. m \in Nat /\ m + 1 \in Nat
    BY <1>2
  <2>4. ASSUME NEW i \in 0 .. m + 1
        PROVE  g[i] = IF i = 0 THEN <<>> ELSE g[i - 1] \o PagesOf(words[i])
    <3>1. CASE i = m + 1
      BY <2>3, <3>1
    <3>2. CASE i # m + 1
      <4>1. i \in 0 .. m /\ (i # 0 => i - 1 \in 0 .. m + 1 /\ i - 1 # m + 1)
        BY <2>3, <3>2
      <4> QED BY <2>2, <3>2, <4>1
    <3> QED BY <3>1, <3>2
  <2>5. g = F(g, m + 1)
    <3>1. F(g, m + 1) = [i \in 0 .. m + 1 |-> g[i]]
      BY <2>4
    <3> QED BY <3>1
  <2> HIDE DEF g
  <2> QED BY <2>3, <2>5
<1>3. Len(words) \in S
  <2> HIDE DEF S
  <2>1. \A i \in 0 .. Len(words) : i \in S
    BY <1>1, <1>2, UpTo
  <2> QED BY <2>1
<1>4. \E f : f = F(f, Len(words))
  BY <1>3
<1>5. PagesUpTo(words) = CHOOSE f : f = F(f, Len(words))
  BY DEF PagesUpTo
<1> QED BY <1>4, <1>5
(* The same of the runs.                                                     *)
LEMMA RunsOfIs ==
  ASSUME NEW pages, Len(pages) \in Nat
  PROVE  RunsOf(pages) = [i \in 0 .. Len(pages) |->
           IF i = 0 THEN <<>> ELSE Joined(RunsOf(pages)[i - 1], pages[i])]
<1> DEFINE F(f, m) == [i \in 0 .. m |-> IF i = 0 THEN <<>> ELSE Joined(f[i - 1], pages[i])]
           S == {m \in Nat : \E f : f = F(f, m)}
<1>1. 0 \in S
  <2> DEFINE f == [i \in {0} |-> <<>>]
  <2>1. f = F(f, 0)
    OBVIOUS
  <2> QED BY <2>1
<1>2. ASSUME NEW m \in 0 .. Len(pages) - 1, m \in S PROVE m + 1 \in S
  <2>1. PICK f : f = F(f, m)
    BY <1>2
  <2> DEFINE g == [i \in 0 .. m + 1 |-> IF i = m + 1 THEN Joined(f[m], pages[m + 1]) ELSE f[i]]
  <2>2. \A i \in 0 .. m : f[i] = IF i = 0 THEN <<>> ELSE Joined(f[i - 1], pages[i])
    BY <2>1
  <2>3. m \in Nat /\ m + 1 \in Nat
    BY <1>2
  <2>4. ASSUME NEW i \in 0 .. m + 1
        PROVE  g[i] = IF i = 0 THEN <<>> ELSE Joined(g[i - 1], pages[i])
    <3>1. CASE i = m + 1
      BY <2>3, <3>1
    <3>2. CASE i # m + 1
      <4>1. i \in 0 .. m /\ (i # 0 => i - 1 \in 0 .. m + 1 /\ i - 1 # m + 1)
        BY <2>3, <3>2
      <4> QED BY <2>2, <3>2, <4>1
    <3> QED BY <3>1, <3>2
  <2>5. g = F(g, m + 1)
    <3>1. F(g, m + 1) = [i \in 0 .. m + 1 |-> g[i]]
      BY <2>4
    <3> QED BY <3>1
  <2> HIDE DEF g
  <2> QED BY <2>3, <2>5
<1>3. Len(pages) \in S
  <2> HIDE DEF S
  <2>1. \A i \in 0 .. Len(pages) : i \in S
    BY <1>1, <1>2, UpTo
  <2> QED BY <2>1
<1>4. \E f : f = F(f, Len(pages))
  BY <1>3
<1>5. RunsOf(pages) = CHOOSE f : f = F(f, Len(pages))
  BY DEF RunsOf
<1> QED BY <1>4, <1>5

(* Division with remainder, by any number.                                   *)
LEMMA DivMod ==
  ASSUME NEW d \in Nat \ {0}, NEW i \in Nat
  PROVE  i \div d \in Nat /\ i % d \in 0 .. d - 1 /\ i = d * (i \div d) + (i % d)
<1>1. i \div d \in Int /\ i % d \in 0 .. d - 1
  OBVIOUS
<1>2. i = d * (i \div d) + (i % d)
  OBVIOUS
<1>3. i \div d >= 0
  OBVIOUS
<1> QED BY <1>1, <1>2, <1>3

(* Quotient and remainder are unique.                                        *)
LEMMA DivModIs ==
  ASSUME NEW d \in Nat \ {0}, NEW x \in Int, NEW q \in Int, NEW r \in 0 .. d - 1, x = d * q + r
  PROVE  x \div d = q /\ x % d = r
<1> DEFINE p == x \div d
           s == x % d
<1>1. p \in Int /\ s \in 0 .. d - 1 /\ x = d * p + s
  OBVIOUS
<1> HIDE DEF p, s
<1>2. d * (q - p) = s - r
  BY <1>1
<1>3. CASE q - p >= 1
  <2>1. d * (q - p) >= d
    BY <1>1, <1>3
  <2> QED BY <1>1, <1>2, <2>1
<1>4. CASE q - p <= -1
  <2>1. d * (q - p) <= -d
    BY <1>1, <1>4
  <2> QED BY <1>1, <1>2, <2>1
<1>5. CASE q - p = 0
  <2>1. d * (q - p) = 0
    BY <1>5
  <2>2. s = r /\ p = q
    BY <1>1, <1>2, <1>5, <2>1
  <2> QED BY <2>2 DEF p, s
<1> QED BY <1>1, <1>3, <1>4, <1>5

(* The runs that a word can hold.                                            *)
Runs == [base : Nat, run : 0 .. PageSize - 1]

(* A word names the pages of its run.                                        *)
LEMMA PagesOfWord ==
  ASSUME NEW e \in Runs
  PROVE  /\ e.base * PageSize + e.run \in Nat
         /\ PagesOf(e.base * PageSize + e.run) = [k \in 1 .. e.run + 1 |-> e.base + k - 1]
<1>0. PageSize \in Nat \ {0} /\ e.base \in Nat /\ e.run \in 0 .. PageSize - 1
  BY PageListAssumption DEF Runs
<1> DEFINE x == e.base * PageSize + e.run
<1>1. x \in Int /\ x = PageSize * e.base + e.run /\ x \in Nat
  BY <1>0
<1> HIDE DEF x
<1>2. x \div PageSize = e.base /\ x % PageSize = e.run
  <2>1. e.base \in Int /\ x \in Int
    BY <1>0, <1>1
  <2> QED BY ONLY <1>0, <1>1, <2>1, DivModIs
<1> USE DEF x
<1> QED BY <1>1, <1>2 DEF PagesOf

(* What the words before the last name does not depend on the last.          *)
LEMMA PagesNamedAppend ==
  ASSUME NEW words \in Seq(Nat), NEW w \in Nat
  PROVE  PagesNamed(Append(words, w)) = PagesNamed(words) \o PagesOf(w)
<1> DEFINE n == Len(words)
           more == Append(words, w)
           f == PagesUpTo(words)
           g == PagesUpTo(more)
           S == {i \in 0 .. n : f[i] = g[i]}
<1>0. n \in Nat /\ Len(more) = n + 1 /\ more[n + 1] = w /\ \A i \in 1 .. n : more[i] = words[i]
  OBVIOUS
<1>1. f = [i \in 0 .. n |-> IF i = 0 THEN <<>> ELSE f[i - 1] \o PagesOf(words[i])]
  BY <1>0, PagesUpToIs
<1>2. g = [i \in 0 .. n + 1 |-> IF i = 0 THEN <<>> ELSE g[i - 1] \o PagesOf(more[i])]
  <2> HIDE DEF n, f, more
  <2>0. Len(more) \in Nat
    BY <1>0
  <2>1. g = [i \in 0 .. Len(more) |-> IF i = 0 THEN <<>> ELSE g[i - 1] \o PagesOf(more[i])]
    BY ONLY <2>0, PagesUpToIs
  <2> QED BY <1>0, <2>1
<1> HIDE DEF f, g, n, more
<1>3. 0 \in S
  BY <1>0, <1>1, <1>2
<1>4. ASSUME NEW i \in 0 .. n - 1, i \in S PROVE i + 1 \in S
  <2> DEFINE j == i + 1
  <2>1. j \in 0 .. n /\ j \in 1 .. n /\ j # 0 /\ j - 1 = i /\ j \in 0 .. n + 1
    BY <1>0, <1>4
  <2> HIDE DEF j
  <2>2. f[j] = f[j - 1] \o PagesOf(words[j])
    BY <1>1, <2>1
  <2>3. g[j] = g[j - 1] \o PagesOf(more[j])
    BY <1>2, <2>1
  <2>4. j \in S
    BY <1>0, <1>4, <2>1, <2>2, <2>3
  <2> QED BY <2>4 DEF j
<1>5. n \in S
  <2> HIDE DEF S
  <2>1. \A i \in 0 .. n : i \in S
    BY <1>0, <1>3, <1>4, UpTo
  <2> QED BY <1>0, <2>1
<1>6. f[n] = g[n]
  BY <1>5
<1>7. g[n + 1] = g[n] \o PagesOf(more[n + 1])
  <2>1. n + 1 \in 0 .. n + 1 /\ n + 1 # 0 /\ n + 1 - 1 = n
    BY <1>0
  <2> QED BY <1>2, <2>1
<1>8. PagesNamed(words) = f[n] /\ PagesNamed(more) = g[n + 1]
  BY <1>0 DEF PagesNamed, f, g, n
<1> QED BY <1>0, <1>6, <1>7, <1>8 DEF more

(* No words name no pages.                                                   *)
LEMMA PagesNamedEmpty == PagesNamed(<<>>) = <<>>
<1>1. Len(<<>>) = 0
  OBVIOUS
<1>2. PagesUpTo(<<>>) = [i \in 0 .. 0 |->
        IF i = 0 THEN <<>> ELSE PagesUpTo(<<>>)[i - 1] \o PagesOf(<<>>[i])]
  BY <1>1, PagesUpToIs
<1> QED BY <1>1, <1>2 DEF PagesNamed

(* The words of runs, with one run more.                                     *)
LEMMA WordsOfAppend ==
  ASSUME NEW runs \in Seq(Runs), NEW e \in Runs
  PROVE  /\ WordsOf(runs) \in Seq(Nat)
         /\ WordsOf(Append(runs, e)) = Append(WordsOf(runs), e.base * PageSize + e.run)
<1>1. \A i \in 1 .. Len(runs) : runs[i].base * PageSize + runs[i].run \in Nat
  <2> SUFFICES ASSUME NEW i \in 1 .. Len(runs)
               PROVE  runs[i].base * PageSize + runs[i].run \in Nat
    OBVIOUS
  <2>1. runs[i] \in Runs
    OBVIOUS
  <2> QED BY ONLY <2>1, PagesOfWord
<1>2. e.base * PageSize + e.run \in Nat
  BY PagesOfWord
<1> DEFINE x == e.base * PageSize + e.run
           more == Append(runs, e)
<1>3. WordsOf(runs) \in Seq(Nat) /\ Len(WordsOf(runs)) = Len(runs)
  BY <1>1 DEF WordsOf
<1>4. more \in Seq(Runs) /\ Len(more) = Len(runs) + 1 /\ more[Len(runs) + 1] = e
      /\ \A i \in 1 .. Len(runs) : more[i] = runs[i]
  OBVIOUS
<1> HIDE DEF more
<1>5. WordsOf(more) = [i \in 1 .. Len(runs) + 1 |-> more[i].base * PageSize + more[i].run]
  BY <1>4 DEF WordsOf
<1>6. \A i \in 1 .. Len(runs) + 1 : WordsOf(more)[i] = Append(WordsOf(runs), x)[i]
  <2> SUFFICES ASSUME NEW i \in 1 .. Len(runs) + 1 PROVE WordsOf(more)[i] = Append(WordsOf(runs), x)[i]
    OBVIOUS
  <2>1. CASE i = Len(runs) + 1
    BY <1>3, <1>4, <1>5, <2>1
  <2>2. CASE i # Len(runs) + 1
    <3>1. i \in 1 .. Len(runs)
      BY <2>2
    <3>2. WordsOf(runs)[i] = runs[i].base * PageSize + runs[i].run
      BY <3>1 DEF WordsOf
    <3> HIDE DEF x
    <3>3. Append(WordsOf(runs), x)[i] = WordsOf(runs)[i]
      BY <1>3, <3>1
    <3> QED BY <1>4, <1>5, <3>1, <3>2, <3>3
  <2> QED BY <2>1, <2>2
<1>7. WordsOf(more) = Append(WordsOf(runs), x)
  <2>0. x \in Nat
    BY <1>2
  <2> HIDE DEF x
  <2>1. Append(WordsOf(runs), x) = [i \in 1 .. Len(runs) + 1 |-> Append(WordsOf(runs), x)[i]]
    <3> DEFINE q == Append(WordsOf(runs), x)
    <3>1. q \in Seq(Nat) /\ Len(q) = Len(runs) + 1
      BY <1>3, <2>0
    <3> HIDE DEF q
    <3>2. q = [i \in 1 .. Len(q) |-> q[i]]
      BY <3>1
    <3> QED BY <3>1, <3>2 DEF q
  <2>2. WordsOf(more) = [i \in 1 .. Len(runs) + 1 |-> WordsOf(more)[i]]
    BY <1>5
  <2> QED BY <1>6, <2>1, <2>2
<1> QED BY <1>3, <1>7 DEF more

(* The pages of a word are numbers.                                          *)
LEMMA PagesOfType ==
  ASSUME NEW w \in Nat
  PROVE  PagesOf(w) \in Seq(Nat)
<1>0. PageSize \in Nat \ {0}
  BY PageListAssumption
<1>1. w \div PageSize \in Nat /\ w % PageSize \in 0 .. PageSize - 1
  BY <1>0, DivMod
<1> DEFINE q == w \div PageSize  r == w % PageSize
<1>2. q \in Nat /\ r \in Nat
  BY <1>0, <1>1
<1>3. PagesOf(w) = [k \in 1 .. r + 1 |-> q + k - 1]
  BY DEF PagesOf
<1> HIDE DEF q, r
<1> QED BY <1>2, <1>3

(* And so are those of a page list.                                          *)
LEMMA PagesNamedType ==
  ASSUME NEW words \in Seq(Nat)
  PROVE  PagesNamed(words) \in Seq(Nat)
<1> DEFINE n == Len(words)
           f == PagesUpTo(words)
           S == {i \in 0 .. n : f[i] \in Seq(Nat)}
<1>0. n \in Nat /\ \A i \in 1 .. n : words[i] \in Nat
  OBVIOUS
<1>1. f = [i \in 0 .. n |-> IF i = 0 THEN <<>> ELSE f[i - 1] \o PagesOf(words[i])]
  BY <1>0, PagesUpToIs
<1> HIDE DEF f, n
<1>2. 0 \in S
  BY <1>0, <1>1
<1>3. ASSUME NEW i \in 0 .. n - 1, i \in S PROVE i + 1 \in S
  <2> DEFINE j == i + 1
  <2>1. j \in 0 .. n /\ j \in 1 .. n /\ j # 0 /\ j - 1 = i
    BY <1>0, <1>3
  <2> HIDE DEF j
  <2>2. f[j] = f[j - 1] \o PagesOf(words[j])
    BY <1>1, <2>1
  <2>3. words[j] \in Nat
    BY <1>0, <2>1
  <2>4. PagesOf(words[j]) \in Seq(Nat)
    BY ONLY <2>3, PagesOfType
  <2>5. f[i] \in Seq(Nat)
    BY <1>3
  <2>6. f[j] \in Seq(Nat)
    <3> DEFINE u == f[j - 1]
               v == PagesOf(words[j])
    <3>1. u \in Seq(Nat) /\ v \in Seq(Nat)
      BY <2>1, <2>4, <2>5
    <3> HIDE DEF u, v
    <3>2. u \o v \in Seq(Nat)
      BY <3>1
    <3> QED BY <2>2, <3>2 DEF u, v
  <2>7. j \in S
    BY <2>1, <2>6
  <2> QED BY <2>7 DEF j
<1>4. n \in S
  <2> HIDE DEF S
  <2>1. \A i \in 0 .. n : i \in S
    BY <1>0, <1>2, <1>3, UpTo
  <2> QED BY <1>0, <2>1
<1> QED BY <1>4 DEF PagesNamed, f, n

(* A sequence with its last element replaced.                                *)
LEMMA LastReplaced ==
  ASSUME NEW T, NEW q \in Seq(T), Len(q) # 0, NEW e \in T
  PROVE  [q EXCEPT ![Len(q)] = e] = Append(SubSeq(q, 1, Len(q) - 1), e)
<1> DEFINE n == Len(q)
           front == SubSeq(q, 1, n - 1)
           a == [q EXCEPT ![n] = e]
           b == Append(front, e)
<1>1. n \in Nat \ {0} /\ q = [i \in 1 .. n |-> q[i]] /\ \A i \in 1 .. n : q[i] \in T
  OBVIOUS
<1>2. front \in Seq(T) /\ Len(front) = n - 1 /\ \A i \in 1 .. n - 1 : front[i] = q[i]
  BY <1>1
<1>3. a = [i \in 1 .. n |-> IF i = n THEN e ELSE q[i]]
  BY <1>1
<1> HIDE DEF n, front
<1>4. b = [i \in 1 .. n |-> IF i = n THEN e ELSE q[i]]
  <2>1. b \in Seq(T) /\ Len(b) = n
    BY <1>1, <1>2
  <2>2. b = [i \in 1 .. n |-> b[i]]
    <3> HIDE DEF b
    <3> QED BY <2>1
  <2>3. ASSUME NEW i \in 1 .. n PROVE b[i] = IF i = n THEN e ELSE q[i]
    <3>1. CASE i = n
      BY <1>1, <1>2, <3>1
    <3>2. CASE i # n
      <4>1. i \in 1 .. n - 1
        BY <1>1, <3>2
      <4>2. b[i] = front[i]
        BY <1>2, <4>1
      <4> QED BY <1>2, <3>2, <4>1, <4>2
    <3> QED BY <3>1, <3>2
  <2> HIDE DEF b
  <2> QED BY <2>2, <2>3
<1> QED BY <1>3, <1>4 DEF n, front

(* A page more, in the last run or in another.                               *)
LEMMA JoinedNames ==
  ASSUME NEW runs \in Seq(Runs), NEW p \in Nat
  PROVE  /\ Joined(runs, p) \in Seq(Runs)
         /\ PagesNamed(WordsOf(Joined(runs, p))) = Append(PagesNamed(WordsOf(runs)), p)
<1>0. PageSize \in Nat \ {0}
  BY PageListAssumption
<1> DEFINE n == Len(runs)
           last == runs[n]
<1>1. CASE runs # <<>> /\ p = last.base + last.run + 1 /\ RoomInRun(last.run)
  <2>0. n \in Nat \ {0} /\ last \in Runs
    BY <1>1
  <2>1. last.base \in Nat /\ last.run \in 0 .. PageSize - 2
    BY <1>0, <1>1, <2>0 DEF Runs, RoomInRun
  <2> DEFINE front == SubSeq(runs, 1, n - 1)
             longer == [base |-> last.base, run |-> last.run + 1]
             A == PagesNamed(WordsOf(front))
             B == [k \in 1 .. last.run + 1 |-> last.base + k - 1]
             C == [k \in 1 .. last.run + 1 + 1 |-> last.base + k - 1]
  <2>2. longer \in Runs
    BY <1>0, <2>1 DEF Runs
  <2>3. last = [base |-> last.base, run |-> last.run]
    BY <2>0 DEF Runs
  <2>4. front \in Seq(Runs) /\ runs = Append(front, last)
    BY <2>0
  <2>5. Joined(runs, p) = Append(front, longer)
    <3>1. Joined(runs, p) = [runs EXCEPT ![n].run = @ + 1]
      BY <1>1 DEF Joined
    <3>2. [last EXCEPT !.run = @ + 1] = longer
      BY <2>3
    <3>3. [runs EXCEPT ![n].run = @ + 1] = [runs EXCEPT ![n] = longer]
      <4>1. [runs EXCEPT ![n].run = @ + 1] = [runs EXCEPT ![n] = [last EXCEPT !.run = @ + 1]]
        OBVIOUS
      <4> HIDE DEF longer, last
      <4> QED BY <3>2, <4>1
    <3> HIDE DEF longer, last
    <3>4. [runs EXCEPT ![n] = longer] = Append(front, longer)
      BY ONLY <2>0, <2>2, LastReplaced, runs \in Seq(Runs) DEF front
    <3> QED BY <3>1, <3>3, <3>4
  <2> HIDE DEF front
  <2>6. WordsOf(front) \in Seq(Nat)
    BY ONLY <2>4, <2>2, WordsOfAppend
  <2>7. A \in Seq(Nat)
    BY ONLY <2>6, PagesNamedType
  <2>8. PagesNamed(WordsOf(runs)) = A \o B
    <3> DEFINE w == last.base * PageSize + last.run
    <3>1. WordsOf(Append(front, last)) = Append(WordsOf(front), w)
      BY ONLY <2>4, <2>0, WordsOfAppend
    <3>2. w \in Nat /\ PagesOf(w) = B
      BY ONLY <2>0, PagesOfWord
    <3> HIDE DEF w
    <3>3. PagesNamed(Append(WordsOf(front), w)) = A \o PagesOf(w)
      BY ONLY <2>6, <3>2, PagesNamedAppend
    <3> QED BY ONLY <2>4, <3>1, <3>2, <3>3
  <2>9. PagesNamed(WordsOf(Joined(runs, p))) = A \o C
    <3> DEFINE w == longer.base * PageSize + longer.run
    <3>1. WordsOf(Append(front, longer)) = Append(WordsOf(front), w)
      <4> HIDE DEF longer
      <4> QED BY ONLY <2>4, <2>2, WordsOfAppend
    <3>2. w \in Nat /\ PagesOf(w) = [k \in 1 .. longer.run + 1 |-> longer.base + k - 1]
      <4> HIDE DEF longer
      <4> QED BY ONLY <2>2, PagesOfWord
    <3>3. PagesOf(w) = C
      BY <3>2
    <3> HIDE DEF w, C
    <3>4. PagesNamed(Append(WordsOf(front), w)) = A \o PagesOf(w)
      BY ONLY <2>6, <3>2, PagesNamedAppend
    <3> QED BY ONLY <2>5, <3>1, <3>3, <3>4
  <2>10. C = Append(B, p)
    <3>1. p = last.base + (last.run + 1 + 1) - 1
      BY <1>1, <2>1
    <3> DEFINE b == last.base  m == last.run + 1
    <3>2. b \in Nat /\ m \in Nat \ {0} /\ p = b + (m + 1) - 1
      BY <2>1, <3>1
    <3> HIDE DEF b, m
    <3>3. [k \in 1 .. m + 1 |-> b + k - 1] = Append([k \in 1 .. m |-> b + k - 1], p)
      BY <3>2
    <3> QED BY <3>3 DEF b, m
  <2>11. B \in Seq(Nat)
    <3> DEFINE b == last.base  m == last.run + 1
    <3>2. b \in Nat /\ m \in Nat \ {0}
      BY <2>1
    <3> HIDE DEF b, m
    <3>3. [k \in 1 .. m |-> b + k - 1] \in Seq(Nat)
      BY <3>2
    <3> QED BY <3>3 DEF b, m
  <2> HIDE DEF A, B, C
  <2>12. A \o Append(B, p) = Append(A \o B, p)
    BY <2>7, <2>11
  <2>13. Append(front, longer) \in Seq(Runs)
    BY <2>2, <2>4
  <2> QED BY <2>5, <2>8, <2>9, <2>10, <2>12, <2>13
<1>2. CASE ~(runs # <<>> /\ p = last.base + last.run + 1 /\ RoomInRun(last.run))
  <2> DEFINE single == [base |-> p, run |-> 0]
             A == PagesNamed(WordsOf(runs))
             w == single.base * PageSize + single.run
  <2>1. Joined(runs, p) = Append(runs, single)
    BY <1>2 DEF Joined
  <2>2. single \in Runs
    BY <1>0 DEF Runs
  <2>3. [k \in 1 .. single.run + 1 |-> single.base + k - 1] = <<p>>
    OBVIOUS
  <2> HIDE DEF single, w
  <2>4. WordsOf(runs) \in Seq(Nat)
        /\ WordsOf(Append(runs, single)) = Append(WordsOf(runs), single.base * PageSize + single.run)
    BY ONLY <2>2, WordsOfAppend, runs \in Seq(Runs)
  <2>5. single.base * PageSize + single.run \in Nat
        /\ PagesOf(single.base * PageSize + single.run) = [k \in 1 .. single.run + 1 |-> single.base + k - 1]
    BY ONLY <2>2, PagesOfWord
  <2>6. w \in Nat /\ PagesOf(w) = <<p>> /\ WordsOf(Append(runs, single)) = Append(WordsOf(runs), w)
    BY ONLY <2>3, <2>4, <2>5 DEF w
  <2>7. PagesNamed(Append(WordsOf(runs), w)) = A \o PagesOf(w)
    BY ONLY <2>4, <2>6, PagesNamedAppend
  <2>8. A \in Seq(Nat)
    BY ONLY <2>4, PagesNamedType
  <2> HIDE DEF A
  <2>9. A \o <<p>> = Append(A, p)
    BY <2>8
  <2>10. Append(runs, single) \in Seq(Runs)
    BY <2>2
  <2> QED BY <2>1, <2>6, <2>7, <2>9, <2>10 DEF A
<1> QED BY <1>1, <1>2

(* A page list names the pages of its buffer, in order.                      *)
LEMMA WordsName ==
  ASSUME NEW pages \in Seq(Nat)
  PROVE  PagesNamed(Words(pages)) = pages
<1> DEFINE n == Len(pages)
           f == RunsOf(pages)
           Good(i) == f[i] \in Seq(Runs) /\ PagesNamed(WordsOf(f[i])) = SubSeq(pages, 1, i)
           S == {i \in 0 .. n : Good(i)}
<1>0. n \in Nat /\ \A i \in 1 .. n : pages[i] \in Nat
  OBVIOUS
<1>1. f = [i \in 0 .. n |-> IF i = 0 THEN <<>> ELSE Joined(f[i - 1], pages[i])]
  BY <1>0, RunsOfIs
<1> HIDE DEF f
<1>2. 0 \in S
  <2>1. f[0] = <<>>
    BY <1>0, <1>1
  <2>2. WordsOf(<<>>) = <<>>
    BY DEF WordsOf
  <2>3. SubSeq(pages, 1, 0) = <<>>
    OBVIOUS
  <2>4. f[0] \in Seq(Runs)
    BY <2>1
  <2>5. PagesNamed(WordsOf(f[0])) = <<>>
    BY <2>1, <2>2, PagesNamedEmpty
  <2>6. Good(0)
    BY <2>3, <2>4, <2>5
  <2> QED BY <1>0, <2>6
<1>3. ASSUME NEW i \in 0 .. n - 1, i \in S PROVE i + 1 \in S
  <2> DEFINE j == i + 1
  <2>1. j \in 0 .. n /\ j \in 1 .. n /\ j # 0 /\ j - 1 = i
    BY <1>0, <1>3
  <2> HIDE DEF j
  <2>2. f[j] = Joined(f[i], pages[j])
    BY <1>1, <2>1
  <2>3. pages[j] \in Nat
    BY <1>0, <2>1
  <2>4. Good(i)
    BY <1>3
  <2>5. f[j] \in Seq(Runs) /\ PagesNamed(WordsOf(f[j])) = Append(PagesNamed(WordsOf(f[i])), pages[j])
    BY ONLY <2>2, <2>3, <2>4, JoinedNames
  <2>6. Append(SubSeq(pages, 1, i), pages[j]) = SubSeq(pages, 1, j)
    BY <1>0, <1>3 DEF j
  <2>7. j \in S
    BY <2>1, <2>4, <2>5, <2>6
  <2> QED BY <2>7 DEF j
<1>4. n \in S
  <2> HIDE DEF S, n
  <2>1. \A i \in 0 .. n : i \in S
    BY <1>0, <1>2, <1>3, UpTo
  <2> QED BY <1>0, <2>1
<1>5. SubSeq(pages, 1, n) = pages
  OBVIOUS
<1> QED BY <1>4, <1>5 DEF Words, f

(* What the code gives create_pagelist: as many pages as the bytes touch.    *)
BufferOK(b) ==
  /\ b.pages \in Seq(Nat) /\ b.offset \in 0 .. PageSize - 1 /\ b.count \in Nat
  /\ Len(b.pages) = NumPages(b.offset, b.count)

(* A multiple is zero, or no less than the number.                           *)
LEMMA Multiple ==
  ASSUME NEW d \in Nat \ {0}, NEW q \in Nat
  PROVE  d * q \in Nat /\ q * d = d * q /\ (q = 0 => d * q = 0) /\ (q # 0 => d * q >= d)
<1>1. CASE q = 0
  <2>1. d * q = 0 /\ q * d = 0
    BY <1>1
  <2> QED BY <1>1, <2>1
<1>2. CASE q # 0
  <2>1. q >= 1
    BY <1>2
  <2>2. d * q >= d * 1
    BY <2>1
  <2> QED BY <1>2, <2>2
<1> QED BY <1>1, <1>2

(* A number is below a multiple exactly when its quotient is.                *)
LEMMA BelowMultiple ==
  ASSUME NEW d \in Nat \ {0}, NEW q \in Int, NEW m \in Int, NEW r \in 0 .. d - 1
  PROVE  d * q + r < d * m <=> q < m
<1>1. CASE q < m
  <2>1. d * (m - q) >= d
    BY <1>1
  <2>2. d * (m - q) = d * m - d * q
    OBVIOUS
  <2> QED BY <1>1, <2>1, <2>2
<1>2. CASE ~(q < m)
  <2>1. d * (q - m) >= 0
    BY <1>2
  <2>2. d * (q - m) = d * q - d * m
    OBVIOUS
  <2> QED BY <1>2, <2>1, <2>2
<1> QED BY <1>1, <1>2

(* A byte of a buffer is in one of its pages.                                *)
LEMMA InPages ==
  ASSUME NEW offset \in Nat, NEW count \in Nat, NEW x \in Nat, x < offset + count
  PROVE  x \div PageSize \in 0 .. NumPages(offset, count) - 1
<1>0. PageSize \in Nat \ {0}
  BY PageListAssumption
<1> DEFINE y == count + offset + PageSize - 1
           N == y \div PageSize  s == y % PageSize
           q == x \div PageSize  r == x % PageSize
<1>1. N \in Nat /\ s \in 0 .. PageSize - 1 /\ y = PageSize * N + s
  <2>1. y \in Nat
    BY <1>0
  <2> HIDE DEF y
  <2> QED BY ONLY <1>0, <2>1, DivMod
<1>2. q \in Nat /\ r \in 0 .. PageSize - 1 /\ x = PageSize * q + r
  BY <1>0, DivMod
<1>3. NumPages(offset, count) = N
  BY DEF NumPages
<1>4. y = count + offset + PageSize - 1
  OBVIOUS
<1> HIDE DEF N, s, q, r, y
<1>5. PageSize * q + r < PageSize * N
  BY <1>0, <1>1, <1>2, <1>4
<1>6. q < N
  <2>1. q \in Int /\ N \in Int
    BY <1>1, <1>2
  <2> QED BY ONLY <1>0, <1>2, <1>5, <2>1, BelowMultiple
<1> QED BY <1>1, <1>2, <1>3, <1>6 DEF q

(* All bytes of the buffer are cleaned, and no others.                       *)
LEMMA CleanedIs ==
  ASSUME NEW b, BufferOK(b)
  PROVE  CleanedBytes(b) = {AddressOf(b, k) : k \in 0 .. b.count - 1}
<1>0. PageSize \in Nat \ {0}
  BY PageListAssumption
<1> DEFINE P == PageSize
           o == b.offset
           c == b.count
           N == Len(b.pages)
           off(i) == IF i = 1 THEN o ELSE 0
           before(i) == IF i = 1 THEN 0 ELSE (i - 1) * P - o
           room(i) == P - off(i)
           bytes(i) == IF room(i) > c - before(i) THEN c - before(i) ELSE room(i)
           Part(i) == {b.pages[i] * P + off(i) + k : k \in 0 .. bytes(i) - 1}
<1>1. /\ o \in 0 .. P - 1 /\ c \in Nat /\ N \in Nat /\ N = NumPages(o, c)
      /\ DOMAIN b.pages = 1 .. N /\ \A i \in 1 .. N : b.pages[i] \in Nat
  BY DEF BufferOK
<1>2. CleanedBytes(b) = UNION {Part(i) : i \in 1 .. N}
  BY <1>1 DEF CleanedBytes
<1>3. \A i \in 1 .. N : \A k \in 0 .. bytes(i) - 1 :
        /\ before(i) + k \in 0 .. c - 1
        /\ (o + (before(i) + k)) \div P = i - 1
        /\ (o + (before(i) + k)) % P = off(i) + k
  <2> SUFFICES ASSUME NEW i \in 1 .. N, NEW k \in 0 .. bytes(i) - 1
               PROVE  /\ before(i) + k \in 0 .. c - 1
                      /\ (o + (before(i) + k)) \div P = i - 1
                      /\ (o + (before(i) + k)) % P = off(i) + k
    OBVIOUS
  <2> DEFINE m == P * (i - 1)
             x == o + (before(i) + k)
             r == off(i) + k
  <2>0. i - 1 \in Nat
    BY <1>1
  <2>1. m \in Nat /\ (i - 1) * P = m /\ (i - 1 = 0 => m = 0) /\ (i - 1 # 0 => m >= P)
    BY ONLY <1>0, <2>0, Multiple
  <2> HIDE DEF m
  <2>2. before(i) = IF i = 1 THEN 0 ELSE m - o
    BY <2>1
  <2>3. off(i) = IF i = 1 THEN o ELSE 0
    OBVIOUS
  <2> DEFINE v == before(i)  u == off(i)  e == bytes(i)
  <2>4. e = IF P - u > c - v THEN c - v ELSE P - u
    OBVIOUS
  <2>5. k \in 0 .. e - 1 /\ x = o + (v + k) /\ r = u + k
    OBVIOUS
  <2> HIDE DEF v, u, e, x, r
  <2>6. v = (IF i = 1 THEN 0 ELSE m - o) /\ u = (IF i = 1 THEN o ELSE 0)
    BY <2>2, <2>3 DEF v, u
  <2>7. v \in Int /\ u \in Int /\ e \in Int
    BY <1>0, <1>1, <2>1, <2>4, <2>6
  <2>8. v + k \in 0 .. c - 1 /\ x \in Int /\ r \in 0 .. P - 1 /\ x = m + r
    <3> HIDE DEF o, c, N
    <3>0. i \in Int /\ o \in Int /\ o >= 0 /\ o < P /\ c \in Nat /\ P \in Nat /\ m \in Nat
      BY <1>0, <1>1, <2>1
    <3>1. k \in Int /\ k >= 0 /\ k < e /\ e <= c - v /\ e <= P - u
      BY <2>4, <2>5, <2>7, <3>0
    <3>2. CASE i = 1
      <4>1. v = 0 /\ u = o /\ m = 0
        BY <2>1, <2>6, <3>2
      <4> QED BY ONLY <2>5, <2>7, <3>0, <3>1, <4>1
    <3>3. CASE i # 1
      <4>1. v = m - o /\ u = 0 /\ m >= P
        BY <2>1, <2>6, <3>0, <3>3
      <4> QED BY ONLY <2>5, <2>7, <3>0, <3>1, <4>1
    <3> QED BY <3>2, <3>3
  <2>9. x = P * (i - 1) + r /\ i - 1 \in Int
    BY <2>0, <2>8 DEF m
  <2>10. x \div P = i - 1 /\ x % P = r
    BY ONLY <1>0, <2>8, <2>9, DivModIs
  <2> QED BY <2>8, <2>10 DEF x, r, u, v
<1>4. ASSUME NEW i \in 1 .. N, NEW a \in Part(i)
      PROVE  a \in {AddressOf(b, k) : k \in 0 .. c - 1}
  <2>1. PICK k \in 0 .. bytes(i) - 1 : a = b.pages[i] * P + off(i) + k
    OBVIOUS
  <2> DEFINE h == before(i) + k
             x == o + h
  <2>2. h \in 0 .. c - 1 /\ x \div P = i - 1 /\ x % P = off(i) + k
    BY <1>3
  <2>3. AddressOf(b, h) = b.pages[x \div P + 1] * P + (x % P)
    BY DEF AddressOf
  <2>4. i - 1 + 1 = i
    BY <1>1
  <2>5. k \in Int
    BY <1>0, <1>1
  <2> DEFINE w == b.pages[i] * P  u == off(i)
  <2>6. w \in Int /\ u \in Int
    BY <1>0, <1>1
  <2> HIDE DEF h, x, w, u
  <2>7. AddressOf(b, h) = w + (u + k)
    BY <2>2, <2>3, <2>4 DEF w, u
  <2>8. a = w + u + k
    BY <2>1 DEF w, u
  <2>9. a = AddressOf(b, h)
    BY <2>5, <2>6, <2>7, <2>8
  <2> QED BY <2>2, <2>9
<1>5. ASSUME NEW k \in 0 .. c - 1
      PROVE  \E i \in 1 .. N : AddressOf(b, k) \in Part(i)
  <2> DEFINE x == o + k
             q == x \div P  r == x % P
             i == q + 1
  <2>1. x \in Nat /\ x < o + c /\ o \in Nat
    BY <1>0, <1>1
  <2>2. q \in 0 .. NumPages(o, c) - 1
    <3> HIDE DEF x, o, c
    <3> QED BY ONLY <1>1, <2>1, InPages
  <2>3. r \in 0 .. P - 1 /\ x = P * q + r
    <3> HIDE DEF x
    <3> QED BY ONLY <1>0, <2>1, DivMod
  <2>4. AddressOf(b, k) = b.pages[i] * P + r
    BY DEF AddressOf
  <2>5. x = o + k
    OBVIOUS
  <2> HIDE DEF x, q, r
  <2>6. i \in 1 .. N /\ i - 1 = q /\ q \in Nat
    BY <1>1, <2>2
  <2> DEFINE m == P * q
  <2>7. m \in Int /\ (i - 1) * P = m /\ (q = 0 => m = 0) /\ (q # 0 => m >= P)
    <3>1. q \in Nat /\ i - 1 = q
      BY <2>6
    <3> HIDE DEF i
    <3> QED BY <1>0, <3>1, Multiple
  <2> DEFINE j == r - off(i)
  <2>8. x = m + r
    BY <2>3
  <2>9. i = 1 <=> q = 0
    BY <2>6
  <2> HIDE DEF m, i
  <2>10. j \in 0 .. bytes(i) - 1
    BY <1>0, <1>1, <2>1, <2>3, <2>5, <2>7, <2>8, <2>9
  <2> DEFINE w == b.pages[i] * P
  <2>11. w \in Int
    BY <1>0, <1>1, <2>6
  <2> HIDE DEF w
  <2>12. w + r = w + off(i) + j
    BY <1>0, <1>1, <2>3, <2>11
  <2>13. AddressOf(b, k) = b.pages[i] * P + off(i) + j
    BY <2>4, <2>12 DEF w
  <2> HIDE DEF j
  <2>14. AddressOf(b, k) \in Part(i)
    BY <2>10, <2>13
  <2> QED BY <2>6, <2>14
<1> HIDE DEF Part
<1> QED BY <1>2, <1>4, <1>5

(* Multiples are as far apart as the number.                                 *)
LEMMA MultiplesApart ==
  ASSUME NEW d \in Nat \ {0}, NEW i \in Int, NEW j \in Int
  PROVE  /\ d * i \in Int /\ d * j \in Int
         /\ i < j => d * i + d <= d * j
         /\ j < i => d * j + d <= d * i
<1>1. ASSUME NEW a \in Int, NEW b \in Int, a < b PROVE d * a + d <= d * b
  <2>1. d * (b - a) >= d
    BY <1>1
  <2>2. d * (b - a) = d * b - d * a
    OBVIOUS
  <2> QED BY <2>1, <2>2
<1> QED BY <1>1

(* A byte is in a cache line that the buffer shares with others.             *)
SharedLine(b, k) ==
  LET line == ((b.offset + k) \div LineSize) * LineSize
  IN line < b.offset \/ line + LineSize > b.offset + b.count

(* What is taken from the fragment is what lies in such lines.               *)
LEMMA FragmentIs ==
  ASSUME NEW b, BufferOK(b)
  PROVE  FragmentBytes(b, b.count) = {k \in 0 .. b.count - 1 : SharedLine(b, k)}
<1>0. LineSize \in Nat \ {0} /\ PageSize \in Nat \ {0}
  BY PageListAssumption
<1> DEFINE L == LineSize  o == b.offset  c == b.count
           q == o \div L  r == o % L  p == (o + c) \div L  s == (o + c) % L
           lq == L * q  lp == L * p
           first == (L - o) % L
           head == HeadBytes(b, c)  tail == TailBytes(b, c)
<1>1. o \in Nat /\ c \in Nat
  BY <1>0 DEF BufferOK
<1>2. q \in Nat /\ r \in 0 .. L - 1 /\ o = L * q + r
  <2> HIDE DEF o
  <2> QED BY ONLY <1>0, <1>1, DivMod
<1>3. p \in Nat /\ s \in 0 .. L - 1 /\ o + c = L * p + s
  <2> DEFINE x == o + c
  <2>1. x \in Nat
    BY <1>1
  <2> HIDE DEF x
  <2>2. x \div L \in Nat /\ x % L \in 0 .. L - 1 /\ x = L * (x \div L) + (x % L)
    BY ONLY <1>0, <2>1, DivMod
  <2> QED BY <2>2 DEF x
<1>4. first = IF r = 0 THEN 0 ELSE L - r
  <2> HIDE DEF q, r, o
  <2>1. CASE r = 0
    <3>1. L - o = L * (1 - q) + 0
      BY <1>0, <1>2, <2>1
    <3>2. L - o \in Int /\ 1 - q \in Int /\ 0 \in 0 .. L - 1
      BY <1>0, <1>1, <1>2
    <3>3. (L - o) % L = 0
      BY ONLY <1>0, <3>1, <3>2, DivModIs
    <3> QED BY <2>1, <3>3
  <2>2. CASE r # 0
    <3>1. L - o = L * (-q) + (L - r)
      BY <1>0, <1>2, <2>2
    <3>2. L - o \in Int /\ -q \in Int /\ L - r \in 0 .. L - 1
      BY <1>0, <1>1, <1>2, <2>2
    <3>3. (L - o) % L = L - r
      BY ONLY <1>0, <3>1, <3>2, DivModIs
    <3> QED BY <2>2, <3>3
  <2> QED BY <2>1, <2>2
<1>5. head = IF first < c THEN first ELSE c
  BY DEF HeadBytes, Least
<1>6. tail = IF head < c THEN s ELSE 0
  BY DEF TailBytes
<1>7. FragmentBytes(b, c) = (0 .. head - 1) \cup (c - tail .. c - 1)
  BY DEF FragmentBytes
<1>8. /\ lq \in Int /\ lp \in Int
      /\ q < p => lq + L <= lp
      /\ p < q => lp + L <= lq
  <2>1. q \in Int /\ p \in Int
    BY <1>2, <1>3
  <2> HIDE DEF q, p
  <2> QED BY ONLY <1>0, <2>1, MultiplesApart
<1>9. o = lq + r /\ o + c = lp + s
  BY <1>2, <1>3
<1> HIDE DEF q, r, p, s, lq, lp, first, head, tail, o, c
<1>10. head \in 0 .. c /\ tail \in 0 .. c
  <2>1. first \in Nat /\ head \in 0 .. c
    BY <1>0, <1>1, <1>2, <1>4, <1>5
  <2>2. head < c => s <= c
    <3>1. CASE q < p
      <4>1. lp >= o
        BY <1>0, <1>2, <1>8, <1>9, <3>1
      <4> QED BY <1>0, <1>1, <1>3, <1>8, <1>9, <4>1
    <3>2. CASE q = p
      <4>1. lq = lp
        BY <3>2 DEF lq, lp
      <4>2. c = s - r
        BY <1>0, <1>1, <1>2, <1>3, <1>8, <1>9, <4>1
      <4> QED BY <1>0, <1>1, <1>2, <1>3, <1>4, <1>5, <2>1, <4>2
    <3>3. CASE p < q
      <4>1. o + c < o
        BY <1>0, <1>1, <1>2, <1>3, <1>8, <1>9, <3>3
      <4> QED BY <1>1, <4>1
    <3> QED BY <1>2, <1>3, <3>1, <3>2, <3>3
  <2> QED BY <1>1, <1>3, <1>6, <2>1, <2>2
<1>11. ASSUME NEW k \in 0 .. c - 1
       PROVE  SharedLine(b, k) <=> k \in (0 .. head - 1) \cup (c - tail .. c - 1)
  <2> DEFINE x == o + k
             j == x \div L  t == x % L  lj == L * j
  <2>1. x \in Nat /\ x >= o /\ x < o + c /\ x = o + k
    BY <1>1
  <2>2. j \in Nat /\ t \in 0 .. L - 1 /\ x = L * j + t
    <3> HIDE DEF x
    <3> QED BY ONLY <1>0, <2>1, DivMod
  <2>3. SharedLine(b, k) <=> j * L < o \/ j * L + L > o + c
    BY DEF SharedLine, o, c
  <2> HIDE DEF x, j, t
  <2>4. j \in Int /\ q \in Int /\ p \in Int
    BY <1>2, <1>3, <2>2
  <2>5. /\ lj \in Int
        /\ j < q => lj + L <= lq
        /\ q < j => lq + L <= lj
    BY ONLY <1>0, <2>4, MultiplesApart DEF lq
  <2>6. /\ j < p => lj + L <= lp
        /\ p < j => lp + L <= lj
    BY ONLY <1>0, <2>4, MultiplesApart DEF lp
  <2>7. j * L = lj /\ x = lj + t
    BY <1>0, <2>2
  <2>8. (j = q => lj = lq) /\ (j = p => lj = lp)
    BY DEF lq, lp
  <2> HIDE DEF lj
  <2>9. j >= q /\ j <= p
    BY <1>0, <1>1, <1>2, <1>3, <1>8, <1>9, <2>1, <2>2, <2>4, <2>5, <2>6, <2>7
  <2>10. lj < o <=> k < first
    <3>1. CASE j = q
      BY <1>0, <1>1, <1>2, <1>4, <1>8, <1>9, <2>1, <2>2, <2>5, <2>7, <2>8, <3>1
    <3>2. CASE q < j
      BY <1>0, <1>1, <1>2, <1>4, <1>8, <1>9, <2>1, <2>2, <2>5, <2>7, <3>2
    <3> QED BY <2>4, <2>9, <3>1, <3>2
  <2>11. lj + L > o + c <=> k >= c - s
    <3>1. CASE j = p
      BY <1>0, <1>1, <1>3, <1>8, <1>9, <2>1, <2>2, <2>5, <2>7, <2>8, <3>1
    <3>2. CASE j < p
      BY <1>0, <1>1, <1>3, <1>8, <1>9, <2>1, <2>2, <2>5, <2>6, <2>7, <3>2
    <3> QED BY <2>4, <2>9, <3>1, <3>2
  <2>12. k \in 0 .. head - 1 <=> k < first
    BY <1>0, <1>1, <1>2, <1>4, <1>5, <1>10
  <2>13. k \in c - tail .. c - 1 <=> head < c /\ k >= c - s
    BY <1>1, <1>3, <1>6, <1>10
  <2>14. ~(head < c) => k < first
    BY <1>0, <1>1, <1>2, <1>4, <1>5
  <2> QED BY <2>3, <2>7, <2>10, <2>11, <2>12, <2>13, <2>14
<1>12. (0 .. head - 1) \cup (c - tail .. c - 1) \subseteq 0 .. c - 1
  BY <1>1, <1>10
<1> QED BY <1>7, <1>11, <1>12 DEF c

(* Where a transfer can be, and the fragment it has.                         *)
PagePlaces == {"start", "down", "take", "sent", "put", "up", "freed", "leaked"}
Held(t) == pagelist[t].fragment

(* Its page list is that of its buffer; it has a fragment exactly where it   *)
(* should; and what is copied is what FragmentBytes says.                    *)
TransferInv(t) ==
  /\ listAt[t] \in PagePlaces /\ BufferOK(buffer[t])
  /\ pagelist[t] = [addrs |-> Words(buffer[t].pages), cleaned |-> CleanedBytes(buffer[t]),
                    fragment |-> Held(t)]
  /\ Held(t) \in 0 .. MaxFragments
  /\ listAt[t] \in {"start", "down", "take", "up", "freed"} => Held(t) = NoFragment
  /\ listAt[t] = "put" => Held(t) # NoFragment
  /\ copied[t] \in {{}, FragmentBytes(buffer[t], buffer[t].count)}
  /\ listAt[t] \in {"start", "down", "take", "sent"} => copied[t] = {}

(* The fragments in the list.                                                *)
Free == {fragments[i] : i \in DOMAIN fragments}

(* Each fragment is in the list once, or with one transfer.                  *)
FragmentInv ==
  /\ fragments \in Seq(Fragments) /\ leaked \subseteq Fragments
  /\ \A i, j \in DOMAIN fragments : fragments[i] = fragments[j] => i = j
  /\ \A t \in Transfers : Held(t) \notin Free
  /\ \A t, u \in Transfers : Held(t) = Held(u) /\ Held(t) # NoFragment => t = u
  /\ \A f \in Fragments : f \in Free \/ \E t \in Transfers : Held(t) = f

(* The semaphore counts the free fragments but those already promised, and   *)
(* those not yet announced.                                                  *)
Owing == {t \in Transfers : listAt[t] \in {"take", "up"}}
SemaInv == fragSema \in Nat /\ fragSema + Cardinality(Owing) = Len(fragments)

(* Each of these variables is a function of the transfers.                   *)
PageMaps ==
  /\ listAt = [t \in Transfers |-> listAt[t]] /\ copied = [t \in Transfers |-> copied[t]]
  /\ buffer = [t \in Transfers |-> buffer[t]] /\ pagelist = [t \in Transfers |-> pagelist[t]]

(* The inductive invariant of the page lists.                                *)
PageInv ==
  /\ PageMaps /\ \A t \in Transfers : TransferInv(t)
  /\ FragmentInv /\ SemaInv

(* The number of transfers that the semaphore and the list disagree about,   *)
(* when one of them moves.                                                   *)
LEMMA OwingChanges ==
  ASSUME PageMaps, NEW t \in Transfers, NEW x, listAt' = [listAt EXCEPT ![t] = x]
  PROVE  /\ Cardinality(Owing) \in Nat
         /\ t \notin Owing /\ x \in {"take", "up"} => Cardinality(Owing') = Cardinality(Owing) + 1
         /\ t \in Owing /\ x \notin {"take", "up"} => Cardinality(Owing') = Cardinality(Owing) - 1
         /\ (t \in Owing <=> x \in {"take", "up"}) => Cardinality(Owing') = Cardinality(Owing)
<1>1. IsFiniteSet(Owing)
  BY PageListAssumption, FS_Subset DEF Owing
<1>2. listAt' = [u \in Transfers |-> IF u = t THEN x ELSE listAt[u]]
  BY DEF PageMaps
<1>3. Owing' = {u \in Transfers : listAt'[u] \in {"take", "up"}}
  BY DEF Owing
<1>4. x \in {"take", "up"} => Owing' = Owing \cup {t}
  BY <1>2, <1>3 DEF Owing
<1>5. x \notin {"take", "up"} => Owing' = Owing \ {t}
  BY <1>2, <1>3 DEF Owing
<1>6. Cardinality(Owing) \in Nat
  BY <1>1, FS_CardinalityType
<1>7. Cardinality(Owing \cup {t}) = IF t \in Owing THEN Cardinality(Owing) ELSE Cardinality(Owing) + 1
  BY <1>1, FS_AddElement
<1>8. Cardinality(Owing \ {t}) = IF t \in Owing THEN Cardinality(Owing) - 1 ELSE Cardinality(Owing)
  BY <1>1, FS_RemoveElement
<1> QED BY <1>4, <1>5, <1>6, <1>7, <1>8

(* The words and the bytes of no buffer.                                     *)
LEMMA NothingListed ==
  /\ BufferOK(NoBuffer)
  /\ NoList = [addrs |-> Words(NoBuffer.pages), cleaned |-> CleanedBytes(NoBuffer),
               fragment |-> NoFragment]
<1>0. PageSize \in Nat \ {0}
  BY PageListAssumption
<1>1. NumPages(0, 0) = 0
  <2>1. PageSize - 1 \in Int /\ PageSize - 1 = PageSize * 0 + (PageSize - 1)
        /\ PageSize - 1 \in 0 .. PageSize - 1 /\ 0 \in Int
    BY <1>0
  <2>2. (PageSize - 1) \div PageSize = 0
    BY ONLY <1>0, <2>1, DivModIs
  <2>3. 0 + 0 + PageSize - 1 = PageSize - 1
    BY <1>0
  <2> QED BY <2>2, <2>3 DEF NumPages
<1>2. BufferOK(NoBuffer)
  BY <1>0, <1>1 DEF BufferOK, NoBuffer
<1>3. Words(<<>>) = <<>>
  <2>1. Len(<<>>) = 0
    OBVIOUS
  <2>2. RunsOf(<<>>) = [i \in 0 .. 0 |->
          IF i = 0 THEN <<>> ELSE Joined(RunsOf(<<>>)[i - 1], <<>>[i])]
    BY <2>1, RunsOfIs
  <2>3. RunsOf(<<>>)[0] = <<>>
    BY <2>2
  <2> QED BY <2>1, <2>3 DEF Words, WordsOf
<1>4. CleanedBytes(NoBuffer) = {}
  BY DEF CleanedBytes, NoBuffer
<1> QED BY <1>2, <1>3, <1>4 DEF NoList, NoBuffer

(* It holds at first.                                                        *)
LEMMA PageInitially == PageInit => PageInv
<1> SUFFICES ASSUME PageInit PROVE PageInv
  OBVIOUS
<1> USE DEF PageInit
<1>0. MaxFragments \in Nat /\ NoBuffer.count = 0
  BY PageListAssumption DEF NoBuffer
<1>1. PageMaps
  BY DEF PageMaps
<1>2. ASSUME NEW t \in Transfers PROVE TransferInv(t)
  <2>1. Held(t) = NoFragment
    BY DEF Held, NoList
  <2>2. BufferOK(buffer[t])
    BY NothingListed
  <2>3. pagelist[t] = [addrs |-> Words(buffer[t].pages), cleaned |-> CleanedBytes(buffer[t]),
                       fragment |-> Held(t)]
    BY <2>1, NothingListed
  <2> QED BY <1>0, <2>1, <2>2, <2>3 DEF TransferInv, PagePlaces, NoFragment
<1>3. FragmentInv
  <2>1. fragments \in Seq(Fragments) /\ DOMAIN fragments = Fragments /\ \A i \in Fragments : fragments[i] = i
    BY <1>0 DEF Fragments
  <2>2. \A t \in Transfers : Held(t) = NoFragment
    BY DEF Held, NoList
  <2>3. NoFragment \notin Fragments
    BY DEF NoFragment, Fragments
  <2>4. Free = Fragments
    BY <2>1 DEF Free
  <2> QED BY <2>1, <2>2, <2>3, <2>4 DEF FragmentInv
<1>4. SemaInv
  <2>1. Owing = {}
    BY DEF Owing
  <2>2. Len(fragments) = MaxFragments
    BY <1>0 DEF Fragments
  <2> QED BY <1>0, <2>1, <2>2, FS_EmptySet DEF SemaInv
<1> QED BY <1>1, <1>2, <1>3, <1>4 DEF PageInv

(* A step changes one transfer only.                                         *)
LEMMA OthersKept ==
  ASSUME \A u \in Transfers : TransferInv(u), NEW t \in Transfers, TransferInv(t)',
         \A u \in Transfers \ {t} : /\ listAt'[u] = listAt[u] /\ buffer'[u] = buffer[u]
                                    /\ pagelist'[u] = pagelist[u] /\ copied'[u] = copied[u]
  PROVE  \A u \in Transfers : TransferInv(u)'
<1> SUFFICES ASSUME NEW u \in Transfers, u # t PROVE TransferInv(u)'
  OBVIOUS
<1> QED BY DEF TransferInv, Held

(* As long as no fragment moves.                                             *)
LEMMA FragmentsKept ==
  ASSUME FragmentInv, fragments' = fragments, leaked' \subseteq Fragments,
         \A u \in Transfers : Held(u)' = Held(u)
  PROVE  FragmentInv'
BY DEF FragmentInv, Free

(* create_pagelist keeps it,                                                 *)
LEMMA CreateListStep ==
  ASSUME PageInv, NEW t \in Transfers, CreateList(t)
  PROVE  PageInv'
<1> USE DEF PageInv
<1>1. PICK offset \in 0 .. PageSize - 1, count \in 1 .. MaxPages[t] * PageSize, read \in BOOLEAN :
        \E pages \in [1 .. NumPages(offset, count) -> PageNumbers] :
            LET b == [pages |-> pages, offset |-> offset, count |-> count,
                      read |-> read]
            IN /\ buffer' = [buffer EXCEPT ![t] = b]
               /\ pagelist' = [pagelist EXCEPT
                    ![t] = [addrs |-> Words(pages), cleaned |-> CleanedBytes(b),
                            fragment |-> NoFragment]]
               /\ listAt' = [listAt EXCEPT
                    ![t] = IF PartialLines(b) THEN "down" ELSE "sent"]
  BY DEF CreateList
<1>2. PICK pages \in [1 .. NumPages(offset, count) -> PageNumbers] :
            LET b == [pages |-> pages, offset |-> offset, count |-> count,
                      read |-> read]
            IN /\ buffer' = [buffer EXCEPT ![t] = b]
               /\ pagelist' = [pagelist EXCEPT
                    ![t] = [addrs |-> Words(pages), cleaned |-> CleanedBytes(b),
                            fragment |-> NoFragment]]
               /\ listAt' = [listAt EXCEPT
                    ![t] = IF PartialLines(b) THEN "down" ELSE "sent"]
  BY <1>1
<1> DEFINE b == [pages |-> pages, offset |-> offset, count |-> count, read |-> read]
           l == [addrs |-> Words(pages), cleaned |-> CleanedBytes(b), fragment |-> NoFragment]
           x == IF PartialLines(b) THEN "down" ELSE "sent"
<1>3. /\ listAt[t] = "start" /\ fragments' = fragments /\ fragSema' = fragSema
      /\ copied' = copied /\ leaked' = leaked
  BY DEF CreateList
<1>4. /\ buffer' = [buffer EXCEPT ![t] = b] /\ pagelist' = [pagelist EXCEPT ![t] = l]
      /\ listAt' = [listAt EXCEPT ![t] = x]
  BY <1>2
<1>5. BufferOK(b) /\ b.pages = pages
  <2>0. PageSize \in Nat \ {0} /\ PageNumbers \subseteq Nat /\ MaxPages[t] \in Nat
    BY PageListAssumption
  <2>1. offset \in Nat /\ count \in Nat
    <3>1. MaxPages[t] * PageSize \in Int
      BY <2>0
    <3> QED BY <2>0, <3>1
  <2>2. NumPages(offset, count) \in Nat
    <3> DEFINE y == count + offset + PageSize - 1
    <3>1. y \in Nat
      BY <2>0, <2>1
    <3> HIDE DEF y
    <3>2. y \div PageSize \in Nat
      BY ONLY <2>0, <3>1, DivMod
    <3> QED BY <3>2 DEF NumPages, y
  <2> DEFINE N == NumPages(offset, count)
  <2>3. pages \in [1 .. N -> Nat]
    BY <2>0
  <2> HIDE DEF N
  <2>4. pages \in Seq(Nat) /\ Len(pages) = N
    BY <2>2, <2>3 DEF N
  <2> QED BY <2>1, <2>4 DEF BufferOK, N
<1>6. l.fragment = NoFragment /\ l = [addrs |-> Words(b.pages), cleaned |-> CleanedBytes(b), fragment |-> NoFragment]
  BY <1>5
<1>7. x \in {"down", "sent"}
  OBVIOUS
<1> HIDE DEF b, l, x
<1>8. /\ PageMaps' /\ buffer'[t] = b /\ pagelist'[t] = l /\ listAt'[t] = x
      /\ \A u \in Transfers \ {t} : /\ listAt'[u] = listAt[u] /\ buffer'[u] = buffer[u]
                                    /\ pagelist'[u] = pagelist[u] /\ copied'[u] = copied[u]
  BY <1>3, <1>4 DEF PageMaps
<1>9. TransferInv(t) /\ Held(t) = NoFragment /\ copied[t] = {}
  BY <1>3 DEF TransferInv
<1>10. Held(t)' = NoFragment
  BY <1>6, <1>8 DEF Held
<1>11. TransferInv(t)'
  <2>1. NoFragment \in 0 .. MaxFragments
    BY PageListAssumption DEF NoFragment
  <2> QED BY <1>3, <1>5, <1>6, <1>7, <1>8, <1>9, <1>10, <2>1 DEF TransferInv, PagePlaces
<1>12. \A u \in Transfers : TransferInv(u)'
  BY <1>8, <1>11, OthersKept
<1>13. \A u \in Transfers : Held(u)' = Held(u)
  BY <1>8, <1>9, <1>10 DEF Held
<1>14. FragmentInv'
  BY <1>3, <1>13, FragmentsKept DEF FragmentInv
<1>15. SemaInv'
  <2>1. t \notin Owing /\ x \notin {"take", "up"}
    BY <1>3, <1>7 DEF Owing
  <2>2. Cardinality(Owing') = Cardinality(Owing)
    BY <1>4, <2>1, OwingChanges
  <2> QED BY <1>3, <2>2 DEF SemaInv
<1> QED BY <1>8, <1>12, <1>14, <1>15

(* A step that moves a transfer and no fragment.                             *)
LEMMA PageMoves ==
  ASSUME PageInv, NEW t \in Transfers, NEW x \in PagePlaces, NEW c,
         listAt' = [listAt EXCEPT ![t] = x], copied' = [copied EXCEPT ![t] = c],
         c \in {{}, FragmentBytes(buffer[t], buffer[t].count)},
         x \in {"start", "down", "take", "sent"} => c = {},
         x \in {"start", "down", "take", "up", "freed"} => Held(t) = NoFragment,
         x = "put" => Held(t) # NoFragment,
         UNCHANGED <<buffer, pagelist, fragments>>, leaked' \subseteq Fragments
  PROVE  PageMaps' /\ (\A u \in Transfers : TransferInv(u)') /\ FragmentInv'
<1> USE DEF PageInv
<1>1. /\ PageMaps' /\ listAt'[t] = x /\ copied'[t] = c
      /\ \A u \in Transfers \ {t} : /\ listAt'[u] = listAt[u] /\ buffer'[u] = buffer[u]
                                    /\ pagelist'[u] = pagelist[u] /\ copied'[u] = copied[u]
  BY DEF PageMaps
<1>2. TransferInv(t)'
  BY <1>1 DEF TransferInv, Held
<1>3. \A u \in Transfers : TransferInv(u)'
  BY <1>1, <1>2, OthersKept
<1>4. FragmentInv'
  BY FragmentsKept DEF Held
<1> QED BY <1>1, <1>3, <1>4

(* the down of the semaphore,                                                *)
LEMMA FragmentDownStep ==
  ASSUME PageInv, NEW t \in Transfers, FragmentDown(t)
  PROVE  PageInv'
<1> USE DEF PageInv
<1>1. /\ listAt[t] = "down" /\ fragSema > 0 /\ fragSema' = fragSema - 1
      /\ listAt' = [listAt EXCEPT ![t] = "take"]
      /\ UNCHANGED <<buffer, pagelist, fragments, copied, leaked>>
  BY DEF FragmentDown
<1>2. Held(t) = NoFragment /\ copied[t] = {}
  BY <1>1 DEF TransferInv
<1>3. copied' = [copied EXCEPT ![t] = {}]
  BY <1>1, <1>2 DEF PageMaps
<1>4. PageMaps' /\ (\A u \in Transfers : TransferInv(u)') /\ FragmentInv'
  <2>1. "take" \in PagePlaces /\ leaked' \subseteq Fragments
    BY <1>1 DEF PagePlaces, FragmentInv
  <2> QED BY <1>1, <1>2, <1>3, <2>1, PageMoves
<1>5. SemaInv'
  <2>1. t \notin Owing
    BY <1>1 DEF Owing
  <2>2. Cardinality(Owing') = Cardinality(Owing) + 1 /\ Cardinality(Owing) \in Nat
    <3> DEFINE x == "take"
    <3>1. listAt' = [listAt EXCEPT ![t] = x] /\ x \in {"take", "up"} /\ PageMaps
      BY <1>1
    <3> HIDE DEF x
    <3> QED BY ONLY <2>1, <3>1, OwingChanges, t \in Transfers
  <2> QED BY <1>1, <2>2 DEF SemaInv, FragmentInv
<1> QED BY <1>4, <1>5

(* its up,                                                                   *)
LEMMA FragmentUpStep ==
  ASSUME PageInv, NEW t \in Transfers, FragmentUp(t)
  PROVE  PageInv'
<1> USE DEF PageInv
<1>1. /\ listAt[t] = "up" /\ fragSema' = fragSema + 1
      /\ listAt' = [listAt EXCEPT ![t] = "freed"]
      /\ UNCHANGED <<buffer, pagelist, fragments, copied, leaked>>
  BY DEF FragmentUp
<1>2. Held(t) = NoFragment /\ copied[t] \in {{}, FragmentBytes(buffer[t], buffer[t].count)}
  BY <1>1 DEF TransferInv
<1>3. copied' = [copied EXCEPT ![t] = copied[t]]
  BY <1>1 DEF PageMaps
<1>4. PageMaps' /\ (\A u \in Transfers : TransferInv(u)') /\ FragmentInv'
  <2>1. "freed" \in PagePlaces /\ leaked' \subseteq Fragments
    BY <1>1 DEF PagePlaces, FragmentInv
  <2> QED BY <1>1, <1>2, <1>3, <2>1, PageMoves
<1>5. SemaInv'
  <2>1. t \in Owing
    BY <1>1 DEF Owing
  <2>2. Cardinality(Owing') = Cardinality(Owing) - 1 /\ Cardinality(Owing) \in Nat
    <3> DEFINE x == "freed"
    <3>1. listAt' = [listAt EXCEPT ![t] = x] /\ x \notin {"take", "up"} /\ PageMaps
      BY <1>1
    <3> HIDE DEF x
    <3> QED BY ONLY <2>1, <3>1, OwingChanges, t \in Transfers
  <2> QED BY <1>1, <2>2 DEF SemaInv, FragmentInv
<1> QED BY <1>4, <1>5

(* Freeing the page list moves no fragment either, nor does keeping it.      *)
LEMMA SentStep ==
  ASSUME PageInv, NEW t \in Transfers, FreeList(t) \/ KeepList(t)
  PROVE  PageInv'
<1> USE DEF PageInv
<1>1. PICK x \in {"freed", "put", "leaked"}, c \in {{}, FragmentBytes(buffer[t], buffer[t].count)} :
        /\ listAt[t] = "sent" /\ listAt' = [listAt EXCEPT ![t] = x]
        /\ copied' = [copied EXCEPT ![t] = c]
        /\ x = "freed" => Held(t) = NoFragment
        /\ x = "put" => Held(t) # NoFragment
        /\ UNCHANGED <<buffer, pagelist, fragments, fragSema>>
        /\ leaked' \subseteq Fragments
  <2>1. CASE FreeList(t)
    <3> DEFINE c(aborted) == IF pagelist[t].fragment = NoFragment \/ aborted THEN {}
                             ELSE FragmentBytes(buffer[t], buffer[t].count)
               x == IF pagelist[t].fragment = NoFragment THEN "freed" ELSE "put"
    <3>1. PICK aborted \in BOOLEAN : copied' = [copied EXCEPT ![t] = c(aborted)]
      BY <2>1 DEF FreeList
    <3>2. c(aborted) \in {{}, FragmentBytes(buffer[t], buffer[t].count)}
      OBVIOUS
    <3>3. x \in {"freed", "put", "leaked"} /\ (x = "freed" => Held(t) = NoFragment)
          /\ (x = "put" => Held(t) # NoFragment)
      BY DEF Held
    <3>4. listAt[t] = "sent" /\ listAt' = [listAt EXCEPT ![t] = x]
          /\ UNCHANGED <<buffer, pagelist, fragments, fragSema, leaked>>
      BY <2>1 DEF FreeList
    <3>5. leaked' \subseteq Fragments
      BY <3>4 DEF FragmentInv
    <3> HIDE DEF c, x
    <3> QED BY <3>1, <3>2, <3>3, <3>4, <3>5
  <2>2. CASE KeepList(t)
    <3>1. listAt[t] = "sent" /\ listAt' = [listAt EXCEPT ![t] = "leaked"]
          /\ UNCHANGED <<buffer, pagelist, fragments, fragSema, copied>>
          /\ leaked' = leaked \cup ({pagelist[t].fragment} \ {NoFragment})
      BY <2>2 DEF KeepList
    <3>2. copied[t] = {}
      BY <3>1 DEF TransferInv
    <3>3. copied' = [copied EXCEPT ![t] = {}]
      BY <3>1, <3>2 DEF PageMaps
    <3>4. Held(t) \in 0 .. MaxFragments
      BY DEF TransferInv
    <3>5. {Held(t)} \ {NoFragment} \subseteq Fragments
      BY <3>4, PageListAssumption DEF Fragments, NoFragment
    <3>6. leaked' \subseteq Fragments
      BY <3>1, <3>5 DEF FragmentInv, Held
    <3> QED BY <3>1, <3>3, <3>6
  <2> QED BY <2>1, <2>2
<1>2. PageMaps' /\ (\A u \in Transfers : TransferInv(u)') /\ FragmentInv'
  <2>1. x \in PagePlaces
    BY DEF PagePlaces
  <2> QED BY <1>1, <2>1, PageMoves
<1>3. SemaInv'
  <2>1. t \notin Owing
    BY <1>1 DEF Owing
  <2>2. Cardinality(Owing') = Cardinality(Owing)
    BY <1>1, <2>1, OwingChanges
  <2> QED BY <1>1, <2>2 DEF SemaInv
<1> QED BY <1>2, <1>3

(* the next transfer of a thread,                                            *)
LEMMA NextBufferStep ==
  ASSUME PageInv, NEW t \in Transfers, NextBuffer(t)
  PROVE  PageInv'
<1> USE DEF PageInv
<1>1. /\ listAt[t] = "freed" /\ buffer' = [buffer EXCEPT ![t] = NoBuffer]
      /\ pagelist' = [pagelist EXCEPT ![t] = NoList] /\ copied' = [copied EXCEPT ![t] = {}]
      /\ listAt' = [listAt EXCEPT ![t] = "start"] /\ UNCHANGED <<fragments, fragSema, leaked>>
  BY DEF NextBuffer
<1>2. /\ PageMaps' /\ buffer'[t] = NoBuffer /\ pagelist'[t] = NoList /\ listAt'[t] = "start"
      /\ copied'[t] = {}
      /\ \A u \in Transfers \ {t} : /\ listAt'[u] = listAt[u] /\ buffer'[u] = buffer[u]
                                    /\ pagelist'[u] = pagelist[u] /\ copied'[u] = copied[u]
  BY <1>1 DEF PageMaps
<1>3. Held(t) = NoFragment /\ Held(t)' = NoFragment
  <2>1. Held(t) = NoFragment
    BY <1>1 DEF TransferInv
  <2>2. Held(t)' = NoFragment
    BY <1>2 DEF Held, NoList
  <2> QED BY <2>1, <2>2
<1>4. TransferInv(t)'
  <2>1. NoFragment \in 0 .. MaxFragments
    BY PageListAssumption DEF NoFragment
  <2> QED BY <1>2, <1>3, <2>1, NothingListed DEF TransferInv, PagePlaces
<1>5. \A u \in Transfers : TransferInv(u)'
  BY <1>2, <1>4, OthersKept
<1>6. \A u \in Transfers : Held(u)' = Held(u)
  BY <1>2, <1>3 DEF Held
<1>7. FragmentInv'
  BY <1>1, <1>6, FragmentsKept DEF FragmentInv
<1>8. SemaInv'
  <2>1. t \notin Owing
    BY <1>1 DEF Owing
  <2>2. Cardinality(Owing') = Cardinality(Owing)
    <3> DEFINE x == "start"
    <3>1. listAt' = [listAt EXCEPT ![t] = x] /\ x \notin {"take", "up"} /\ PageMaps
      BY <1>1
    <3> HIDE DEF x
    <3> QED BY ONLY <2>1, <3>1, OwingChanges, t \in Transfers
  <2> QED BY <1>1, <2>2 DEF SemaInv
<1> QED BY <1>2, <1>5, <1>7, <1>8

(* Who is promised a fragment finds one.                                     *)
LEMMA PromisedThere ==
  ASSUME PageInv, NEW t \in Transfers, listAt[t] = "take"
  PROVE  fragments # <<>> /\ fragSema < Len(fragments)
<1>1. Owing # {} /\ IsFiniteSet(Owing)
  BY PageListAssumption, FS_Subset DEF Owing
<1>2. Cardinality(Owing) \in Nat /\ Cardinality(Owing) # 0
  BY <1>1, FS_CardinalityType, FS_EmptySet
<1>3. fragSema < Len(fragments)
  BY <1>2 DEF PageInv, SemaInv, FragmentInv
<1> QED BY <1>2, <1>3 DEF PageInv, SemaInv, FragmentInv

(* a fragment taken from the list,                                           *)
LEMMA FragmentTakeStep ==
  ASSUME PageInv, NEW t \in Transfers, FragmentTake(t)
  PROVE  PageInv'
<1> USE DEF PageInv
<1> DEFINE f == Head(fragments)
           n == Len(fragments)
<1>1. /\ listAt[t] = "take" /\ pagelist' = [pagelist EXCEPT ![t].fragment = f]
      /\ fragments' = Tail(fragments) /\ listAt' = [listAt EXCEPT ![t] = "sent"]
      /\ UNCHANGED <<buffer, fragSema, copied, leaked>>
  BY DEF FragmentTake
<1>2. /\ fragments \in Seq(Fragments) /\ fragments # <<>> /\ n \in Nat \ {0} /\ f = fragments[1]
      /\ f \in Fragments
  BY <1>1, PromisedThere DEF FragmentInv
<1>3. /\ fragments' \in Seq(Fragments) /\ Len(fragments') = n - 1
      /\ \A i \in 1 .. n - 1 : fragments'[i] = fragments[i + 1]
  BY <1>1, <1>2
<1>4. f \in 0 .. MaxFragments /\ f # NoFragment
  BY <1>2, PageListAssumption DEF Fragments, NoFragment
<1>5. TransferInv(t) /\ Held(t) = NoFragment /\ copied[t] = {}
  BY <1>1 DEF TransferInv
<1> HIDE DEF f, n
<1>6. pagelist[t] = [addrs |-> Words(buffer[t].pages), cleaned |-> CleanedBytes(buffer[t]),
                     fragment |-> NoFragment]
  BY <1>5 DEF TransferInv
<1>7. [pagelist[t] EXCEPT !.fragment = f]
       = [addrs |-> Words(buffer[t].pages), cleaned |-> CleanedBytes(buffer[t]), fragment |-> f]
  BY <1>6
<1>8. /\ PageMaps' /\ listAt'[t] = "sent"
      /\ pagelist'[t] = [addrs |-> Words(buffer[t].pages), cleaned |-> CleanedBytes(buffer[t]),
                         fragment |-> f]
      /\ \A u \in Transfers \ {t} : /\ listAt'[u] = listAt[u] /\ buffer'[u] = buffer[u]
                                    /\ pagelist'[u] = pagelist[u] /\ copied'[u] = copied[u]
  BY <1>1, <1>7 DEF PageMaps
<1>9. Held(t)' = f
  BY <1>8 DEF Held
<1>10. TransferInv(t)'
  BY <1>1, <1>4, <1>5, <1>8, <1>9 DEF TransferInv, PagePlaces
<1>11. \A u \in Transfers : TransferInv(u)'
  BY <1>8, <1>10, OthersKept
<1>12. \A u \in Transfers \ {t} : Held(u)' = Held(u)
  BY <1>8 DEF Held
<1>13. Free' = Free \ {f}
  <2>1. DOMAIN fragments = 1 .. n /\ DOMAIN fragments' = 1 .. n - 1
    BY <1>2, <1>3 DEF n
  <2>2. \A i, j \in 1 .. n : fragments[i] = fragments[j] => i = j
    BY <2>1 DEF FragmentInv
  <2>3. ASSUME NEW i \in 1 .. n - 1 PROVE fragments'[i] \in Free \ {f}
    <3>1. i + 1 \in 1 .. n /\ 1 \in 1 .. n /\ i + 1 # 1
      BY <1>2
    <3>2. fragments[i + 1] \in Free /\ fragments[i + 1] # f
      BY <1>2, <2>1, <2>2, <3>1 DEF Free
    <3> QED BY <1>3, <3>2
  <2>4. ASSUME NEW e \in Free, e # f PROVE \E i \in 1 .. n - 1 : fragments'[i] = e
    <3>1. PICK i \in 1 .. n : fragments[i] = e
      BY <2>1 DEF Free
    <3>2. i # 1
      BY <1>2, <2>4, <3>1
    <3>3. i - 1 \in 1 .. n - 1 /\ i - 1 + 1 = i
      BY <1>2, <3>2
    <3> QED BY <1>3, <3>1, <3>3
  <2>5. Free' = {fragments'[i] : i \in 1 .. n - 1}
    BY <2>1 DEF Free
  <2> QED BY <2>3, <2>4, <2>5
<1>14. f \in Free
  <2>1. 1 \in DOMAIN fragments
    BY <1>2 DEF n
  <2> QED BY <1>2, <2>1 DEF Free
<1>15. \A i, j \in DOMAIN fragments' : fragments'[i] = fragments'[j] => i = j
  <2> SUFFICES ASSUME NEW i \in 1 .. n - 1, NEW j \in 1 .. n - 1, fragments'[i] = fragments'[j]
               PROVE  i = j
    BY <1>3, <1>2
  <2>1. i + 1 \in DOMAIN fragments /\ j + 1 \in DOMAIN fragments
    BY <1>2 DEF n
  <2>2. fragments[i + 1] = fragments[j + 1]
    BY <1>3
  <2>3. i + 1 = j + 1
    BY <2>1, <2>2 DEF FragmentInv
  <2> QED BY <1>2, <2>3
<1>16. FragmentInv'
  <2>1. \A u \in Transfers \ {t} : Held(u) # f
    BY <1>14 DEF FragmentInv
  <2>2. \A u \in Transfers : Held(u)' \notin Free'
    BY <1>9, <1>12, <1>13 DEF FragmentInv
  <2>3. \A u, v \in Transfers : Held(u)' = Held(v)' /\ Held(u)' # NoFragment => u = v
    BY <1>9, <1>12, <2>1 DEF FragmentInv
  <2>4. \A e \in Fragments : e \in Free' \/ \E u \in Transfers : Held(u)' = e
    <3> SUFFICES ASSUME NEW e \in Fragments, e \notin Free'
                 PROVE  \E u \in Transfers : Held(u)' = e
      OBVIOUS
    <3>1. CASE e = f
      BY <1>9, <3>1
    <3>2. CASE e # f
      <4>1. PICK u \in Transfers : Held(u) = e
        BY <1>13, <3>2 DEF FragmentInv
      <4>2. e # NoFragment
        BY DEF Fragments, NoFragment
      <4>3. u # t
        BY <1>5, <4>1, <4>2
      <4> QED BY <1>12, <4>1, <4>3
    <3> QED BY <3>1, <3>2
  <2>5. Fragments' = Fragments /\ leaked' \subseteq Fragments
    BY <1>1 DEF FragmentInv, Fragments
  <2> QED BY <1>3, <1>15, <2>2, <2>3, <2>4, <2>5 DEF FragmentInv
<1>17. SemaInv'
  <2>1. t \in Owing
    BY <1>1 DEF Owing
  <2>2. Cardinality(Owing') = Cardinality(Owing) - 1 /\ Cardinality(Owing) \in Nat
    <3> DEFINE x == "sent"
    <3>1. listAt' = [listAt EXCEPT ![t] = x] /\ x \notin {"take", "up"} /\ PageMaps
      BY <1>1
    <3> HIDE DEF x
    <3> QED BY ONLY <2>1, <3>1, OwingChanges, t \in Transfers
  <2> QED BY <1>1, <1>2, <1>3, <2>2 DEF SemaInv, n
<1> QED BY <1>8, <1>11, <1>16, <1>17

(* and one put back.                                                         *)
LEMMA FragmentPutStep ==
  ASSUME PageInv, NEW t \in Transfers, FragmentPut(t)
  PROVE  PageInv'
<1> USE DEF PageInv
<1> DEFINE f == Held(t)
           n == Len(fragments)
<1>1. /\ listAt[t] = "put" /\ pagelist' = [pagelist EXCEPT ![t].fragment = NoFragment]
      /\ fragments' = <<f>> \o fragments /\ listAt' = [listAt EXCEPT ![t] = "up"]
      /\ UNCHANGED <<buffer, fragSema, copied, leaked>>
  BY DEF FragmentPut, Held
<1>2. fragments \in Seq(Fragments) /\ n \in Nat /\ DOMAIN fragments = 1 .. n
  BY DEF FragmentInv
<1>3. TransferInv(t) /\ f # NoFragment /\ f \in Fragments
  BY <1>1, PageListAssumption DEF TransferInv, Fragments, NoFragment
<1> HIDE DEF f
<1>4. /\ fragments' \in Seq(Fragments) /\ Len(fragments') = n + 1 /\ fragments'[1] = f
      /\ \A i \in 1 .. n : fragments'[i + 1] = fragments[i]
  BY <1>1, <1>2, <1>3
<1> HIDE DEF n
<1>5. [pagelist[t] EXCEPT !.fragment = NoFragment]
       = [addrs |-> Words(buffer[t].pages), cleaned |-> CleanedBytes(buffer[t]),
          fragment |-> NoFragment]
  <2>1. pagelist[t] = [addrs |-> Words(buffer[t].pages), cleaned |-> CleanedBytes(buffer[t]),
                       fragment |-> Held(t)]
    BY <1>3 DEF TransferInv
  <2> QED BY <2>1
<1>6. /\ PageMaps' /\ listAt'[t] = "up"
      /\ pagelist'[t] = [addrs |-> Words(buffer[t].pages), cleaned |-> CleanedBytes(buffer[t]),
                         fragment |-> NoFragment]
      /\ \A u \in Transfers \ {t} : /\ listAt'[u] = listAt[u] /\ buffer'[u] = buffer[u]
                                    /\ pagelist'[u] = pagelist[u] /\ copied'[u] = copied[u]
  BY <1>1, <1>5 DEF PageMaps
<1>7. Held(t)' = NoFragment
  BY <1>6 DEF Held
<1>8. TransferInv(t)'
  <2>1. NoFragment \in 0 .. MaxFragments
    BY PageListAssumption DEF NoFragment
  <2> QED BY <1>1, <1>3, <1>6, <1>7, <2>1 DEF TransferInv, PagePlaces
<1>9. \A u \in Transfers : TransferInv(u)'
  BY <1>6, <1>8, OthersKept
<1>10. \A u \in Transfers \ {t} : Held(u)' = Held(u)
  BY <1>6 DEF Held
<1>11. DOMAIN fragments' = 1 .. n + 1 /\ \A i \in 2 .. n + 1 : i - 1 \in 1 .. n /\ fragments'[i] = fragments[i - 1]
  <2>1. DOMAIN fragments' = 1 .. n + 1
    BY <1>2, <1>4
  <2>2. ASSUME NEW i \in 2 .. n + 1 PROVE i - 1 \in 1 .. n /\ fragments'[i] = fragments[i - 1]
    <3>1. i - 1 \in 1 .. n /\ i - 1 + 1 = i
      BY <1>2
    <3> QED BY <1>4, <3>1
  <2> QED BY <2>1, <2>2
<1>12. Free' = Free \cup {f}
  <2>1. Free' = {fragments'[i] : i \in 1 .. n + 1} /\ Free = {fragments[i] : i \in 1 .. n}
    BY <1>2, <1>11 DEF Free
  <2>2. ASSUME NEW i \in 1 .. n + 1 PROVE fragments'[i] \in Free \cup {f}
    <3>1. i = 1 \/ i \in 2 .. n + 1
      BY <1>2
    <3> QED BY <1>4, <1>11, <2>1, <3>1
  <2>3. ASSUME NEW i \in 1 .. n PROVE fragments[i] \in Free'
    <3>1. i + 1 \in 1 .. n + 1
      BY <1>2
    <3> QED BY <1>4, <2>1, <3>1
  <2>4. f \in Free'
    <3>1. 1 \in 1 .. n + 1
      BY <1>2
    <3> QED BY <1>4, <2>1, <3>1
  <2> QED BY <2>1, <2>2, <2>3, <2>4
<1>13. f \notin Free
  BY DEF FragmentInv, f
<1>14. \A i, j \in DOMAIN fragments' : fragments'[i] = fragments'[j] => i = j
  <2> SUFFICES ASSUME NEW i \in 1 .. n + 1, NEW j \in 1 .. n + 1, fragments'[i] = fragments'[j]
               PROVE  i = j
    BY <1>11
  <2>1. \A k \in 2 .. n + 1 : fragments'[k] # f
    BY <1>2, <1>11, <1>13 DEF Free
  <2>2. (i = 1 \/ i \in 2 .. n + 1) /\ (j = 1 \/ j \in 2 .. n + 1)
    BY <1>2
  <2>3. CASE i \in 2 .. n + 1 /\ j \in 2 .. n + 1
    <3>1. i - 1 = j - 1
      BY <1>2, <1>11, <2>3 DEF FragmentInv
    <3> QED BY <1>2, <2>3, <3>1
  <2> QED BY <1>4, <2>1, <2>2, <2>3
<1>15. FragmentInv'
  <2>1. \A u \in Transfers \ {t} : Held(u) # f
    BY <1>3 DEF FragmentInv, f
  <2>2. NoFragment \notin Free'
    <3>1. Free \subseteq Fragments
      BY <1>2 DEF Free
    <3> QED BY <1>3, <1>12, <3>1 DEF Fragments, NoFragment
  <2>3. \A u \in Transfers : Held(u)' \notin Free'
    BY <1>7, <1>10, <1>12, <2>1, <2>2 DEF FragmentInv
  <2>4. \A u, v \in Transfers : Held(u)' = Held(v)' /\ Held(u)' # NoFragment => u = v
    BY <1>7, <1>10 DEF FragmentInv
  <2>5. \A e \in Fragments : e \in Free' \/ \E u \in Transfers : Held(u)' = e
    BY <1>10, <1>12 DEF FragmentInv, f
  <2>6. Fragments' = Fragments /\ leaked' \subseteq Fragments
    BY <1>1 DEF FragmentInv, Fragments
  <2> QED BY <1>4, <1>14, <2>3, <2>4, <2>5, <2>6 DEF FragmentInv
<1>16. SemaInv'
  <2>1. t \notin Owing
    BY <1>1 DEF Owing
  <2>2. Cardinality(Owing') = Cardinality(Owing) + 1 /\ Cardinality(Owing) \in Nat
    <3> DEFINE x == "up"
    <3>1. listAt' = [listAt EXCEPT ![t] = x] /\ x \in {"take", "up"} /\ PageMaps
      BY <1>1
    <3> HIDE DEF x
    <3> QED BY ONLY <2>1, <3>1, OwingChanges, t \in Transfers
  <2>3. fragSema \in Nat /\ fragSema + Cardinality(Owing) = n
    BY DEF SemaInv, n
  <2>4. fragSema' = fragSema /\ Len(fragments') = n + 1
    BY <1>1, <1>4
  <2>5. fragSema + (Cardinality(Owing) + 1) = n + 1
    BY <2>2, <2>3
  <2> QED BY ONLY <2>2, <2>3, <2>4, <2>5 DEF SemaInv
<1> QED BY <1>6, <1>9, <1>15, <1>16

(* So does every step.                                                       *)
LEMMA PageStep == PageInv /\ [PageNext]_pageVars => PageInv'
<1> SUFFICES ASSUME PageInv, [PageNext]_pageVars PROVE PageInv'
  OBVIOUS
<1>1. ASSUME NEW t \in Transfers,
             \/ CreateList(t) \/ FragmentDown(t) \/ FragmentTake(t)
             \/ FreeList(t) \/ FragmentPut(t) \/ FragmentUp(t)
             \/ KeepList(t) \/ NextBuffer(t)
      PROVE  PageInv'
  BY <1>1, CreateListStep, FragmentDownStep, FragmentTakeStep, SentStep, FragmentPutStep,
     FragmentUpStep, NextBufferStep
<1>2. CASE UNCHANGED pageVars
  <2>1. UNCHANGED <<buffer, pagelist, listAt, fragments, fragSema, copied, leaked>>
    BY <1>2 DEF pageVars
  <2>2. PageMaps'
    BY <2>1 DEF PageInv, PageMaps
  <2>3. ASSUME NEW t \in Transfers PROVE TransferInv(t)'
    BY <2>1 DEF PageInv, TransferInv, Held
  <2>4. FragmentInv'
    BY <2>1 DEF PageInv, FragmentInv, Held, Free
  <2>5. SemaInv'
    BY <2>1 DEF PageInv, SemaInv, Owing
  <2> QED BY <2>2, <2>3, <2>4, <2>5 DEF PageInv
<1> QED BY <1>1, <1>2 DEF PageNext

(* One transfer of those that hold f, or one place in the list.              *)
LEMMA OneUser ==
  ASSUME FragmentInv, NEW f \in Fragments
  PROVE  Cardinality({i \in DOMAIN fragments : fragments[i] = f})
         + Cardinality({t \in Transfers : pagelist[t].fragment = f}) = 1
<1> DEFINE A == {i \in DOMAIN fragments : fragments[i] = f}
           B == {t \in Transfers : pagelist[t].fragment = f}
<1>0. f # NoFragment
  BY DEF Fragments, NoFragment
<1>1. CASE f \in Free
  <2>1. PICK i \in DOMAIN fragments : fragments[i] = f
    BY <1>1 DEF Free
  <2>2. A = {i}
    BY <2>1 DEF FragmentInv
  <2>3. B = {}
    BY <1>1 DEF FragmentInv, Held
  <2>4. Cardinality({i}) = 1 /\ Cardinality({}) = 0
    BY FS_Singleton, FS_EmptySet
  <2>5. Cardinality(A) + Cardinality(B) = 1
    <3> HIDE DEF A, B
    <3> QED BY <2>2, <2>3, <2>4
  <2> QED BY <2>5
<1>2. CASE f \notin Free
  <2>1. PICK t \in Transfers : Held(t) = f
    BY <1>2 DEF FragmentInv
  <2>2. A = {}
    BY <1>2 DEF Free
  <2>3. B = {t}
    BY <1>0, <2>1 DEF FragmentInv, Held
  <2>4. Cardinality({t}) = 1 /\ Cardinality({}) = 0
    BY FS_Singleton, FS_EmptySet
  <2> QED BY <2>2, <2>3, <2>4
<1> QED BY <1>1, <1>2

(* There are never more free fragments than there are.                       *)
LEMMA FreeAtMost ==
  ASSUME FragmentInv
  PROVE  Len(fragments) <= MaxFragments
<1>1. fragments \in Seq(Fragments) /\ MaxFragments \in Nat
  BY PageListAssumption DEF FragmentInv
<1>2. IsFiniteSet(1 .. MaxFragments) /\ Cardinality(1 .. MaxFragments) = MaxFragments
      /\ IsFiniteSet(1 .. Len(fragments)) /\ Cardinality(1 .. Len(fragments)) = Len(fragments)
  <2>1. Len(fragments) \in Nat
    BY <1>1
  <2>2. \A n \in Nat : IsFiniteSet(1 .. n) /\ Cardinality(1 .. n) = n
    <3> SUFFICES ASSUME NEW n \in Nat PROVE IsFiniteSet(1 .. n) /\ Cardinality(1 .. n) = n
      OBVIOUS
    <3>1. 1 \in Int /\ n \in Int
      OBVIOUS
    <3>2. IsFiniteSet(1 .. n) /\ Cardinality(1 .. n) = IF 1 > n THEN 0 ELSE n - 1 + 1
      BY ONLY <3>1, FS_Interval
    <3> QED BY <3>2
  <2> QED BY <1>1, <2>1, <2>2
<1>3. fragments \in Injection(1 .. Len(fragments), 1 .. MaxFragments)
  <2>1. fragments \in [1 .. Len(fragments) -> 1 .. MaxFragments]
    BY <1>1 DEF Fragments
  <2>2. \A i, j \in 1 .. Len(fragments) : fragments[i] = fragments[j] => i = j
    BY <1>1 DEF FragmentInv
  <2> QED BY <2>1, <2>2 DEF Injection, IsInjective
<1> QED BY <1>2, <1>3, FS_Injection

(* What the page lists promise, and their types, follow from it.             *)
LEMMA PageListIs == PageInv => PageListExact /\ PageTypeOK
<1> SUFFICES ASSUME PageInv PROVE PageListExact /\ PageTypeOK
  OBVIOUS
<1> USE DEF PageInv
<1>1. ASSUME NEW t \in Transfers
      PROVE  /\ PagesNamed(pagelist[t].addrs) = buffer[t].pages
             /\ pagelist[t].cleaned = {AddressOf(buffer[t], k) : k \in 0 .. buffer[t].count - 1}
             /\ copied[t] # {} =>
                  copied[t] = {k \in 0 .. buffer[t].count - 1 : SharedLine(buffer[t], k)}
  <2> DEFINE b == buffer[t]
  <2>1. BufferOK(b) /\ pagelist[t].addrs = Words(b.pages) /\ pagelist[t].cleaned = CleanedBytes(b)
        /\ copied[t] \in {{}, FragmentBytes(b, b.count)}
    <3>1. pagelist[t] = [addrs |-> Words(b.pages), cleaned |-> CleanedBytes(b), fragment |-> Held(t)]
      BY DEF TransferInv
    <3>2. [addrs |-> Words(b.pages), cleaned |-> CleanedBytes(b), fragment |-> Held(t)].addrs
            = Words(b.pages)
          /\ [addrs |-> Words(b.pages), cleaned |-> CleanedBytes(b), fragment |-> Held(t)].cleaned
               = CleanedBytes(b)
      OBVIOUS
    <3>3. BufferOK(b) /\ copied[t] \in {{}, FragmentBytes(b, b.count)}
      BY DEF TransferInv
    <3> QED BY <3>1, <3>2, <3>3
  <2> HIDE DEF b
  <2>2. b.pages \in Seq(Nat)
    BY <2>1 DEF BufferOK
  <2>3. PagesNamed(Words(b.pages)) = b.pages
    BY ONLY <2>2, WordsName
  <2>4. CleanedBytes(b) = {AddressOf(b, k) : k \in 0 .. b.count - 1}
    BY ONLY <2>1, CleanedIs
  <2>5. FragmentBytes(b, b.count) = {k \in 0 .. b.count - 1 : SharedLine(b, k)}
    BY ONLY <2>1, FragmentIs
  <2>6. copied[t] # {} => copied[t] = {k \in 0 .. b.count - 1 : SharedLine(b, k)}
    BY <2>1, <2>5
  <2> QED BY <2>1, <2>3, <2>4, <2>6 DEF b
<1>2. \A t \in Transfers : listAt[t] = "take" => fragments # <<>>
  BY PromisedThere
<1>3. \A f \in Fragments :
        Cardinality({i \in DOMAIN fragments : fragments[i] = f})
        + Cardinality({t \in Transfers : pagelist[t].fragment = f}) = 1
  BY OneUser
<1>4. PageListExact
  BY <1>1, <1>2, <1>3 DEF PageListExact, SharedLine
<1>5. \A t \in Transfers : /\ buffer[t].offset \in 0 .. PageSize - 1 /\ buffer[t].count \in Nat
                           /\ pagelist[t].fragment \in 0 .. MaxFragments
  BY DEF TransferInv, BufferOK, Held
<1>6. fragSema \in 0 .. MaxFragments
  <2>1. IsFiniteSet(Owing)
    BY PageListAssumption, FS_Subset DEF Owing
  <2>2. Cardinality(Owing) \in Nat
    BY <2>1, FS_CardinalityType
  <2>3. Len(fragments) <= MaxFragments /\ Len(fragments) \in Nat /\ MaxFragments \in Nat
    BY FreeAtMost, PageListAssumption DEF FragmentInv
  <2> QED BY <2>2, <2>3 DEF SemaInv
<1>7. PageTypeOK
  BY <1>5, <1>6 DEF PageTypeOK, FragmentInv
<1> QED BY <1>4, <1>7

(* A page list names the pages of its buffer in order and all its bytes are  *)
(* cleaned and no others, the bytes copied from a fragment are those of the  *)
(* cache lines that the buffer shares, and no fragment has two users or gets *)
(* lost (create_pagelist, free_pagelist).                                    *)
THEOREM PageListsExact == PageSpec => []PageListExact
<1>1. PageSpec => []PageInv
  BY PageInitially, PageStep, PTL DEF PageSpec
<1>2. PageInv => PageListExact
  BY PageListIs
<1> QED BY <1>1, <1>2, PTL

(* The types; the semaphore of the fragments stays within their number.      *)
THEOREM PageTypesKept == PageSpec => []PageTypeOK
<1>1. PageSpec => []PageInv
  BY PageInitially, PageStep, PTL DEF PageSpec
<1>2. PageInv => PageTypeOK
  BY PageListIs
<1> QED BY <1>1, <1>2, PTL
=============================================================================
