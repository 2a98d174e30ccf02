----------------------------- MODULE BulkProofs -----------------------------
(***************************************************************************)
(* Proofs about the rings of bulk transfers (BulkQueue), for rings of any  *)
(* size and any number of threads and calls.  That an entry keeps its      *)
(* waiter needs to be known from three sides: what the thread that fills   *)
(* one has done so far, whom an entry that reports back will wake, and     *)
(* that a thread that was woken finds no bulk of its own in its entry.     *)
(*                                                                         *)
(* What is reported of a bulk is then what became of it on the VideoCore:  *)
(* the messages under way are numbered by the bulks they are about, which  *)
(* the code never does, as it relies on their order.                       *)
(***************************************************************************)
EXTENDS BulkQueue, TLAPS

Entry(d, n) == bulkQ[d].bulks[BulkIndex(n)]
Window(d) == bulkQ[d].remove .. (bulkQ[d].local_insert - 1)
Filling(t) == btAt[t] \in {"slot", "send"}

(* Bulk n is u's, or has lost its waiter.                                    *)
Occupied(d, n, u) ==
  \/ Entry(d, n).userdata = u
  \/ Entry(d, n).userdata = NoWaiter /\ <<d, n>> \in bulkLog.taken

BulkEntry ==
  [userdata : BulkThreads \union {NoWaiter},
   mode : {"blocking", "callback", "nocallback"}, actual : {"done", "aborted"}]
Queue ==
  [local_insert : Nat, remote_insert : Nat, process : Nat, remote_notify : Nat,
   remove : Nat, bulks : [0..(NumBulks - 1) -> BulkEntry]]
Call ==
  [dir : Dirs, mode : {"blocking", "callback", "nocallback"}, bulk : Nat, calls : Nat]
Answer ==
  [type : {"DONE"}, dir : Dirs, actual : {"done", "aborted"}] \union [type : {"CLOSE"}]
Orders == {<<>>, <<"tx">>, <<"rx">>, DirOrder}

TypeInv ==
  /\ bulkQ \in [Dirs -> Queue]
  /\ btAt \in [BulkThreads -> {"idle", "lock", "stall", "slot", "send", "wait"}]
  /\ btCall \in [BulkThreads -> Call]
  /\ waiter \in [BulkThreads -> {"asleep", "done", "aborted"}]
  /\ bulkLog = [asked |-> bulkLog.asked, told |-> bulkLog.told,
                late |-> bulkLog.late, taken |-> bulkLog.taken]
  /\ bulkLog.asked \in [Dirs -> Seq(BulkThreads)]

(* The slot handler, and what is on its way to it: a CLOSE is parsed until   *)
(* it has been answered.                                                     *)
HandlerInv ==
  /\ notifier = [dirs |-> notifier.dirs, next |-> notifier.next]
  /\ notifier.dirs \in Orders
  /\ bulkMsgs = [slave |-> bulkMsgs.slave, master |-> bulkMsgs.master]
  /\ bulkMsgs.slave \in Seq(Answer)
  /\ notifier.next # "idle" => bulkMsgs.slave # <<>>

(* The indexes, and whose the bulks between them are.                        *)
Ordered(q) ==
  /\ q.remote_notify <= q.process
  /\ q.remove <= q.process /\ q.process = q.remote_insert
  /\ q.process <= q.local_insert /\ q.local_insert <= q.remove + NumBulks

RingInv ==
  \A d \in Dirs :
    /\ Ordered(bulkQ[d])
    /\ Len(bulkLog.asked[d]) = bulkQ[d].local_insert
    /\ \A n \in Window(d) : Occupied(d, n, bulkLog.asked[d][n + 1])

(* A bulk that will wake its waiter is the one this thread waits for.        *)
WakeInv ==
  \A d \in Dirs : \A n \in Window(d) :
    Entry(d, n).mode = "blocking" /\ Entry(d, n).userdata # NoWaiter =>
      LET u == Entry(d, n).userdata
      IN /\ btAt[u] = "wait" /\ waiter[u] = "asleep"
         /\ btCall[u].dir = d /\ btCall[u].bulk = n

(* A thread between filling an entry and inserting the bulk.                 *)
FillOf(t) ==
  /\ btAt[t] \in {"lock", "stall", "slot", "send"} => waiter[t] = "asleep"
  /\ Filling(t) =>
       LET d == btCall[t].dir
           n == bulkQ[d].local_insert
       IN /\ bulkMutex = t
          /\ n < bulkQ[d].remove + NumBulks
          /\ Occupied(d, n, t) /\ Entry(d, n).mode = btCall[t].mode

FillInv == \A t \in BulkThreads : FillOf(t)

(* A thread that waits for its bulk has asked for none since.                *)
WaitOf(t) ==
  btAt[t] = "wait" =>
    LET d == btCall[t].dir
        m == btCall[t].bulk
    IN /\ m < bulkQ[d].local_insert
       /\ \A n \in Nat : m < n /\ n < bulkQ[d].local_insert
                           => bulkLog.asked[d][n + 1] # t
       /\ m >= bulkQ[d].remove => Entry(d, m).mode = "blocking"

WaitInv == \A t \in BulkThreads : WaitOf(t)

IInv == TypeInv /\ HandlerInv /\ RingInv /\ WakeInv /\ FillInv /\ WaitInv

-----------------------------------------------------------------------------
(* Two bulks in the ring at once have different entries.                     *)
LEMMA IndexApart ==
  ASSUME NEW r \in Nat, NEW a \in Nat, NEW b \in Nat,
         r <= a, a < r + NumBulks, r <= b, b < r + NumBulks,
         BulkIndex(a) = BulkIndex(b)
  PROVE  a = b
<1>1. NumBulks \in Nat \ {0}
  BY BulkAssumption
<1>2. \A n \in Nat : /\ n = NumBulks * (n \div NumBulks) + (n % NumBulks)
                     /\ n \div NumBulks \in Nat /\ n % NumBulks \in Nat
  BY <1>1
<1>. DEFINE p == a \div NumBulks
            q == b \div NumBulks
            m == a % NumBulks
<1>3. /\ p \in Nat /\ q \in Nat /\ m \in Nat
      /\ a = NumBulks * p + m /\ b = NumBulks * q + m
  BY <1>2 DEF BulkIndex
<1>. HIDE DEF p, q, m
<1>4. ASSUME NEW x \in Nat, NEW y \in Nat, x < y
      PROVE  NumBulks * y >= NumBulks * x + NumBulks
  <2>1. y >= x + 1
    BY <1>4
  <2>2. NumBulks * y >= NumBulks * (x + 1)
    BY <1>1, <2>1
  <2>3. NumBulks * (x + 1) = NumBulks * x + NumBulks
    BY <1>1
  <2>. QED BY <2>2, <2>3
<1>5. NumBulks * p \in Nat /\ NumBulks * q \in Nat
  BY <1>1, <1>3
<1>6. ~(p < q)
  BY <1>1, <1>3, <1>4, <1>5
<1>7. ~(q < p)
  BY <1>1, <1>3, <1>4, <1>5
<1>. QED BY <1>3, <1>6, <1>7

LEMMA IndexInRing == \A n \in Nat : BulkIndex(n) \in 0..(NumBulks - 1)
BY BulkAssumption DEF BulkIndex

LEMMA ElementOf ==
  ASSUME NEW S, NEW s \in Seq(S), NEW k \in 1..Len(s)
  PROVE  s[k] \in S
OBVIOUS

LEMMA BulkStarts == BulkInit => IInv
<1>. SUFFICES ASSUME BulkInit PROVE IInv
  OBVIOUS
<1>1. NumBulks \in Nat \ {0} /\ NoWaiter \notin BulkThreads
  BY BulkAssumption
<1>2. TypeInv /\ HandlerInv
  <2>1. bulkQ \in [Dirs -> Queue]
    BY <1>1 DEF BulkInit, Queue, BulkEntry
  <2>2. btCall \in [BulkThreads -> Call]
    BY DEF BulkInit, Call, Dirs
  <2>3. <<>> \in Seq(Answer) /\ <<>> \in Seq(BulkThreads)
    OBVIOUS
  <2>. QED BY <2>1, <2>2, <2>3 DEF BulkInit, TypeInv, HandlerInv, Orders
<1>3. \A d \in Dirs : bulkQ[d].remove = 0 /\ bulkQ[d].local_insert = 0
  BY DEF BulkInit
<1>4. \A d \in Dirs : Window(d) = {}
  BY <1>3 DEF Window
<1>5. RingInv /\ WakeInv
  <2>1. \A d \in Dirs : Len(bulkLog.asked[d]) = 0 /\ Ordered(bulkQ[d])
    BY <1>1 DEF BulkInit, Ordered
  <2>. QED BY <1>3, <1>4, <2>1 DEF RingInv, WakeInv
<1>6. FillInv /\ WaitInv
  BY DEF BulkInit, FillInv, FillOf, WaitInv, WaitOf, Filling
<1>. QED BY <1>2, <1>5, <1>6 DEF IInv

-----------------------------------------------------------------------------
(* What the invariant says of one queue.                                     *)
LEMMA QueueFacts ==
  ASSUME IInv, NEW d \in Dirs
  PROVE  /\ bulkQ[d] \in Queue /\ NumBulks \in Nat \ {0}
         /\ bulkQ[d].remove \in Nat /\ bulkQ[d].local_insert \in Nat
         /\ bulkQ[d].process \in Nat
         /\ bulkQ[d].remove <= bulkQ[d].process
         /\ bulkQ[d].process <= bulkQ[d].local_insert
         /\ bulkQ[d].local_insert <= bulkQ[d].remove + NumBulks
         /\ Window(d) \subseteq Nat
         /\ \A n \in Nat : Entry(d, n) \in BulkEntry
         /\ bulkLog.asked[d] \in Seq(BulkThreads)
         /\ \A n \in Window(d) : bulkLog.asked[d][n + 1] \in BulkThreads
<1>1. /\ bulkQ[d] \in Queue /\ NumBulks \in Nat \ {0}
      /\ bulkQ[d].remove \in Nat /\ bulkQ[d].local_insert \in Nat
      /\ bulkQ[d].process \in Nat
      /\ bulkLog.asked[d] \in Seq(BulkThreads)
  BY BulkAssumption DEF IInv, TypeInv, Queue
<1>2. /\ Ordered(bulkQ[d]) /\ Len(bulkLog.asked[d]) = bulkQ[d].local_insert
  BY DEF IInv, RingInv
<1>3. \A n \in Nat : Entry(d, n) \in BulkEntry
  BY <1>1, IndexInRing DEF Entry, Queue
<1>4. \A n \in Window(d) : n \in Nat /\ n + 1 \in 1..Len(bulkLog.asked[d])
  BY <1>1, <1>2 DEF Window
<1>5. \A k \in 1..Len(bulkLog.asked[d]) : bulkLog.asked[d][k] \in BulkThreads
  BY <1>1
<1>. QED BY <1>1, <1>2, <1>3, <1>4, <1>5 DEF Ordered

(* A queue of which a bulk is answered, and one of which a bulk is removed.  *)
Answered(q, bs, m, n) == [q EXCEPT !.bulks = bs, !.remote_insert = m, !.process = n]
Notified(q, m, n) == [q EXCEPT !.remote_notify = m, !.remove = n]

LEMMA QueueAnswered ==
  ASSUME NEW q \in Queue, NEW bs \in [0..(NumBulks - 1) -> BulkEntry],
         NEW m \in Nat, NEW n \in Nat
  PROVE  /\ Answered(q, bs, m, n) \in Queue
         /\ Answered(q, bs, m, n).bulks = bs
         /\ Answered(q, bs, m, n).remote_insert = m
         /\ Answered(q, bs, m, n).process = n
         /\ Answered(q, bs, m, n).remove = q.remove
         /\ Answered(q, bs, m, n).local_insert = q.local_insert
         /\ Answered(q, bs, m, n).remote_notify = q.remote_notify
BY DEF Queue, Answered

LEMMA QueueNotified ==
  ASSUME NEW q \in Queue, NEW m \in Nat, NEW n \in Nat
  PROVE  /\ Notified(q, m, n) \in Queue
         /\ Notified(q, m, n).remote_notify = m
         /\ Notified(q, m, n).remove = n
         /\ Notified(q, m, n).bulks = q.bulks
         /\ Notified(q, m, n).process = q.process
         /\ Notified(q, m, n).local_insert = q.local_insert
         /\ Notified(q, m, n).remote_insert = q.remote_insert
BY DEF Queue, Notified

(* A thread that fills an entry is the only one.                             *)
LEMMA OneFills ==
  ASSUME IInv, NEW t \in BulkThreads, NEW u \in BulkThreads, Filling(t), Filling(u)
  PROVE  t = u
BY DEF IInv, FillInv, FillOf

-----------------------------------------------------------------------------
(* Steps of the master, and of the slot handler as it closes, leave queues   *)
(* and threads as they are.                                                  *)
LEMMA QuietKeeps ==
  ASSUME IInv, HandlerInv',
         UNCHANGED <<bulkQ, bulkMutex, btAt, btCall, waiter, bulkLog>>
  PROVE  IInv'
<1>1. TypeInv'
  BY DEF IInv, TypeInv
<1>2. RingInv'
  BY DEF IInv, RingInv, Ordered, Window, Occupied, Entry
<1>3. WakeInv'
  BY DEF IInv, WakeInv, Window, Entry
<1>4. FillInv'
  BY DEF IInv, FillInv, FillOf, Filling, Occupied, Entry
<1>5. WaitInv'
  BY DEF IInv, WaitInv, WaitOf, Entry
<1>. QED BY <1>1, <1>2, <1>3, <1>4, <1>5 DEF IInv

LEMMA PeerKeeps ==
  ASSUME IInv,
         PeerReceive \/ PeerSendClose \/ PeerClose
           \/ \E d \in Dirs : PeerTransfer(d) \/ PeerAnswer(d)
  PROVE  IInv'
<1>1. HandlerInv
  BY DEF IInv
<1>2. PeerUnchanged
  BY DEF PeerReceive, PeerSendClose, PeerClose, PeerTransfer, PeerAnswer
<1>3. ASSUME NEW m \in Answer, SendTo("slave", m)
      PROVE  HandlerInv'
  <2>1. bulkMsgs' = [slave |-> Append(bulkMsgs.slave, m), master |-> bulkMsgs.master]
    BY <1>1, <1>3 DEF SendTo, HandlerInv
  <2>. QED BY <1>1, <1>2, <2>1 DEF HandlerInv, PeerUnchanged
<1>4. HandlerInv'
  <2>1. CASE UNCHANGED bulkMsgs
    BY <1>1, <1>2, <2>1 DEF HandlerInv, PeerUnchanged
  <2>2. CASE PeerReceive
    <3>1. bulkMsgs' = [slave |-> bulkMsgs.slave, master |-> Tail(bulkMsgs.master)]
      BY <1>1, <2>2 DEF PeerReceive, HandlerInv
    <3>. QED BY <1>1, <1>2, <3>1 DEF HandlerInv, PeerUnchanged
  <2>3. CASE PeerSendClose
    BY <1>3, <2>3 DEF PeerSendClose, Answer
  <2>4. CASE PeerClose \/ \E d \in Dirs : PeerTransfer(d)
    BY <2>1, <2>4 DEF PeerClose, PeerTransfer
  <2>5. ASSUME NEW d \in Dirs, PeerAnswer(d)
        PROVE  \E m \in Answer : SendTo("slave", m)
    BY <2>5 DEF PeerAnswer, Answer
  <2>. QED BY <1>3, <2>2, <2>3, <2>4, <2>5
<1>. QED BY <1>2, <1>4, QuietKeeps DEF PeerUnchanged

LEMMA HandlerCloses ==
  ASSUME IInv, CloseTerminate \/ CloseAnswer \/ CloseComplete \/ HandlerWoken
  PROVE  IInv'
<1>1. HandlerInv
  BY DEF IInv
<1>2. CASE CloseTerminate
  <2>1. bulkMsgs' = [slave |-> bulkMsgs.slave,
                     master |-> Append(bulkMsgs.master, [type |-> "CLOSE"])]
    BY <1>1, <1>2 DEF CloseTerminate, SendTo, HandlerInv
  <2>2. HandlerInv'
    BY <1>1, <1>2, <2>1 DEF CloseTerminate, HandlerInv
  <2>. QED BY <1>2, <2>2, QuietKeeps DEF CloseTerminate
<1>3. bulkMsgs.slave # <<>> => Tail(bulkMsgs.slave) \in Seq(Answer)
  BY <1>1 DEF HandlerInv
<1>4. CASE CloseAnswer
  <2>1. notifier' = [dirs |-> notifier.dirs,
                     next |-> IF HasRoom("master") THEN "idle" ELSE "bailed"]
    BY <1>1, <1>4 DEF CloseAnswer, HandlerInv
  <2>2. bulkMsgs.slave # <<>>
    BY <1>1, <1>4 DEF CloseAnswer, HandlerInv
  <2>3. CASE HasRoom("master")
    <3>1. bulkMsgs' = [slave |-> Tail(bulkMsgs.slave),
                       master |-> Append(bulkMsgs.master, [type |-> "CLOSE"])]
      BY <1>4, <2>3 DEF CloseAnswer
    <3>2. notifier' = [dirs |-> notifier.dirs, next |-> "idle"]
      BY <2>1, <2>3
    <3>3. HandlerInv'
      BY <1>1, <1>3, <2>2, <3>1, <3>2 DEF HandlerInv
    <3>. QED BY <1>4, <3>3, QuietKeeps DEF CloseAnswer
  <2>4. CASE ~HasRoom("master")
    <3>1. UNCHANGED bulkMsgs
      BY <1>4, <2>4 DEF CloseAnswer
    <3>2. HandlerInv'
      BY <1>1, <2>1, <2>2, <2>4, <3>1 DEF HandlerInv
    <3>. QED BY <1>4, <3>2, QuietKeeps DEF CloseAnswer
  <2>. QED BY <2>3, <2>4
<1>5. CASE CloseComplete
  <2>1. notifier' = [dirs |-> notifier.dirs, next |-> "idle"]
    BY <1>1, <1>5 DEF CloseComplete, HandlerInv
  <2>2. bulkMsgs.slave # <<>>
    BY <1>1, <1>5 DEF CloseComplete, HandlerInv
  <2>3. bulkMsgs' = [slave |-> Tail(bulkMsgs.slave), master |-> bulkMsgs.master]
    BY <1>1, <1>5 DEF CloseComplete, PopSlave, HandlerInv
  <2>4. HandlerInv'
    BY <1>1, <1>3, <2>1, <2>2, <2>3 DEF HandlerInv
  <2>. QED BY <1>5, <2>4, QuietKeeps DEF CloseComplete
<1>6. CASE HandlerWoken
  <2>1. notifier' = [dirs |-> notifier.dirs, next |-> "idle"] /\ UNCHANGED bulkMsgs
    BY <1>1, <1>6 DEF HandlerWoken, HandlerInv
  <2>2. HandlerInv'
    BY <1>1, <2>1 DEF HandlerInv
  <2>. QED BY <1>6, <2>2, QuietKeeps DEF HandlerWoken
<1>. QED BY <1>2, <1>4, <1>5, <1>6

-----------------------------------------------------------------------------
(* Steps of a thread that change no queue.                                   *)
LEMMA CallKeeps ==
  ASSUME IInv, NEW t \in BulkThreads, TransferCall(t)
  PROVE  IInv'
<1>. DEFINE c == BulkCalls[t][btCall[t].calls + 1]
            w == [dir |-> c.dir, mode |-> Mode(c), bulk |-> 0,
                  calls |-> btCall[t].calls + 1]
<1>1. /\ btAt[t] = "idle" /\ btAt' = [btAt EXCEPT ![t] = "lock"]
      /\ waiter' = [waiter EXCEPT ![t] = "asleep"]
      /\ UNCHANGED <<bulkQ, bulkMutex, notifier, bulkMsgs, bulkLog>>
  BY DEF TransferCall, BtGoto
<1>2. TypeInv
  BY DEF IInv
<1>3. btCall' = [btCall EXCEPT ![t] = w] /\ Mode(c) # "unsupported"
  <2>1. btCall' = [btCall EXCEPT ![t] = [dir |-> c.dir, mode |-> Mode(c), bulk |-> 0,
                                          calls |-> @.calls + 1]]
        /\ Mode(c) # "unsupported"
    BY DEF TransferCall
  <2>. HIDE DEF c
  <2>. QED BY <1>2, <2>1 DEF TypeInv
<1>4. w \in Call
  <2>1. btCall[t].calls \in Nat
    BY <1>2 DEF TypeInv, Call
  <2>2. c \in [dir : {"tx", "rx"},
               flags : SUBSET {"callback", "queued", "op_complete", "data_read"}]
    <3>1. BulkCalls[t] \in Seq([dir : {"tx", "rx"},
            flags : SUBSET {"callback", "queued", "op_complete", "data_read"}])
      BY BulkAssumption
    <3>2. btCall[t].calls + 1 \in 1..Len(BulkCalls[t])
      BY <2>1, <3>1 DEF TransferCall
    <3>3. BulkCalls[t][btCall[t].calls + 1] \in [dir : {"tx", "rx"},
            flags : SUBSET {"callback", "queued", "op_complete", "data_read"}]
      BY <3>1, <3>2, ElementOf
    <3>. QED BY <3>3 DEF c
  <2>3. Mode(c) \in {"blocking", "callback", "nocallback"}
    <3>. HIDE DEF c
    <3>. QED BY <1>3 DEF Mode, ReceiveMode, TransmitMode
  <2>. HIDE DEF c
  <2>. QED BY <2>1, <2>2, <2>3 DEF Call, Dirs
<1>. HIDE DEF w, c
<1>5. /\ btAt' \in [BulkThreads -> {"idle", "lock", "stall", "slot", "send", "wait"}]
      /\ btCall' \in [BulkThreads -> Call]
      /\ waiter' \in [BulkThreads -> {"asleep", "done", "aborted"}]
      /\ btAt'[t] = "lock" /\ waiter'[t] = "asleep"
      /\ \A u \in BulkThreads : u # t =>
           btAt'[u] = btAt[u] /\ btCall'[u] = btCall[u] /\ waiter'[u] = waiter[u]
  BY <1>1, <1>2, <1>3, <1>4 DEF TypeInv
<1>6. TypeInv' /\ HandlerInv'
  BY <1>1, <1>2, <1>5 DEF TypeInv, HandlerInv, IInv
<1>7. RingInv'
  BY <1>1 DEF IInv, RingInv, Ordered, Window, Occupied, Entry
<1>8. WakeInv'
  <2>. SUFFICES ASSUME NEW d \in Dirs, NEW n \in Window(d),
                       Entry(d, n).mode = "blocking", Entry(d, n).userdata # NoWaiter
                PROVE  LET u == Entry(d, n).userdata
                       IN /\ btAt'[u] = "wait" /\ waiter'[u] = "asleep"
                          /\ btCall'[u].dir = d /\ btCall'[u].bulk = n
    BY <1>1 DEF WakeInv, Window, Entry
  <2>1. LET u == Entry(d, n).userdata
        IN /\ btAt[u] = "wait" /\ waiter[u] = "asleep"
           /\ btCall[u].dir = d /\ btCall[u].bulk = n
    BY DEF IInv, WakeInv
  <2>2. Entry(d, n).userdata \in BulkThreads
    BY QueueFacts DEF BulkEntry
  <2>. QED BY <1>1, <1>5, <2>1, <2>2
<1>9. FillInv'
  <2>. SUFFICES ASSUME NEW u \in BulkThreads PROVE FillOf(u)'
    BY DEF FillInv
  <2>. QED BY <1>1, <1>5 DEF IInv, FillInv, FillOf, Filling, Occupied, Entry
<1>10. WaitInv'
  BY <1>1, <1>5 DEF IInv, WaitInv, WaitOf, Entry
<1>. QED BY <1>6, <1>7, <1>8, <1>9, <1>10 DEF IInv

LEMMA StalledKeeps ==
  ASSUME IInv, NEW t \in BulkThreads, TransferStalled(t)
  PROVE  IInv'
<1>1. /\ btAt[t] = "stall" /\ btAt' = [btAt EXCEPT ![t] = "lock"]
      /\ UNCHANGED <<bulkQ, bulkMutex, btCall, waiter, notifier, bulkMsgs, bulkLog>>
  BY DEF TransferStalled, BtGoto
<1>2. /\ btAt' \in [BulkThreads -> {"idle", "lock", "stall", "slot", "send", "wait"}]
      /\ btAt'[t] = "lock"
      /\ \A u \in BulkThreads : u # t => btAt'[u] = btAt[u]
  BY <1>1 DEF IInv, TypeInv
<1>3. TypeInv' /\ HandlerInv'
  BY <1>1, <1>2 DEF TypeInv, HandlerInv, IInv
<1>4. RingInv'
  BY <1>1 DEF IInv, RingInv, Ordered, Window, Occupied, Entry
<1>5. WakeInv'
  <2>1. \A d \in Dirs : \A n \in Window(d) : Entry(d, n) \in BulkEntry
    BY QueueFacts
  <2>2. \A u \in BulkThreads : btAt[u] = "wait" => btAt'[u] = "wait"
    BY <1>1, <1>2
  <2>. QED BY <1>1, <2>1, <2>2 DEF IInv, WakeInv, Window, Entry, BulkEntry
<1>6. FillInv'
  BY <1>1, <1>2 DEF IInv, FillInv, FillOf, Filling, Occupied, Entry
<1>7. WaitInv'
  BY <1>1, <1>2 DEF IInv, WaitInv, WaitOf, Entry
<1>. QED BY <1>3, <1>4, <1>5, <1>6, <1>7 DEF IInv

(* A thread that finds the service closed gives up its entry.                *)
LEMMA SlotKeeps ==
  ASSUME IInv, NEW t \in BulkThreads, TransferSlot(t)
  PROVE  IInv'
<1>1. /\ btAt[t] = "slot"
      /\ \/ btAt' = [btAt EXCEPT ![t] = "send"] /\ UNCHANGED bulkMutex
         \/ btAt' = [btAt EXCEPT ![t] = "idle"] /\ bulkMutex' = NoWaiter
      /\ UNCHANGED <<bulkQ, btCall, waiter, notifier, bulkMsgs, bulkLog>>
  BY DEF TransferSlot, BtGoto
<1>2. /\ btAt' \in [BulkThreads -> {"idle", "lock", "stall", "slot", "send", "wait"}]
      /\ \/ btAt'[t] = "send" /\ UNCHANGED bulkMutex
         \/ btAt'[t] = "idle" /\ bulkMutex' = NoWaiter
      /\ \A u \in BulkThreads : u # t => btAt'[u] = btAt[u]
  BY <1>1 DEF IInv, TypeInv
<1>3. TypeInv' /\ HandlerInv'
  BY <1>1, <1>2 DEF TypeInv, HandlerInv, IInv
<1>4. RingInv'
  BY <1>1 DEF IInv, RingInv, Ordered, Window, Occupied, Entry
<1>5. WakeInv'
  <2>1. \A d \in Dirs : \A n \in Window(d) : Entry(d, n) \in BulkEntry
    BY QueueFacts
  <2>2. \A u \in BulkThreads : btAt[u] = "wait" => btAt'[u] = "wait"
    BY <1>1, <1>2
  <2>. QED BY <1>1, <2>1, <2>2 DEF IInv, WakeInv, Window, Entry, BulkEntry
<1>6. FillInv'
  <2>1. Filling(t)
    BY <1>1 DEF Filling
  <2>2. \A u \in BulkThreads : u # t => ~Filling(u)
    BY <2>1, OneFills
  <2>3. \A u \in BulkThreads : u # t => btAt'[u] \notin {"slot", "send"}
    BY <1>2, <2>2 DEF Filling
  <2>. QED BY <1>1, <1>2, <2>1, <2>3 DEF IInv, FillInv, FillOf, Filling, Occupied, Entry
<1>7. WaitInv'
  BY <1>1, <1>2 DEF IInv, WaitInv, WaitOf, Entry
<1>. QED BY <1>3, <1>4, <1>5, <1>6, <1>7 DEF IInv

-----------------------------------------------------------------------------
(* A thread that fills the next entry leaves those of the bulks alone.       *)
LEMMA LockKeeps ==
  ASSUME IInv, NEW t \in BulkThreads, TransferLock(t)
  PROVE  IInv'
<1>2. TypeInv /\ btCall[t] \in Call
  BY DEF IInv, TypeInv
<1>3. PICK d \in Dirs : d = btCall[t].dir
  BY <1>2 DEF Call
<1>4. PICK k \in Nat : k = bulkQ[d].local_insert
  BY QueueFacts
<1>. DEFINE q == bulkQ[d]
            i == BulkIndex(k)
            e == [userdata |-> t, mode |-> btCall[t].mode, actual |-> "aborted"]
<1>1. /\ btAt[t] = "lock" /\ bulkMutex = NoWaiter
      /\ UNCHANGED <<btCall, waiter, notifier, bulkMsgs, bulkLog>>
      /\ \/ /\ RingFull(q) /\ btAt' = [btAt EXCEPT ![t] = "stall"]
            /\ UNCHANGED <<bulkQ, bulkMutex>>
         \/ /\ ~RingFull(q) /\ btAt' = [btAt EXCEPT ![t] = "slot"]
            /\ bulkMutex' = t
            /\ bulkQ' = [bulkQ EXCEPT ![d].bulks[i] = e]
  BY <1>3, <1>4 DEF TransferLock, BtGoto
<1>7. \A u \in BulkThreads : ~Filling(u)
  BY <1>1, BulkAssumption DEF IInv, FillInv, FillOf
<1>8. \A f \in Dirs : \A n \in Window(f) : Entry(f, n) \in BulkEntry
  BY QueueFacts
<1>5. CASE UNCHANGED <<bulkQ, bulkMutex>> /\ btAt' = [btAt EXCEPT ![t] = "stall"]
  <2>1. /\ btAt' \in [BulkThreads -> {"idle", "lock", "stall", "slot", "send", "wait"}]
        /\ btAt'[t] = "stall"
        /\ \A u \in BulkThreads : u # t => btAt'[u] = btAt[u]
    BY <1>2, <1>5 DEF TypeInv
  <2>2. TypeInv' /\ HandlerInv'
    BY <1>1, <1>5, <2>1 DEF TypeInv, HandlerInv, IInv
  <2>3. RingInv'
    BY <1>1, <1>5 DEF IInv, RingInv, Ordered, Window, Occupied, Entry
  <2>4. WakeInv'
    <3>1. \A u \in BulkThreads : btAt[u] = "wait" => btAt'[u] = "wait"
      BY <1>1, <2>1
    <3>. QED BY <1>1, <1>8, <1>5, <3>1 DEF IInv, WakeInv, Window, Entry, BulkEntry
  <2>5. FillInv'
    BY <1>1, <1>7, <1>5, <2>1 DEF IInv, FillInv, FillOf, Filling
  <2>6. WaitInv'
    BY <1>1, <1>5, <2>1 DEF IInv, WaitInv, WaitOf, Entry
  <2>. QED BY <2>2, <2>3, <2>4, <2>5, <2>6 DEF IInv
<1>6. CASE /\ ~RingFull(q) /\ btAt' = [btAt EXCEPT ![t] = "slot"]
           /\ bulkMutex' = t
           /\ bulkQ' = [bulkQ EXCEPT ![d].bulks[i] = e]
  <2>1. /\ btAt' \in [BulkThreads -> {"idle", "lock", "stall", "slot", "send", "wait"}]
        /\ btAt'[t] = "slot"
        /\ \A u \in BulkThreads : u # t => btAt'[u] = btAt[u]
    BY <1>2, <1>6 DEF TypeInv
  <2>2. q \in Queue /\ e \in BulkEntry /\ i \in 0..(NumBulks - 1)
    BY <1>2, QueueFacts, IndexInRing DEF BulkEntry, Call
  <2>. DEFINE w == [q EXCEPT !.bulks = [@ EXCEPT ![i] = e]]
  <2>3. bulkQ' = [bulkQ EXCEPT ![d] = w]
    BY <1>6
  <2>4. w \in Queue /\ w.bulks = [q.bulks EXCEPT ![i] = e]
        /\ w.remove = q.remove /\ w.process = q.process
        /\ w.local_insert = q.local_insert /\ w.remote_insert = q.remote_insert
        /\ w.remote_notify = q.remote_notify
    <3>. HIDE DEF q, i, e
    <3>. QED BY <2>2 DEF Queue
  <2>5. /\ bulkQ' \in [Dirs -> Queue] /\ bulkQ'[d] = w
        /\ \A f \in Dirs : f # d => bulkQ'[f] = bulkQ[f]
    <3>. HIDE DEF w
    <3>. QED BY <1>2, <2>3, <2>4 DEF TypeInv
  <2>. HIDE DEF w
  <2>6. \A f \in Dirs :
          /\ bulkQ'[f].remove = bulkQ[f].remove
          /\ bulkQ'[f].local_insert = bulkQ[f].local_insert
          /\ Window(f)' = Window(f)
          /\ Ordered(bulkQ[f]) => Ordered(bulkQ'[f])
    BY <2>4, <2>5 DEF Window, Ordered
  <2>7. ASSUME NEW f \in Dirs, NEW n \in Nat, f # d \/ BulkIndex(n) # i
        PROVE  Entry(f, n)' = Entry(f, n)
    <3>1. BulkIndex(n) \in 0..(NumBulks - 1)
      BY IndexInRing
    <3>2. CASE f = d
      <4>1. w.bulks[BulkIndex(n)] = q.bulks[BulkIndex(n)]
        <5>. HIDE DEF q, i, e
        <5>. QED BY <2>2, <2>4, <2>7, <3>1, <3>2 DEF Queue
      <4>. QED BY <2>5, <3>2, <4>1 DEF Entry
    <3>. QED BY <2>5, <3>2 DEF Entry
  <2>8. Entry(d, k)' = e
    <3>1. w.bulks[i] = e
      <4>. HIDE DEF q, i, e
      <4>. QED BY <2>2, <2>4 DEF Queue
    <3>2. bulkQ'[d].bulks[i] = e
      BY <2>5, <3>1
    <3>. QED BY <3>2 DEF Entry
  <2>16. ~RingFull(q) /\ bulkMutex' = t
    BY <1>6
  <2>9. k < q.remove + NumBulks
    BY <1>4, <2>16, QueueFacts DEF RingFull
  <2>10. \A f \in Dirs : \A n \in Window(f) : Entry(f, n)' = Entry(f, n)
    <3>1. ASSUME NEW n \in Window(d) PROVE BulkIndex(n) # i
      <4>1. /\ n \in Nat /\ q.remove <= n /\ n < k
            /\ q.remove \in Nat /\ NumBulks \in Nat
        BY <1>4, <3>1, QueueFacts DEF Window
      <4>. QED BY <2>9, <4>1, IndexApart
    <3>. QED BY <2>7, <3>1, QueueFacts
  <2>11. TypeInv' /\ HandlerInv'
    BY <1>1, <2>1, <2>5 DEF TypeInv, HandlerInv, IInv
  <2>12. RingInv'
    BY <1>1, <2>6, <2>10 DEF IInv, RingInv, Occupied
  <2>13. WakeInv'
    <3>1. \A u \in BulkThreads : btAt[u] = "wait" => btAt'[u] = "wait"
      BY <1>1, <2>1
    <3>. QED BY <1>1, <1>8, <2>6, <2>10, <3>1 DEF IInv, WakeInv, BulkEntry
  <2>14. FillInv'
    <3>. SUFFICES ASSUME NEW u \in BulkThreads PROVE FillOf(u)'
      BY DEF FillInv
    <3>1. Filling(u)' => u = t
      BY <1>7, <2>1 DEF Filling
    <3>2. waiter[t] = "asleep"
      BY <1>1 DEF IInv, FillInv, FillOf
    <3>3. bulkQ'[d].local_insert = k /\ bulkQ'[d].remove = q.remove
      BY <1>4, <2>6
    <3>4. Occupied(d, k, t)'
      BY <2>8 DEF Occupied
    <3>5. CASE u = t
      BY <1>1, <1>3, <2>1, <2>8, <2>9, <2>16, <3>2, <3>3, <3>4, <3>5 DEF FillOf
    <3>6. CASE u # t
      BY <1>1, <2>1, <3>1, <3>6 DEF IInv, FillInv, FillOf
    <3>. QED BY <3>5, <3>6
  <2>15. WaitInv'
    <3>1. \A u \in BulkThreads : btAt'[u] = "wait" => btAt[u] = "wait"
      BY <1>1, <2>1
    <3>2. \A u \in BulkThreads : btCall[u].dir \in Dirs /\ btCall[u].bulk \in Nat
      BY <1>2 DEF TypeInv, Call
    <3>. SUFFICES ASSUME NEW u \in BulkThreads, btAt[u] = "wait" PROVE WaitOf(u)'
      BY <1>1, <3>1 DEF WaitInv, WaitOf
    <3>3. PICK f \in Dirs, m \in Nat : f = btCall[u].dir /\ m = btCall[u].bulk
      BY <3>2
    <3>4. WaitOf(u)
      BY DEF IInv, WaitInv
    <3>5. m >= bulkQ[f].remove => m \in Window(f)
      BY <3>3, <3>4, QueueFacts DEF Window, WaitOf
    <3>. QED BY <1>1, <2>6, <2>10, <3>3, <3>4, <3>5 DEF WaitOf
  <2>. QED BY <2>11, <2>12, <2>13, <2>14, <2>15 DEF IInv
<1>. QED BY <1>1, <1>5, <1>6

-----------------------------------------------------------------------------
(* The bulk is inserted: its entry is in the window now, as it was filled.   *)
LEMMA SendKeeps ==
  ASSUME IInv, NEW t \in BulkThreads, TransferSend(t)
  PROVE  IInv'
<1>1. TypeInv /\ btCall[t] \in Call
  BY DEF IInv, TypeInv
<1>2. PICK d \in Dirs : d = btCall[t].dir
  BY <1>1 DEF Call
<1>3. PICK k \in Nat : k = bulkQ[d].local_insert
  BY QueueFacts
<1>4. PICK here \in {"wait", "idle"} :
        here = IF Blocks(btCall[t].mode) THEN "wait" ELSE "idle"
  OBVIOUS
<1>. DEFINE q == bulkQ[d]
            w == [q EXCEPT !.local_insert = k + 1]
            c == [btCall[t] EXCEPT !.bulk = k]
<1>5. /\ btAt[t] = "send" /\ btAt' = [btAt EXCEPT ![t] = here]
      /\ SendTo("master", [type |-> "BULK", dir |-> d])
      /\ bulkQ' = [bulkQ EXCEPT ![d].local_insert = k + 1]
      /\ btCall' = [btCall EXCEPT ![t].bulk = k]
      /\ bulkMutex' = NoWaiter
      /\ bulkLog' = [bulkLog EXCEPT
                       !.asked[d] = Append(@, t),
                       !.late = IF notifier.next \in {"sendClose", "bailed"}
                                THEN @ \union {<<d, k>>} ELSE @]
      /\ UNCHANGED <<waiter, notifier>>
  BY <1>2, <1>3, <1>4 DEF TransferSend, BtGoto
<1>6. /\ bulkQ' \in [Dirs -> Queue] /\ bulkQ'[d] = w
      /\ \A f \in Dirs : f # d => bulkQ'[f] = bulkQ[f]
  <2>1. bulkQ' = [bulkQ EXCEPT ![d] = w]
    BY <1>5
  <2>2. q \in Queue
    BY QueueFacts
  <2>3. w \in Queue
    BY <2>2 DEF Queue
  <2>. HIDE DEF w
  <2>. QED BY <1>1, <2>1, <2>3 DEF TypeInv
<1>7. /\ bulkQ'[d].local_insert = k + 1 /\ bulkQ'[d].remove = q.remove
      /\ bulkQ'[d].bulks = q.bulks /\ bulkQ'[d].process = q.process
      /\ bulkQ'[d].remote_insert = q.remote_insert
      /\ bulkQ'[d].remote_notify = q.remote_notify
  <2>1. q \in Queue
    BY QueueFacts
  <2>. QED BY <1>6, <2>1 DEF Queue
<1>8. /\ btCall' \in [BulkThreads -> Call]
      /\ btCall'[t].dir = d /\ btCall'[t].bulk = k
      /\ btCall'[t].mode = btCall[t].mode
      /\ \A u \in BulkThreads : u # t => btCall'[u] = btCall[u]
  <2>1. btCall' = [btCall EXCEPT ![t] = c]
    BY <1>5
  <2>2. /\ c \in Call /\ c.dir = d /\ c.bulk = k /\ c.mode = btCall[t].mode
    BY <1>1, <1>2 DEF Call
  <2>. HIDE DEF c
  <2>. QED BY <1>1, <2>1, <2>2 DEF TypeInv
<1>9. /\ btAt' \in [BulkThreads -> {"idle", "lock", "stall", "slot", "send", "wait"}]
      /\ btAt'[t] = here
      /\ \A u \in BulkThreads : u # t => btAt'[u] = btAt[u]
  BY <1>1, <1>5 DEF TypeInv
<1>10. /\ bulkLog' = [asked |-> bulkLog'.asked, told |-> bulkLog'.told,
                      late |-> bulkLog'.late, taken |-> bulkLog'.taken]
       /\ bulkLog'.taken = bulkLog.taken
       /\ bulkLog'.asked = [bulkLog.asked EXCEPT ![d] = Append(bulkLog.asked[d], t)]
  <2>1. bulkLog = [asked |-> bulkLog.asked, told |-> bulkLog.told,
                   late |-> bulkLog.late, taken |-> bulkLog.taken]
    BY <1>1 DEF TypeInv
  <2>. QED BY <1>5, <2>1
<1>11. bulkLog.asked \in [Dirs -> Seq(BulkThreads)] /\ Len(bulkLog.asked[d]) = k
  BY <1>1, <1>3 DEF TypeInv, IInv, RingInv
<1>12. /\ bulkLog'.asked \in [Dirs -> Seq(BulkThreads)]
       /\ Len(bulkLog'.asked[d]) = k + 1 /\ bulkLog'.asked[d][k + 1] = t
       /\ \A n \in Nat : n < k => bulkLog'.asked[d][n + 1] = bulkLog.asked[d][n + 1]
       /\ \A f \in Dirs : f # d => bulkLog'.asked[f] = bulkLog.asked[f]
  BY <1>10, <1>11
<1>13. /\ Filling(t) /\ FillOf(t)
       /\ \A u \in BulkThreads : u # t => ~Filling(u)
  BY <1>5, OneFills DEF Filling, IInv, FillInv
<1>14. /\ waiter[t] = "asleep" /\ k < q.remove + NumBulks
       /\ Occupied(d, k, t) /\ Entry(d, k).mode = btCall[t].mode
  BY <1>2, <1>3, <1>5, <1>13 DEF FillOf
<1>15. \A f \in Dirs : \A n \in Nat : Entry(f, n)' = Entry(f, n)
  BY <1>6, <1>7 DEF Entry
<1>16. /\ \A f \in Dirs : f # d => Window(f)' = Window(f)
       /\ \A n \in Window(d)' : n = k \/ (n \in Window(d) /\ n < k /\ n \in Nat)
  <2>1. q.remove \in Nat
    BY QueueFacts
  <2>. QED BY <1>3, <1>6, <1>7, <2>1 DEF Window
<1>. HIDE DEF w, c
<1>17. TypeInv' /\ HandlerInv'
  <2>1. bulkMsgs' = [slave |-> bulkMsgs.slave,
                     master |-> Append(bulkMsgs.master, [type |-> "BULK", dir |-> d])]
    BY <1>5 DEF SendTo, HandlerInv, IInv
  <2>. QED BY <1>1, <1>5, <1>6, <1>8, <1>9, <1>10, <1>12, <2>1
           DEF TypeInv, HandlerInv, IInv
<1>18. RingInv'
  <2>1. \A f \in Dirs : Ordered(bulkQ'[f])
    <3>1. \A f \in Dirs : Ordered(bulkQ[f])
      BY DEF IInv, RingInv
    <3>. QED BY <1>3, <1>6, <1>7, <1>14, <3>1, QueueFacts DEF Ordered
  <2>2. \A f \in Dirs : Len(bulkLog'.asked[f]) = bulkQ'[f].local_insert
    BY <1>6, <1>7, <1>12 DEF IInv, RingInv
  <2>3. ASSUME NEW f \in Dirs, NEW n \in Window(f)'
        PROVE  Occupied(f, n, bulkLog.asked[f][n + 1])'
    <3>1. CASE f = d /\ n = k
      BY <1>10, <1>12, <1>14, <1>15, <3>1 DEF Occupied
    <3>2. CASE ~(f = d /\ n = k)
      <4>1. /\ n \in Window(f) /\ n \in Nat
            /\ bulkLog'.asked[f][n + 1] = bulkLog.asked[f][n + 1]
        BY <1>12, <1>16, <2>3, <3>2, QueueFacts
      <4>2. Occupied(f, n, bulkLog.asked[f][n + 1])
        BY <4>1 DEF IInv, RingInv
      <4>. QED BY <1>10, <1>15, <4>1, <4>2 DEF Occupied
    <3>. QED BY <3>1, <3>2
  <2>. QED BY <2>1, <2>2, <2>3 DEF RingInv
<1>19. WakeInv'
  <2>. SUFFICES ASSUME NEW f \in Dirs, NEW n \in Window(f)', NEW u,
                       u = Entry(f, n).userdata,
                       Entry(f, n).mode = "blocking", u # NoWaiter
                PROVE  /\ btAt'[u] = "wait" /\ waiter'[u] = "asleep"
                       /\ btCall'[u].dir = f /\ btCall'[u].bulk = n
    <3>1. \A f \in Dirs : \A n \in Window(f)' : n \in Nat
      BY <1>16, QueueFacts
    <3>. QED BY <1>15, <3>1 DEF WakeInv
  <2>1. CASE f = d /\ n = k
    <3>1. u = t /\ here = "wait"
      BY <1>4, <1>14, <2>1 DEF Occupied, Blocks
    <3>. QED BY <1>5, <1>8, <1>9, <1>14, <2>1, <3>1
  <2>2. CASE ~(f = d /\ n = k)
    <3>1. n \in Window(f) /\ n \in Nat
      BY <1>16, <2>2, QueueFacts
    <3>2. u \in BulkThreads
      BY <3>1, QueueFacts DEF BulkEntry
    <3>3. /\ btAt[u] = "wait" /\ waiter[u] = "asleep"
          /\ btCall[u].dir = f /\ btCall[u].bulk = n
      BY <3>1 DEF IInv, WakeInv
    <3>4. u # t
      BY <1>5, <3>3
    <3>. QED BY <1>5, <1>8, <1>9, <3>2, <3>3, <3>4
  <2>. QED BY <2>1, <2>2
<1>20. FillInv'
  <2>. SUFFICES ASSUME NEW u \in BulkThreads PROVE FillOf(u)'
    BY DEF FillInv
  <2>1. ~Filling(u)'
    BY <1>9, <1>13 DEF Filling
  <2>2. btAt'[u] \in {"lock", "stall", "slot", "send"} => waiter'[u] = "asleep"
    BY <1>5, <1>9 DEF IInv, FillInv, FillOf
  <2>. QED BY <2>1, <2>2 DEF FillOf
<1>21. WaitInv'
  <2>. SUFFICES ASSUME NEW u \in BulkThreads, btAt'[u] = "wait" PROVE WaitOf(u)'
    BY DEF WaitInv, WaitOf
  <2>1. CASE u = t
    <3>1. Entry(d, k).mode = "blocking"
      BY <1>4, <1>9, <1>14, <2>1 DEF Blocks
    <3>. QED BY <1>7, <1>8, <1>15, <2>1, <3>1 DEF WaitOf
  <2>2. CASE u # t
    <3>1. PICK f \in Dirs, m \in Nat : f = btCall[u].dir /\ m = btCall[u].bulk
      BY <1>1 DEF TypeInv, Call
    <3>2. /\ m < bulkQ[f].local_insert
          /\ \A n \in Nat : m < n /\ n < bulkQ[f].local_insert
                              => bulkLog.asked[f][n + 1] # u
          /\ m >= bulkQ[f].remove => Entry(f, m).mode = "blocking"
      BY <1>9, <2>2, <3>1 DEF IInv, WaitInv, WaitOf
    <3>3. f = btCall'[u].dir /\ m = btCall'[u].bulk
      BY <1>8, <2>2, <3>1
    <3>4. CASE f # d
      BY <1>6, <1>12, <1>15, <3>2, <3>3, <3>4 DEF WaitOf
    <3>5. CASE f = d
      <4>1. \A n \in Nat : m < n /\ n < k + 1 => bulkLog'.asked[d][n + 1] # u
        <5>1. \A n \in Nat : n < k + 1 => n < k \/ n = k
          OBVIOUS
        <5>. QED BY <1>3, <1>12, <2>2, <3>2, <3>5, <5>1
      <4>2. m < k + 1
        BY <1>3, <3>2, <3>5
      <4>. QED BY <1>7, <1>15, <3>2, <3>3, <3>5, <4>1, <4>2 DEF WaitOf
    <3>. QED BY <3>4, <3>5
  <2>. QED BY <2>1, <2>2
<1>. QED BY <1>17, <1>18, <1>19, <1>20, <1>21 DEF IInv

-----------------------------------------------------------------------------
(* A thread that was woken makes an entry forget its waiter: not one of its  *)
(* own bulks, and one that is pending has its waiter taken.                  *)
LEMMA ForgetKeeps ==
  ASSUME IInv, NEW t \in BulkThreads, TransferForget(t)
  PROVE  IInv'
<1>1. TypeInv /\ btCall[t] \in Call
  BY DEF IInv, TypeInv
<1>2. PICK d \in Dirs, m \in Nat : d = btCall[t].dir /\ m = btCall[t].bulk
  BY <1>1 DEF Call
<1>3. PICK i \in 0..(NumBulks - 1) : i = BulkIndex(m)
  BY <1>2, IndexInRing
<1>. DEFINE q == bulkQ[d]
            now == CHOOSE n \in q.remove..(q.remove + NumBulks - 1) : BulkIndex(n) = i
            e == [q.bulks[i] EXCEPT !.userdata = NoWaiter]
            w == [q EXCEPT !.bulks = [q.bulks EXCEPT ![i] = e]]
<1>4. /\ btAt[t] = "wait" /\ btAt' = [btAt EXCEPT ![t] = "idle"]
      /\ waiter[t] # "asleep"
      /\ bulkQ' = [bulkQ EXCEPT ![d].bulks[i].userdata = NoWaiter]
      /\ bulkLog' = [bulkLog EXCEPT
                       !.taken = IF q.bulks[i].userdata \in {t, NoWaiter}
                                 THEN @ ELSE @ \union {<<d, now>>}]
      /\ UNCHANGED <<bulkMutex, btCall, waiter, notifier, bulkMsgs>>
  BY <1>2, <1>3 DEF TransferForget, BtGoto
<1>5. q \in Queue /\ q.bulks[i] \in BulkEntry
  BY QueueFacts DEF Queue
<1>6. /\ e \in BulkEntry /\ e.userdata = NoWaiter
      /\ e.mode = q.bulks[i].mode
  BY <1>5 DEF BulkEntry
<1>7. /\ bulkQ' \in [Dirs -> Queue] /\ bulkQ'[d] = w
      /\ \A f \in Dirs : f # d => bulkQ'[f] = bulkQ[f]
  <2>1. bulkQ' = [bulkQ EXCEPT ![d] = w]
    BY <1>4
  <2>2. w \in Queue
    <3>. HIDE DEF e
    <3>. QED BY <1>5, <1>6 DEF Queue
  <2>. HIDE DEF w
  <2>. QED BY <1>1, <2>1, <2>2 DEF TypeInv
<1>8. /\ bulkQ'[d].local_insert = q.local_insert /\ bulkQ'[d].remove = q.remove
      /\ bulkQ'[d].process = q.process
      /\ bulkQ'[d].remote_insert = q.remote_insert
      /\ bulkQ'[d].remote_notify = q.remote_notify
      /\ bulkQ'[d].bulks[i] = e
      /\ \A j \in 0..(NumBulks - 1) : j # i => bulkQ'[d].bulks[j] = q.bulks[j]
  <2>. HIDE DEF e
  <2>. QED BY <1>5, <1>6, <1>7 DEF Queue
<1>9. /\ btAt' \in [BulkThreads -> {"idle", "lock", "stall", "slot", "send", "wait"}]
      /\ btAt'[t] = "idle"
      /\ \A u \in BulkThreads : u # t => btAt'[u] = btAt[u]
  BY <1>1, <1>4 DEF TypeInv
<1>. HIDE DEF w
<1>10. /\ bulkLog' = [asked |-> bulkLog.asked, told |-> bulkLog.told,
                      late |-> bulkLog.late, taken |-> bulkLog'.taken]
       /\ bulkLog.taken \subseteq bulkLog'.taken
       /\ q.bulks[i].userdata \notin {t, NoWaiter} => <<d, now>> \in bulkLog'.taken
  <2>1. bulkLog = [asked |-> bulkLog.asked, told |-> bulkLog.told,
                   late |-> bulkLog.late, taken |-> bulkLog.taken]
    BY <1>1 DEF TypeInv
  <2>. HIDE DEF now
  <2>. QED BY <1>4, <2>1
<1>11. \A f \in Dirs :
         /\ Window(f)' = Window(f) /\ bulkQ'[f].remove = bulkQ[f].remove
         /\ bulkQ'[f].local_insert = bulkQ[f].local_insert
         /\ Ordered(bulkQ[f]) => Ordered(bulkQ'[f])
  BY <1>7, <1>8 DEF Window, Ordered
<1>12. \A f \in Dirs, n \in Nat :
         /\ f # d \/ BulkIndex(n) # i => Entry(f, n)' = Entry(f, n)
         /\ f = d /\ BulkIndex(n) = i => Entry(f, n)' = e /\ Entry(f, n) = q.bulks[i]
         /\ Entry(f, n)'.mode = Entry(f, n).mode
         /\ Entry(f, n)' # Entry(f, n) => Entry(f, n)'.userdata = NoWaiter
  <2>. HIDE DEF e
  <2>. QED BY <1>6, <1>7, <1>8, IndexInRing DEF Entry
<1>13. WaitOf(t)
  BY DEF IInv, WaitInv
<1>14. ASSUME NEW n \in Window(d), BulkIndex(n) = i
       PROVE  Entry(d, n).userdata # t
  <2>1. SUFFICES ASSUME Entry(d, n).userdata = t PROVE FALSE
    OBVIOUS
  <2>2. /\ q.remove \in Nat /\ q.local_insert \in Nat /\ NumBulks \in Nat
        /\ q.local_insert <= q.remove + NumBulks
        /\ n \in Nat /\ q.remove <= n /\ n < q.local_insert
    BY QueueFacts DEF Window
  <2>3. bulkLog.asked[d][n + 1] = t
    BY <2>1, BulkAssumption DEF IInv, RingInv, Occupied
  <2>4. m < q.local_insert /\ ~(m < n)
    BY <1>2, <1>4, <1>13, <2>2, <2>3 DEF WaitOf
  <2>5. q.remove <= m /\ m < q.remove + NumBulks /\ n < q.remove + NumBulks
    BY <2>2, <2>4
  <2>6. m = n
    BY <1>3, <1>14, <2>2, <2>5, IndexApart
  <2>7. Entry(d, n).mode = "blocking"
    BY <1>2, <1>4, <1>13, <2>5, <2>6 DEF WaitOf
  <2>8. waiter[t] = "asleep"
    BY <2>1, <2>7, BulkAssumption DEF IInv, WakeInv
  <2>. QED BY <1>4, <2>8
<1>15. ASSUME NEW f \in Dirs, NEW n \in Nat, NEW u \in BulkThreads,
              Occupied(f, n, u), bulkQ[f].remove <= n,
              n < bulkQ[f].remove + NumBulks,
              f = d /\ BulkIndex(n) = i => Entry(f, n).userdata # t
       PROVE  Occupied(f, n, u)'
  <2>1. CASE f # d \/ BulkIndex(n) # i
    BY <1>10, <1>12, <1>15, <2>1 DEF Occupied
  <2>2. CASE f = d /\ BulkIndex(n) = i
    <3>1. Entry(d, n)'.userdata = NoWaiter /\ Entry(d, n) = q.bulks[i]
      BY <1>6, <1>12, <2>2
    <3>2. CASE Entry(d, n).userdata = NoWaiter
      <4>1. <<d, n>> \in bulkLog.taken
        BY <1>15, <2>2, <3>2, BulkAssumption DEF Occupied
      <4>. QED BY <1>10, <2>2, <3>1, <4>1 DEF Occupied
    <3>3. CASE Entry(d, n).userdata # NoWaiter
      <4>1. <<d, now>> \in bulkLog'.taken
        BY <1>10, <1>15, <2>2, <3>1, <3>3
      <4>2. q.remove \in Nat /\ NumBulks \in Nat
        BY QueueFacts
      <4>3. n \in q.remove..(q.remove + NumBulks - 1)
        BY <1>15, <2>2, <4>2
      <4>4. now \in q.remove..(q.remove + NumBulks - 1) /\ BulkIndex(now) = i
        BY <2>2, <4>3
      <4>5. now = n
        <5>. HIDE DEF now
        <5>1. /\ now \in Nat /\ q.remove <= now /\ now < q.remove + NumBulks
          BY <4>2, <4>4
        <5>. QED BY <1>15, <2>2, <4>2, <4>4, <5>1, IndexApart
      <4>. QED BY <2>2, <3>1, <4>1, <4>5 DEF Occupied
    <3>. QED BY <3>2, <3>3
  <2>. QED BY <2>1, <2>2
<1>. HIDE DEF e, now, q
<1>16. TypeInv' /\ HandlerInv'
  BY <1>1, <1>4, <1>7, <1>9, <1>10 DEF TypeInv, HandlerInv, IInv
<1>17. RingInv'
  <2>1. \A f \in Dirs : Ordered(bulkQ'[f])
                        /\ Len(bulkLog'.asked[f]) = bulkQ'[f].local_insert
    BY <1>10, <1>11 DEF IInv, RingInv
  <2>2. ASSUME NEW f \in Dirs, NEW n \in Window(f)
        PROVE  Occupied(f, n, bulkLog.asked[f][n + 1])'
    <3>1. /\ n \in Nat /\ bulkQ[f].remove <= n /\ n < bulkQ[f].remove + NumBulks
          /\ bulkLog.asked[f][n + 1] \in BulkThreads
      BY <2>2, QueueFacts DEF Window
    <3>2. Occupied(f, n, bulkLog.asked[f][n + 1])
      BY DEF IInv, RingInv
    <3>3. PICK u \in BulkThreads : u = bulkLog.asked[f][n + 1]
      BY <3>1
    <3>4. Occupied(f, n, u)'
      BY <1>14, <1>15, <3>1, <3>2, <3>3
    <3>. QED BY <1>10, <3>3, <3>4 DEF Occupied
  <2>. QED BY <1>11, <2>1, <2>2 DEF RingInv
<1>18. WakeInv'
  <2>. SUFFICES ASSUME NEW f \in Dirs, NEW n \in Window(f), NEW u,
                       u = Entry(f, n)'.userdata,
                       Entry(f, n)'.mode = "blocking", u # NoWaiter
                PROVE  /\ btAt'[u] = "wait" /\ waiter'[u] = "asleep"
                       /\ btCall'[u].dir = f /\ btCall'[u].bulk = n
    BY <1>11 DEF WakeInv
  <2>1. n \in Nat
    BY QueueFacts
  <2>2. Entry(f, n)' = Entry(f, n)
    BY <1>12, <2>1
  <2>3. u \in BulkThreads
    BY <2>1, <2>2, QueueFacts DEF BulkEntry
  <2>4. /\ btAt[u] = "wait" /\ waiter[u] = "asleep"
        /\ btCall[u].dir = f /\ btCall[u].bulk = n
    BY <2>2 DEF IInv, WakeInv
  <2>5. u # t
    BY <1>4, <2>4
  <2>. QED BY <1>4, <1>9, <2>3, <2>4, <2>5
<1>19. FillInv'
  <2>. SUFFICES ASSUME NEW u \in BulkThreads PROVE FillOf(u)'
    BY DEF FillInv
  <2>1. FillOf(u)
    BY DEF IInv, FillInv
  <2>2. CASE u = t
    BY <1>9, <2>2 DEF FillOf, Filling
  <2>3. CASE u # t
    <3>1. /\ btAt'[u] = btAt[u] /\ waiter'[u] = waiter[u] /\ btCall'[u] = btCall[u]
          /\ bulkMutex' = bulkMutex /\ Filling(u)' = Filling(u)
      BY <1>4, <1>9, <2>3 DEF Filling
    <3>2. PICK f \in Dirs : f = btCall[u].dir
      BY <1>1 DEF TypeInv, Call
    <3>3. PICK n \in Nat : n = bulkQ[f].local_insert
      BY QueueFacts
    <3>4. ASSUME Filling(u)
          PROVE  /\ Occupied(f, n, u)' /\ Entry(f, n)'.mode = btCall[u].mode
                 /\ n < bulkQ[f].remove + NumBulks
      <4>1. /\ n < bulkQ[f].remove + NumBulks
            /\ Occupied(f, n, u) /\ Entry(f, n).mode = btCall[u].mode
        BY <2>1, <3>2, <3>3, <3>4 DEF FillOf
      <4>2. Entry(f, n).userdata # t
        BY <2>3, <4>1, BulkAssumption DEF Occupied
      <4>3. bulkQ[f].remove <= n
        BY <3>3, QueueFacts
      <4>. QED BY <1>12, <1>15, <4>1, <4>2, <4>3
    <3>5. f = btCall'[u].dir /\ n = bulkQ'[f].local_insert
          /\ bulkQ'[f].remove = bulkQ[f].remove
      BY <1>11, <3>1, <3>2, <3>3
    <3>. QED BY <2>1, <3>1, <3>4, <3>5 DEF FillOf
  <2>. QED BY <2>2, <2>3
<1>20. WaitInv'
  <2>. SUFFICES ASSUME NEW u \in BulkThreads, btAt'[u] = "wait" PROVE WaitOf(u)'
    BY DEF WaitInv, WaitOf
  <2>1. WaitOf(u) /\ btAt[u] = "wait" /\ btCall'[u] = btCall[u]
    BY <1>4, <1>9 DEF IInv, WaitInv
  <2>2. PICK f \in Dirs, k \in Nat : f = btCall[u].dir /\ k = btCall[u].bulk
    BY <1>1 DEF TypeInv, Call
  <2>3. bulkLog'.asked = bulkLog.asked
    BY <1>10
  <2>. QED BY <1>11, <1>12, <2>1, <2>2, <2>3 DEF WaitOf
<1>. QED BY <1>16, <1>17, <1>18, <1>19, <1>20 DEF IInv

-----------------------------------------------------------------------------
(* Steps of the slot handler change indexes and what bulks report, never     *)
(* whose they are: the invariant needs to hold of the indexes only.          *)
LEMMA HandlerKeeps ==
  ASSUME IInv, HandlerInv', bulkQ' \in [Dirs -> Queue],
         UNCHANGED <<bulkMutex, btAt, btCall>>,
         waiter' \in [BulkThreads -> {"asleep", "done", "aborted"}],
         bulkLog' = [asked |-> bulkLog'.asked, told |-> bulkLog'.told,
                     late |-> bulkLog'.late, taken |-> bulkLog'.taken],
         bulkLog'.asked = bulkLog.asked, bulkLog'.taken = bulkLog.taken,
         \A f \in Dirs :
           /\ Ordered(bulkQ'[f])
           /\ bulkQ'[f].local_insert = bulkQ[f].local_insert
           /\ bulkQ'[f].remove >= bulkQ[f].remove
           /\ \A n \in Nat : /\ Entry(f, n)'.userdata = Entry(f, n).userdata
                              /\ Entry(f, n)'.mode = Entry(f, n).mode,
         \A u \in BulkThreads :
           waiter'[u] = waiter[u]
             \/ /\ btAt[u] = "wait"
                /\ btCall[u].bulk < bulkQ'[btCall[u].dir].remove
  PROVE  IInv'
<1>1. TypeInv'
  BY DEF IInv, TypeInv
<1>2. \A f \in Dirs :
        /\ bulkQ[f].remove \in Nat /\ bulkQ'[f].remove \in Nat
        /\ bulkQ[f].local_insert \in Nat
        /\ Window(f)' \subseteq Window(f) /\ Window(f) \subseteq Nat
        /\ \A n \in Window(f)' : bulkQ'[f].remove <= n
  <2>1. \A f \in Dirs : bulkQ[f].remove \in Nat /\ bulkQ'[f].remove \in Nat
                        /\ bulkQ[f].local_insert \in Nat
    BY QueueFacts DEF Queue
  <2>. QED BY <2>1 DEF Window
<1>3. RingInv'
  <2>1. \A f \in Dirs : Len(bulkLog'.asked[f]) = bulkQ'[f].local_insert
    BY DEF IInv, RingInv
  <2>2. ASSUME NEW f \in Dirs, NEW n \in Window(f)'
        PROVE  Occupied(f, n, bulkLog.asked[f][n + 1])'
    <3>1. Occupied(f, n, bulkLog.asked[f][n + 1]) /\ n \in Nat
      BY <1>2, <2>2 DEF IInv, RingInv
    <3>. QED BY <3>1 DEF Occupied
  <2>. QED BY <2>1, <2>2 DEF RingInv
<1>4. WakeInv'
  <2>. SUFFICES ASSUME NEW f \in Dirs, NEW n \in Window(f)', NEW u,
                       u = Entry(f, n).userdata,
                       Entry(f, n).mode = "blocking", u # NoWaiter
                PROVE  /\ btAt'[u] = "wait" /\ waiter'[u] = "asleep"
                       /\ btCall'[u].dir = f /\ btCall'[u].bulk = n
    BY <1>2 DEF WakeInv
  <2>1. n \in Window(f) /\ n \in Nat
    BY <1>2
  <2>2. u \in BulkThreads
    BY <2>1, QueueFacts DEF BulkEntry
  <2>3. /\ btAt[u] = "wait" /\ waiter[u] = "asleep"
        /\ btCall[u].dir = f /\ btCall[u].bulk = n
    BY <2>1 DEF IInv, WakeInv
  <2>4. ~(n < bulkQ'[f].remove)
    BY <1>2, <2>1
  <2>. QED BY <2>2, <2>3, <2>4
<1>5. FillInv'
  <2>. SUFFICES ASSUME NEW u \in BulkThreads PROVE FillOf(u)'
    BY DEF FillInv
  <2>1. FillOf(u)
    BY DEF IInv, FillInv
  <2>2. PICK f \in Dirs : f = btCall[u].dir
    BY DEF IInv, TypeInv, Call
  <2>3. PICK n \in Nat : n = bulkQ[f].local_insert
    BY QueueFacts
  <2>4. btAt'[u] \in {"lock", "stall", "slot", "send"} => waiter'[u] = "asleep"
    BY <2>1 DEF FillOf
  <2>5. ASSUME Filling(u)
        PROVE  /\ n < bulkQ'[f].remove + NumBulks
               /\ Occupied(f, n, u)' /\ Entry(f, n)'.mode = btCall[u].mode
    <3>1. /\ n < bulkQ[f].remove + NumBulks
          /\ Occupied(f, n, u) /\ Entry(f, n).mode = btCall[u].mode
      BY <2>1, <2>2, <2>3, <2>5 DEF FillOf
    <3>2. n < bulkQ'[f].remove + NumBulks
      BY <1>2, <3>1, QueueFacts
    <3>. QED BY <3>1, <3>2 DEF Occupied
  <2>. QED BY <2>1, <2>2, <2>3, <2>4, <2>5 DEF FillOf, Filling
<1>6. WaitInv'
  <2>. SUFFICES ASSUME NEW u \in BulkThreads, btAt'[u] = "wait" PROVE WaitOf(u)'
    BY DEF WaitInv, WaitOf
  <2>1. WaitOf(u)
    BY DEF IInv, WaitInv
  <2>2. PICK f \in Dirs, k \in Nat : f = btCall[u].dir /\ k = btCall[u].bulk
    BY DEF IInv, TypeInv, Call
  <2>3. k >= bulkQ'[f].remove => k >= bulkQ[f].remove
    BY <1>2
  <2>. QED BY <2>1, <2>2, <2>3 DEF WaitOf
<1>. QED BY <1>1, <1>3, <1>4, <1>5, <1>6 DEF IInv

LEMMA DoneKeeps ==
  ASSUME IInv, ParseBulkDone
  PROVE  IInv'
<1>1. TypeInv /\ HandlerInv
  BY DEF IInv
<1>2. /\ bulkMsgs.slave # <<>> /\ Received \in Answer
      /\ Received.type = "DONE" /\ notifier.next = "idle"
  <2>1. /\ bulkMsgs.slave # <<>> /\ Received.type = "DONE" /\ notifier.next = "idle"
    BY DEF ParseBulkDone, HandlerIdle
  <2>. QED BY <1>1, <2>1 DEF HandlerInv, Received
<1>3. PICK d \in Dirs : d = Received.dir /\ Received.actual \in {"done", "aborted"}
  BY <1>2 DEF Answer
<1>4. bulkMsgs' = [slave |-> Tail(bulkMsgs.slave), master |-> bulkMsgs.master]
  BY <1>1 DEF ParseBulkDone, PopSlave, HandlerInv
<1>5. Tail(bulkMsgs.slave) \in Seq(Answer)
  BY <1>1, <1>2 DEF HandlerInv
<1>6. CASE bulkQ[d].remote_insert >= bulkQ[d].local_insert
  <2>1. UNCHANGED <<bulkQ, bulkMutex, btAt, btCall, waiter, notifier, bulkLog>>
    BY <1>3, <1>6 DEF ParseBulkDone
  <2>2. HandlerInv'
    BY <1>1, <1>2, <1>4, <1>5, <2>1 DEF HandlerInv
  <2>. QED BY <2>1, <2>2, QuietKeeps
<1>7. CASE ~(bulkQ[d].remote_insert >= bulkQ[d].local_insert)
  <2>. DEFINE q == bulkQ[d]
              i == BulkIndex(q.remote_insert)
              e == [q.bulks[i] EXCEPT !.actual = Received.actual]
              bs == [q.bulks EXCEPT ![i] = e]
              w == Answered(q, bs, q.remote_insert + 1, q.process + 1)
  <2>1. /\ bulkQ' = [bulkQ EXCEPT ![d].bulks[i].actual = Received.actual,
                                  ![d].remote_insert = @ + 1, ![d].process = @ + 1]
        /\ notifier' = [notifier EXCEPT !.dirs = <<d>>]
        /\ UNCHANGED <<bulkMutex, btAt, btCall, waiter, bulkLog>>
    BY <1>3, <1>7 DEF ParseBulkDone
  <2>2. /\ q \in Queue /\ i \in 0..(NumBulks - 1) /\ q.bulks[i] \in BulkEntry
        /\ q.remote_insert \in Nat /\ q.process \in Nat /\ q.local_insert \in Nat
    BY QueueFacts, IndexInRing DEF Queue
  <2>3. /\ e \in BulkEntry /\ e.userdata = q.bulks[i].userdata
        /\ e.mode = q.bulks[i].mode
    BY <1>3, <2>2 DEF BulkEntry
  <2>4. bulkQ' = [bulkQ EXCEPT ![d] = w]
    BY <2>1 DEF Answered
  <2>. HIDE DEF e
  <2>11. bs \in [0..(NumBulks - 1) -> BulkEntry]
    <3>. HIDE DEF i
    <3>. QED BY <2>2, <2>3 DEF Queue
  <2>5. /\ w \in Queue /\ w.bulks = bs
        /\ w.remove = q.remove /\ w.process = q.process + 1
        /\ w.local_insert = q.local_insert
        /\ w.remote_insert = q.remote_insert + 1
        /\ w.remote_notify = q.remote_notify
    <3>. HIDE DEF i, bs, q
    <3>1. PICK m \in Nat, n \in Nat : m = q.remote_insert + 1 /\ n = q.process + 1
      BY <2>2
    <3>2. q \in Queue /\ w = Answered(q, bs, m, n)
      BY <2>2, <3>1
    <3>3. /\ w \in Queue /\ w.bulks = bs /\ w.remote_insert = m /\ w.process = n
          /\ w.remove = q.remove /\ w.local_insert = q.local_insert
          /\ w.remote_notify = q.remote_notify
      BY <2>11, <3>2, QueueAnswered
    <3>. QED BY <3>1, <3>3
  <2>. HIDE DEF w
  <2>6. /\ bulkQ' \in [Dirs -> Queue] /\ bulkQ'[d] = w
        /\ \A f \in Dirs : f # d => bulkQ'[f] = bulkQ[f]
    BY <1>1, <2>4, <2>5 DEF TypeInv
  <2>7. \A f \in Dirs, n \in Nat :
          /\ Entry(f, n)'.userdata = Entry(f, n).userdata
          /\ Entry(f, n)'.mode = Entry(f, n).mode
    <3>1. \A j \in 0..(NumBulks - 1) : /\ w.bulks[j].userdata = q.bulks[j].userdata
                                        /\ w.bulks[j].mode = q.bulks[j].mode
      BY <2>2, <2>3, <2>5 DEF Queue
    <3>. QED BY <2>6, <3>1, IndexInRing DEF Entry
  <2>8. \A f \in Dirs :
          /\ Ordered(bulkQ'[f])
          /\ bulkQ'[f].local_insert = bulkQ[f].local_insert
          /\ bulkQ'[f].remove >= bulkQ[f].remove
    <3>1. \A f \in Dirs : Ordered(bulkQ[f]) /\ bulkQ[f].remove \in Nat
      BY QueueFacts DEF IInv, RingInv
    <3>2. Ordered(w) /\ w.remove >= q.remove
      <4>1. Ordered(q) /\ q.remote_notify \in Nat /\ q.remove \in Nat
        BY <2>2, <3>1 DEF Queue
      <4>. HIDE DEF q
      <4>2. ~(q.remote_insert >= q.local_insert)
        BY <1>7 DEF q
      <4>. QED BY <2>2, <2>5, <4>1, <4>2 DEF Ordered
    <3>. QED BY <2>5, <2>6, <3>1, <3>2
  <2>9. HandlerInv'
    <3>1. notifier' = [dirs |-> <<d>>, next |-> notifier.next]
      BY <1>1, <2>1 DEF HandlerInv
    <3>2. <<d>> \in Orders
      BY DEF Dirs, Orders
    <3>. QED BY <1>2, <1>4, <1>5, <3>1, <3>2 DEF HandlerInv
  <2>10. waiter' \in [BulkThreads -> {"asleep", "done", "aborted"}]
         /\ bulkLog' = [asked |-> bulkLog'.asked, told |-> bulkLog'.told,
                        late |-> bulkLog'.late, taken |-> bulkLog'.taken]
    BY <1>1, <2>1 DEF TypeInv
  <2>. QED BY <2>1, <2>6, <2>7, <2>8, <2>9, <2>10, HandlerKeeps
<1>. QED BY <1>6, <1>7

LEMMA NotifyKeeps ==
  ASSUME IInv, NotifyBulks
  PROVE  IInv'
<1>1. TypeInv /\ HandlerInv
  BY DEF IInv
<1>2. notifier.dirs \in {<<"tx">>, <<"rx">>, DirOrder}
  BY <1>1 DEF NotifyBulks, HandlerInv, Orders
<1>3. Head(notifier.dirs) \in Dirs /\ Tail(notifier.dirs) \in Orders
  <2>1. /\ Head(<<"tx">>) = "tx" /\ Tail(<<"tx">>) = <<>>
        /\ Head(<<"rx">>) = "rx" /\ Tail(<<"rx">>) = <<>>
        /\ Head(<<"tx", "rx">>) = "tx" /\ Tail(<<"tx", "rx">>) = <<"rx">>
    OBVIOUS
  <2>. QED BY <1>2, <2>1 DEF DirOrder, Dirs, Orders
<1>4. PICK d \in Dirs : d = Head(notifier.dirs)
  BY <1>3
<1>5. UNCHANGED <<bulkMutex, btAt, btCall, bulkMsgs>>
  BY DEF NotifyBulks
<1>6. CASE NothingToNotify(d)
  <2>1. /\ notifier' = [dirs |-> Tail(notifier.dirs), next |-> notifier.next]
        /\ UNCHANGED <<bulkQ, waiter, bulkLog>>
    BY <1>1, <1>6 DEF NothingToNotify, HandlerInv
  <2>2. HandlerInv'
    BY <1>1, <1>3, <1>5, <2>1 DEF HandlerInv
  <2>. QED BY <1>5, <2>1, <2>2, QuietKeeps
<1>7. CASE /\ bulkQ[d].remove # bulkQ[d].process
           /\ TellClient(d) /\ UNCHANGED notifier
  <2>. DEFINE q == bulkQ[d]
              b == q.bulks[BulkIndex(q.remove)]
              w == Notified(q, q.process, q.remove + 1)
  <2>1. /\ q \in Queue /\ Ordered(q) /\ q.remove # q.process
        /\ q.remove \in Nat /\ q.process \in Nat /\ q.local_insert \in Nat
        /\ b = Entry(d, q.remove) /\ b \in BulkEntry
    BY <1>7, QueueFacts DEF IInv, RingInv, Entry
  <2>2. bulkQ' = [bulkQ EXCEPT ![d] = w]
    BY <1>7 DEF TellClient, Notified
  <2>3. /\ w \in Queue /\ w.bulks = q.bulks
        /\ w.remove = q.remove + 1 /\ w.process = q.process
        /\ w.local_insert = q.local_insert
        /\ w.remote_insert = q.remote_insert
        /\ w.remote_notify = q.process
    <3>. HIDE DEF q, b
    <3>1. q.remove + 1 \in Nat
      BY <2>1
    <3>. QED BY <2>1, <3>1, QueueNotified, ZenonT(30)
  <2>4. q.remove \in Window(d)
    BY <2>1 DEF Ordered, Window
  <2>5. Ordered(w)
    <3>. HIDE DEF q, w
    <3>. QED BY <2>1, <2>3, BulkAssumption DEF Ordered
  <2>. HIDE DEF w
  <2>6. /\ bulkQ' \in [Dirs -> Queue] /\ bulkQ'[d] = w
        /\ \A f \in Dirs : f # d => bulkQ'[f] = bulkQ[f]
    BY <1>1, <2>2, <2>3 DEF TypeInv
  <2>7. \A f \in Dirs, n \in Nat : Entry(f, n)' = Entry(f, n)
    BY <2>3, <2>6 DEF Entry
  <2>8. \A f \in Dirs :
          /\ Ordered(bulkQ'[f])
          /\ bulkQ'[f].local_insert = bulkQ[f].local_insert
          /\ bulkQ'[f].remove >= bulkQ[f].remove
    <3>1. \A f \in Dirs : Ordered(bulkQ[f]) /\ bulkQ[f].remove \in Nat
      BY QueueFacts DEF IInv, RingInv
    <3>. QED BY <2>1, <2>3, <2>5, <2>6, <3>1
  <2>9. waiter' = IF b.mode = "blocking" /\ b.userdata # NoWaiter
                  THEN [waiter EXCEPT ![b.userdata] = b.actual] ELSE waiter
    BY <1>7 DEF TellClient
  <2>10. waiter' \in [BulkThreads -> {"asleep", "done", "aborted"}]
    BY <1>1, <2>1, <2>9 DEF TypeInv, BulkEntry
  <2>11. ASSUME NEW u \in BulkThreads, waiter'[u] # waiter[u]
         PROVE  /\ btAt[u] = "wait"
                /\ btCall[u].bulk < bulkQ'[btCall[u].dir].remove
    <3>1. b.mode = "blocking" /\ b.userdata = u /\ u # NoWaiter
      BY <1>1, <2>1, <2>9, <2>11, BulkAssumption DEF TypeInv, BulkEntry
    <3>2. /\ btAt[u] = "wait" /\ btCall[u].dir = d /\ btCall[u].bulk = q.remove
      BY <2>1, <2>4, <3>1 DEF IInv, WakeInv
    <3>. QED BY <2>1, <2>3, <2>6, <3>2
  <2>12. /\ bulkLog' = [asked |-> bulkLog'.asked, told |-> bulkLog'.told,
                        late |-> bulkLog'.late, taken |-> bulkLog'.taken]
         /\ bulkLog'.asked = bulkLog.asked /\ bulkLog'.taken = bulkLog.taken
    <3>1. bulkLog' = [bulkLog EXCEPT
                       !.told[d] = Append(@, [to |-> b.userdata, actual |-> b.actual])]
      BY <1>7 DEF TellClient
    <3>2. bulkLog = [asked |-> bulkLog.asked, told |-> bulkLog.told,
                     late |-> bulkLog.late, taken |-> bulkLog.taken]
      BY <1>1 DEF TypeInv
    <3>. QED BY <3>1, <3>2
  <2>13. HandlerInv'
    BY <1>1, <1>5, <1>7 DEF HandlerInv
  <2>. QED BY <1>5, <2>6, <2>7, <2>8, <2>10, <2>11, <2>12, <2>13, HandlerKeeps
<1>. QED BY <1>4, <1>6, <1>7 DEF NotifyBulks

LEMMA AbortKeeps ==
  ASSUME IInv, CloseReceived
  PROVE  IInv'
<1>1. TypeInv /\ HandlerInv
  BY DEF IInv
<1>2. /\ bulkQ' = [f \in Dirs |-> Aborted(bulkQ[f])]
      /\ bulkLog' = [bulkLog EXCEPT !.late = {}]
      /\ UNCHANGED <<bulkMutex, btAt, btCall, waiter, bulkMsgs>>
      /\ bulkMsgs.slave # <<>>
  BY DEF CloseReceived
<1>3. ASSUME NEW f \in Dirs
      PROVE  /\ bulkQ'[f] \in Queue /\ bulkQ'[f].bulks = bulkQ[f].bulks
             /\ bulkQ'[f].local_insert = bulkQ[f].local_insert
             /\ bulkQ'[f].remove = bulkQ[f].remove
             /\ Ordered(bulkQ'[f]) /\ bulkQ[f].remove \in Nat
  <2>1. /\ bulkQ'[f] = Aborted(bulkQ[f]) /\ bulkQ[f] \in Queue
        /\ Ordered(bulkQ[f]) /\ NumBulks \in Nat
    BY <1>2, QueueFacts DEF IInv, RingInv
  <2>2. /\ bulkQ'[f] \in Queue /\ bulkQ'[f].bulks = bulkQ[f].bulks
        /\ bulkQ'[f].local_insert = bulkQ[f].local_insert
        /\ bulkQ'[f].remove = bulkQ[f].remove
        /\ bulkQ'[f].remote_notify = bulkQ[f].remote_notify
        /\ bulkQ'[f].remote_insert = bulkQ[f].local_insert
        /\ bulkQ'[f].process = bulkQ[f].local_insert
    BY <2>1 DEF Aborted, Queue
  <2>3. /\ bulkQ[f].remove \in Nat /\ bulkQ[f].local_insert \in Nat
        /\ bulkQ[f].process \in Nat /\ bulkQ[f].remote_notify \in Nat
    BY <2>1 DEF Queue
  <2>. QED BY <2>1, <2>2, <2>3 DEF Ordered
<1>4. bulkQ' \in [Dirs -> Queue]
  BY <1>2, <1>3
<1>5. \A f \in Dirs, n \in Nat : Entry(f, n)' = Entry(f, n)
  BY <1>3 DEF Entry
<1>6. /\ bulkLog' = [asked |-> bulkLog'.asked, told |-> bulkLog'.told,
                     late |-> bulkLog'.late, taken |-> bulkLog'.taken]
      /\ bulkLog'.asked = bulkLog.asked /\ bulkLog'.taken = bulkLog.taken
  <2>1. bulkLog = [asked |-> bulkLog.asked, told |-> bulkLog.told,
                   late |-> bulkLog.late, taken |-> bulkLog.taken]
    BY <1>1 DEF TypeInv
  <2>. QED BY <1>2, <2>1
<1>7. HandlerInv'
  <2>1. notifier' = [dirs |-> DirOrder, next |-> notifier'.next]
    BY DEF CloseReceived
  <2>. QED BY <1>1, <1>2, <2>1 DEF HandlerInv, Orders
<1>8. waiter' \in [BulkThreads -> {"asleep", "done", "aborted"}]
  BY <1>1, <1>2 DEF TypeInv
<1>. QED BY <1>2, <1>3, <1>4, <1>5, <1>6, <1>7, <1>8, HandlerKeeps

-----------------------------------------------------------------------------
LEMMA BulkStepKeeps == IInv /\ [BulkNext]_bulkVars => IInv'
<1>. SUFFICES ASSUME IInv, [BulkNext]_bulkVars PROVE IInv'
  OBVIOUS
<1>1. CASE UNCHANGED bulkVars
  <2>1. UNCHANGED <<bulkQ, bulkMutex, btAt, btCall, waiter, bulkLog, notifier, bulkMsgs>>
    BY <1>1 DEF bulkVars
  <2>2. HandlerInv'
    BY <2>1 DEF IInv, HandlerInv
  <2>. QED BY <2>1, <2>2, QuietKeeps
<1>2. ASSUME NEW t \in BulkThreads, TransferCall(t) \/ TransferStep(t)
      PROVE  IInv'
  BY <1>2, CallKeeps, LockKeeps, StalledKeeps, SlotKeeps, SendKeeps, ForgetKeeps
  DEF TransferStep
<1>3. CASE SlotHandlerStep \/ CloseTerminate \/ HandlerWoken
  BY <1>3, DoneKeeps, NotifyKeeps, AbortKeeps, HandlerCloses DEF SlotHandlerStep
<1>4. CASE PeerReceive \/ PeerSendClose \/ PeerClose
             \/ \E d \in Dirs : PeerTransfer(d) \/ PeerAnswer(d)
  BY <1>4, PeerKeeps
<1>. QED BY <1>1, <1>2, <1>3, <1>4 DEF BulkNext

(* The rings of bulks are always in order, and no entry of a pending bulk is *)
(* given to another (queue_bulk, notify_bulks, abort_outstanding_bulks),     *)
(* whatever their size and however many threads transfer.                    *)
THEOREM BulkRingAlways == BulkSpec => []BulkRing
<1>1. IInv => BulkRing
  <2>. SUFFICES ASSUME IInv, NEW d \in Dirs
                PROVE  /\ Ordered(bulkQ[d])
                       /\ \A n \in Window(d) :
                            \/ Entry(d, n).userdata = bulkLog.asked[d][n + 1]
                            \/ <<d, n>> \in bulkLog.taken
    BY DEF BulkRing, Ordered, Window, Entry
  <2>. QED BY DEF IInv, RingInv, Occupied
<1>. QED BY <1>1, BulkStarts, BulkStepKeeps, PTL DEF BulkSpec

-----------------------------------------------------------------------------
(* What becomes of a bulk. The two sides agree on it because the messages    *)
(* between them, of either direction of transfer, can be numbered by the     *)
(* bulks they are about: requests not read yet follow those the master has   *)
(* counted, answers not read yet are all that it gave beyond "process".      *)

Requests == bulkMsgs.master
Answers == bulkMsgs.slave
Request == [type : {"BULK"}, dir : Dirs] \union [type : {"CLOSE"}]
Peer == [local : Nat, remote : Nat, answered : Nat]
Report == [to : BulkThreads \union {NoWaiter}, actual : {"done", "aborted"}]

(* The master has sent its CLOSE, after which it answers nothing.            *)
Ended == srv.master \in {"CLOSESENT", "CLOSED"}

(* Message m is a request or an answer for direction d.                      *)
Of(m, type, d) == m.type = type /\ m.dir = d

(* num numbers the messages of s that are for d, in order, from lo to below  *)
(* hi.                                                                       *)
Numbered(s, num, type, d, lo, hi) ==
  \A i \in 1..Len(s) : Of(s[i], type, d) =>
    /\ lo <= num[i] /\ num[i] < hi
    /\ \A j \in 1..Len(s) : i < j /\ Of(s[j], type, d) => num[i] < num[j]

Extended(num, k, v) == [i \in 1..(k + 1) |-> IF i = k + 1 THEN v ELSE num[i]]
Shifted(num, k) == [i \in 1..(k - 1) |-> num[i + 1]]

PeerTypeInv ==
  /\ peerQ \in [Dirs -> Peer]
  /\ srv \in [slave : {"OPEN", "CLOSESENT", "CLOSED"},
              master : {"OPEN", "ABORTING", "ABORTRECVD", "CLOSESENT", "CLOSED"}]
  /\ notifier.next \in {"idle", "sendClose", "bailed", "complete"}
  /\ bulkMsgs.master \in Seq(Request)
  /\ bulkLog.told \in [Dirs -> Seq(Report)]

(* A thread that queues its request does so in an open service.              *)
SendInv ==
  \A t \in BulkThreads :
    btAt[t] = "send" => slotMutex = t /\ srv.slave = "OPEN"

(* The indexes of the master against those of the slave.                     *)
PeerOf(p, q) ==
  /\ p.local <= p.remote /\ p.answered <= p.remote
  /\ p.remote <= q.local_insert
  /\ srv.master = "OPEN" => p.answered <= p.local
  /\ IF Ended THEN p.answered = p.remote ELSE q.process <= p.answered

PeerInv == \A d \in Dirs : PeerOf(peerQ[d], bulkQ[d])

RequestInv ==
  \E req \in [1..Len(Requests) -> Nat] : \A d \in Dirs :
    Numbered(Requests, req, "BULK", d, peerQ[d].remote, bulkQ[d].local_insert)

(* The answers are true, and none is missing.                                *)
Truthful(s, num, d, local) ==
  \A i \in 1..Len(s) : Of(s[i], "DONE", d) =>
    (s[i].actual = "done" <=> num[i] < local)

Complete(s, num, d, lo, hi) ==
  \A n \in Nat : lo <= n /\ n < hi =>
    \E i \in 1..Len(s) : Of(s[i], "DONE", d) /\ num[i] = n

AnswersNumbered(s, num, d, p, q) ==
  /\ Numbered(s, num, "DONE", d, q.process, p.answered)
  /\ Truthful(s, num, d, p.local)
  /\ Complete(s, num, d, q.process, p.answered)

AnswerInv ==
  \E num \in [1..Len(Answers) -> Nat] : \A d \in Dirs :
    AnswersNumbered(Answers, num, d, peerQ[d], bulkQ[d])

(* The last message of the master is its CLOSE, and the slave has closed     *)
(* once it has read that.                                                    *)
ClosesLast ==
  /\ \A i \in 1..Len(Answers) :
       Answers[i].type = "CLOSE" <=> Ended /\ i = Len(Answers)
  /\ srv.slave = "CLOSED" <=> Ended /\ Answers = <<>>

(* The slave sends one CLOSE, when it closes or answers that of the master.  *)
ClosesOnce ==
  /\ srv.slave = "OPEN" => srv.master \notin {"ABORTRECVD", "CLOSED"}
  /\ \A i \in 1..Len(Requests) : Requests[i].type = "CLOSE" =>
       /\ srv.slave # "OPEN" /\ srv.master \notin {"ABORTRECVD", "CLOSED"}
       /\ \A j \in 1..Len(Requests) : Requests[j].type = "CLOSE" => i = j

(* The slot handler closes while the CLOSE is the message it reads.          *)
ClosesInTurn ==
  /\ notifier.next # "idle" => Answers # <<>> /\ Answers[1].type = "CLOSE"
  /\ notifier.next \in {"sendClose", "bailed"} => srv.slave = "OPEN"
  /\ notifier.next = "complete" => srv.slave = "CLOSESENT"

CloseInv == ClosesLast /\ ClosesOnce /\ ClosesInTurn

(* The bulks from n on were queued too late for the close.                   *)
LateFrom(d, n) ==
  \A k \in Nat : n <= k /\ k < bulkQ[d].local_insert => <<d, k>> \in bulkLog.late

AbortOf(d) ==
  /\ notifier.next # "idle" /\ (\A i \in 1..Len(notifier.dirs) : notifier.dirs[i] # d)
       => bulkQ[d].remove = bulkQ[d].process
  /\ notifier.next = "complete" => bulkQ[d].process = bulkQ[d].local_insert
  /\ notifier.next \in {"sendClose", "bailed"} => LateFrom(d, bulkQ[d].process)
  /\ srv.slave = "CLOSED" => LateFrom(d, bulkQ[d].remove)

AbortInv == \A d \in Dirs : AbortOf(d)

(* What the entries will report: of bulks still to be answered, and of those *)
(* that have been.                                                           *)
EntryOf(d) ==
  /\ \A n \in Nat : bulkQ[d].process <= n /\ n < bulkQ[d].local_insert
       => Entry(d, n).actual = "aborted"
  /\ \A n \in Nat : bulkQ[d].remove <= n /\ n < bulkQ[d].process
       => (Entry(d, n).actual = "done" <=> n < peerQ[d].local)
  /\ \A t \in BulkThreads, n \in Nat :
       Filling(t) /\ btCall[t].dir = d /\ n = bulkQ[d].local_insert
         => Entry(d, n).actual = "aborted"

EntryInv == \A d \in Dirs : EntryOf(d)

ToldOf(d) ==
  /\ Len(bulkLog.told[d]) = bulkQ[d].remove
  /\ \A k \in 1..Len(bulkLog.told[d]) :
       /\ \/ bulkLog.told[d][k].to = bulkLog.asked[d][k]
          \/ <<d, k - 1>> \in bulkLog.taken
       /\ bulkLog.told[d][k].actual = "done" <=> k <= peerQ[d].local

ToldInv == \A d \in Dirs : ToldOf(d)

OutcomeInv ==
  PeerTypeInv /\ SendInv /\ PeerInv /\ RequestInv /\ AnswerInv /\ CloseInv
    /\ AbortInv /\ EntryInv /\ ToldInv

-----------------------------------------------------------------------------
(* Messages stay numbered as one is sent or received.                        *)
LEMMA NumberedExtends ==
  ASSUME NEW S, NEW s \in Seq(S), NEW m \in S, NEW num \in [1..Len(s) -> Nat],
         NEW type, NEW d, NEW lo \in Nat, NEW hi \in Nat, lo <= hi,
         Numbered(s, num, type, d, lo, hi), NEW v \in Nat
  PROVE  /\ Extended(num, Len(s), v) \in [1..Len(Append(s, m)) -> Nat]
         /\ ~Of(m, type, d) =>
              Numbered(Append(s, m), Extended(num, Len(s), v), type, d, lo, hi)
         /\ Of(m, type, d) /\ v = hi =>
              Numbered(Append(s, m), Extended(num, Len(s), v), type, d, lo, hi + 1)
<1>. DEFINE k == Len(s)
            x == Extended(num, k, v)
            a == Append(s, m)
<1>1. /\ k \in Nat /\ Len(a) = k + 1 /\ a[k + 1] = m
      /\ \A i \in 1..k : a[i] = s[i]
  OBVIOUS
<1>2. /\ x \in [1..(k + 1) -> Nat] /\ x[k + 1] = v
      /\ \A i \in 1..k : x[i] = num[i] /\ num[i] \in Nat
  BY <1>1 DEF Extended
<1>3. \A i \in 1..k : Of(s[i], type, d) =>
        /\ lo <= num[i] /\ num[i] < hi
        /\ \A j \in 1..k : i < j /\ Of(s[j], type, d) => num[i] < num[j]
  BY DEF Numbered
<1>4. \A i \in 1..(k + 1) : i \in 1..k \/ i = k + 1
  BY <1>1
<1>. HIDE DEF k, x, a
<1>5. ASSUME ~Of(m, type, d) PROVE Numbered(a, x, type, d, lo, hi)
  BY <1>1, <1>2, <1>3, <1>4, <1>5 DEF Numbered
<1>6. ASSUME Of(m, type, d), v = hi PROVE Numbered(a, x, type, d, lo, hi + 1)
  <2>. SUFFICES ASSUME NEW i \in 1..(k + 1), Of(a[i], type, d)
                PROVE  /\ lo <= x[i] /\ x[i] < hi + 1
                       /\ \A j \in 1..(k + 1) :
                            i < j /\ Of(a[j], type, d) => x[i] < x[j]
    BY <1>1 DEF Numbered
  <2>1. CASE i = k + 1
    BY ONLY <1>1, <1>2, <1>6, <2>1, lo <= hi, lo \in Nat, hi \in Nat
  <2>2. CASE i \in 1..k
    <3>1. /\ Of(s[i], type, d) /\ lo <= num[i] /\ num[i] < hi
          /\ \A j \in 1..k : i < j /\ Of(s[j], type, d) => num[i] < num[j]
          /\ x[i] = num[i] /\ num[i] \in Nat
      BY <1>1, <1>2, <1>3, <2>2
    <3>2. num[i] < hi + 1
      BY ONLY <3>1, hi \in Nat
    <3>3. ASSUME NEW j \in 1..(k + 1), i < j, Of(a[j], type, d) PROVE x[i] < x[j]
      <4>1. CASE j = k + 1
        BY ONLY <1>2, <1>6, <3>1, <4>1
      <4>2. CASE j \in 1..k
        BY ONLY <1>1, <1>2, <3>1, <3>3, <4>2
      <4>. QED BY <1>4, <4>1, <4>2
    <3>. QED BY <3>1, <3>2, <3>3
  <2>. QED BY <1>4, <2>1, <2>2
<1>. QED BY <1>1, <1>2, <1>5, <1>6 DEF k, x, a

LEMMA NumberedShifts ==
  ASSUME NEW S, NEW s \in Seq(S), s # <<>>, NEW num \in [1..Len(s) -> Nat],
         NEW type, NEW d, NEW lo \in Nat, NEW hi \in Nat,
         Numbered(s, num, type, d, lo, hi)
  PROVE  /\ Shifted(num, Len(s)) \in [1..Len(Tail(s)) -> Nat]
         /\ Numbered(Tail(s), Shifted(num, Len(s)), type, d, lo, hi)
         /\ Of(s[1], type, d) =>
              /\ lo <= num[1] /\ num[1] < hi
              /\ Numbered(Tail(s), Shifted(num, Len(s)), type, d, num[1] + 1, hi)
<1>. DEFINE k == Len(s)
            x == Shifted(num, k)
            a == Tail(s)
<1>1. /\ k \in Nat /\ k >= 1 /\ Len(a) = k - 1
      /\ \A i \in 1..(k - 1) : a[i] = s[i + 1]
  OBVIOUS
<1>2. /\ x \in [1..(k - 1) -> Nat]
      /\ \A i \in 1..(k - 1) : x[i] = num[i + 1]
      /\ \A i \in 1..k : num[i] \in Nat
  BY <1>1 DEF Shifted
<1>3. \A i \in 1..k : Of(s[i], type, d) =>
        /\ lo <= num[i] /\ num[i] < hi
        /\ \A j \in 1..k : i < j /\ Of(s[j], type, d) => num[i] < num[j]
  BY DEF Numbered
<1>. HIDE DEF k, x, a
<1>4. \A i \in 1..(k - 1) : i + 1 \in 1..k /\ 1 < i + 1
  BY <1>1
<1>5. \A i, j \in 1..(k - 1) : i < j => i + 1 < j + 1
  BY <1>1
<1>6. 1 \in 1..k
  BY <1>1
<1>7. Numbered(a, x, type, d, lo, hi)
  <2>. SUFFICES ASSUME NEW i \in 1..(k - 1), Of(a[i], type, d)
                PROVE  /\ lo <= x[i] /\ x[i] < hi
                       /\ \A j \in 1..(k - 1) :
                            i < j /\ Of(a[j], type, d) => x[i] < x[j]
    BY <1>1 DEF Numbered
  <2>. QED BY <1>1, <1>2, <1>3, <1>4, <1>5
<1>8. ASSUME Of(s[1], type, d)
      PROVE  /\ lo <= num[1] /\ num[1] < hi
             /\ Numbered(a, x, type, d, num[1] + 1, hi)
  <2>1. /\ lo <= num[1] /\ num[1] < hi
        /\ \A j \in 1..k : 1 < j /\ Of(s[j], type, d) => num[1] < num[j]
    BY <1>3, <1>6, <1>8
  <2>2. \A i \in 1..(k - 1) : Of(a[i], type, d) => num[1] < x[i]
    BY <1>1, <1>2, <1>4, <2>1
  <2>3. \A i \in 1..(k - 1) : Of(a[i], type, d) => num[1] + 1 <= x[i]
    BY <1>2, <1>4, <1>6, <2>2
  <2>. QED BY <1>1, <1>7, <2>1, <2>3 DEF Numbered
<1>. QED BY <1>1, <1>2, <1>7, <1>8 DEF k, x, a

LEMMA OutcomeStarts == BulkInit => OutcomeInv
<1>. SUFFICES ASSUME BulkInit PROVE OutcomeInv
  OBVIOUS
<1>1. /\ \A d \in Dirs : bulkQ[d].local_insert = 0 /\ bulkQ[d].process = 0
                         /\ bulkQ[d].remove = 0
      /\ \A d \in Dirs : peerQ[d] = [local |-> 0, remote |-> 0, answered |-> 0]
      /\ srv = [slave |-> "OPEN", master |-> "OPEN"]
      /\ notifier = [dirs |-> <<>>, next |-> "idle"]
      /\ Requests = <<>> /\ Answers = <<>>
      /\ bulkLog.told = [d \in Dirs |-> <<>>]
      /\ \A t \in BulkThreads : btAt[t] = "idle"
  BY DEF BulkInit, Requests, Answers
<1>2. PeerTypeInv
  BY <1>1 DEF BulkInit, PeerTypeInv, Peer
<1>3. SendInv /\ PeerInv /\ CloseInv /\ AbortInv
  BY <1>1 DEF SendInv, PeerInv, PeerOf, CloseInv, AbortInv, AbortOf, Ended,
         ClosesLast, ClosesOnce, ClosesInTurn
<1>4. RequestInv /\ AnswerInv
  <2>1. <<>> \in [1..Len(<<>>) -> Nat]
    OBVIOUS
  <2>2. \A d \in Dirs :
          Numbered(<<>>, <<>>, "BULK", d, peerQ[d].remote, bulkQ[d].local_insert)
    BY DEF Numbered
  <2>3. \A d \in Dirs : AnswersNumbered(<<>>, <<>>, d, peerQ[d], bulkQ[d])
    <3>1. ASSUME NEW d \in Dirs
          PROVE  /\ peerQ[d].answered = 0 /\ peerQ[d].local = 0 /\ bulkQ[d].process = 0
      BY <1>1
    <3>2. \A d \in Dirs : /\ Numbered(<<>>, <<>>, "DONE", d, 0, 0)
                          /\ Truthful(<<>>, <<>>, d, 0)
                          /\ Complete(<<>>, <<>>, d, 0, 0)
      BY DEF Numbered, Truthful, Complete
    <3>. QED BY <3>1, <3>2 DEF AnswersNumbered
  <2>4. RequestInv
    BY <1>1, <2>1, <2>2, Zenon DEF RequestInv
  <2>5. AnswerInv
    BY <1>1, <2>1, <2>3, Zenon DEF AnswerInv
  <2>. QED BY <2>4, <2>5
<1>5. EntryInv /\ ToldInv
  BY <1>1 DEF EntryInv, EntryOf, ToldInv, ToldOf, Filling
<1>. QED BY <1>2, <1>3, <1>4, <1>5 DEF OutcomeInv

-----------------------------------------------------------------------------
(* How the steps change messages and the states of the two sides.            *)
LEMMA MessagesTyped ==
  ASSUME IInv, PeerTypeInv
  PROVE  /\ bulkMsgs = [slave |-> Answers, master |-> Requests]
         /\ Requests \in Seq(Request) /\ Answers \in Seq(Answer)
         /\ \A i \in 1..Len(Requests) : Requests[i] \in Request
         /\ \A i \in 1..Len(Answers) : Answers[i] \in Answer
         /\ srv = [slave |-> srv.slave, master |-> srv.master]
         /\ notifier = [dirs |-> notifier.dirs, next |-> notifier.next]
<1>1. /\ Requests \in Seq(Request) /\ Answers \in Seq(Answer)
      /\ bulkMsgs = [slave |-> Answers, master |-> Requests]
      /\ notifier = [dirs |-> notifier.dirs, next |-> notifier.next]
  BY DEF IInv, HandlerInv, PeerTypeInv, Requests, Answers
<1>2. srv = [slave |-> srv.slave, master |-> srv.master]
  BY DEF PeerTypeInv
<1>. QED BY <1>1, <1>2, ElementOf

LEMMA SendInvKept ==
  ASSUME IInv, OutcomeInv, [BulkNext]_bulkVars
  PROVE  SendInv'
<1>. SUFFICES ASSUME NEW u \in BulkThreads, btAt'[u] = "send"
              PROVE  slotMutex' = u /\ srv'.slave = "OPEN"
  BY DEF SendInv
<1>1. /\ btAt \in [BulkThreads -> {"idle", "lock", "stall", "slot", "send", "wait"}]
      /\ btAt[u] = "send" => slotMutex = u /\ srv.slave = "OPEN"
      /\ NoWaiter \notin BulkThreads
      /\ bulkMsgs = [slave |-> Answers, master |-> Requests]
      /\ srv = [slave |-> srv.slave, master |-> srv.master]
      /\ notifier.next = "complete" => srv.slave = "CLOSESENT"
  BY BulkAssumption, MessagesTyped
  DEF IInv, TypeInv, OutcomeInv, SendInv, CloseInv, ClosesInTurn
<1>2. ASSUME NEW t \in BulkThreads, TransferCall(t) \/ TransferLock(t)
               \/ TransferStalled(t) \/ TransferForget(t)
      PROVE  slotMutex' = u /\ srv'.slave = "OPEN"
  <2>1. /\ UNCHANGED <<slotMutex, srv>>
        /\ \E at \in {"lock", "stall", "slot", "idle"} : btAt' = [btAt EXCEPT ![t] = at]
    BY <1>2 DEF TransferCall, TransferLock, TransferStalled, TransferForget, BtGoto
  <2>. QED BY <1>1, <2>1
<1>3. ASSUME NEW t \in BulkThreads, TransferSlot(t)
      PROVE  slotMutex' = u /\ srv'.slave = "OPEN"
  <2>1. /\ slotMutex = NoWaiter /\ UNCHANGED srv
        /\ \/ srv.slave = "OPEN" /\ slotMutex' = t /\ btAt' = [btAt EXCEPT ![t] = "send"]
           \/ btAt' = [btAt EXCEPT ![t] = "idle"]
    BY <1>3 DEF TransferSlot, BtGoto
  <2>. QED BY <1>1, <2>1
<1>4. ASSUME NEW t \in BulkThreads, TransferSend(t)
      PROVE  slotMutex' = u /\ srv'.slave = "OPEN"
  <2>1. btAt[t] = "send" /\ slotMutex = t
    BY <1>4 DEF TransferSend, BtGoto, OutcomeInv, SendInv
  <2>2. \E at \in {"wait", "idle"} : btAt' = [btAt EXCEPT ![t] = at]
    BY <1>4 DEF TransferSend, BtGoto
  <2>. QED BY <1>1, <2>1, <2>2
<1>5. CASE UNCHANGED <<btAt, slotMutex, srv>>
  BY <1>1, <1>5
<1>6. CASE CloseTerminate \/ CloseAnswer \/ HandlerWoken
  BY <1>1, <1>6 DEF CloseTerminate, CloseAnswer, HandlerWoken
<1>7. CASE CloseComplete
  BY <1>1, <1>7 DEF CloseComplete
<1>8. CASE UNCHANGED <<btAt, slotMutex>> /\ srv'.slave = srv.slave
  BY <1>1, <1>8
<1>9. CASE PeerReceive \/ PeerSendClose \/ PeerClose
             \/ \E d \in Dirs : PeerTransfer(d) \/ PeerAnswer(d)
  <2>1. UNCHANGED <<btAt, slotMutex>>
    BY <1>9 DEF PeerReceive, PeerSendClose, PeerClose, PeerTransfer, PeerAnswer, PeerUnchanged
  <2>2. srv'.slave = srv.slave
    BY <1>1, <1>9 DEF PeerReceive, PeerSendClose, PeerClose, PeerTransfer, PeerAnswer
  <2>. QED BY <1>8, <2>1, <2>2
<1>10. CASE UNCHANGED bulkVars \/ ParseBulkDone \/ NotifyBulks \/ CloseReceived
  BY <1>5, <1>10 DEF bulkVars, ParseBulkDone, NotifyBulks, CloseReceived
<1>. QED BY <1>2, <1>3, <1>4, <1>6, <1>7, <1>9, <1>10
  DEF BulkNext, TransferStep, SlotHandlerStep

(* What the step does to messages, states and the slot handler.              *)
LEMMA CloseFacts ==
  ASSUME IInv, OutcomeInv
  PROVE  /\ bulkMsgs = [slave |-> Answers, master |-> Requests]
         /\ srv = [slave |-> srv.slave, master |-> srv.master]
         /\ srv.master \in {"OPEN", "ABORTING", "ABORTRECVD", "CLOSESENT", "CLOSED"}
         /\ notifier = [dirs |-> notifier.dirs, next |-> notifier.next]
         /\ Requests \in Seq(Request) /\ Answers \in Seq(Answer)
         /\ ClosesLast /\ ClosesOnce /\ ClosesInTurn
BY MessagesTyped DEF OutcomeInv, CloseInv, PeerTypeInv

LEMMA TailOfOne ==
  ASSUME NEW S, NEW s \in Seq(S), Len(s) = 1
  PROVE  Tail(s) = <<>>
<1>1. s # <<>>
  OBVIOUS
<1>2. Tail(s) \in Seq(S) /\ Len(Tail(s)) = 0
  BY <1>1
<1>3. \A q \in Seq(S) : Len(q) = 0 => q = <<>>
  OBVIOUS
<1>. QED BY <1>2, <1>3

(* A CLOSE at the head of the answers is the only message left.              *)
LEMMA CloseIsAll ==
  ASSUME IInv, OutcomeInv, Answers # <<>>, Answers[1].type = "CLOSE"
  PROVE  Ended /\ Len(Answers) = 1 /\ Tail(Answers) = <<>> /\ srv.slave # "CLOSED"
<1>1. Answers \in Seq(Answer) /\ ClosesLast
  BY CloseFacts
<1>2. 1 \in 1..Len(Answers)
  BY <1>1
<1>3. Answers[1].type = "CLOSE" <=> Ended /\ 1 = Len(Answers)
  BY <1>1, <1>2, Zenon DEF ClosesLast
<1>4. Ended /\ Len(Answers) = 1
  BY <1>3
<1>5. srv.slave = "CLOSED" <=> Ended /\ Answers = <<>>
  BY <1>1, Zenon DEF ClosesLast
<1>6. Tail(Answers) = <<>>
  <2>1. Answers \in Seq(Answer) /\ Len(Answers) = 1 /\ Answers # <<>>
    BY <1>1, <1>4
  <2>. QED BY <2>1, TailOfOne
<1>. QED BY <1>4, <1>5, <1>6

LEMMA ClosesFrame ==
  ASSUME IInv, OutcomeInv, UNCHANGED <<srv, bulkMsgs>>, notifier'.next = notifier.next
  PROVE  CloseInv'
BY DEF OutcomeInv, CloseInv, ClosesLast, ClosesOnce, ClosesInTurn, Ended, Requests, Answers

LEMMA ClosesSend ==
  ASSUME IInv, OutcomeInv, NEW t \in BulkThreads, TransferSend(t)
  PROVE  CloseInv'
<1>1. ClosesLast /\ ClosesOnce /\ ClosesInTurn /\ srv.slave = "OPEN"
  BY DEF OutcomeInv, CloseInv, SendInv, TransferSend, BtGoto
<1>2. /\ bulkMsgs = [slave |-> Answers, master |-> Requests]
      /\ Requests \in Seq(Request)
  BY CloseFacts
<1>3. PICK d \in Dirs : d = btCall[t].dir
  BY DEF IInv, TypeInv, Call
<1>4. /\ Answers' = Answers /\ UNCHANGED <<srv, notifier>>
      /\ Requests' = Append(Requests, [type |-> "BULK", dir |-> d])
  BY <1>2, <1>3 DEF TransferSend, SendTo, Requests, Answers
<1>5. \A i \in 1..Len(Requests') :
        \/ i \in 1..Len(Requests) /\ Requests'[i] = Requests[i]
        \/ Requests'[i].type = "BULK"
  <2>1. [type |-> "BULK", dir |-> d] \in Request
    BY DEF Request
  <2>. QED BY <1>2, <1>4, <2>1
<1>. QED BY <1>1, <1>4, <1>5 DEF CloseInv, ClosesLast, ClosesOnce, ClosesInTurn, Ended

LEMMA ClosesParse ==
  ASSUME IInv, OutcomeInv, ParseBulkDone
  PROVE  CloseInv'
<1>1. /\ Answers # <<>> /\ Answers[1].type = "DONE" /\ notifier.next = "idle"
      /\ Answers' = Tail(Answers) /\ Requests' = Requests
      /\ UNCHANGED srv /\ notifier'.next = "idle"
  <2>1. HandlerIdle /\ UNCHANGED srv /\ bulkMsgs' = [bulkMsgs EXCEPT !.slave = Tail(@)]
        /\ notifier'.next = notifier.next
    BY CloseFacts DEF ParseBulkDone, PopSlave
  <2>2. bulkMsgs' = [slave |-> Tail(Answers), master |-> Requests]
    BY <2>1, CloseFacts DEF Answers, Requests
  <2>3. Answers # <<>> /\ Answers[1].type = "DONE"
    <3>1. Answers # <<>> /\ Head(Answers).type = "DONE"
      BY DEF ParseBulkDone, Received, Answers
    <3>. QED BY <3>1, CloseFacts
  <2>. QED BY <2>1, <2>2, <2>3 DEF HandlerIdle, Answers, Requests
<1>2. Answers \in Seq(Answer) /\ ClosesLast /\ ClosesOnce
  BY CloseFacts
<1>3. /\ Len(Answers') = Len(Answers) - 1 /\ Len(Answers) \in Nat /\ Len(Answers) >= 1
      /\ \A i \in 1..Len(Answers') : Answers'[i] = Answers[i + 1] /\ i + 1 \in 1..Len(Answers)
  BY <1>1, <1>2
<1>4. \A i \in 1..Len(Answers') : i + 1 = Len(Answers) <=> i = Len(Answers')
  BY <1>3
<1>5. 1 \in 1..Len(Answers)
  BY <1>3
<1>6. Answers[1].type = "CLOSE" <=> Ended /\ 1 = Len(Answers)
  BY <1>2, <1>5, Zenon DEF ClosesLast
<1>7. Ended => Len(Answers') >= 1
  BY <1>1, <1>3, <1>6
<1>8. Ended => Answers' # <<>>
  BY <1>7
<1>9. ClosesLast'
  BY <1>1, <1>2, <1>3, <1>4, <1>8 DEF ClosesLast, Ended
<1>. QED BY <1>1, <1>2, <1>9 DEF CloseInv, ClosesOnce, ClosesInTurn

LEMMA ClosesHandler ==
  ASSUME IInv, OutcomeInv,
         CloseReceived \/ CloseAnswer \/ CloseComplete \/ HandlerWoken
  PROVE  CloseInv'
<1>1. ClosesLast /\ ClosesOnce /\ ClosesInTurn
  BY CloseFacts
<1>2. CASE CloseReceived
  <2>1. /\ Answers # <<>> /\ Answers[1].type = "CLOSE"
        /\ UNCHANGED <<srv, Answers, Requests>>
        /\ notifier'.next = IF srv.slave = "OPEN" THEN "sendClose" ELSE "complete"
    BY <1>2 DEF CloseReceived, Received, Answers, Requests
  <2>2. srv.slave \in {"OPEN", "CLOSESENT"}
    BY <2>1, CloseIsAll DEF OutcomeInv, PeerTypeInv
  <2>. QED BY <1>1, <2>1, <2>2 DEF CloseInv, ClosesLast, ClosesOnce, ClosesInTurn, Ended
<1>3. CASE CloseAnswer
  <2>1. /\ Answers # <<>> /\ Answers[1].type = "CLOSE" /\ srv.slave = "OPEN"
        /\ notifier'.next \in {"idle", "bailed"}
    BY <1>1, <1>3, CloseFacts DEF CloseAnswer, ClosesInTurn
  <2>2. CASE UNCHANGED <<srv, bulkMsgs>>
    BY <1>1, <2>1, <2>2
    DEF CloseInv, ClosesLast, ClosesOnce, ClosesInTurn, Ended, Answers, Requests
  <2>3. CASE ~ UNCHANGED <<srv, bulkMsgs>>
    <3>1. /\ srv' = [srv EXCEPT !.slave = "CLOSED"]
          /\ Answers' = Tail(Answers)
          /\ Requests' = Append(Requests, [type |-> "CLOSE"])
      <4>1. /\ srv' = [srv EXCEPT !.slave = "CLOSED"]
            /\ bulkMsgs' = [slave |-> Tail(bulkMsgs.slave),
                            master |-> Append(bulkMsgs.master, [type |-> "CLOSE"])]
        BY <1>3, <2>3 DEF CloseAnswer
      <4>. QED BY <4>1 DEF Answers, Requests
    <3>2. Ended /\ Answers' = <<>> /\ Ended' = Ended /\ srv'.slave = "CLOSED"
          /\ srv'.master = srv.master
      BY <2>1, <3>1, CloseIsAll, CloseFacts DEF Ended
    <3>3. \A i \in 1..Len(Requests') :
            \/ i \in 1..Len(Requests) /\ Requests'[i] = Requests[i]
            \/ i = Len(Requests) + 1
      <4>1. [type |-> "CLOSE"] \in Request /\ Requests \in Seq(Request)
        BY CloseFacts DEF Request
      <4>. QED BY <3>1, <4>1
    <3>4. ClosesOnce'
      BY <1>1, <2>1, <3>2, <3>3 DEF ClosesOnce
    <3>5. notifier'.next = "idle"
      BY <1>3, <2>3, CloseFacts DEF CloseAnswer
    <3>. QED BY <3>2, <3>4, <3>5 DEF CloseInv, ClosesLast, ClosesInTurn
  <2>. QED BY <2>2, <2>3
<1>4. CASE CloseComplete
  <2>1. /\ Answers # <<>> /\ Answers[1].type = "CLOSE" /\ srv.slave = "CLOSESENT"
        /\ notifier'.next = "idle" /\ srv' = [srv EXCEPT !.slave = "CLOSED"]
        /\ Answers' = Tail(Answers) /\ Requests' = Requests
    BY <1>1, <1>4, CloseFacts DEF CloseComplete, ClosesInTurn, PopSlave, Answers, Requests
  <2>2. Ended /\ Answers' = <<>> /\ Ended' = Ended /\ srv'.slave = "CLOSED"
        /\ srv'.master = srv.master
    BY <2>1, CloseIsAll, CloseFacts DEF Ended
  <2>. QED BY <1>1, <2>1, <2>2 DEF CloseInv, ClosesLast, ClosesOnce, ClosesInTurn
<1>5. CASE HandlerWoken
  <2>1. UNCHANGED <<srv, bulkMsgs>> /\ notifier'.next = "idle"
    BY <1>5, CloseFacts DEF HandlerWoken
  <2>. QED BY <1>1, <2>1
           DEF CloseInv, ClosesLast, ClosesOnce, ClosesInTurn, Ended, Answers, Requests
<1>. QED BY <1>2, <1>3, <1>4, <1>5

LEMMA ClosesTerminate ==
  ASSUME IInv, OutcomeInv, CloseTerminate
  PROVE  CloseInv'
<1>1. ClosesLast /\ ClosesOnce /\ ClosesInTurn
  BY CloseFacts
<1>2. /\ srv.slave = "OPEN" /\ srv' = [srv EXCEPT !.slave = "CLOSESENT"]
      /\ UNCHANGED notifier
      /\ bulkMsgs' = [bulkMsgs EXCEPT !.master = Append(@, [type |-> "CLOSE"])]
  BY DEF CloseTerminate, SendTo
<1>3. /\ bulkMsgs' = [slave |-> Answers, master |-> Append(Requests, [type |-> "CLOSE"])]
      /\ notifier.next = "idle"
  <2>1. HandlerIdle
    BY DEF CloseTerminate
  <2>. QED BY <1>2, <2>1, CloseFacts DEF HandlerIdle, Answers, Requests
<1>4. /\ srv'.slave = "CLOSESENT" /\ srv'.master = srv.master /\ Ended' = Ended
      /\ Answers' = Answers /\ Requests' = Append(Requests, [type |-> "CLOSE"])
  BY <1>2, <1>3, CloseFacts DEF Ended, Answers, Requests
<1>5. \A i \in 1..Len(Requests') :
        \/ i \in 1..Len(Requests) /\ Requests'[i] = Requests[i]
        \/ i = Len(Requests) + 1
  <2>1. [type |-> "CLOSE"] \in Request /\ Requests \in Seq(Request)
    BY CloseFacts DEF Request
  <2>. QED BY <1>4, <2>1
<1>6. ClosesOnce'
  BY <1>1, <1>2, <1>4, <1>5 DEF ClosesOnce
<1>. QED BY <1>1, <1>2, <1>3, <1>4, <1>6 DEF CloseInv, ClosesLast, ClosesInTurn

LEMMA ClosesPeerReceive ==
  ASSUME IInv, OutcomeInv, PeerReceive
  PROVE  CloseInv'
<1>1. ClosesLast /\ ClosesOnce /\ ClosesInTurn
  BY CloseFacts
<1>2. /\ Requests # <<>> /\ Answers' = Answers /\ UNCHANGED notifier
      /\ Requests' = Tail(Requests)
      /\ \/ Requests[1].type = "BULK" /\ UNCHANGED srv
         \/ /\ Requests[1].type = "CLOSE"
            /\ srv' = [srv EXCEPT !.master =
                         IF @ = "CLOSESENT" THEN "CLOSED" ELSE "ABORTRECVD"]
  <2>1. /\ Requests # <<>> /\ UNCHANGED notifier
        /\ bulkMsgs' = [bulkMsgs EXCEPT !.master = Tail(@)]
        /\ \/ Head(Requests).type = "BULK" /\ UNCHANGED srv
           \/ /\ Head(Requests).type = "CLOSE"
              /\ srv' = [srv EXCEPT !.master =
                           IF @ = "CLOSESENT" THEN "CLOSED" ELSE "ABORTRECVD"]
    BY DEF PeerReceive, PeerUnchanged, Requests
  <2>2. bulkMsgs' = [slave |-> Answers, master |-> Tail(Requests)]
    BY <2>1, CloseFacts DEF Answers, Requests
  <2>3. Head(Requests) = Requests[1]
    BY <2>1, CloseFacts
  <2>. QED BY <2>1, <2>2, <2>3 DEF Answers, Requests
<1>3. /\ Requests \in Seq(Request) /\ srv = [slave |-> srv.slave, master |-> srv.master]
      /\ srv.master \in {"OPEN", "ABORTING", "ABORTRECVD", "CLOSESENT", "CLOSED"}
  BY CloseFacts
<1>4. /\ Len(Requests') = Len(Requests) - 1 /\ 1 \in 1..Len(Requests)
      /\ Len(Requests) \in Nat
      /\ \A i \in 1..Len(Requests') : Requests'[i] = Requests[i + 1]
  BY <1>2, <1>3
<1>5. \A i \in 1..Len(Requests') :
        /\ i + 1 \in 1..Len(Requests) /\ i + 1 # 1
        /\ \A j \in 1..Len(Requests') : i + 1 = j + 1 => i = j
  BY ONLY <1>4
<1>6. CASE Requests[1].type = "BULK" /\ UNCHANGED srv
  <2>1. ClosesOnce'
    BY <1>1, <1>4, <1>5, <1>6 DEF ClosesOnce
  <2>. QED BY <1>1, <1>2, <1>6, <2>1 DEF CloseInv, ClosesLast, ClosesInTurn, Ended
<1>7. CASE /\ Requests[1].type = "CLOSE"
           /\ srv' = [srv EXCEPT !.master =
                        IF @ = "CLOSESENT" THEN "CLOSED" ELSE "ABORTRECVD"]
  <2>1. /\ srv.slave # "OPEN" /\ srv.master \notin {"ABORTRECVD", "CLOSED"}
        /\ \A j \in 1..Len(Requests) : Requests[j].type = "CLOSE" => 1 = j
    BY <1>1, <1>4, <1>7 DEF ClosesOnce
  <2>2. /\ srv'.slave = srv.slave /\ Ended' = Ended
    BY <1>3, <1>7, <2>1 DEF Ended
  <2>3. \A i \in 1..Len(Requests') : Requests'[i].type # "CLOSE"
    BY <1>4, <1>5, <2>1
  <2>4. ClosesOnce'
    BY <2>1, <2>2, <2>3 DEF ClosesOnce
  <2>. QED BY <1>1, <1>2, <2>2, <2>4 DEF CloseInv, ClosesLast, ClosesInTurn
<1>. QED BY <1>2, <1>6, <1>7

LEMMA ClosesPeerSends ==
  ASSUME IInv, OutcomeInv, ~Ended, NEW m \in Answer,
         srv' \in {srv, [srv EXCEPT !.master = "CLOSESENT"], [srv EXCEPT !.master = "CLOSED"]},
         Ended' <=> m.type = "CLOSE",
         srv'.master = "CLOSED" => srv.slave # "OPEN" /\ srv.master = "ABORTRECVD",
         SendTo("slave", m), UNCHANGED notifier
  PROVE  CloseInv'
<1>1. /\ ClosesLast /\ ClosesOnce /\ ClosesInTurn
      /\ Answers \in Seq(Answer)
      /\ bulkMsgs = [slave |-> Answers, master |-> Requests]
      /\ srv = [slave |-> srv.slave, master |-> srv.master]
  BY CloseFacts
<1>2. /\ Answers' = Append(Answers, m) /\ Requests' = Requests
  BY <1>1 DEF SendTo, Answers, Requests
<1>3. /\ Len(Answers') = Len(Answers) + 1 /\ Len(Answers) \in Nat
      /\ Answers'[Len(Answers) + 1] = m
      /\ \A i \in 1..Len(Answers) : Answers'[i] = Answers[i]
  BY <1>1, <1>2
<1>4. \A i \in 1..Len(Answers) : Answers[i].type # "CLOSE"
  BY <1>1 DEF ClosesLast
<1>5. \A i \in 1..Len(Answers') : \/ i \in 1..Len(Answers) /\ i # Len(Answers')
                                  \/ i = Len(Answers')
  BY ONLY <1>3
<1>6. srv'.slave = srv.slave /\ srv.slave # "CLOSED"
  BY <1>1 DEF ClosesLast
<1>7. Answers' # <<>>
  BY <1>1, <1>2
<1>8. ClosesLast'
  BY <1>3, <1>4, <1>5, <1>6, <1>7 DEF ClosesLast
<1>9. notifier.next = "idle"
  <2>1. Answers # <<>> => 1 \in 1..Len(Answers)
    BY <1>1
  <2>. QED BY <1>1, <1>4, <2>1 DEF ClosesInTurn
<1>10. ClosesOnce'
  BY <1>1, <1>2, <1>6 DEF ClosesOnce
<1>. QED BY <1>8, <1>9, <1>10 DEF CloseInv, ClosesInTurn

LEMMA ClosesPeer ==
  ASSUME IInv, OutcomeInv,
         PeerSendClose \/ PeerClose \/ \E d \in Dirs : PeerTransfer(d) \/ PeerAnswer(d)
  PROVE  CloseInv'
<1>1. /\ ClosesLast /\ ClosesOnce /\ ClosesInTurn
      /\ srv = [slave |-> srv.slave, master |-> srv.master]
  BY CloseFacts
<1>2. CASE PeerSendClose
  <2>1. /\ ~Ended /\ SendTo("slave", [type |-> "CLOSE"]) /\ UNCHANGED notifier
        /\ srv.master \in {"ABORTING", "ABORTRECVD"}
        /\ srv' = [srv EXCEPT !.master = IF @ = "ABORTING" THEN "CLOSESENT" ELSE "CLOSED"]
    BY <1>2 DEF PeerSendClose, PeerUnchanged, Ended
  <2>2. Ended'
    BY <1>1, <2>1 DEF Ended
  <2>3. srv'.master = "CLOSED" => srv.slave # "OPEN" /\ srv.master = "ABORTRECVD"
    BY <1>1, <2>1 DEF ClosesOnce
  <2>4. [type |-> "CLOSE"] \in Answer
    BY DEF Answer
  <2>. QED BY <2>1, <2>2, <2>3, <2>4, ClosesPeerSends
<1>3. CASE PeerClose
  <2>1. /\ srv.master = "OPEN" /\ srv' = [srv EXCEPT !.master = "ABORTING"]
        /\ UNCHANGED <<notifier, bulkMsgs>>
    BY <1>3 DEF PeerClose, PeerUnchanged
  <2>2. /\ srv'.slave = srv.slave /\ srv'.master = "ABORTING" /\ ~Ended /\ ~Ended'
        /\ Answers' = Answers /\ Requests' = Requests
    BY <1>1, <2>1 DEF Ended, Answers, Requests
  <2>. QED BY <1>1, <2>1, <2>2 DEF CloseInv, ClosesLast, ClosesOnce, ClosesInTurn
<1>4. ASSUME NEW d \in Dirs, PeerTransfer(d) PROVE CloseInv'
  BY <1>4, ClosesFrame DEF PeerTransfer, PeerUnchanged
<1>5. ASSUME NEW d \in Dirs, PeerAnswer(d) PROVE CloseInv'
  <2>. DEFINE a == IF peerQ[d].answered < peerQ[d].local THEN "done" ELSE "aborted"
              m == [type |-> "DONE", dir |-> d, actual |-> a]
  <2>1. /\ SendTo("slave", m) /\ UNCHANGED <<srv, notifier>>
        /\ peerQ[d].answered < peerQ[d].remote
    BY <1>5 DEF PeerAnswer, PeerUnchanged
  <2>2. m \in Answer /\ m.type = "DONE"
    BY DEF Answer
  <2>3. ~Ended
    <3>1. PeerOf(peerQ[d], bulkQ[d]) /\ peerQ[d].answered \in Nat /\ peerQ[d].remote \in Nat
      BY DEF OutcomeInv, PeerInv, PeerTypeInv, Peer
    <3>. QED BY <2>1, <3>1 DEF PeerOf
  <2>. HIDE DEF m
  <2>4. Ended' <=> m.type = "CLOSE"
    BY <2>1, <2>2, <2>3 DEF Ended
  <2>5. srv'.master = "CLOSED" => srv.slave # "OPEN" /\ srv.master = "ABORTRECVD"
    BY <2>1, <2>3 DEF Ended
  <2>. QED BY <2>1, <2>2, <2>3, <2>4, <2>5, ClosesPeerSends
<1>. QED BY <1>2, <1>3, <1>4, <1>5

LEMMA CloseInvKept ==
  ASSUME IInv, OutcomeInv, [BulkNext]_bulkVars
  PROVE  CloseInv'
<1>1. CASE UNCHANGED bulkVars
  BY <1>1, ClosesFrame DEF bulkVars
<1>2. ASSUME NEW t \in BulkThreads, TransferCall(t) \/ TransferLock(t)
               \/ TransferStalled(t) \/ TransferSlot(t) \/ TransferForget(t)
      PROVE  CloseInv'
  <2>1. UNCHANGED <<srv, bulkMsgs, notifier>>
    BY <1>2 DEF TransferCall, TransferLock, TransferStalled, TransferSlot, TransferForget
  <2>. QED BY <2>1, ClosesFrame
<1>3. CASE NotifyBulks
  <2>1. UNCHANGED <<srv, bulkMsgs>>
    BY <1>3 DEF NotifyBulks
  <2>2. notifier'.next = notifier.next
    BY <1>3, CloseFacts DEF NotifyBulks, NothingToNotify
  <2>. QED BY <2>1, <2>2, ClosesFrame
<1>. QED BY <1>1, <1>2, <1>3, ClosesSend, ClosesParse, ClosesHandler, ClosesTerminate,
            ClosesPeerReceive, ClosesPeer
  DEF BulkNext, TransferStep, SlotHandlerStep

-----------------------------------------------------------------------------
(* Types of what the invariant of the rings leaves open.                     *)
LEMMA PeerTypeKept ==
  ASSUME IInv, OutcomeInv, [BulkNext]_bulkVars
  PROVE  PeerTypeInv'
<1>1. /\ PeerTypeInv
      /\ bulkMsgs = [slave |-> Answers, master |-> Requests]
      /\ srv = [slave |-> srv.slave, master |-> srv.master]
      /\ notifier = [dirs |-> notifier.dirs, next |-> notifier.next]
      /\ Requests \in Seq(Request)
      /\ bulkLog = [asked |-> bulkLog.asked, told |-> bulkLog.told,
                    late |-> bulkLog.late, taken |-> bulkLog.taken]
  BY CloseFacts DEF OutcomeInv, IInv, TypeInv
<1>2. CASE UNCHANGED bulkVars
  BY <1>1, <1>2 DEF bulkVars, PeerTypeInv
<1>3. ASSUME NEW t \in BulkThreads, TransferCall(t) \/ TransferLock(t)
               \/ TransferStalled(t) \/ TransferSlot(t)
      PROVE  PeerTypeInv'
  <2>1. UNCHANGED <<peerQ, srv, bulkMsgs, notifier, bulkLog>>
    BY <1>3 DEF TransferCall, TransferLock, TransferStalled, TransferSlot
  <2>. QED BY <1>1, <2>1 DEF PeerTypeInv
<1>4. ASSUME NEW t \in BulkThreads, TransferForget(t) PROVE PeerTypeInv'
  <2>1. UNCHANGED <<peerQ, srv, bulkMsgs, notifier>> /\ bulkLog'.told = bulkLog.told
    BY <1>1, <1>4 DEF TransferForget
  <2>. QED BY <1>1, <2>1 DEF PeerTypeInv
<1>5. ASSUME NEW t \in BulkThreads, TransferSend(t) PROVE PeerTypeInv'
  <2>1. PICK d \in Dirs : d = btCall[t].dir
    BY DEF IInv, TypeInv, Call
  <2>2. /\ UNCHANGED <<peerQ, srv, notifier>> /\ bulkLog'.told = bulkLog.told
        /\ bulkMsgs'.master = Append(Requests, [type |-> "BULK", dir |-> d])
    BY <1>1, <1>5, <2>1 DEF TransferSend, SendTo, Requests
  <2>3. [type |-> "BULK", dir |-> d] \in Request
    BY DEF Request
  <2>. QED BY <1>1, <2>2, <2>3 DEF PeerTypeInv
<1>6. CASE ParseBulkDone
  <2>1. UNCHANGED <<peerQ, srv, bulkLog>> /\ bulkMsgs'.master = bulkMsgs.master
        /\ notifier'.next = notifier.next
    BY <1>1, <1>6 DEF ParseBulkDone, PopSlave
  <2>. QED BY <1>1, <2>1 DEF PeerTypeInv
<1>7. CASE NotifyBulks
  <2>1. /\ UNCHANGED <<peerQ, srv, bulkMsgs>> /\ notifier'.next = notifier.next
        /\ bulkLog'.told = bulkLog.told \/ \E d \in Dirs : TellClient(d)
    <3>1. notifier.dirs # <<>> => Head(notifier.dirs) \in Dirs
      BY DEF IInv, HandlerInv, Orders, DirOrder, Dirs
    <3>. QED BY <1>1, <1>7, <3>1 DEF NotifyBulks, NothingToNotify
  <2>2. ASSUME NEW d \in Dirs, TellClient(d)
        PROVE  bulkLog'.told \in [Dirs -> Seq(Report)]
    <3>. DEFINE e == Entry(d, bulkQ[d].remove)
                r == [to |-> e.userdata, actual |-> e.actual]
    <3>1. e \in BulkEntry
      BY QueueFacts
    <3>2. r \in Report
      BY <3>1 DEF BulkEntry, Report
    <3>3. bulkLog'.told = [bulkLog.told EXCEPT ![d] = Append(@, r)]
      BY <1>1, <2>2 DEF TellClient, Entry
    <3>. QED BY <1>1, <3>2, <3>3 DEF PeerTypeInv
  <2>. QED BY <1>1, <2>1, <2>2 DEF PeerTypeInv
<1>8. CASE CloseReceived \/ CloseAnswer \/ CloseComplete \/ CloseTerminate \/ HandlerWoken
  <2>1. UNCHANGED peerQ /\ bulkLog'.told = bulkLog.told
    BY <1>1, <1>8 DEF CloseReceived, CloseAnswer, CloseComplete, CloseTerminate, HandlerWoken
  <2>2. notifier'.next \in {"idle", "sendClose", "bailed", "complete"}
    BY <1>1, <1>8
    DEF CloseReceived, CloseAnswer, CloseComplete, CloseTerminate, HandlerWoken, PeerTypeInv
  <2>3. srv' = srv \/ \E s \in {"CLOSESENT", "CLOSED"} : srv' = [srv EXCEPT !.slave = s]
    BY <1>8 DEF CloseReceived, CloseAnswer, CloseComplete, CloseTerminate, HandlerWoken
  <2>4. \/ bulkMsgs'.master = Requests
        \/ bulkMsgs'.master = Append(Requests, [type |-> "CLOSE"])
    BY <1>1, <1>8 DEF CloseReceived, CloseAnswer, CloseComplete, CloseTerminate,
                      HandlerWoken, SendTo, PopSlave, Requests
  <2>5. [type |-> "CLOSE"] \in Request
    BY DEF Request
  <2>6. bulkMsgs'.master \in Seq(Request)
    <3>1. Requests \in Seq(Request)
      BY <1>1
    <3>2. Append(Requests, [type |-> "CLOSE"]) \in Seq(Request)
      BY ONLY <2>5, <3>1
    <3>. QED BY <2>4, <3>1, <3>2
  <2>. QED BY <1>1, <2>1, <2>2, <2>3, <2>6 DEF PeerTypeInv
<1>9. CASE PeerReceive \/ PeerSendClose \/ PeerClose
             \/ \E d \in Dirs : PeerTransfer(d) \/ PeerAnswer(d)
  <2>1. UNCHANGED <<notifier, bulkLog>>
    BY <1>9 DEF PeerReceive, PeerSendClose, PeerClose, PeerTransfer, PeerAnswer, PeerUnchanged
  <2>2. srv' = srv \/ \E s \in {"ABORTING", "ABORTRECVD", "CLOSESENT", "CLOSED"} :
                        srv' = [srv EXCEPT !.master = s]
    BY <1>9 DEF PeerReceive, PeerSendClose, PeerClose, PeerTransfer, PeerAnswer
  <2>3. \/ bulkMsgs'.master = Requests
        \/ Requests # <<>> /\ bulkMsgs'.master = Tail(Requests)
    BY <1>1, <1>9 DEF PeerReceive, PeerSendClose, PeerClose, PeerTransfer, PeerAnswer,
                      SendTo, Requests
  <2>4. bulkMsgs'.master \in Seq(Request)
    <3>1. Requests \in Seq(Request)
      BY <1>1
    <3>2. Requests # <<>> => Tail(Requests) \in Seq(Request)
      BY ONLY <3>1
    <3>. QED BY <2>3, <3>1, <3>2
  <2>5. peerQ' \in [Dirs -> Peer]
    <3>. DEFINE Moved ==
           \/ peerQ' = peerQ
           \/ \E d \in Dirs : \/ peerQ' = [peerQ EXCEPT ![d].local = @ + 1]
                              \/ peerQ' = [peerQ EXCEPT ![d].answered = @ + 1]
                              \/ peerQ' = [peerQ EXCEPT ![d].remote = @ + 1]
    <3>1. Moved
      <4>1. ASSUME PeerReceive, peerQ' # peerQ
            PROVE  \E d \in Dirs : peerQ' = [peerQ EXCEPT ![d].remote = @ + 1]
        <5>1. /\ Requests # <<>> /\ Head(Requests).type = "BULK"
              /\ peerQ' = [peerQ EXCEPT ![Head(Requests).dir].remote = @ + 1]
          BY <4>1 DEF PeerReceive, Requests
        <5>2. Head(Requests) \in Request
          BY <1>1, <5>1
        <5>. QED BY <5>1, <5>2 DEF Request
      <4>2. PeerSendClose \/ PeerClose => UNCHANGED peerQ
        BY DEF PeerSendClose, PeerClose
      <4>3. ASSUME NEW d \in Dirs, PeerTransfer(d)
            PROVE  peerQ' = [peerQ EXCEPT ![d].local = @ + 1]
        BY <4>3 DEF PeerTransfer
      <4>4. ASSUME NEW d \in Dirs, PeerAnswer(d)
            PROVE  peerQ' = [peerQ EXCEPT ![d].answered = @ + 1]
        BY <4>4 DEF PeerAnswer
      <4>5. CASE PeerReceive
        BY <4>1, <4>5
      <4>6. CASE PeerSendClose \/ PeerClose
        BY <4>2, <4>6
      <4>7. CASE \E d \in Dirs : PeerTransfer(d) \/ PeerAnswer(d)
        BY <4>3, <4>4, <4>7
      <4>. HIDE DEF Moved
      <4>. QED BY <1>9, <4>5, <4>6, <4>7
    <3>2. peerQ \in [Dirs -> Peer]
      BY <1>1 DEF PeerTypeInv
    <3>3. \A d \in Dirs :
            /\ [peerQ EXCEPT ![d].local = @ + 1] \in [Dirs -> Peer]
            /\ [peerQ EXCEPT ![d].answered = @ + 1] \in [Dirs -> Peer]
            /\ [peerQ EXCEPT ![d].remote = @ + 1] \in [Dirs -> Peer]
      BY ONLY <3>2 DEF Peer
    <3>. QED BY ONLY <3>1, <3>2, <3>3
  <2>. QED BY <1>1, <2>1, <2>2, <2>4, <2>5 DEF PeerTypeInv
<1>. QED BY <1>2, <1>3, <1>4, <1>5, <1>6, <1>7, <1>8, <1>9
  DEF BulkNext, TransferStep, SlotHandlerStep

-----------------------------------------------------------------------------
(* What the steps do to the indexes, the entries and the history.            *)
IndexesKept(f) ==
  /\ bulkQ'[f].local_insert = bulkQ[f].local_insert
  /\ bulkQ'[f].process = bulkQ[f].process
  /\ bulkQ'[f].remove = bulkQ[f].remove

SendEffect(t, d) ==
  /\ bulkQ'[d].local_insert = bulkQ[d].local_insert + 1
  /\ bulkQ'[d].process = bulkQ[d].process /\ bulkQ'[d].remove = bulkQ[d].remove
  /\ \A f \in Dirs : f # d => IndexesKept(f)
  /\ \A f \in Dirs, n \in Nat : Entry(f, n)' = Entry(f, n)
  /\ Requests' = Append(Requests, [type |-> "BULK", dir |-> d])
  /\ Answers' = Answers /\ UNCHANGED <<peerQ, srv, notifier>>
  /\ \A u \in BulkThreads : ~Filling(u)'
  /\ bulkLog'.told = bulkLog.told /\ bulkLog'.taken = bulkLog.taken
  /\ \A f \in Dirs : \A k \in 1..Len(bulkLog.asked[f]) :
       bulkLog'.asked[f][k] = bulkLog.asked[f][k]
  /\ bulkLog.late \subseteq bulkLog'.late
  /\ notifier.next \in {"sendClose", "bailed"} => <<d, bulkQ[d].local_insert>> \in bulkLog'.late

LEMMA SendEffects ==
  ASSUME IInv, OutcomeInv, NEW t \in BulkThreads, TransferSend(t)
  PROVE  \E d \in Dirs : d = btCall[t].dir /\ SendEffect(t, d)
<1>1. TypeInv /\ btCall[t] \in Call
  BY DEF IInv, TypeInv
<1>2. PICK d \in Dirs : d = btCall[t].dir
  BY <1>1 DEF Call
<1>3. PICK k \in Nat : k = bulkQ[d].local_insert
  BY QueueFacts
<1>4. PICK here \in {"wait", "idle"} :
        here = IF Blocks(btCall[t].mode) THEN "wait" ELSE "idle"
  OBVIOUS
<1>. DEFINE q == bulkQ[d]
            w == [q EXCEPT !.local_insert = k + 1]
<1>5. /\ btAt[t] = "send" /\ btAt' = [btAt EXCEPT ![t] = here]
      /\ SendTo("master", [type |-> "BULK", dir |-> d])
      /\ bulkQ' = [bulkQ EXCEPT ![d].local_insert = k + 1]
      /\ bulkLog' = [bulkLog EXCEPT
                       !.asked[d] = Append(@, t),
                       !.late = IF notifier.next \in {"sendClose", "bailed"}
                                THEN @ \union {<<d, k>>} ELSE @]
      /\ UNCHANGED <<peerQ, srv, notifier>>
  BY <1>2, <1>3, <1>4 DEF TransferSend, BtGoto
<1>6. /\ bulkQ' \in [Dirs -> Queue] /\ bulkQ'[d] = w
      /\ \A f \in Dirs : f # d => bulkQ'[f] = bulkQ[f]
  <2>1. bulkQ' = [bulkQ EXCEPT ![d] = w]
    BY <1>5
  <2>2. q \in Queue
    BY QueueFacts
  <2>3. w \in Queue
    BY <2>2 DEF Queue
  <2>. HIDE DEF w
  <2>. QED BY <1>1, <2>1, <2>3 DEF TypeInv
<1>7. /\ bulkQ'[d].local_insert = k + 1 /\ bulkQ'[d].remove = q.remove
      /\ bulkQ'[d].bulks = q.bulks /\ bulkQ'[d].process = q.process
  <2>1. q \in Queue
    BY QueueFacts
  <2>. QED BY <1>6, <2>1 DEF Queue
<1>8. \A f \in Dirs, n \in Nat : Entry(f, n)' = Entry(f, n)
  BY <1>6, <1>7 DEF Entry
<1>9. Answers' = Answers /\ Requests' = Append(Requests, [type |-> "BULK", dir |-> d])
  BY <1>5, CloseFacts DEF SendTo, Requests, Answers
<1>10. \A u \in BulkThreads : ~Filling(u)'
  <2>1. Filling(t)
    BY <1>5 DEF Filling
  <2>2. \A u \in BulkThreads : u # t => ~Filling(u)
    BY <2>1, OneFills
  <2>. QED BY <1>1, <1>5, <2>2 DEF Filling, TypeInv
<1>11. /\ bulkLog'.told = bulkLog.told /\ bulkLog'.taken = bulkLog.taken
       /\ bulkLog'.asked = [bulkLog.asked EXCEPT ![d] = Append(@, t)]
       /\ bulkLog.late \subseteq bulkLog'.late
       /\ notifier.next \in {"sendClose", "bailed"} => <<d, k>> \in bulkLog'.late
  <2>1. bulkLog = [asked |-> bulkLog.asked, told |-> bulkLog.told,
                   late |-> bulkLog.late, taken |-> bulkLog.taken]
    BY <1>1 DEF TypeInv
  <2>. QED BY <1>5, <2>1
<1>12. \A f \in Dirs : \A j \in 1..Len(bulkLog.asked[f]) :
         bulkLog'.asked[f][j] = bulkLog.asked[f][j]
  <2>1. bulkLog.asked \in [Dirs -> Seq(BulkThreads)]
    BY <1>1 DEF TypeInv
  <2>2. ASSUME NEW f \in Dirs, NEW j \in 1..Len(bulkLog.asked[f])
        PROVE  bulkLog'.asked[f][j] = bulkLog.asked[f][j]
    <3>1. CASE f = d
      <4>1. bulkLog.asked[d] \in Seq(BulkThreads) /\ j \in 1..Len(bulkLog.asked[d])
        BY <2>1, <3>1
      <4>2. bulkLog'.asked[f] = Append(bulkLog.asked[d], t)
        BY <1>11, <2>1, <3>1
      <4>3. Append(bulkLog.asked[d], t)[j] = bulkLog.asked[d][j]
        BY ONLY <4>1
      <4>. QED BY <3>1, <4>2, <4>3
    <3>2. CASE f # d
      BY <1>11, <2>1, <3>2
    <3>. QED BY <3>1, <3>2
  <2>. QED BY <2>2
<1>. QED BY <1>2, <1>3, <1>5, <1>6, <1>7, <1>8, <1>9, <1>10, <1>11, <1>12
  DEF SendEffect, IndexesKept

(* The bulk a DONE answers is the oldest one not answered, and is there.     *)
LEMMA DoneIsNext ==
  ASSUME IInv, OutcomeInv, Answers # <<>>, NEW d \in Dirs, Of(Answers[1], "DONE", d),
         NEW num \in [1..Len(Answers) -> Nat],
         AnswersNumbered(Answers, num, d, peerQ[d], bulkQ[d])
  PROVE  /\ num[1] = bulkQ[d].process
         /\ bulkQ[d].process < peerQ[d].answered
         /\ bulkQ[d].process < bulkQ[d].local_insert
         /\ Answers[1].actual = "done" <=> bulkQ[d].process < peerQ[d].local
<1>. DEFINE p == bulkQ[d].process
            a == peerQ[d].answered
<1>1. /\ p \in Nat /\ a \in Nat /\ peerQ[d].remote \in Nat
      /\ a <= peerQ[d].remote /\ peerQ[d].remote <= bulkQ[d].local_insert
      /\ bulkQ[d].local_insert \in Nat
  BY QueueFacts DEF OutcomeInv, PeerTypeInv, Peer, PeerInv, PeerOf
<1>2. 1 \in 1..Len(Answers) /\ num[1] \in Nat
  <2>1. Answers \in Seq(Answer)
    BY CloseFacts
  <2>2. 1 \in 1..Len(Answers)
    BY <2>1
  <2>. QED BY <2>2
<1>. HIDE DEF p, a
<1>3. /\ p <= num[1] /\ num[1] < a
      /\ \A j \in 1..Len(Answers) : 1 < j /\ Of(Answers[j], "DONE", d) => num[1] < num[j]
  BY <1>2 DEF AnswersNumbered, Numbered, p, a
<1>4. PICK i \in 1..Len(Answers) : Of(Answers[i], "DONE", d) /\ num[i] = p
  BY <1>1, <1>2, <1>3 DEF AnswersNumbered, Complete, p, a
<1>5. i = 1
  <2>1. 1 < i => num[1] < num[i]
    BY <1>3, <1>4
  <2>2. ~(1 < i)
    BY <1>1, <1>2, <1>3, <1>4, <2>1
  <2>. QED BY <2>2
<1>6. num[1] = p /\ p < a
  BY <1>3, <1>4, <1>5
<1>7. Answers[1].actual = "done" <=> num[1] < peerQ[d].local
  BY <1>2 DEF AnswersNumbered, Truthful
<1>8. p < bulkQ[d].local_insert
  BY <1>1, <1>6
<1>. QED BY <1>6, <1>7, <1>8 DEF p, a

(* Only the entry of bulk k of direction d changes.                          *)
OtherEntriesKept(d, k) ==
  \A f \in Dirs, n \in Nat :
    f # d \/ BulkIndex(n) # BulkIndex(k) => Entry(f, n)' = Entry(f, n)

ParseEffect(d) ==
  /\ Answers # <<>> /\ Of(Answers[1], "DONE", d) /\ Answers' = Tail(Answers)
  /\ Requests' = Requests /\ UNCHANGED <<peerQ, srv, bulkLog, btAt, btCall>>
  /\ notifier.next = "idle" /\ notifier'.next = "idle"
  /\ bulkQ'[d].local_insert = bulkQ[d].local_insert
  /\ bulkQ'[d].process = bulkQ[d].process + 1 /\ bulkQ'[d].remove = bulkQ[d].remove
  /\ \A f \in Dirs : f # d => IndexesKept(f)
  /\ \A n \in Nat : n = bulkQ[d].process => Entry(d, n)'.actual = Answers[1].actual
  /\ OtherEntriesKept(d, bulkQ[d].process)
  /\ \A u \in BulkThreads : ~Filling(u)

LEMMA ParseEffects ==
  ASSUME IInv, OutcomeInv, ParseBulkDone
  PROVE  \E d \in Dirs : ParseEffect(d)
<1>1. TypeInv /\ HandlerInv /\ Answers \in Seq(Answer)
  BY CloseFacts DEF IInv
<1>2. /\ Answers # <<>> /\ Head(Answers).type = "DONE" /\ notifier.next = "idle"
      /\ bulkMsgs' = [bulkMsgs EXCEPT !.slave = Tail(@)] /\ bulkMutex = NoWaiter
      /\ UNCHANGED <<peerQ, srv, bulkLog, btAt, btCall>>
  BY DEF ParseBulkDone, HandlerIdle, Received, PopSlave, Answers
<1>3. Head(Answers) = Answers[1] /\ Answers[1] \in Answer
  BY <1>1, <1>2
<1>4. PICK d \in Dirs : d = Answers[1].dir
  BY <1>2, <1>3 DEF Answer
<1>5. Of(Answers[1], "DONE", d) /\ Answers[1].actual \in {"done", "aborted"}
  BY <1>2, <1>3, <1>4 DEF Of, Answer
<1>6. Answers' = Tail(Answers) /\ Requests' = Requests
  BY <1>2, CloseFacts DEF Answers, Requests
<1>7. /\ bulkQ[d].process < bulkQ[d].local_insert
      /\ bulkQ[d].remote_insert = bulkQ[d].process
  <2>1. PICK num \in [1..Len(Answers) -> Nat] :
          AnswersNumbered(Answers, num, d, peerQ[d], bulkQ[d])
    BY DEF OutcomeInv, AnswerInv
  <2>. QED BY <1>2, <1>5, <2>1, DoneIsNext DEF IInv, RingInv, Ordered
<1>8. PICK p \in Nat : p = bulkQ[d].process
  BY QueueFacts
<1>. DEFINE q == bulkQ[d]
            i == BulkIndex(p)
            e == [q.bulks[i] EXCEPT !.actual = Answers[1].actual]
            bs == [q.bulks EXCEPT ![i] = e]
            w == Answered(q, bs, p + 1, p + 1)
<1>9. /\ bulkQ' = [bulkQ EXCEPT ![d].bulks[i].actual = Answers[1].actual,
                                ![d].remote_insert = @ + 1, ![d].process = @ + 1]
      /\ notifier' = [notifier EXCEPT !.dirs = <<d>>]
  <2>1. ~(bulkQ[d].remote_insert >= bulkQ[d].local_insert)
    BY <1>7, QueueFacts
  <2>. QED BY <1>3, <1>4, <1>7, <1>8, <2>1 DEF ParseBulkDone, Received, Answers
<1>10. /\ q \in Queue /\ i \in 0..(NumBulks - 1) /\ q.bulks[i] \in BulkEntry
       /\ q.bulks \in [0..(NumBulks - 1) -> BulkEntry]
  BY <1>8, QueueFacts, IndexInRing DEF Queue
<1>11. e \in BulkEntry /\ e.actual = Answers[1].actual
  BY <1>5, <1>10 DEF BulkEntry
<1>12. bulkQ' = [bulkQ EXCEPT ![d] = w]
  BY <1>7, <1>8, <1>9 DEF Answered
<1>. HIDE DEF e, q, i
<1>13. /\ bs \in [0..(NumBulks - 1) -> BulkEntry] /\ bs[i] = e
       /\ \A j \in 0..(NumBulks - 1) : j # i => bs[j] = q.bulks[j]
  BY <1>10, <1>11
<1>. HIDE DEF bs
<1>14. /\ w \in Queue /\ w.bulks = bs /\ w.remove = q.remove /\ w.process = p + 1
       /\ w.local_insert = q.local_insert
  <2>1. PICK m \in Nat : m = p + 1
    BY <1>8
  <2>2. w = Answered(q, bs, m, m)
    BY <2>1
  <2>3. /\ Answered(q, bs, m, m) \in Queue /\ Answered(q, bs, m, m).bulks = bs
        /\ Answered(q, bs, m, m).remove = q.remove
        /\ Answered(q, bs, m, m).process = m
        /\ Answered(q, bs, m, m).local_insert = q.local_insert
    BY <1>10, <1>13, QueueAnswered
  <2>. HIDE DEF w
  <2>. QED BY <2>1, <2>2, <2>3
<1>. HIDE DEF w
<1>15. bulkQ'[d] = w /\ \A f \in Dirs : f # d => bulkQ'[f] = bulkQ[f]
  BY <1>1, <1>12 DEF TypeInv
<1>16. /\ Entry(d, p)'.actual = Answers[1].actual
       /\ OtherEntriesKept(d, p)
  <2>1. \A n \in Nat : BulkIndex(n) \in 0..(NumBulks - 1)
    BY IndexInRing
  <2>2. Entry(d, p)' = e
    BY <1>13, <1>14, <1>15 DEF Entry, i
  <2>3. \A n \in Nat : BulkIndex(n) # i => Entry(d, n)' = Entry(d, n)
    BY <1>13, <1>14, <1>15, <2>1 DEF Entry, q
  <2>4. \A f \in Dirs, n \in Nat : f # d => Entry(f, n)' = Entry(f, n)
    BY <1>15 DEF Entry
  <2>. QED BY <1>11, <2>2, <2>3, <2>4 DEF OtherEntriesKept, i
<1>17. \A u \in BulkThreads : ~Filling(u)
  BY <1>2, BulkAssumption DEF IInv, FillInv, FillOf
<1>18. notifier'.next = "idle"
  BY <1>1, <1>2, <1>9 DEF HandlerInv
<1>19. /\ bulkQ'[d].local_insert = bulkQ[d].local_insert
       /\ bulkQ'[d].process = bulkQ[d].process + 1
       /\ bulkQ'[d].remove = bulkQ[d].remove
       /\ \A f \in Dirs : f # d => IndexesKept(f)
  BY <1>8, <1>14, <1>15 DEF IndexesKept, q
<1>20. /\ \A n \in Nat : n = bulkQ[d].process
                          => Entry(d, n)'.actual = Answers[1].actual
       /\ OtherEntriesKept(d, bulkQ[d].process)
  BY <1>8, <1>16
<1>. QED BY <1>2, <1>5, <1>6, <1>17, <1>18, <1>19, <1>20 DEF ParseEffect

(* notify_bulks: nothing is left to report of a direction, or one bulk is.   *)
ReportEffect(d) ==
  /\ bulkQ[d].remove < bulkQ[d].process /\ bulkQ'[d].remove = bulkQ[d].remove + 1
  /\ bulkQ'[d].local_insert = bulkQ[d].local_insert
  /\ bulkQ'[d].process = bulkQ[d].process
  /\ \A f \in Dirs : f # d => IndexesKept(f)
  /\ bulkLog'.told = [bulkLog.told EXCEPT
                       ![d] = Append(@, [to |-> Entry(d, bulkQ[d].remove).userdata,
                                         actual |-> Entry(d, bulkQ[d].remove).actual])]
  /\ UNCHANGED notifier

NotifyEffect(d) ==
  /\ notifier.dirs # <<>> /\ d = Head(notifier.dirs)
  /\ UNCHANGED <<peerQ, srv, bulkMsgs, btAt, btCall>>
  /\ notifier'.next = notifier.next
  /\ bulkLog'.asked = bulkLog.asked /\ bulkLog'.late = bulkLog.late
  /\ bulkLog'.taken = bulkLog.taken
  /\ \A f \in Dirs, n \in Nat : Entry(f, n)' = Entry(f, n)
  /\ \/ /\ bulkQ[d].remove = bulkQ[d].process /\ UNCHANGED <<bulkQ, bulkLog>>
        /\ notifier'.dirs = Tail(notifier.dirs)
     \/ ReportEffect(d)

LEMMA NotifyEffects ==
  ASSUME IInv, OutcomeInv, NotifyBulks
  PROVE  \E d \in Dirs : NotifyEffect(d)
<1>1. /\ TypeInv /\ HandlerInv
      /\ bulkLog = [asked |-> bulkLog.asked, told |-> bulkLog.told,
                    late |-> bulkLog.late, taken |-> bulkLog.taken]
  BY DEF IInv, TypeInv
<1>2. notifier.dirs # <<>> /\ UNCHANGED <<peerQ, srv, bulkMsgs, btAt, btCall>>
  BY DEF NotifyBulks
<1>3. Head(notifier.dirs) \in Dirs
  BY <1>1, <1>2 DEF HandlerInv, Orders, DirOrder, Dirs
<1>4. PICK d \in Dirs : d = Head(notifier.dirs)
  BY <1>3
<1>5. CASE NothingToNotify(d)
  <2>1. /\ bulkQ[d].remove = bulkQ[d].process /\ UNCHANGED <<bulkQ, bulkLog>>
        /\ notifier' = [dirs |-> Tail(notifier.dirs), next |-> notifier.next]
    BY <1>1, <1>5 DEF NothingToNotify, HandlerInv
  <2>. QED BY <1>2, <1>4, <2>1 DEF NotifyEffect, Entry
<1>6. CASE /\ bulkQ[d].remove # bulkQ[d].process
           /\ TellClient(d) /\ UNCHANGED notifier
  <2>. DEFINE q == bulkQ[d]
              b == Entry(d, q.remove)
              w == Notified(q, q.process, q.remove + 1)
  <2>1. /\ q \in Queue /\ q.remove < q.process /\ q.remove \in Nat /\ q.process \in Nat
    BY <1>6, QueueFacts
  <2>2. bulkQ' = [bulkQ EXCEPT ![d] = w]
    BY <1>6 DEF TellClient, Notified
  <2>3. /\ w.bulks = q.bulks /\ w.remove = q.remove + 1 /\ w.process = q.process
        /\ w.local_insert = q.local_insert
    <3>. HIDE DEF q, b
    <3>1. q.remove + 1 \in Nat
      BY <2>1
    <3>. QED BY <2>1, <3>1, QueueNotified, ZenonT(30)
  <2>. HIDE DEF w
  <2>4. bulkQ'[d] = w /\ \A f \in Dirs : f # d => bulkQ'[f] = bulkQ[f]
    BY <1>1, <2>2 DEF TypeInv
  <2>5. \A f \in Dirs, n \in Nat : Entry(f, n)' = Entry(f, n)
    BY <2>3, <2>4 DEF Entry
  <2>6. bulkLog' = [bulkLog EXCEPT
                     !.told[d] = Append(@, [to |-> b.userdata, actual |-> b.actual])]
    BY <1>6 DEF TellClient, Entry
  <2>. HIDE DEF b
  <2>7. /\ bulkLog'.asked = bulkLog.asked /\ bulkLog'.late = bulkLog.late
        /\ bulkLog'.taken = bulkLog.taken
        /\ bulkLog'.told = [bulkLog.told EXCEPT
                             ![d] = Append(@, [to |-> b.userdata, actual |-> b.actual])]
    BY <1>1, <2>6
  <2>8. ReportEffect(d)
    BY <1>6, <2>1, <2>3, <2>4, <2>7 DEF ReportEffect, IndexesKept, b
  <2>. QED BY <1>2, <1>4, <1>6, <2>5, <2>7, <2>8 DEF NotifyEffect
<1>7. \/ NothingToNotify(d)
      \/ bulkQ[d].remove # bulkQ[d].process /\ TellClient(d) /\ UNCHANGED notifier
  BY <1>4 DEF NotifyBulks
<1>. QED BY <1>5, <1>6, <1>7

LockEffect(t, d) ==
  /\ UNCHANGED <<peerQ, srv, bulkMsgs, notifier, bulkLog, btCall>>
  /\ \A f \in Dirs : IndexesKept(f)
  /\ bulkQ[d].local_insert < bulkQ[d].remove + NumBulks
  /\ \A n \in Nat : n = bulkQ[d].local_insert => Entry(d, n)'.actual = "aborted"
  /\ OtherEntriesKept(d, bulkQ[d].local_insert)
  /\ \A u \in BulkThreads : Filling(u)' => u = t

LEMMA LockEffects ==
  ASSUME IInv, NEW t \in BulkThreads, TransferLock(t)
  PROVE  \/ /\ UNCHANGED <<peerQ, srv, bulkMsgs, notifier, bulkLog, bulkQ, btCall>>
            /\ \A u \in BulkThreads : ~Filling(u)'
         \/ \E d \in Dirs : d = btCall[t].dir /\ LockEffect(t, d)
<1>2. TypeInv /\ btCall[t] \in Call
  BY DEF IInv, TypeInv
<1>3. PICK d \in Dirs : d = btCall[t].dir
  BY <1>2 DEF Call
<1>4. PICK k \in Nat : k = bulkQ[d].local_insert
  BY QueueFacts
<1>. DEFINE q == bulkQ[d]
            i == BulkIndex(k)
            e == [userdata |-> t, mode |-> btCall[t].mode, actual |-> "aborted"]
<1>1. /\ btAt[t] = "lock" /\ bulkMutex = NoWaiter
      /\ UNCHANGED <<peerQ, srv, btCall, notifier, bulkMsgs, bulkLog>>
      /\ \/ /\ RingFull(q) /\ btAt' = [btAt EXCEPT ![t] = "stall"]
            /\ UNCHANGED <<bulkQ, bulkMutex>>
         \/ /\ ~RingFull(q) /\ btAt' = [btAt EXCEPT ![t] = "slot"]
            /\ bulkQ' = [bulkQ EXCEPT ![d].bulks[i] = e]
  BY <1>3, <1>4 DEF TransferLock, BtGoto
<1>7. \A u \in BulkThreads : ~Filling(u)
  BY <1>1, BulkAssumption DEF IInv, FillInv, FillOf
<1>5. CASE UNCHANGED bulkQ /\ btAt' = [btAt EXCEPT ![t] = "stall"]
  <2>1. \A u \in BulkThreads : ~Filling(u)'
    BY <1>2, <1>5, <1>7 DEF Filling, TypeInv
  <2>. QED BY <1>1, <1>5, <2>1
<1>6. CASE /\ ~RingFull(q) /\ btAt' = [btAt EXCEPT ![t] = "slot"]
           /\ bulkQ' = [bulkQ EXCEPT ![d].bulks[i] = e]
  <2>1. \A u \in BulkThreads : Filling(u)' => u = t
    BY <1>2, <1>6, <1>7 DEF Filling, TypeInv
  <2>2. /\ q \in Queue /\ e \in BulkEntry /\ i \in 0..(NumBulks - 1)
        /\ q.bulks \in [0..(NumBulks - 1) -> BulkEntry]
    BY <1>2, <1>4, QueueFacts, IndexInRing DEF BulkEntry, Call, Queue
  <2>. DEFINE w == [q EXCEPT !.bulks = [@ EXCEPT ![i] = e]]
  <2>3. bulkQ' = [bulkQ EXCEPT ![d] = w]
    BY <1>6
  <2>. HIDE DEF e, i, q
  <2>4. /\ w.bulks = [q.bulks EXCEPT ![i] = e] /\ w.remove = q.remove
        /\ w.process = q.process /\ w.local_insert = q.local_insert
    BY <2>2 DEF Queue
  <2>. HIDE DEF w
  <2>5. bulkQ'[d] = w /\ \A f \in Dirs : f # d => bulkQ'[f] = bulkQ[f]
    BY <1>2, <2>3 DEF TypeInv
  <2>6. w.bulks[i] = e /\ \A j \in 0..(NumBulks - 1) : j # i => w.bulks[j] = q.bulks[j]
    BY <2>2, <2>4
  <2>7. Entry(d, k)'.actual = "aborted"
    BY <2>5, <2>6 DEF Entry, e, i
  <2>8. OtherEntriesKept(d, k)
    <3>1. \A n \in Nat : BulkIndex(n) \in 0..(NumBulks - 1)
      BY IndexInRing
    <3>2. \A n \in Nat : BulkIndex(n) # i => Entry(d, n)' = Entry(d, n)
      BY <2>5, <2>6, <3>1 DEF Entry, q
    <3>3. \A f \in Dirs, n \in Nat : f # d => Entry(f, n)' = Entry(f, n)
      BY <2>5 DEF Entry
    <3>. QED BY <3>2, <3>3 DEF OtherEntriesKept, i
  <2>9. bulkQ[d].local_insert < bulkQ[d].remove + NumBulks
    <3>1. bulkQ[d].local_insert # bulkQ[d].remove + NumBulks
      BY <1>6 DEF RingFull, q
    <3>2. /\ bulkQ[d].local_insert <= bulkQ[d].remove + NumBulks /\ NumBulks \in Nat
          /\ bulkQ[d].local_insert \in Nat /\ bulkQ[d].remove \in Nat
      BY QueueFacts
    <3>. QED BY ONLY <3>1, <3>2
  <2>10. \A f \in Dirs : IndexesKept(f)
    BY <2>4, <2>5 DEF IndexesKept, q
  <2>11. /\ \A n \in Nat : n = bulkQ[d].local_insert => Entry(d, n)'.actual = "aborted"
         /\ OtherEntriesKept(d, bulkQ[d].local_insert)
    BY <1>4, <2>7, <2>8
  <2>12. LockEffect(t, d)
    BY <1>1, <2>1, <2>9, <2>10, <2>11 DEF LockEffect
  <2>. QED BY <1>3, <2>12
<1>. QED BY <1>1, <1>5, <1>6

ForgetEffect ==
  /\ UNCHANGED <<peerQ, srv, bulkMsgs, notifier, btCall>>
  /\ \A f \in Dirs : IndexesKept(f)
  /\ \A f \in Dirs, n \in Nat : Entry(f, n)'.actual = Entry(f, n).actual
  /\ \A u \in BulkThreads : Filling(u)' => Filling(u)
  /\ bulkLog'.asked = bulkLog.asked /\ bulkLog'.told = bulkLog.told
  /\ bulkLog'.late = bulkLog.late /\ bulkLog.taken \subseteq bulkLog'.taken

LEMMA ForgetEffects ==
  ASSUME IInv, NEW t \in BulkThreads, TransferForget(t)
  PROVE  ForgetEffect
<1>1. TypeInv /\ btCall[t] \in Call
  BY DEF IInv, TypeInv
<1>2. PICK d \in Dirs, m \in Nat : d = btCall[t].dir /\ m = btCall[t].bulk
  BY <1>1 DEF Call
<1>3. PICK i \in 0..(NumBulks - 1) : i = BulkIndex(m)
  BY <1>2, IndexInRing
<1>. DEFINE q == bulkQ[d]
            now == CHOOSE n \in q.remove..(q.remove + NumBulks - 1) : BulkIndex(n) = i
            e == [q.bulks[i] EXCEPT !.userdata = NoWaiter]
            w == [q EXCEPT !.bulks = [q.bulks EXCEPT ![i] = e]]
<1>4. /\ btAt[t] = "wait" /\ btAt' = [btAt EXCEPT ![t] = "idle"]
      /\ bulkQ' = [bulkQ EXCEPT ![d].bulks[i].userdata = NoWaiter]
      /\ bulkLog' = [bulkLog EXCEPT
                       !.taken = IF q.bulks[i].userdata \in {t, NoWaiter}
                                 THEN @ ELSE @ \union {<<d, now>>}]
      /\ UNCHANGED <<peerQ, srv, btCall, notifier, bulkMsgs>>
  BY <1>2, <1>3 DEF TransferForget, BtGoto
<1>5. /\ q \in Queue /\ q.bulks[i] \in BulkEntry
      /\ q.bulks \in [0..(NumBulks - 1) -> BulkEntry]
  BY QueueFacts DEF Queue
<1>6. e.actual = q.bulks[i].actual
  BY <1>5 DEF BulkEntry
<1>7. bulkQ' = [bulkQ EXCEPT ![d] = w]
  BY <1>4
<1>. HIDE DEF e, q
<1>8. /\ w.bulks = [q.bulks EXCEPT ![i] = e] /\ w.remove = q.remove
      /\ w.process = q.process /\ w.local_insert = q.local_insert
  BY <1>5 DEF Queue
<1>. HIDE DEF w
<1>9. bulkQ'[d] = w /\ \A f \in Dirs : f # d => bulkQ'[f] = bulkQ[f]
  BY <1>1, <1>7 DEF TypeInv
<1>10. \A j \in 0..(NumBulks - 1) : w.bulks[j].actual = q.bulks[j].actual
  BY <1>5, <1>6, <1>8
<1>11. \A f \in Dirs, n \in Nat : Entry(f, n)'.actual = Entry(f, n).actual
  <2>1. \A n \in Nat : BulkIndex(n) \in 0..(NumBulks - 1)
    BY IndexInRing
  <2>. QED BY <1>9, <1>10, <2>1 DEF Entry, q
<1>12. /\ bulkLog'.asked = bulkLog.asked /\ bulkLog'.told = bulkLog.told
       /\ bulkLog'.late = bulkLog.late /\ bulkLog.taken \subseteq bulkLog'.taken
  <2>1. bulkLog = [asked |-> bulkLog.asked, told |-> bulkLog.told,
                   late |-> bulkLog.late, taken |-> bulkLog.taken]
    BY <1>1 DEF TypeInv
  <2>. HIDE DEF now
  <2>. QED BY <1>4, <2>1
<1>13. \A u \in BulkThreads : Filling(u)' => Filling(u)
  BY <1>1, <1>4 DEF TypeInv, Filling
<1>14. \A f \in Dirs : IndexesKept(f)
  BY <1>8, <1>9 DEF IndexesKept, q
<1>. QED BY <1>4, <1>11, <1>12, <1>13, <1>14 DEF ForgetEffect

(* CLOSE from the master: nothing is left to be answered.                    *)
AbortEffect ==
  /\ UNCHANGED <<peerQ, srv, bulkMsgs, btAt, btCall>>
  /\ notifier' = [dirs |-> DirOrder,
                  next |-> IF srv.slave = "OPEN" THEN "sendClose" ELSE "complete"]
  /\ Answers # <<>> /\ Answers[1].type = "CLOSE"
  /\ \A f \in Dirs : /\ bulkQ'[f].local_insert = bulkQ[f].local_insert
                     /\ bulkQ'[f].process = bulkQ[f].local_insert
                     /\ bulkQ'[f].remove = bulkQ[f].remove
  /\ \A f \in Dirs, n \in Nat : Entry(f, n)' = Entry(f, n)
  /\ \A u \in BulkThreads : ~Filling(u)
  /\ bulkLog'.asked = bulkLog.asked /\ bulkLog'.told = bulkLog.told
  /\ bulkLog'.taken = bulkLog.taken

LEMMA AbortEffects ==
  ASSUME IInv, OutcomeInv, CloseReceived
  PROVE  AbortEffect
<1>1. /\ UNCHANGED <<peerQ, srv, bulkMsgs, btAt, btCall>> /\ bulkMutex = NoWaiter
      /\ notifier' = [dirs |-> DirOrder,
                      next |-> IF srv.slave = "OPEN" THEN "sendClose" ELSE "complete"]
      /\ Answers # <<>> /\ Head(Answers).type = "CLOSE"
      /\ bulkQ' = [d \in Dirs |-> Aborted(bulkQ[d])]
      /\ bulkLog' = [bulkLog EXCEPT !.late = {}]
  BY DEF CloseReceived, Answers, Received
<1>2. Answers[1].type = "CLOSE"
  BY <1>1, CloseFacts
<1>3. \A f \in Dirs : /\ bulkQ'[f].bulks = bulkQ[f].bulks
                      /\ bulkQ'[f].local_insert = bulkQ[f].local_insert
                      /\ bulkQ'[f].process = bulkQ[f].local_insert
                      /\ bulkQ'[f].remove = bulkQ[f].remove
  <2>1. \A f \in Dirs : bulkQ[f] \in Queue /\ bulkQ'[f] = Aborted(bulkQ[f])
    BY <1>1, QueueFacts
  <2>. QED BY <2>1 DEF Aborted, Queue
<1>4. \A u \in BulkThreads : ~Filling(u)
  BY <1>1, BulkAssumption DEF IInv, FillInv, FillOf
<1>5. /\ bulkLog'.asked = bulkLog.asked /\ bulkLog'.told = bulkLog.told
      /\ bulkLog'.taken = bulkLog.taken
  <2>1. bulkLog = [asked |-> bulkLog.asked, told |-> bulkLog.told,
                   late |-> bulkLog.late, taken |-> bulkLog.taken]
    BY DEF IInv, TypeInv
  <2>. QED BY <1>1, <2>1
<1>. QED BY <1>1, <1>2, <1>3, <1>4, <1>5 DEF AbortEffect, Entry

(* Steps that leave indexes, entries, messages, and both sides as they are.  *)
StillEffect ==
  /\ UNCHANGED <<peerQ, bulkQ, bulkLog, bulkMsgs, notifier, srv>>
  /\ \A u \in BulkThreads : Filling(u)' => Filling(u) /\ btCall'[u] = btCall[u]

LEMMA StillEffects ==
  ASSUME IInv, UNCHANGED bulkVars \/ \E t \in BulkThreads :
                 TransferCall(t) \/ TransferStalled(t) \/ TransferSlot(t)
  PROVE  StillEffect
<1>1. /\ btAt \in [BulkThreads -> {"idle", "lock", "stall", "slot", "send", "wait"}]
      /\ btCall \in [BulkThreads -> Call]
  BY DEF IInv, TypeInv
<1>2. CASE UNCHANGED bulkVars
  BY <1>2 DEF bulkVars, StillEffect, Filling
<1>3. ASSUME NEW t \in BulkThreads, TransferCall(t) PROVE StillEffect
  <2>1. /\ btAt[t] = "idle" /\ btAt' = [btAt EXCEPT ![t] = "lock"]
        /\ \E c : btCall' = [btCall EXCEPT ![t] = c]
        /\ UNCHANGED <<peerQ, bulkQ, bulkLog, bulkMsgs, notifier, srv>>
    BY <1>3 DEF TransferCall, BtGoto
  <2>. QED BY <1>1, <2>1 DEF StillEffect, Filling
<1>4. ASSUME NEW t \in BulkThreads, TransferStalled(t) \/ TransferSlot(t) PROVE StillEffect
  <2>1. /\ UNCHANGED <<peerQ, bulkQ, bulkLog, bulkMsgs, notifier, srv, btCall>>
        /\ \/ btAt[t] = "stall" /\ btAt' = [btAt EXCEPT ![t] = "lock"]
           \/ btAt[t] = "slot" /\ \E at \in {"send", "idle"} :
                btAt' = [btAt EXCEPT ![t] = at]
    BY <1>4 DEF TransferStalled, TransferSlot, BtGoto
  <2>. QED BY <1>1, <2>1 DEF StillEffect, Filling
<1>. QED BY <1>2, <1>3, <1>4

(* Steps of the slave's slot handler as it closes, and of the master, leave  *)
(* its queues and threads as they are.                                       *)
OutsideEffect ==
  /\ UNCHANGED <<bulkQ, bulkLog, btCall>>
  /\ \A u \in BulkThreads : Filling(u)' = Filling(u)

LEMMA OutsideEffects ==
  ASSUME CloseTerminate \/ CloseAnswer \/ CloseComplete \/ HandlerWoken
           \/ PeerReceive \/ PeerSendClose \/ PeerClose
           \/ \E d \in Dirs : PeerTransfer(d) \/ PeerAnswer(d)
  PROVE  OutsideEffect
<1>1. UNCHANGED <<bulkQ, bulkLog, btCall, btAt>>
  BY DEF CloseTerminate, CloseAnswer, CloseComplete, HandlerWoken, PeerReceive,
         PeerSendClose, PeerClose, PeerTransfer, PeerAnswer, PeerUnchanged
<1>. QED BY <1>1 DEF OutsideEffect, Filling

-----------------------------------------------------------------------------
(* The indexes of the two sides.                                             *)
LEMMA PeerFacts ==
  ASSUME OutcomeInv, NEW d \in Dirs
  PROVE  /\ peerQ[d] \in Peer /\ PeerOf(peerQ[d], bulkQ[d])
         /\ peerQ[d].local \in Nat /\ peerQ[d].remote \in Nat /\ peerQ[d].answered \in Nat
BY DEF OutcomeInv, PeerTypeInv, PeerInv, Peer

LEMMA PeerFrame ==
  ASSUME IInv, OutcomeInv, UNCHANGED peerQ, srv'.master = srv.master,
         NEW d \in Dirs, bulkQ'[d].local_insert \in Nat,
         bulkQ'[d].local_insert >= bulkQ[d].local_insert,
         ~Ended => bulkQ'[d].process = bulkQ[d].process
                     \/ bulkQ'[d].process <= peerQ[d].answered
  PROVE  PeerOf(peerQ[d], bulkQ[d])'
<1>1. /\ PeerOf(peerQ[d], bulkQ[d]) /\ peerQ[d].remote \in Nat
      /\ bulkQ[d].local_insert \in Nat
  BY PeerFacts, QueueFacts
<1>2. peerQ[d].remote <= bulkQ'[d].local_insert
  BY <1>1 DEF PeerOf
<1>3. Ended' <=> Ended
  BY DEF Ended
<1>. QED BY <1>1, <1>2, <1>3 DEF PeerOf

LEMMA PeerInvSlave ==
  ASSUME IInv, IInv', OutcomeInv,
         \/ StillEffect \/ ForgetEffect \/ AbortEffect
         \/ \E t \in BulkThreads : TransferLock(t) \/ TransferSend(t)
         \/ ParseBulkDone \/ NotifyBulks \/ CloseTerminate \/ CloseAnswer \/ CloseComplete
         \/ HandlerWoken
  PROVE  PeerInv'
<1>. SUFFICES ASSUME NEW d \in Dirs PROVE PeerOf(peerQ[d], bulkQ[d])'
  BY DEF PeerInv
<1>1. /\ bulkQ[d].local_insert \in Nat /\ bulkQ[d].process \in Nat
      /\ bulkQ'[d].local_insert \in Nat /\ bulkQ'[d].process \in Nat
      /\ bulkQ[d].process <= bulkQ[d].local_insert
      /\ srv = [slave |-> srv.slave, master |-> srv.master]
  <2>1. \A q \in Queue : q.local_insert \in Nat /\ q.process \in Nat
    BY DEF Queue
  <2>2. bulkQ'[d] \in Queue
    BY DEF IInv, TypeInv
  <2>. QED BY <2>1, <2>2, QueueFacts, CloseFacts
<1>. DEFINE Step ==
       /\ UNCHANGED peerQ /\ srv'.master = srv.master
       /\ bulkQ'[d].local_insert >= bulkQ[d].local_insert
       /\ ~Ended => bulkQ'[d].process = bulkQ[d].process
                      \/ bulkQ'[d].process <= peerQ[d].answered
<1>2. CASE StillEffect \/ ForgetEffect
  <2>1. Step
    BY <1>1, <1>2 DEF StillEffect, ForgetEffect, IndexesKept
  <2>. QED BY <1>1, <2>1, PeerFrame
<1>3. CASE AbortEffect
  <2>1. Ended
    BY <1>3, CloseIsAll DEF AbortEffect
  <2>2. Step
    BY <1>1, <1>3, <2>1 DEF AbortEffect
  <2>. QED BY <1>1, <2>2, PeerFrame
<1>4. ASSUME NEW t \in BulkThreads, TransferLock(t) PROVE PeerOf(peerQ[d], bulkQ[d])'
  <2>1. Step
    BY <1>1, <1>4, LockEffects DEF LockEffect, IndexesKept
  <2>. QED BY <1>1, <2>1, PeerFrame
<1>5. ASSUME NEW t \in BulkThreads, TransferSend(t) PROVE PeerOf(peerQ[d], bulkQ[d])'
  <2>1. PICK f \in Dirs : SendEffect(t, f)
    BY <1>5, SendEffects
  <2>2. Step
    BY <1>1, <2>1 DEF SendEffect, IndexesKept
  <2>. QED BY <1>1, <2>2, PeerFrame
<1>6. CASE ParseBulkDone
  <2>1. PICK f \in Dirs : ParseEffect(f)
    BY <1>6, ParseEffects
  <2>2. bulkQ[f].process < peerQ[f].answered
    <3>1. PICK num \in [1..Len(Answers) -> Nat] :
            AnswersNumbered(Answers, num, f, peerQ[f], bulkQ[f])
      BY DEF OutcomeInv, AnswerInv
    <3>. QED BY <2>1, <3>1, DoneIsNext DEF ParseEffect
  <2>3. /\ UNCHANGED <<peerQ, srv>>
        /\ bulkQ'[d].local_insert = bulkQ[d].local_insert
        /\ d # f => bulkQ'[d].process = bulkQ[d].process
        /\ d = f => bulkQ'[d].process = bulkQ[d].process + 1
    BY <2>1 DEF ParseEffect, IndexesKept
  <2>4. d = f => bulkQ'[d].process <= peerQ[d].answered
    BY <1>1, <2>2, <2>3, PeerFacts
  <2>5. Step
    BY <1>1, <2>3, <2>4
  <2>. QED BY <1>1, <2>5, PeerFrame
<1>7. CASE NotifyBulks
  <2>1. PICK f \in Dirs : NotifyEffect(f)
    BY <1>7, NotifyEffects
  <2>2. Step
    BY <1>1, <2>1 DEF NotifyEffect, ReportEffect, IndexesKept
  <2>. QED BY <1>1, <2>2, PeerFrame
<1>8. CASE CloseTerminate \/ CloseAnswer \/ CloseComplete \/ HandlerWoken
  <2>1. Step
    BY <1>1, <1>8 DEF CloseTerminate, CloseAnswer, CloseComplete, HandlerWoken
  <2>. QED BY <1>1, <2>1, PeerFrame
<1>. QED BY <1>2, <1>3, <1>4, <1>5, <1>6, <1>7, <1>8

LEMMA NextRequest ==
  ASSUME IInv, OutcomeInv, Requests # <<>>, NEW d \in Dirs, Of(Requests[1], "BULK", d)
  PROVE  peerQ[d].remote < bulkQ[d].local_insert
<1>1. 1 \in 1..Len(Requests)
  <2>1. Requests \in Seq(Request)
    BY CloseFacts
  <2>. QED BY <2>1
<1>2. PICK req \in [1..Len(Requests) -> Nat] :
        Numbered(Requests, req, "BULK", d, peerQ[d].remote, bulkQ[d].local_insert)
  BY DEF OutcomeInv, RequestInv
<1>3. /\ peerQ[d].remote <= req[1] /\ req[1] < bulkQ[d].local_insert /\ req[1] \in Nat
  BY <1>1, <1>2 DEF Numbered
<1>4. peerQ[d].remote \in Nat /\ bulkQ[d].local_insert \in Nat
  BY PeerFacts, QueueFacts
<1>. QED BY ONLY <1>3, <1>4

(* The master reads a request of an open service, or its CLOSE, or ignores   *)
(* the request.                                                              *)
ReadEffect(d) ==
  /\ Requests # <<>> /\ Requests' = Tail(Requests) /\ Answers' = Answers
  /\ \/ /\ Of(Requests[1], "BULK", d) /\ UNCHANGED srv
        /\ srv.master \in {"OPEN", "ABORTING"}
        /\ peerQ' = [peerQ EXCEPT ![d].remote = @ + 1]
     \/ /\ Of(Requests[1], "BULK", d) /\ UNCHANGED <<srv, peerQ>>
     \/ /\ Requests[1].type = "CLOSE" /\ UNCHANGED peerQ
        /\ srv'.slave = srv.slave
        /\ srv'.master # "OPEN" /\ (Ended' <=> Ended)

LEMMA ReadEffects ==
  ASSUME IInv, OutcomeInv, PeerReceive
  PROVE  \E d \in Dirs : ReadEffect(d)
<1>1. /\ Requests # <<>>
      /\ bulkMsgs' = [bulkMsgs EXCEPT !.master = Tail(@)]
      /\ \/ /\ Head(Requests).type = "BULK" /\ UNCHANGED srv
            /\ peerQ' = IF srv.master \in {"OPEN", "ABORTING"}
                        THEN [peerQ EXCEPT ![Head(Requests).dir].remote = @ + 1] ELSE peerQ
         \/ /\ Head(Requests).type = "CLOSE" /\ UNCHANGED peerQ
            /\ srv' = [srv EXCEPT !.master =
                         IF @ = "CLOSESENT" THEN "CLOSED" ELSE "ABORTRECVD"]
  BY DEF PeerReceive, Requests
<1>2. /\ Requests \in Seq(Request) /\ ClosesOnce
      /\ srv = [slave |-> srv.slave, master |-> srv.master]
      /\ bulkMsgs = [slave |-> Answers, master |-> Requests]
      /\ srv.master \in {"OPEN", "ABORTING", "ABORTRECVD", "CLOSESENT", "CLOSED"}
  BY CloseFacts
<1>3. Head(Requests) = Requests[1] /\ Requests[1] \in Request /\ 1 \in 1..Len(Requests)
  BY <1>1, <1>2
<1>4. Requests' = Tail(Requests) /\ Answers' = Answers
  BY <1>1, <1>2 DEF Requests, Answers
<1>5. CASE Requests[1].type = "BULK"
  <2>1. PICK d \in Dirs : d = Requests[1].dir
    BY <1>3, <1>5 DEF Request
  <2>2. /\ UNCHANGED srv /\ Of(Requests[1], "BULK", d)
        /\ peerQ' = IF srv.master \in {"OPEN", "ABORTING"}
                    THEN [peerQ EXCEPT ![d].remote = @ + 1] ELSE peerQ
    BY <1>1, <1>3, <1>5, <2>1 DEF Of
  <2>. QED BY <1>1, <1>4, <2>2 DEF ReadEffect
<1>6. CASE Requests[1].type # "BULK"
  <2>1. /\ Requests[1].type = "CLOSE" /\ UNCHANGED peerQ
        /\ srv' = [srv EXCEPT !.master =
                     IF @ = "CLOSESENT" THEN "CLOSED" ELSE "ABORTRECVD"]
    BY <1>1, <1>3, <1>6
  <2>2. srv.master \notin {"ABORTRECVD", "CLOSED"}
    BY <1>2, <1>3, <2>1 DEF ClosesOnce
  <2>3. /\ srv'.slave = srv.slave /\ srv'.master # "OPEN" /\ (Ended' <=> Ended)
    BY <1>2, <2>1, <2>2 DEF Ended
  <2>4. ReadEffect("tx")
    BY <1>1, <1>4, <2>1, <2>3 DEF ReadEffect
  <2>. QED BY <2>4 DEF Dirs
<1>. QED BY <1>5, <1>6

(* The master answers, and ends.                                             *)
AnswerEffect(d, m) ==
  /\ peerQ[d].answered < peerQ[d].remote
  /\ peerQ[d].answered < peerQ[d].local \/ srv.master # "OPEN"
  /\ Of(m, "DONE", d) /\ m \in Answer
  /\ m.actual = "done" <=> peerQ[d].answered < peerQ[d].local
  /\ Answers' = Append(Answers, m) /\ Requests' = Requests
  /\ peerQ' = [peerQ EXCEPT ![d].answered = @ + 1]
  /\ UNCHANGED srv

LEMMA AnswerEffects ==
  ASSUME IInv, OutcomeInv, NEW d \in Dirs, PeerAnswer(d)
  PROVE  \E m \in Answer : AnswerEffect(d, m)
<1>. DEFINE a == IF peerQ[d].answered < peerQ[d].local THEN "done" ELSE "aborted"
            m == [type |-> "DONE", dir |-> d, actual |-> a]
<1>1. /\ peerQ[d].answered < peerQ[d].remote
      /\ peerQ[d].answered < peerQ[d].local \/ srv.master \in {"ABORTING", "ABORTRECVD"}
      /\ bulkMsgs' = [bulkMsgs EXCEPT !.slave = Append(@, m)]
      /\ UNCHANGED srv
  BY DEF PeerAnswer, SendTo
<1>2. peerQ' = [peerQ EXCEPT ![d].answered = @ + 1]
  BY DEF PeerAnswer
<1>3. /\ m \in Answer /\ Of(m, "DONE", d)
      /\ m.actual = "done" <=> peerQ[d].answered < peerQ[d].local
  BY DEF Answer, Of
<1>. HIDE DEF m
<1>4. Answers' = Append(Answers, m) /\ Requests' = Requests
  BY <1>1, CloseFacts DEF Answers, Requests
<1>5. AnswerEffect(d, m)
  BY <1>1, <1>2, <1>3, <1>4 DEF AnswerEffect
<1>. QED BY <1>3, <1>5

EndEffect ==
  /\ \A d \in Dirs : peerQ[d].answered = peerQ[d].remote
  /\ UNCHANGED peerQ /\ ~Ended /\ Ended' /\ srv'.slave = srv.slave
  /\ Answers' = Append(Answers, [type |-> "CLOSE"]) /\ Requests' = Requests

LEMMA EndEffects ==
  ASSUME IInv, OutcomeInv, PeerSendClose
  PROVE  EndEffect
<1>1. /\ \A d \in Dirs : peerQ[d].answered = peerQ[d].remote
      /\ UNCHANGED peerQ /\ srv.master \in {"ABORTING", "ABORTRECVD"}
      /\ bulkMsgs' = [bulkMsgs EXCEPT !.slave = Append(@, [type |-> "CLOSE"])]
      /\ srv' = [srv EXCEPT !.master = IF @ = "ABORTING" THEN "CLOSESENT" ELSE "CLOSED"]
  BY DEF PeerSendClose, SendTo
<1>2. ~Ended /\ Ended' /\ srv'.slave = srv.slave
  BY <1>1, CloseFacts DEF Ended
<1>3. Answers' = Append(Answers, [type |-> "CLOSE"]) /\ Requests' = Requests
  BY <1>1, CloseFacts DEF Answers, Requests
<1>. QED BY <1>1, <1>2, <1>3 DEF EndEffect

LEMMA PeerInvPeer ==
  ASSUME IInv, OutcomeInv,
         PeerReceive \/ PeerSendClose \/ PeerClose
           \/ \E d \in Dirs : PeerTransfer(d) \/ PeerAnswer(d)
  PROVE  PeerInv'
<1>. SUFFICES ASSUME NEW d \in Dirs PROVE PeerOf(peerQ[d], bulkQ[d])'
  BY DEF PeerInv
<1>1. /\ PeerOf(peerQ[d], bulkQ[d]) /\ peerQ \in [Dirs -> Peer] /\ peerQ[d] \in Peer
      /\ peerQ[d].local \in Nat /\ peerQ[d].remote \in Nat /\ peerQ[d].answered \in Nat
      /\ bulkQ[d].local_insert \in Nat /\ bulkQ[d].process \in Nat
      /\ srv = [slave |-> srv.slave, master |-> srv.master]
  BY PeerFacts, QueueFacts, CloseFacts DEF OutcomeInv, PeerTypeInv
<1>2. bulkQ' = bulkQ
  BY OutsideEffects DEF OutsideEffect
<1>3. CASE PeerReceive
  <2>1. PICK f \in Dirs : ReadEffect(f)
    BY <1>3, ReadEffects
  <2>2. CASE /\ Of(Requests[1], "BULK", f) /\ UNCHANGED srv
             /\ srv.master \in {"OPEN", "ABORTING"}
             /\ peerQ' = [peerQ EXCEPT ![f].remote = @ + 1]
    <3>1. /\ peerQ'[d].local = peerQ[d].local /\ peerQ'[d].answered = peerQ[d].answered
          /\ peerQ'[d].remote = IF d = f THEN peerQ[d].remote + 1 ELSE peerQ[d].remote
      BY <1>1, <2>2 DEF Peer
    <3>2. d = f => peerQ[d].remote < bulkQ[d].local_insert
      BY <2>1, <2>2, NextRequest DEF ReadEffect
    <3>3. ~Ended /\ (Ended' <=> Ended)
      BY <2>2 DEF Ended
    <3>. QED BY <1>1, <1>2, <2>2, <3>1, <3>2, <3>3 DEF PeerOf
  <2>3. CASE UNCHANGED peerQ /\ (Ended' <=> Ended) /\ (UNCHANGED srv \/ srv'.master # "OPEN")
    BY <1>1, <1>2, <2>3 DEF PeerOf
  <2>4. UNCHANGED srv => (Ended' <=> Ended)
    BY DEF Ended
  <2>. QED BY <2>1, <2>2, <2>3, <2>4 DEF ReadEffect
<1>4. CASE PeerSendClose
  <2>1. EndEffect
    BY <1>4, EndEffects
  <2>2. srv'.master # "OPEN"
    BY <2>1 DEF EndEffect, Ended
  <2>. QED BY <1>1, <1>2, <2>1, <2>2 DEF EndEffect, PeerOf
<1>5. CASE PeerClose
  <2>1. UNCHANGED peerQ /\ srv.master = "OPEN" /\ srv'.master = "ABORTING"
    BY <1>1, <1>5 DEF PeerClose
  <2>. QED BY <1>1, <1>2, <2>1 DEF PeerOf, Ended
<1>6. ASSUME NEW f \in Dirs, PeerTransfer(f) PROVE PeerOf(peerQ[d], bulkQ[d])'
  <2>1. /\ peerQ[f].local < peerQ[f].remote /\ UNCHANGED srv
        /\ peerQ' = [peerQ EXCEPT ![f].local = @ + 1]
    BY <1>6 DEF PeerTransfer
  <2>2. /\ peerQ'[d].remote = peerQ[d].remote /\ peerQ'[d].answered = peerQ[d].answered
        /\ peerQ'[d].local = IF d = f THEN peerQ[d].local + 1 ELSE peerQ[d].local
    BY <1>1, <2>1 DEF Peer
  <2>. QED BY <1>1, <1>2, <2>1, <2>2 DEF PeerOf, Ended
<1>7. ASSUME NEW f \in Dirs, PeerAnswer(f) PROVE PeerOf(peerQ[d], bulkQ[d])'
  <2>1. PICK m \in Answer : AnswerEffect(f, m)
    BY <1>7, AnswerEffects
  <2>2. /\ peerQ'[d].remote = peerQ[d].remote /\ peerQ'[d].local = peerQ[d].local
        /\ peerQ'[d].answered = IF d = f THEN peerQ[d].answered + 1 ELSE peerQ[d].answered
    BY <1>1, <2>1 DEF AnswerEffect, Peer
  <2>. QED BY <1>1, <1>2, <2>1, <2>2 DEF AnswerEffect, PeerOf, Ended
<1>. QED BY <1>3, <1>4, <1>5, <1>6, <1>7

LEMMA PeerInvKept ==
  ASSUME IInv, IInv', OutcomeInv, [BulkNext]_bulkVars
  PROVE  PeerInv'
BY PeerInvSlave, PeerInvPeer, StillEffects, ForgetEffects, AbortEffects
DEF BulkNext, TransferStep, SlotHandlerStep

-----------------------------------------------------------------------------
(* Requests stay numbered.                                                   *)
LEMMA NumberedWidens ==
  ASSUME NEW S, NEW s \in Seq(S), NEW num \in [1..Len(s) -> Nat], NEW type, NEW d,
         NEW lo \in Nat, NEW hi \in Nat, NEW l \in Nat, NEW h \in Nat, l <= lo, hi <= h,
         Numbered(s, num, type, d, lo, hi)
  PROVE  Numbered(s, num, type, d, l, h)
<1>1. \A i \in 1..Len(s) : num[i] \in Nat
  OBVIOUS
<1>2. \A i \in 1..Len(s) : lo <= num[i] /\ num[i] < hi => l <= num[i] /\ num[i] < h
  BY <1>1
<1>. QED BY <1>2 DEF Numbered

LEMMA BoundsTyped ==
  ASSUME IInv, IInv', OutcomeInv, PeerTypeInv', NEW d \in Dirs
  PROVE  /\ peerQ[d].remote \in Nat /\ peerQ[d].answered \in Nat /\ peerQ[d].local \in Nat
         /\ peerQ'[d].remote \in Nat /\ peerQ'[d].answered \in Nat
         /\ peerQ'[d].local \in Nat
         /\ bulkQ[d].local_insert \in Nat /\ bulkQ[d].process \in Nat
         /\ bulkQ[d].remove \in Nat
         /\ bulkQ'[d].local_insert \in Nat /\ bulkQ'[d].process \in Nat
         /\ bulkQ'[d].remove \in Nat
         /\ peerQ[d].remote <= bulkQ[d].local_insert
         /\ bulkQ'[d].process <= bulkQ'[d].local_insert
<1>1. /\ peerQ[d] \in Peer /\ PeerOf(peerQ[d], bulkQ[d])
      /\ bulkQ[d] \in Queue
  BY PeerFacts, QueueFacts
<1>2. bulkQ'[d] \in Queue /\ peerQ'[d] \in Peer /\ Ordered(bulkQ[d])'
  BY DEF IInv, TypeInv, PeerTypeInv, RingInv
<1>. QED BY <1>1, <1>2 DEF Peer, Queue, PeerOf, Ordered

LEMMA RequestsFrame ==
  ASSUME IInv, IInv', OutcomeInv, PeerTypeInv', Requests' = Requests,
         \A d \in Dirs : /\ peerQ'[d].remote = peerQ[d].remote
                         /\ bulkQ'[d].local_insert = bulkQ[d].local_insert
  PROVE  RequestInv'
<1>1. PICK req \in [1..Len(Requests) -> Nat] : \A d \in Dirs :
        Numbered(Requests, req, "BULK", d, peerQ[d].remote, bulkQ[d].local_insert)
  BY DEF OutcomeInv, RequestInv
<1>2. \A d \in Dirs :
        Numbered(Requests', req, "BULK", d, peerQ'[d].remote, bulkQ'[d].local_insert)
  BY <1>1
<1>. QED BY <1>2 DEF RequestInv

LEMMA RequestsClose ==
  ASSUME IInv, IInv', OutcomeInv, PeerTypeInv',
         Requests' = Append(Requests, [type |-> "CLOSE"]), UNCHANGED <<peerQ, bulkQ>>
  PROVE  RequestInv'
<1>1. PICK req \in [1..Len(Requests) -> Nat] : \A d \in Dirs :
        Numbered(Requests, req, "BULK", d, peerQ[d].remote, bulkQ[d].local_insert)
  BY DEF OutcomeInv, RequestInv
<1>2. Requests \in Seq(Request) /\ [type |-> "CLOSE"] \in Request
  BY CloseFacts DEF Request
<1>3. Extended(req, Len(Requests), 0) \in [1..Len(Requests') -> Nat]
  BY <1>1, <1>2, NumberedExtends, BoundsTyped DEF Dirs
<1>4. ASSUME NEW d \in Dirs
      PROVE  Numbered(Requests', Extended(req, Len(Requests), 0), "BULK", d,
                      peerQ'[d].remote, bulkQ'[d].local_insert)
  <2>1. ~Of([type |-> "CLOSE"], "BULK", d)
    BY DEF Of
  <2>2. Numbered(Append(Requests, [type |-> "CLOSE"]), Extended(req, Len(Requests), 0),
                 "BULK", d, peerQ[d].remote, bulkQ[d].local_insert)
    BY <1>1, <1>2, <2>1, NumberedExtends, BoundsTyped
  <2>. QED BY <2>2
<1>. QED BY <1>3, <1>4 DEF RequestInv

LEMMA RequestsSend ==
  ASSUME IInv, IInv', OutcomeInv, PeerTypeInv', NEW t \in BulkThreads, TransferSend(t)
  PROVE  RequestInv'
<1>1. PICK req \in [1..Len(Requests) -> Nat] : \A d \in Dirs :
        Numbered(Requests, req, "BULK", d, peerQ[d].remote, bulkQ[d].local_insert)
  BY DEF OutcomeInv, RequestInv
<1>2. PICK f \in Dirs : SendEffect(t, f)
  BY SendEffects
<1>3. PICK k \in Nat : k = bulkQ[f].local_insert
  BY QueueFacts
<1>4. PICK m \in Request : m = [type |-> "BULK", dir |-> f]
  BY DEF Request
<1>5. Requests \in Seq(Request) /\ Requests' = Append(Requests, m)
  BY <1>2, <1>4, CloseFacts DEF SendEffect
<1>. DEFINE x == Extended(req, Len(Requests), k)
<1>6. x \in [1..Len(Requests') -> Nat]
  BY <1>1, <1>2, <1>5, NumberedExtends, BoundsTyped
<1>7. ASSUME NEW d \in Dirs
      PROVE  Numbered(Requests', x, "BULK", d, peerQ'[d].remote, bulkQ'[d].local_insert)
  <2>1. Of(m, "BULK", d) <=> d = f
    BY <1>4 DEF Of
  <2>2. /\ peerQ'[d].remote = peerQ[d].remote
        /\ bulkQ'[d].local_insert = IF d = f THEN bulkQ[d].local_insert + 1
                                             ELSE bulkQ[d].local_insert
    BY <1>2 DEF SendEffect, IndexesKept
  <2>. HIDE DEF x
  <2>3. CASE d = f
    <3>1. Numbered(Append(Requests, m), x, "BULK", d, peerQ[d].remote,
                   bulkQ[d].local_insert + 1)
      BY <1>1, <1>3, <1>5, <2>1, <2>3, NumberedExtends, BoundsTyped DEF x
    <3>. QED BY <1>5, <2>2, <2>3, <3>1
  <2>4. CASE d # f
    <3>1. Numbered(Append(Requests, m), x, "BULK", d, peerQ[d].remote,
                   bulkQ[d].local_insert)
      BY <1>1, <1>5, <2>1, <2>4, NumberedExtends, BoundsTyped DEF x
    <3>. QED BY <1>5, <2>2, <2>4, <3>1
  <2>. QED BY <2>3, <2>4
<1>. HIDE DEF x
<1>. QED BY <1>6, <1>7 DEF RequestInv

LEMMA RequestsRead ==
  ASSUME IInv, IInv', OutcomeInv, PeerTypeInv', PeerReceive
  PROVE  RequestInv'
<1>1. PICK req \in [1..Len(Requests) -> Nat] : \A d \in Dirs :
        Numbered(Requests, req, "BULK", d, peerQ[d].remote, bulkQ[d].local_insert)
  BY DEF OutcomeInv, RequestInv
<1>2. PICK f \in Dirs : ReadEffect(f)
  BY ReadEffects
<1>3. /\ Requests \in Seq(Request) /\ Requests # <<>> /\ Requests' = Tail(Requests)
      /\ bulkQ' = bulkQ
  BY <1>2, CloseFacts, OutsideEffects DEF ReadEffect, OutsideEffect
<1>4. /\ Len(Requests) \in Nat /\ 1 \in 1..Len(Requests)
  BY <1>3
<1>. DEFINE x == Shifted(req, Len(Requests))
<1>5. x \in [1..Len(Requests') -> Nat]
  BY <1>1, <1>2, <1>3, NumberedShifts, BoundsTyped
<1>6. \A i \in 1..Len(Requests') : x[i] \in Nat
  BY <1>5
<1>7. ASSUME NEW d \in Dirs
      PROVE  Numbered(Requests', x, "BULK", d, peerQ'[d].remote, bulkQ'[d].local_insert)
  <2>. HIDE DEF x
  <2>1. /\ Numbered(Requests', x, "BULK", d, peerQ[d].remote, bulkQ[d].local_insert)
        /\ Of(Requests[1], "BULK", d) =>
             /\ peerQ[d].remote <= req[1]
             /\ Numbered(Requests', x, "BULK", d, req[1] + 1, bulkQ[d].local_insert)
    BY <1>1, <1>3, NumberedShifts, BoundsTyped DEF x
  <2>2. CASE peerQ'[d].remote = peerQ[d].remote
    BY <1>3, <2>1, <2>2
  <2>3. CASE /\ peerQ'[d].remote = peerQ[d].remote + 1
             /\ Of(Requests[1], "BULK", d)
    <3>1. /\ peerQ[d].remote \in Nat /\ bulkQ[d].local_insert \in Nat /\ req[1] \in Nat
          /\ req[1] + 1 \in Nat /\ peerQ'[d].remote \in Nat
          /\ peerQ'[d].remote <= req[1] + 1
      BY <1>1, <1>4, <2>1, <2>3, BoundsTyped
    <3>2. Requests' \in Seq(Request)
      BY <1>3
    <3>3. Numbered(Requests', x, "BULK", d, peerQ'[d].remote, bulkQ[d].local_insert)
      BY <1>5, <2>1, <2>3, <3>1, <3>2, NumberedWidens
    <3>. QED BY <1>3, <3>3
  <2>4. \/ peerQ'[d].remote = peerQ[d].remote
        \/ peerQ'[d].remote = peerQ[d].remote + 1 /\ Of(Requests[1], "BULK", d)
    <3>1. peerQ \in [Dirs -> Peer]
      BY DEF OutcomeInv, PeerTypeInv
    <3>2. \/ UNCHANGED peerQ
          \/ /\ Of(Requests[1], "BULK", f)
             /\ peerQ' = [peerQ EXCEPT ![f].remote = @ + 1]
      BY <1>2 DEF ReadEffect
    <3>3. ASSUME peerQ' = [peerQ EXCEPT ![f].remote = @ + 1]
          PROVE  peerQ'[d].remote = IF d = f THEN peerQ[d].remote + 1 ELSE peerQ[d].remote
      BY <3>1, <3>3 DEF Peer
    <3>. QED BY <3>2, <3>3
  <2>. QED BY <2>2, <2>3, <2>4
<1>. HIDE DEF x
<1>. QED BY <1>5, <1>7 DEF RequestInv

LEMMA RequestInvKept ==
  ASSUME IInv, IInv', OutcomeInv, PeerTypeInv', [BulkNext]_bulkVars
  PROVE  RequestInv'
<1>1. CASE StillEffect \/ ForgetEffect \/ AbortEffect
  <2>1. /\ Requests' = Requests /\ UNCHANGED peerQ
        /\ \A d \in Dirs : bulkQ'[d].local_insert = bulkQ[d].local_insert
    BY <1>1 DEF StillEffect, ForgetEffect, AbortEffect, IndexesKept, Requests
  <2>. QED BY <2>1, RequestsFrame
<1>2. ASSUME NEW t \in BulkThreads, TransferLock(t) PROVE RequestInv'
  <2>1. /\ Requests' = Requests /\ UNCHANGED peerQ
        /\ \A d \in Dirs : bulkQ'[d].local_insert = bulkQ[d].local_insert
    BY <1>2, LockEffects DEF LockEffect, IndexesKept, Requests
  <2>. QED BY <2>1, RequestsFrame
<1>3. CASE ParseBulkDone \/ NotifyBulks
  <2>1. /\ Requests' = Requests /\ UNCHANGED peerQ
        /\ \A d \in Dirs : bulkQ'[d].local_insert = bulkQ[d].local_insert
    <3>1. CASE ParseBulkDone
      BY <3>1, ParseEffects DEF ParseEffect, IndexesKept
    <3>2. CASE NotifyBulks
      BY <3>2, NotifyEffects DEF NotifyEffect, ReportEffect, IndexesKept, Requests
    <3>. QED BY <1>3, <3>1, <3>2
  <2>. QED BY <2>1, RequestsFrame
<1>4. CASE CloseTerminate \/ CloseAnswer \/ CloseComplete \/ HandlerWoken
  <2>1. UNCHANGED <<peerQ, bulkQ>>
    BY <1>4 DEF CloseTerminate, CloseAnswer, CloseComplete, HandlerWoken
  <2>2. Requests' = Requests \/ Requests' = Append(Requests, [type |-> "CLOSE"])
    BY <1>4, CloseFacts DEF CloseTerminate, CloseAnswer, CloseComplete, HandlerWoken,
                            SendTo, PopSlave, Requests
  <2>. QED BY <2>1, <2>2, RequestsFrame, RequestsClose
<1>5. CASE PeerSendClose \/ PeerClose
  <2>1. /\ Requests' = Requests /\ UNCHANGED <<peerQ, bulkQ>>
    BY <1>5, EndEffects, OutsideEffects DEF EndEffect, PeerClose, OutsideEffect, Requests
  <2>. QED BY <2>1, RequestsFrame
<1>6. ASSUME NEW f \in Dirs, PeerTransfer(f) \/ PeerAnswer(f) PROVE RequestInv'
  <2>1. /\ Requests' = Requests /\ UNCHANGED bulkQ
        /\ \/ peerQ' = [peerQ EXCEPT ![f].local = @ + 1]
           \/ peerQ' = [peerQ EXCEPT ![f].answered = @ + 1]
    <3>1. UNCHANGED bulkQ
      BY <1>6, OutsideEffects DEF OutsideEffect
    <3>2. CASE PeerTransfer(f)
      BY <3>1, <3>2 DEF PeerTransfer, Requests
    <3>3. CASE PeerAnswer(f)
      BY <3>1, <3>3, AnswerEffects DEF AnswerEffect
    <3>. QED BY <1>6, <3>2, <3>3
  <2>2. \A d \in Dirs : peerQ'[d].remote = peerQ[d].remote
    <3>1. peerQ \in [Dirs -> Peer]
      BY DEF OutcomeInv, PeerTypeInv
    <3>2. ASSUME peerQ' = [peerQ EXCEPT ![f].local = @ + 1]
          PROVE  \A d \in Dirs : peerQ'[d].remote = peerQ[d].remote
      BY ONLY <3>1, <3>2 DEF Peer
    <3>3. ASSUME peerQ' = [peerQ EXCEPT ![f].answered = @ + 1]
          PROVE  \A d \in Dirs : peerQ'[d].remote = peerQ[d].remote
      BY ONLY <3>1, <3>3 DEF Peer
    <3>. QED BY <2>1, <3>2, <3>3
  <2>. QED BY <2>1, <2>2, RequestsFrame
<1>. QED BY <1>1, <1>2, <1>3, <1>4, <1>5, <1>6, RequestsSend, RequestsRead,
            StillEffects, ForgetEffects, AbortEffects
  DEF BulkNext, TransferStep, SlotHandlerStep

-----------------------------------------------------------------------------
(* Answers stay numbered, and true.                                          *)
LEMMA AnswersFrame ==
  ASSUME OutcomeInv, Answers' = Answers,
         \A d \in Dirs : /\ peerQ'[d].answered = peerQ[d].answered
                         /\ peerQ'[d].local = peerQ[d].local
                         /\ bulkQ'[d].process = bulkQ[d].process
  PROVE  AnswerInv'
<1>1. PICK num \in [1..Len(Answers) -> Nat] : \A d \in Dirs :
        AnswersNumbered(Answers, num, d, peerQ[d], bulkQ[d])
  BY DEF OutcomeInv, AnswerInv
<1>2. \A d \in Dirs : AnswersNumbered(Answers', num, d, peerQ'[d], bulkQ'[d])
  BY <1>1 DEF AnswersNumbered
<1>. QED BY <1>2 DEF AnswerInv

(* Nothing is left to read but a CLOSE, or nothing.                          *)
LEMMA AnswersNone ==
  ASSUME IInv, IInv', OutcomeInv, PeerTypeInv',
         Answers' \in Seq(Answer),
         \A i \in 1..Len(Answers') : Answers'[i].type # "DONE",
         \A d \in Dirs : peerQ'[d].answered <= bulkQ'[d].process
  PROVE  AnswerInv'
<1>. DEFINE num == [i \in 1..Len(Answers') |-> 0]
<1>1. num \in [1..Len(Answers') -> Nat]
  OBVIOUS
<1>. HIDE DEF num
<1>2. ASSUME NEW d \in Dirs
      PROVE  AnswersNumbered(Answers', num, d, peerQ'[d], bulkQ'[d])
  <2>1. \A i \in 1..Len(Answers') : ~Of(Answers'[i], "DONE", d)
    BY DEF Of
  <2>2. \A n \in Nat : ~(bulkQ'[d].process <= n /\ n < peerQ'[d].answered)
    BY BoundsTyped
  <2>. QED BY <2>1, <2>2 DEF AnswersNumbered, Numbered, Truthful, Complete
<1>. QED BY <1>1, <1>2 DEF AnswerInv

(* Once the CLOSE is at the head every answer has been taken.                *)
LEMMA CloseAllAnswered ==
  ASSUME IInv, OutcomeInv, Answers # <<>>, Answers[1].type = "CLOSE", NEW d \in Dirs
  PROVE  /\ peerQ[d].answered <= bulkQ[d].process
         /\ peerQ[d].local <= bulkQ[d].process
<1>1. Ended /\ Len(Answers) = 1
  BY CloseIsAll
<1>2. PICK num \in [1..Len(Answers) -> Nat] :
        AnswersNumbered(Answers, num, d, peerQ[d], bulkQ[d])
  BY DEF OutcomeInv, AnswerInv
<1>3. \A i \in 1..Len(Answers) : ~Of(Answers[i], "DONE", d)
  BY <1>1 DEF Of
<1>4. /\ bulkQ[d].process \in Nat /\ peerQ[d].answered \in Nat /\ peerQ[d].local \in Nat
      /\ peerQ[d].local <= peerQ[d].remote /\ peerQ[d].answered = peerQ[d].remote
  BY <1>1, PeerFacts, QueueFacts DEF PeerOf
<1>5. ~(bulkQ[d].process < peerQ[d].answered)
  BY <1>2, <1>3, <1>4 DEF AnswersNumbered, Complete
<1>. QED BY <1>4, <1>5

LEMMA AnswersSent ==
  ASSUME IInv, IInv', OutcomeInv, PeerTypeInv', UNCHANGED bulkQ, ~Ended,
         NEW m \in Answer, Answers' = Append(Answers, m),
         \/ m.type = "CLOSE" /\ UNCHANGED peerQ
         \/ \E f \in Dirs : AnswerEffect(f, m)
  PROVE  AnswerInv'
<1>1. PICK num \in [1..Len(Answers) -> Nat] : \A d \in Dirs :
        AnswersNumbered(Answers, num, d, peerQ[d], bulkQ[d])
  BY DEF OutcomeInv, AnswerInv
<1>2. /\ Answers \in Seq(Answer) /\ Len(Answers) \in Nat
      /\ Len(Answers') = Len(Answers) + 1 /\ Answers'[Len(Answers) + 1] = m
      /\ \A i \in 1..Len(Answers) : Answers'[i] = Answers[i]
  <2>1. Answers \in Seq(Answer)
    BY CloseFacts
  <2>. QED BY <2>1
<1>3. PICK v \in Nat :
        \A f \in Dirs : AnswerEffect(f, m) => v = peerQ[f].answered
  <2>1. \A f, g \in Dirs : AnswerEffect(f, m) /\ AnswerEffect(g, m) => f = g
    BY DEF AnswerEffect, Of
  <2>. QED BY <2>1, PeerFacts
<1>. DEFINE k == Len(Answers)
            x == Extended(num, k, v)
<1>4. /\ x \in [1..(k + 1) -> Nat] /\ x[k + 1] = v
      /\ \A i \in 1..k : x[i] = num[i]
      /\ \A i \in 1..(k + 1) : i \in 1..k \/ i = k + 1
      /\ \A i \in 1..k : i \in 1..(k + 1)
      /\ k + 1 \in 1..(k + 1)
  BY <1>2 DEF Extended
<1>5. ASSUME NEW d \in Dirs
      PROVE  AnswersNumbered(Answers', x, d, peerQ'[d], bulkQ'[d])
  <2>1. /\ Numbered(Answers, num, "DONE", d, bulkQ[d].process, peerQ[d].answered)
        /\ Truthful(Answers, num, d, peerQ[d].local)
        /\ Complete(Answers, num, d, bulkQ[d].process, peerQ[d].answered)
    BY <1>1 DEF AnswersNumbered
  <2>2. bulkQ'[d] = bulkQ[d]
    OBVIOUS
  <2>3. \/ /\ ~Of(m, "DONE", d)
           /\ peerQ'[d].local = peerQ[d].local /\ peerQ'[d].answered = peerQ[d].answered
        \/ /\ Of(m, "DONE", d) /\ v = peerQ[d].answered
           /\ m.actual = "done" <=> v < peerQ[d].local
           /\ peerQ'[d].local = peerQ[d].local
           /\ peerQ'[d].answered = peerQ[d].answered + 1
    <3>1. CASE m.type = "CLOSE" /\ UNCHANGED peerQ
      BY <3>1 DEF Of
    <3>2. ASSUME NEW f \in Dirs, AnswerEffect(f, m)
          PROVE  \/ /\ d # f /\ peerQ'[d].local = peerQ[d].local
                    /\ peerQ'[d].answered = peerQ[d].answered
                 \/ /\ d = f /\ peerQ'[d].local = peerQ[d].local
                    /\ peerQ'[d].answered = peerQ[d].answered + 1
      BY <3>2 DEF AnswerEffect, OutcomeInv, PeerTypeInv, Peer
    <3>3. ASSUME NEW f \in Dirs, AnswerEffect(f, m)
          PROVE  /\ Of(m, "DONE", d) <=> d = f
                 /\ v = peerQ[f].answered
                 /\ m.actual = "done" <=> v < peerQ[f].local
      BY <1>3, <3>3 DEF AnswerEffect, Of
    <3>. QED BY <3>1, <3>2, <3>3
  <2>. HIDE DEF x, k
  <2>6. /\ bulkQ[d].process \in Nat /\ peerQ[d].answered \in Nat
        /\ bulkQ[d].process <= peerQ[d].answered
    BY PeerFacts, QueueFacts DEF PeerOf
  <2>4. CASE /\ ~Of(m, "DONE", d)
             /\ peerQ'[d].local = peerQ[d].local /\ peerQ'[d].answered = peerQ[d].answered
    <3>1. Numbered(Answers', x, "DONE", d, bulkQ[d].process, peerQ[d].answered)
      BY <1>1, <1>2, <2>1, <2>4, <2>6, NumberedExtends DEF x, k
    <3>2. Truthful(Answers', x, d, peerQ[d].local)
      BY <1>2, <1>4, <2>1, <2>4 DEF Truthful, k
    <3>3. Complete(Answers', x, d, bulkQ[d].process, peerQ[d].answered)
      BY <1>2, <1>4, <2>1, <2>4 DEF Complete, k
    <3>. QED BY <2>2, <2>4, <3>1, <3>2, <3>3 DEF AnswersNumbered
  <2>5. CASE /\ Of(m, "DONE", d) /\ v = peerQ[d].answered
             /\ m.actual = "done" <=> v < peerQ[d].local
             /\ peerQ'[d].local = peerQ[d].local
             /\ peerQ'[d].answered = peerQ[d].answered + 1
    <3>1. Numbered(Answers', x, "DONE", d, bulkQ[d].process, peerQ[d].answered + 1)
      BY <1>1, <1>2, <2>1, <2>5, <2>6, NumberedExtends DEF x, k
    <3>2. Truthful(Answers', x, d, peerQ[d].local)
      BY <1>2, <1>4, <2>1, <2>5 DEF Truthful, k
    <3>3. Complete(Answers', x, d, bulkQ[d].process, peerQ[d].answered + 1)
      <4>. SUFFICES ASSUME NEW n \in Nat,
                           bulkQ[d].process <= n, n < peerQ[d].answered + 1
                    PROVE  \E i \in 1..Len(Answers') :
                             Of(Answers'[i], "DONE", d) /\ x[i] = n
        BY DEF Complete
      <4>1. CASE n = v
        BY <1>2, <1>4, <2>5, <4>1 DEF k
      <4>2. CASE n < peerQ[d].answered
        BY <1>2, <1>4, <2>1, <4>2 DEF Complete, k
      <4>3. n = v \/ n < peerQ[d].answered
        BY <2>5, <2>6
      <4>. QED BY <4>1, <4>2, <4>3
    <3>. QED BY <2>2, <2>5, <3>1, <3>2, <3>3 DEF AnswersNumbered
  <2>. QED BY <2>3, <2>4, <2>5
<1>. HIDE DEF x
<1>. QED BY <1>2, <1>4, <1>5 DEF AnswerInv

LEMMA AnswersParse ==
  ASSUME IInv, IInv', OutcomeInv, PeerTypeInv', ParseBulkDone
  PROVE  AnswerInv'
<1>1. PICK num \in [1..Len(Answers) -> Nat] : \A d \in Dirs :
        AnswersNumbered(Answers, num, d, peerQ[d], bulkQ[d])
  BY DEF OutcomeInv, AnswerInv
<1>2. PICK f \in Dirs : ParseEffect(f)
  BY ParseEffects
<1>3. /\ Answers \in Seq(Answer) /\ Answers # <<>> /\ Of(Answers[1], "DONE", f)
      /\ Answers' = Tail(Answers) /\ UNCHANGED peerQ
      /\ \A d \in Dirs : bulkQ'[d].process = IF d = f THEN bulkQ[d].process + 1
                                                      ELSE bulkQ[d].process
  BY <1>2, CloseFacts DEF ParseEffect, IndexesKept
<1>4. num[1] = bulkQ[f].process
  BY <1>1, <1>3, DoneIsNext
<1>. DEFINE k == Len(Answers)
            x == Shifted(num, k)
<1>5. x \in [1..Len(Answers') -> Nat]
  BY <1>1, <1>3, NumberedShifts, PeerFacts, QueueFacts DEF AnswersNumbered
<1>6. /\ k \in Nat /\ Len(Answers') = k - 1
      /\ \A i \in 1..Len(Answers') :
           i + 1 \in 1..k /\ Answers'[i] = Answers[i + 1] /\ x[i] = num[i + 1]
      /\ \A i \in 1..k : i = 1 \/ (i - 1 \in 1..Len(Answers') /\ (i - 1) + 1 = i)
  BY <1>3 DEF Shifted
<1>7. ASSUME NEW d \in Dirs
      PROVE  AnswersNumbered(Answers', x, d, peerQ'[d], bulkQ'[d])
  <2>1. /\ Numbered(Answers, num, "DONE", d, bulkQ[d].process, peerQ[d].answered)
        /\ Truthful(Answers, num, d, peerQ[d].local)
        /\ Complete(Answers, num, d, bulkQ[d].process, peerQ[d].answered)
    BY <1>1 DEF AnswersNumbered
  <2>2. /\ bulkQ[d].process \in Nat /\ peerQ[d].answered \in Nat
        /\ bulkQ'[d].process \in Nat
    BY BoundsTyped
  <2>3. /\ Numbered(Answers', x, "DONE", d, bulkQ[d].process, peerQ[d].answered)
        /\ Of(Answers[1], "DONE", d) =>
             Numbered(Answers', x, "DONE", d, num[1] + 1, peerQ[d].answered)
    BY <1>1, <1>3, <2>1, <2>2, NumberedShifts
  <2>. HIDE DEF x, k
  <2>4. Numbered(Answers', x, "DONE", d, bulkQ'[d].process, peerQ[d].answered)
    <3>1. CASE d = f
      BY <1>3, <1>4, <2>3, <3>1
    <3>2. CASE d # f
      BY <1>3, <2>3, <3>2
    <3>. QED BY <3>1, <3>2
  <2>5. Truthful(Answers', x, d, peerQ[d].local)
    BY <1>6, <2>1 DEF Truthful, k
  <2>6. Complete(Answers', x, d, bulkQ'[d].process, peerQ[d].answered)
    <3>. SUFFICES ASSUME NEW n \in Nat,
                         bulkQ'[d].process <= n, n < peerQ[d].answered
                  PROVE  \E i \in 1..Len(Answers') :
                           Of(Answers'[i], "DONE", d) /\ x[i] = n
      BY DEF Complete
    <3>1. bulkQ[d].process <= n
      BY <1>3, <2>2
    <3>2. PICK i \in 1..k : Of(Answers[i], "DONE", d) /\ num[i] = n
      BY <2>1, <3>1 DEF Complete, k
    <3>3. i # 1
      <4>1. CASE d = f
        <5>1. bulkQ[d].process < n
          BY <1>3, <2>2, <4>1
        <5>. QED BY <1>4, <2>2, <3>2, <4>1, <5>1
      <4>2. CASE d # f
        BY <1>3, <3>2, <4>2 DEF Of
      <4>. QED BY <4>1, <4>2
    <3>4. PICK j \in 1..Len(Answers') : j + 1 = i
      BY <1>6, <3>3
    <3>. QED BY <1>6, <3>2, <3>4
  <2>. QED BY <1>3, <2>4, <2>5, <2>6 DEF AnswersNumbered
<1>. HIDE DEF x
<1>. QED BY <1>5, <1>7 DEF AnswerInv

LEMMA AnswersTransfer ==
  ASSUME IInv, OutcomeInv, NEW f \in Dirs, PeerTransfer(f)
  PROVE  AnswerInv'
<1>1. PICK num \in [1..Len(Answers) -> Nat] : \A d \in Dirs :
        AnswersNumbered(Answers, num, d, peerQ[d], bulkQ[d])
  BY DEF OutcomeInv, AnswerInv
<1>2. /\ srv.master = "OPEN" /\ UNCHANGED bulkQ /\ Answers' = Answers
      /\ peerQ' = [peerQ EXCEPT ![f].local = @ + 1]
  BY OutsideEffects DEF PeerTransfer, OutsideEffect, Answers
<1>3. ASSUME NEW d \in Dirs
      PROVE  AnswersNumbered(Answers', num, d, peerQ'[d], bulkQ'[d])
  <2>1. /\ peerQ'[d].answered = peerQ[d].answered
        /\ peerQ'[d].local = IF d = f THEN peerQ[d].local + 1 ELSE peerQ[d].local
    BY <1>2 DEF OutcomeInv, PeerTypeInv, Peer
  <2>2. /\ peerQ[d].answered <= peerQ[d].local
        /\ peerQ[d].answered \in Nat /\ peerQ[d].local \in Nat
    BY <1>2, PeerFacts DEF PeerOf
  <2>3. /\ Numbered(Answers, num, "DONE", d, bulkQ[d].process, peerQ[d].answered)
        /\ Truthful(Answers, num, d, peerQ[d].local)
        /\ Complete(Answers, num, d, bulkQ[d].process, peerQ[d].answered)
    BY <1>1 DEF AnswersNumbered
  <2>4. \A i \in 1..Len(Answers) : Of(Answers[i], "DONE", d) =>
          (num[i] < peerQ[d].local <=> num[i] < peerQ'[d].local)
    <3>1. \A i \in 1..Len(Answers) : num[i] \in Nat
      BY <1>1
    <3>2. \A i \in 1..Len(Answers) : Of(Answers[i], "DONE", d) => num[i] < peerQ[d].answered
      BY <2>3 DEF Numbered
    <3>. QED BY <2>1, <2>2, <3>1, <3>2
  <2>5. Truthful(Answers, num, d, peerQ'[d].local)
    BY <2>3, <2>4 DEF Truthful
  <2>. QED BY <1>2, <2>1, <2>3, <2>5 DEF AnswersNumbered
<1>. QED BY <1>2, <1>3 DEF AnswerInv

LEMMA AnswerInvKept ==
  ASSUME IInv, IInv', OutcomeInv, PeerTypeInv', [BulkNext]_bulkVars
  PROVE  AnswerInv'
<1>1. CASE StillEffect \/ ForgetEffect
  BY <1>1, AnswersFrame DEF StillEffect, ForgetEffect, IndexesKept, Answers
<1>2. ASSUME NEW t \in BulkThreads, TransferLock(t) \/ TransferSend(t) PROVE AnswerInv'
  <2>1. /\ UNCHANGED peerQ /\ Answers' = Answers
        /\ \A d \in Dirs : bulkQ'[d].process = bulkQ[d].process
    <3>1. CASE TransferLock(t)
      BY <3>1, LockEffects DEF LockEffect, IndexesKept, Answers
    <3>2. CASE TransferSend(t)
      BY <3>2, SendEffects DEF SendEffect, IndexesKept
    <3>. QED BY <1>2, <3>1, <3>2
  <2>. QED BY <2>1, AnswersFrame
<1>3. CASE NotifyBulks
  <2>1. /\ UNCHANGED peerQ /\ Answers' = Answers
        /\ \A d \in Dirs : bulkQ'[d].process = bulkQ[d].process
    BY <1>3, NotifyEffects DEF NotifyEffect, ReportEffect, IndexesKept, Answers
  <2>. QED BY <2>1, AnswersFrame
<1>4. CASE AbortEffect
  <2>1. /\ UNCHANGED peerQ /\ Answers' = Answers
        /\ Answers # <<>> /\ Answers[1].type = "CLOSE"
        /\ \A d \in Dirs : bulkQ'[d].process = bulkQ[d].local_insert
    BY <1>4 DEF AbortEffect, Answers
  <2>2. Answers \in Seq(Answer) /\ Len(Answers) = 1
    BY <2>1, CloseFacts, CloseIsAll
  <2>3. \A i \in 1..Len(Answers') : Answers'[i].type # "DONE"
    BY <2>1, <2>2
  <2>4. \A d \in Dirs : peerQ'[d].answered <= bulkQ'[d].process
    BY <2>1, CloseAllAnswered, PeerFacts, QueueFacts
  <2>. QED BY <2>1, <2>2, <2>3, <2>4, AnswersNone
<1>5. CASE CloseTerminate \/ HandlerWoken
  <2>1. UNCHANGED <<peerQ, bulkQ>> /\ Answers' = Answers
    BY <1>5, CloseFacts DEF CloseTerminate, HandlerWoken, SendTo, Answers
  <2>. QED BY <2>1, AnswersFrame
<1>6. CASE CloseAnswer \/ CloseComplete
  <2>1. UNCHANGED <<peerQ, bulkQ>> /\ (Answers' = Answers \/ Answers' = Tail(Answers))
    BY <1>6, CloseFacts DEF CloseAnswer, CloseComplete, PopSlave, Answers
  <2>2. Answers # <<>> /\ Answers[1].type = "CLOSE"
    BY <1>6, CloseFacts DEF CloseAnswer, CloseComplete, ClosesInTurn
  <2>3. Answers \in Seq(Answer) /\ Tail(Answers) = <<>>
    BY <2>2, CloseIsAll, CloseFacts
  <2>4. ASSUME Answers' = <<>> PROVE AnswerInv'
    BY <2>1, <2>2, <2>4, CloseAllAnswered, AnswersNone
  <2>. QED BY <2>1, <2>3, <2>4, AnswersFrame
<1>7. CASE PeerReceive
  <2>1. PICK f \in Dirs : ReadEffect(f)
    BY <1>7, ReadEffects
  <2>2. UNCHANGED bulkQ /\ Answers' = Answers
    BY <1>7, <2>1, OutsideEffects DEF OutsideEffect, ReadEffect
  <2>3. \A d \in Dirs : /\ peerQ'[d].answered = peerQ[d].answered
                        /\ peerQ'[d].local = peerQ[d].local
    <3>1. peerQ \in [Dirs -> Peer]
      BY DEF OutcomeInv, PeerTypeInv
    <3>2. UNCHANGED peerQ \/ peerQ' = [peerQ EXCEPT ![f].remote = @ + 1]
      BY <2>1 DEF ReadEffect
    <3>3. ASSUME peerQ' = [peerQ EXCEPT ![f].remote = @ + 1]
          PROVE  \A d \in Dirs : /\ peerQ'[d].answered = peerQ[d].answered
                                 /\ peerQ'[d].local = peerQ[d].local
      BY ONLY <3>1, <3>3 DEF Peer
    <3>. QED BY <3>2, <3>3
  <2>. QED BY <2>2, <2>3, AnswersFrame
<1>8. CASE PeerSendClose
  <2>1. EndEffect /\ UNCHANGED bulkQ
    BY <1>8, EndEffects, OutsideEffects DEF OutsideEffect
  <2>2. PICK m \in Answer : m = [type |-> "CLOSE"]
    BY DEF Answer
  <2>. QED BY <2>1, <2>2, AnswersSent DEF EndEffect
<1>9. CASE PeerClose
  <2>1. UNCHANGED <<peerQ, bulkQ>> /\ Answers' = Answers
    BY <1>9, OutsideEffects DEF PeerClose, OutsideEffect, Answers
  <2>. QED BY <2>1, AnswersFrame
<1>10. ASSUME NEW f \in Dirs, PeerAnswer(f) PROVE AnswerInv'
  <2>1. PICK m \in Answer : AnswerEffect(f, m)
    BY <1>10, AnswerEffects
  <2>2. UNCHANGED bulkQ
    BY <1>10, OutsideEffects DEF OutsideEffect
  <2>3. ~Ended
    BY <2>1, PeerFacts DEF AnswerEffect, PeerOf
  <2>4. Answers' = Append(Answers, m)
    BY <2>1 DEF AnswerEffect
  <2>. QED BY <2>1, <2>2, <2>3, <2>4, AnswersSent
<1>. QED BY <1>1, <1>2, <1>3, <1>4, <1>5, <1>6, <1>7, <1>8, <1>9, <1>10,
            AnswersParse, AnswersTransfer, StillEffects, ForgetEffects, AbortEffects
  DEF BulkNext, TransferStep, SlotHandlerStep

-----------------------------------------------------------------------------
(* What is left when the slave closes.                                       *)
LEMMA AbortFrame ==
  ASSUME OutcomeInv, UNCHANGED notifier, srv'.slave = srv.slave,
         \A d \in Dirs : IndexesKept(d), bulkLog'.late = bulkLog.late
  PROVE  AbortInv'
<1>. SUFFICES ASSUME NEW d \in Dirs PROVE AbortOf(d)'
  BY DEF AbortInv
<1>1. AbortOf(d) /\ IndexesKept(d)
  BY DEF OutcomeInv, AbortInv
<1>. QED BY <1>1 DEF AbortOf, LateFrom, IndexesKept

LEMMA AbortSend ==
  ASSUME IInv, OutcomeInv, NEW t \in BulkThreads, TransferSend(t)
  PROVE  AbortInv'
<1>. SUFFICES ASSUME NEW d \in Dirs PROVE AbortOf(d)'
  BY DEF AbortInv
<1>1. PICK f \in Dirs : SendEffect(t, f)
  BY SendEffects
<1>2. /\ srv.slave = "OPEN" /\ notifier.next # "complete"
      /\ UNCHANGED <<srv, notifier>>
  BY <1>1, CloseFacts DEF TransferSend, BtGoto, OutcomeInv, SendInv, ClosesInTurn, SendEffect
<1>3. /\ bulkQ'[d].process = bulkQ[d].process /\ bulkQ'[d].remove = bulkQ[d].remove
      /\ bulkQ'[d].local_insert = IF d = f THEN bulkQ[d].local_insert + 1
                                           ELSE bulkQ[d].local_insert
      /\ bulkQ[d].local_insert \in Nat
  BY <1>1, QueueFacts DEF SendEffect, IndexesKept
<1>4. ASSUME notifier.next \in {"sendClose", "bailed"} PROVE LateFrom(d, bulkQ[d].process)'
  <2>. SUFFICES ASSUME NEW k \in Nat, bulkQ[d].process <= k, k < bulkQ'[d].local_insert
                PROVE  <<d, k>> \in bulkLog'.late
    BY <1>3 DEF LateFrom
  <2>1. CASE k < bulkQ[d].local_insert
    <3>1. <<d, k>> \in bulkLog.late
      BY <1>4, <2>1 DEF OutcomeInv, AbortInv, AbortOf, LateFrom
    <3>. QED BY <1>1, <3>1 DEF SendEffect
  <2>2. CASE ~(k < bulkQ[d].local_insert)
    <3>1. d = f /\ k = bulkQ[f].local_insert
      BY <1>3, <2>2
    <3>. QED BY <1>1, <1>4, <3>1 DEF SendEffect
  <2>. QED BY <2>1, <2>2
<1>. QED BY <1>2, <1>3, <1>4 DEF AbortOf, OutcomeInv, AbortInv

LEMMA AbortNotify ==
  ASSUME IInv, OutcomeInv, NotifyBulks
  PROVE  AbortInv'
<1>. SUFFICES ASSUME NEW d \in Dirs PROVE AbortOf(d)'
  BY DEF AbortInv
<1>1. PICK f \in Dirs : NotifyEffect(f)
  BY NotifyEffects
<1>2. /\ AbortOf(d) /\ UNCHANGED srv /\ notifier'.next = notifier.next
      /\ bulkLog'.late = bulkLog.late
  BY <1>1 DEF OutcomeInv, AbortInv, NotifyEffect
<1>3. /\ notifier.dirs \in {<<"tx">>, <<"rx">>, <<"tx", "rx">>}
      /\ f = Head(notifier.dirs)
  BY <1>1 DEF NotifyEffect, IInv, HandlerInv, Orders, DirOrder
<1>4. CASE /\ bulkQ[f].remove = bulkQ[f].process /\ UNCHANGED bulkQ
           /\ notifier'.dirs = Tail(notifier.dirs)
  <2>1. ASSUME \A i \in 1..Len(notifier'.dirs) : notifier'.dirs[i] # d
        PROVE  d = f \/ \A i \in 1..Len(notifier.dirs) : notifier.dirs[i] # d
    <3>1. CASE notifier.dirs = <<"tx">> \/ notifier.dirs = <<"rx">>
      BY <1>3, <3>1
    <3>2. CASE notifier.dirs = <<"tx", "rx">>
      <4>1. notifier'.dirs = <<"rx">> /\ f = "tx"
        BY <1>3, <1>4, <3>2
      <4>2. d = "tx"
        BY <2>1, <4>1 DEF Dirs
      <4>. QED BY <4>1, <4>2
    <3>. QED BY <1>3, <3>1, <3>2
  <2>. QED BY <1>2, <1>4, <2>1 DEF AbortOf, LateFrom
<1>5. CASE ReportEffect(f)
  <2>1. /\ UNCHANGED notifier
        /\ bulkQ'[d].process = bulkQ[d].process
        /\ bulkQ'[d].local_insert = bulkQ[d].local_insert
        /\ d # f => bulkQ'[d].remove = bulkQ[d].remove
        /\ d = f => bulkQ'[d].remove = bulkQ[d].remove + 1
    BY <1>5 DEF ReportEffect, IndexesKept
  <2>2. bulkQ[d].remove \in Nat
    BY QueueFacts
  <2>3. \E i \in 1..Len(notifier.dirs) : notifier.dirs[i] = f
    <3>1. 1 \in 1..Len(notifier.dirs) /\ notifier.dirs[1] = f
      BY <1>3
    <3>. QED BY <3>1
  <2>4. srv.slave = "CLOSED" => LateFrom(d, bulkQ[d].remove)'
    <3>1. \A k \in Nat : bulkQ'[d].remove <= k => bulkQ[d].remove <= k
      BY <2>1, <2>2
    <3>. QED BY <1>2, <2>1, <3>1 DEF AbortOf, LateFrom
  <2>5. notifier.next \in {"sendClose", "bailed"} => LateFrom(d, bulkQ[d].process)'
    BY <1>2, <2>1 DEF AbortOf, LateFrom
  <2>. QED BY <1>2, <2>1, <2>3, <2>4, <2>5 DEF AbortOf
<1>. QED BY <1>1, <1>4, <1>5 DEF NotifyEffect

LEMMA AbortClose ==
  ASSUME IInv, IInv', OutcomeInv,
         AbortEffect \/ CloseTerminate \/ CloseAnswer \/ CloseComplete \/ HandlerWoken
  PROVE  AbortInv'
<1>. SUFFICES ASSUME NEW d \in Dirs PROVE AbortOf(d)'
  BY DEF AbortInv
<1>1. AbortOf(d)
  BY DEF OutcomeInv, AbortInv
<1>2. CASE AbortEffect
  <2>1. /\ \E i \in 1..Len(notifier'.dirs) : notifier'.dirs[i] = d
    <3>1. notifier'.dirs = <<"tx", "rx">>
      BY <1>2 DEF AbortEffect, DirOrder
    <3>2. 1 \in 1..Len(notifier'.dirs) /\ 2 \in 1..Len(notifier'.dirs)
          /\ notifier'.dirs[1] = "tx" /\ notifier'.dirs[2] = "rx"
      BY <3>1
    <3>. QED BY <3>2 DEF Dirs
  <2>2. srv'.slave # "CLOSED"
    BY <1>2, CloseIsAll DEF AbortEffect
  <2>3. bulkQ'[d].process = bulkQ'[d].local_insert /\ bulkQ'[d].local_insert \in Nat
    BY <1>2, QueueFacts DEF AbortEffect
  <2>4. LateFrom(d, bulkQ[d].process)'
    BY <2>3 DEF LateFrom
  <2>. QED BY <2>1, <2>2, <2>3, <2>4 DEF AbortOf
<1>3. CASE CloseTerminate
  <2>1. notifier'.next = "idle" /\ srv'.slave # "CLOSED"
    BY <1>3, CloseFacts DEF CloseTerminate, HandlerIdle
  <2>. QED BY <2>1 DEF AbortOf
<1>4. CASE CloseAnswer \/ CloseComplete
  <2>1. /\ UNCHANGED <<bulkQ, bulkLog>> /\ notifier.dirs = <<>>
        /\ notifier.next \in {"sendClose", "complete"}
    BY <1>4 DEF CloseAnswer, CloseComplete
  <2>2. bulkQ[d].remove = bulkQ[d].process
    BY <1>1, <2>1 DEF AbortOf
  <2>3. LateFrom(d, bulkQ[d].process)
    <3>1. CASE notifier.next = "sendClose"
      BY <1>1, <3>1 DEF AbortOf
    <3>2. CASE notifier.next = "complete"
      BY <1>1, <3>2, QueueFacts DEF AbortOf, LateFrom
    <3>. QED BY <2>1, <3>1, <3>2
  <2>4. notifier'.next \in {"idle", "bailed"}
    BY <1>4, CloseFacts DEF CloseAnswer, CloseComplete
  <2>5. LateFrom(d, bulkQ[d].remove)' /\ LateFrom(d, bulkQ[d].process)'
    BY <2>1, <2>2, <2>3 DEF LateFrom
  <2>. QED BY <2>1, <2>2, <2>4, <2>5 DEF AbortOf
<1>5. CASE HandlerWoken
  <2>1. notifier'.next = "idle" /\ srv'.slave # "CLOSED"
    BY <1>5, CloseFacts DEF HandlerWoken, ClosesInTurn
  <2>. QED BY <2>1 DEF AbortOf
<1>. QED BY <1>2, <1>3, <1>4, <1>5

LEMMA AbortInvKept ==
  ASSUME IInv, IInv', OutcomeInv, [BulkNext]_bulkVars
  PROVE  AbortInv'
<1>1. CASE StillEffect \/ ForgetEffect
  <2>1. /\ UNCHANGED notifier /\ srv'.slave = srv.slave /\ bulkLog'.late = bulkLog.late
        /\ \A d \in Dirs : IndexesKept(d)
    BY <1>1 DEF StillEffect, ForgetEffect, IndexesKept
  <2>. QED BY <2>1, AbortFrame
<1>2. ASSUME NEW t \in BulkThreads, TransferLock(t) PROVE AbortInv'
  <2>1. /\ UNCHANGED notifier /\ srv'.slave = srv.slave /\ bulkLog'.late = bulkLog.late
        /\ \A d \in Dirs : IndexesKept(d)
    BY <1>2, LockEffects DEF LockEffect, IndexesKept
  <2>. QED BY <2>1, AbortFrame
<1>3. CASE ParseBulkDone
  <2>1. PICK f \in Dirs : ParseEffect(f)
    BY <1>3, ParseEffects
  <2>2. /\ notifier'.next = "idle" /\ UNCHANGED srv /\ srv.slave # "CLOSED"
    BY <2>1, CloseFacts DEF ParseEffect, ClosesLast
  <2>. QED BY <2>2 DEF AbortInv, AbortOf
<1>4. CASE PeerReceive \/ PeerSendClose \/ PeerClose
             \/ \E d \in Dirs : PeerTransfer(d) \/ PeerAnswer(d)
  <2>1. /\ UNCHANGED <<bulkQ, bulkLog>>
    BY <1>4, OutsideEffects DEF OutsideEffect
  <2>2. UNCHANGED notifier
    BY <1>4 DEF PeerReceive, PeerSendClose, PeerClose, PeerTransfer, PeerAnswer, PeerUnchanged
  <2>3. srv'.slave = srv.slave
    BY <1>4, CloseFacts DEF PeerReceive, PeerSendClose, PeerClose, PeerTransfer, PeerAnswer
  <2>4. \A d \in Dirs : IndexesKept(d)
    BY <2>1 DEF IndexesKept
  <2>. QED BY <2>1, <2>2, <2>3, <2>4, AbortFrame
<1>. QED BY <1>1, <1>2, <1>3, <1>4, AbortSend, AbortNotify, AbortClose,
            StillEffects, ForgetEffects, AbortEffects
  DEF BulkNext, TransferStep, SlotHandlerStep

-----------------------------------------------------------------------------
(* What the entries will report.                                             *)
LEMMA EntriesFrame ==
  ASSUME OutcomeInv,
         \A d \in Dirs : IndexesKept(d) /\ peerQ'[d].local = peerQ[d].local,
         \A d \in Dirs, n \in Nat : Entry(d, n)'.actual = Entry(d, n).actual,
         \A u \in BulkThreads : Filling(u)' => Filling(u) /\ btCall'[u] = btCall[u]
  PROVE  EntryInv'
<1>. SUFFICES ASSUME NEW d \in Dirs PROVE EntryOf(d)'
  BY DEF EntryInv
<1>1. EntryOf(d) /\ IndexesKept(d)
  BY DEF OutcomeInv, EntryInv
<1>. QED BY <1>1 DEF EntryOf, IndexesKept

LEMMA EntriesLock ==
  ASSUME IInv, OutcomeInv, NEW t \in BulkThreads, TransferLock(t)
  PROVE  EntryInv'
<1>. SUFFICES ASSUME NEW d \in Dirs PROVE EntryOf(d)'
  BY DEF EntryInv
<1>1. EntryOf(d)
  BY DEF OutcomeInv, EntryInv
<1>2. CASE /\ UNCHANGED <<peerQ, srv, bulkMsgs, notifier, bulkLog, bulkQ, btCall>>
           /\ \A u \in BulkThreads : ~Filling(u)'
  BY <1>1, <1>2 DEF EntryOf, Entry
<1>3. ASSUME NEW f \in Dirs, f = btCall[t].dir, LockEffect(t, f)
      PROVE  EntryOf(d)'
  <2>1. PICK k \in Nat : k = bulkQ[f].local_insert
    BY QueueFacts
  <2>2. /\ UNCHANGED <<peerQ, btCall>> /\ IndexesKept(d)
        /\ k < bulkQ[f].remove + NumBulks
        /\ Entry(f, k)'.actual = "aborted" /\ OtherEntriesKept(f, k)
        /\ \A u \in BulkThreads : Filling(u)' => u = t
    BY <1>3, <2>1 DEF LockEffect
  <2>3. /\ bulkQ[d].remove \in Nat /\ bulkQ[d].process \in Nat
        /\ bulkQ[d].local_insert \in Nat /\ NumBulks \in Nat
        /\ bulkQ[d].remove <= bulkQ[d].process
        /\ bulkQ[d].process <= bulkQ[d].local_insert
        /\ bulkQ[d].local_insert <= bulkQ[d].remove + NumBulks
    BY QueueFacts
  <2>4. ASSUME NEW n \in Nat, bulkQ[d].remove <= n, n < bulkQ[d].local_insert
        PROVE  Entry(d, n)' = Entry(d, n)
    <3>1. CASE d = f
      <4>1. n # k /\ n < bulkQ[d].remove + NumBulks
        BY <2>1, <2>3, <2>4, <3>1
      <4>2. bulkQ[d].remove <= k
        BY <2>1, <2>3, <3>1
      <4>3. BulkIndex(n) # BulkIndex(k)
        BY <2>2, <2>3, <2>4, <3>1, <4>1, <4>2, IndexApart
      <4>. QED BY <2>2, <4>3 DEF OtherEntriesKept
    <3>2. CASE d # f
      BY <2>2, <3>2 DEF OtherEntriesKept
    <3>. QED BY <3>1, <3>2
  <2>5. \A n \in Nat : bulkQ[d].process <= n => bulkQ[d].remove <= n
    BY <2>3
  <2>6. \A n \in Nat : n < bulkQ[d].process => n < bulkQ[d].local_insert
    BY <2>3
  <2>7. ASSUME NEW u \in BulkThreads, NEW n \in Nat, Filling(u)',
               btCall'[u].dir = d, n = bulkQ'[d].local_insert
        PROVE  Entry(d, n)'.actual = "aborted"
    <3>1. d = f /\ n = k
      BY <1>3, <2>1, <2>2, <2>7 DEF IndexesKept
    <3>. QED BY <2>2, <3>1
  <2>. QED BY <1>1, <2>2, <2>4, <2>5, <2>6, <2>7 DEF EntryOf, IndexesKept
<1>. QED BY <1>2, <1>3, LockEffects

LEMMA EntriesSend ==
  ASSUME IInv, OutcomeInv, NEW t \in BulkThreads, TransferSend(t)
  PROVE  EntryInv'
<1>. SUFFICES ASSUME NEW d \in Dirs PROVE EntryOf(d)'
  BY DEF EntryInv
<1>1. EntryOf(d)
  BY DEF OutcomeInv, EntryInv
<1>2. PICK f \in Dirs : f = btCall[t].dir /\ SendEffect(t, f)
  BY SendEffects
<1>3. /\ UNCHANGED peerQ /\ \A u \in BulkThreads : ~Filling(u)'
      /\ \A n \in Nat : Entry(d, n)' = Entry(d, n)
      /\ bulkQ'[d].process = bulkQ[d].process /\ bulkQ'[d].remove = bulkQ[d].remove
  BY <1>2 DEF SendEffect, IndexesKept
<1>4. d = f => \A n \in Nat : n = bulkQ[d].local_insert => Entry(d, n).actual = "aborted"
  <2>1. Filling(t)
    BY DEF Filling, TransferSend, BtGoto
  <2>. QED BY <1>1, <1>2, <2>1 DEF EntryOf
<1>5. \A n \in Nat : n < bulkQ'[d].local_insert
        => n < bulkQ[d].local_insert \/ (d = f /\ n = bulkQ[d].local_insert)
  <2>1. PICK k \in Nat : k = bulkQ[d].local_insert
    BY QueueFacts
  <2>2. \A n \in Nat : n < k + 1 => n < k \/ n = k
    OBVIOUS
  <2>3. CASE d = f
    <3>1. bulkQ'[f].local_insert = bulkQ[f].local_insert + 1
      BY <1>2 DEF SendEffect
    <3>2. bulkQ'[d].local_insert = k + 1
      BY ONLY <2>1, <2>3, <3>1
    <3>. QED BY ONLY <2>1, <2>2, <2>3, <3>2
  <2>4. CASE d # f
    <3>1. bulkQ'[d].local_insert = bulkQ[d].local_insert
      BY <1>2, <2>4 DEF SendEffect, IndexesKept
    <3>. QED BY ONLY <3>1
  <2>. QED BY <2>3, <2>4
<1>. QED BY <1>1, <1>3, <1>4, <1>5 DEF EntryOf

LEMMA EntriesParse ==
  ASSUME IInv, OutcomeInv, ParseBulkDone
  PROVE  EntryInv'
<1>. SUFFICES ASSUME NEW d \in Dirs PROVE EntryOf(d)'
  BY DEF EntryInv
<1>1. EntryOf(d)
  BY DEF OutcomeInv, EntryInv
<1>2. PICK f \in Dirs : ParseEffect(f)
  BY ParseEffects
<1>3. PICK k \in Nat : k = bulkQ[f].process
  BY QueueFacts
<1>4. /\ UNCHANGED <<peerQ, btAt>> /\ OtherEntriesKept(f, k)
      /\ Entry(f, k)'.actual = Answers[1].actual
      /\ bulkQ'[d].local_insert = bulkQ[d].local_insert
      /\ bulkQ'[d].remove = bulkQ[d].remove
      /\ bulkQ'[d].process = IF d = f THEN bulkQ[d].process + 1 ELSE bulkQ[d].process
      /\ \A u \in BulkThreads : ~Filling(u)
  BY <1>2, <1>3 DEF ParseEffect, IndexesKept
<1>5. /\ bulkQ[d].remove \in Nat /\ bulkQ[d].process \in Nat
      /\ bulkQ[d].local_insert \in Nat /\ NumBulks \in Nat
      /\ bulkQ[d].remove <= bulkQ[d].process
      /\ bulkQ[d].process <= bulkQ[d].local_insert
      /\ bulkQ[d].local_insert <= bulkQ[d].remove + NumBulks
  BY QueueFacts
<1>6. /\ k < bulkQ[f].local_insert
      /\ Answers[1].actual = "done" <=> k < peerQ[f].local
  <2>1. PICK num \in [1..Len(Answers) -> Nat] :
          AnswersNumbered(Answers, num, f, peerQ[f], bulkQ[f])
    BY DEF OutcomeInv, AnswerInv
  <2>. QED BY <1>2, <1>3, <2>1, DoneIsNext DEF ParseEffect
<1>7. ASSUME NEW n \in Nat, bulkQ[d].remove <= n, n < bulkQ[d].local_insert, d # f \/ n # k
      PROVE  Entry(d, n)' = Entry(d, n)
  <2>1. CASE d = f
    <3>1. n # k /\ n < bulkQ[d].remove + NumBulks
      BY <1>5, <1>7, <2>1
    <3>2. bulkQ[d].remove <= k /\ k < bulkQ[d].remove + NumBulks
      BY <1>3, <1>5, <1>6, <2>1
    <3>3. BulkIndex(n) # BulkIndex(k)
      BY <1>5, <1>7, <3>1, <3>2, IndexApart
    <3>. QED BY <1>4, <3>3 DEF OtherEntriesKept
  <2>2. CASE d # f
    BY <1>4, <2>2 DEF OtherEntriesKept
  <2>. QED BY <2>1, <2>2
<1>8. ASSUME NEW n \in Nat, bulkQ'[d].process <= n, n < bulkQ'[d].local_insert
      PROVE  Entry(d, n)'.actual = "aborted"
  <2>1. /\ bulkQ[d].process <= n /\ n < bulkQ[d].local_insert /\ bulkQ[d].remove <= n
        /\ d # f \/ n # k
    BY <1>3, <1>4, <1>5, <1>8
  <2>. QED BY <1>1, <1>7, <2>1 DEF EntryOf
<1>9. ASSUME NEW n \in Nat, bulkQ'[d].remove <= n, n < bulkQ'[d].process
      PROVE  Entry(d, n)'.actual = "done" <=> n < peerQ'[d].local
  <2>1. CASE d = f /\ n = k
    BY <1>4, <1>6, <2>1
  <2>2. CASE ~(d = f /\ n = k)
    <3>1. bulkQ[d].remove <= n /\ n < bulkQ[d].process /\ n < bulkQ[d].local_insert
      BY <1>3, <1>4, <1>5, <1>9, <2>2
    <3>. QED BY <1>1, <1>4, <1>7, <2>2, <3>1 DEF EntryOf
  <2>. QED BY <2>1, <2>2
<1>10. \A u \in BulkThreads : ~Filling(u)'
  BY <1>4 DEF Filling
<1>. QED BY <1>8, <1>9, <1>10 DEF EntryOf

LEMMA EntriesNotify ==
  ASSUME IInv, OutcomeInv, NotifyBulks
  PROVE  EntryInv'
<1>. SUFFICES ASSUME NEW d \in Dirs PROVE EntryOf(d)'
  BY DEF EntryInv
<1>1. EntryOf(d)
  BY DEF OutcomeInv, EntryInv
<1>2. PICK f \in Dirs : NotifyEffect(f)
  BY NotifyEffects
<1>3. /\ UNCHANGED <<peerQ, btAt, btCall>>
      /\ \A n \in Nat : Entry(d, n)' = Entry(d, n)
      /\ bulkQ'[d].local_insert = bulkQ[d].local_insert
      /\ bulkQ'[d].process = bulkQ[d].process
      /\ \/ bulkQ'[d].remove = bulkQ[d].remove
         \/ bulkQ'[d].remove = bulkQ[d].remove + 1
      /\ bulkQ[d].remove \in Nat
  BY <1>2, QueueFacts DEF NotifyEffect, ReportEffect, IndexesKept
<1>4. \A n \in Nat : bulkQ'[d].remove <= n => bulkQ[d].remove <= n
  <2>1. PICK k \in Nat : k = bulkQ[d].remove
    BY <1>3
  <2>2. \A n \in Nat : k + 1 <= n => k <= n
    OBVIOUS
  <2>. QED BY <1>3, <2>1, <2>2
<1>. QED BY <1>1, <1>3, <1>4 DEF EntryOf, Filling

LEMMA EntriesAbort ==
  ASSUME IInv, OutcomeInv, AbortEffect
  PROVE  EntryInv'
<1>. SUFFICES ASSUME NEW d \in Dirs PROVE EntryOf(d)'
  BY DEF EntryInv
<1>1. EntryOf(d)
  BY DEF OutcomeInv, EntryInv
<1>2. /\ UNCHANGED <<peerQ, btAt, btCall>>
      /\ \A n \in Nat : Entry(d, n)' = Entry(d, n)
      /\ bulkQ'[d].local_insert = bulkQ[d].local_insert
      /\ bulkQ'[d].process = bulkQ[d].local_insert
      /\ bulkQ'[d].remove = bulkQ[d].remove
      /\ \A u \in BulkThreads : ~Filling(u)
  BY DEF AbortEffect
<1>3. /\ bulkQ[d].process \in Nat /\ bulkQ[d].local_insert \in Nat
      /\ peerQ[d].local \in Nat /\ peerQ[d].local <= bulkQ[d].process
  BY QueueFacts, PeerFacts, CloseAllAnswered DEF AbortEffect
<1>4. ASSUME NEW n \in Nat, bulkQ[d].remove <= n, n < bulkQ[d].local_insert
      PROVE  Entry(d, n).actual = "done" <=> n < peerQ[d].local
  <2>1. CASE n < bulkQ[d].process
    BY <1>1, <1>4, <2>1 DEF EntryOf
  <2>2. CASE bulkQ[d].process <= n
    <3>1. Entry(d, n).actual = "aborted"
      BY <1>1, <1>4, <2>2 DEF EntryOf
    <3>2. ~(n < peerQ[d].local)
      BY <1>3, <2>2
    <3>. QED BY <3>1, <3>2
  <2>. QED BY <1>3, <2>1, <2>2
<1>5. \A n \in Nat : ~(bulkQ'[d].process <= n /\ n < bulkQ'[d].local_insert)
  BY <1>2, <1>3
<1>. QED BY <1>2, <1>4, <1>5 DEF EntryOf, Filling

LEMMA EntriesTransfer ==
  ASSUME IInv, OutcomeInv, NEW f \in Dirs, PeerTransfer(f)
  PROVE  EntryInv'
<1>. SUFFICES ASSUME NEW d \in Dirs PROVE EntryOf(d)'
  BY DEF EntryInv
<1>1. EntryOf(d)
  BY DEF OutcomeInv, EntryInv
<1>2. /\ srv.master = "OPEN" /\ peerQ' = [peerQ EXCEPT ![f].local = @ + 1]
      /\ UNCHANGED <<bulkQ, btCall>> /\ \A u \in BulkThreads : Filling(u)' = Filling(u)
  BY OutsideEffects DEF PeerTransfer, OutsideEffect
<1>3. peerQ'[d].local = IF d = f THEN peerQ[d].local + 1 ELSE peerQ[d].local
  <2>1. peerQ \in [Dirs -> Peer]
    BY DEF OutcomeInv, PeerTypeInv
  <2>. QED BY <1>2, <2>1 DEF Peer
<1>4. /\ bulkQ[d].process \in Nat /\ peerQ[d].local \in Nat /\ peerQ[d].answered \in Nat
      /\ bulkQ[d].process <= peerQ[d].answered /\ peerQ[d].answered <= peerQ[d].local
  BY <1>2, QueueFacts, PeerFacts DEF PeerOf, Ended
<1>5. \A n \in Nat : n < bulkQ[d].process => n < peerQ[d].local /\ n < peerQ'[d].local
  BY <1>3, <1>4
<1>. QED BY <1>1, <1>2, <1>5 DEF EntryOf, Entry

LEMMA LocalKept ==
  ASSUME IInv, OutcomeInv,
         PeerReceive \/ PeerSendClose \/ PeerClose \/ \E d \in Dirs : PeerAnswer(d),
         NEW d \in Dirs
  PROVE  peerQ'[d].local = peerQ[d].local
<1>1. peerQ \in [Dirs -> Peer]
  BY DEF OutcomeInv, PeerTypeInv
<1>2. CASE PeerReceive
  <2>1. PICK f \in Dirs : UNCHANGED peerQ \/ peerQ' = [peerQ EXCEPT ![f].remote = @ + 1]
    BY <1>2, ReadEffects DEF ReadEffect
  <2>2. ASSUME peerQ' = [peerQ EXCEPT ![f].remote = @ + 1]
        PROVE  peerQ'[d].local = peerQ[d].local
    BY ONLY <1>1, <2>2 DEF Peer
  <2>. QED BY <2>1, <2>2
<1>3. ASSUME NEW f \in Dirs, PeerAnswer(f) PROVE peerQ'[d].local = peerQ[d].local
  <2>1. peerQ' = [peerQ EXCEPT ![f].answered = @ + 1]
    BY <1>3 DEF PeerAnswer
  <2>. QED BY ONLY <1>1, <2>1 DEF Peer
<1>4. CASE PeerSendClose \/ PeerClose
  BY <1>4 DEF PeerSendClose, PeerClose
<1>. QED BY <1>2, <1>3, <1>4

LEMMA EntryInvKept ==
  ASSUME IInv, OutcomeInv, [BulkNext]_bulkVars
  PROVE  EntryInv'
<1>1. CASE StillEffect
  BY <1>1, EntriesFrame DEF StillEffect, IndexesKept, Entry
<1>2. CASE ForgetEffect
  BY <1>2, EntriesFrame DEF ForgetEffect
<1>3. CASE CloseTerminate \/ CloseAnswer \/ CloseComplete \/ HandlerWoken
             \/ PeerReceive \/ PeerSendClose \/ PeerClose
             \/ \E d \in Dirs : PeerAnswer(d)
  <2>1. OutsideEffect
    BY <1>3, OutsideEffects
  <2>2. \A d \in Dirs : peerQ'[d].local = peerQ[d].local
    <3>1. CloseTerminate \/ CloseAnswer \/ CloseComplete \/ HandlerWoken => UNCHANGED peerQ
      BY DEF CloseTerminate, CloseAnswer, CloseComplete, HandlerWoken
    <3>. QED BY <1>3, <3>1, LocalKept
  <2>. QED BY <2>1, <2>2, EntriesFrame DEF OutsideEffect, IndexesKept, Entry
<1>. QED BY <1>1, <1>2, <1>3, EntriesLock, EntriesSend, EntriesParse, EntriesNotify,
            EntriesAbort, EntriesTransfer, StillEffects, ForgetEffects, AbortEffects
  DEF BulkNext, TransferStep, SlotHandlerStep

-----------------------------------------------------------------------------
(* What has been reported.                                                   *)
LEMMA ToldFrame ==
  ASSUME IInv, OutcomeInv, bulkLog'.told = bulkLog.told,
         bulkLog.taken \subseteq bulkLog'.taken,
         \A d \in Dirs : /\ bulkQ'[d].remove = bulkQ[d].remove
                         /\ \A k \in 1..Len(bulkLog.asked[d]) :
                              bulkLog'.asked[d][k] = bulkLog.asked[d][k]
                         /\ \A n \in Nat : n <= bulkQ[d].remove =>
                              (n <= peerQ'[d].local <=> n <= peerQ[d].local)
  PROVE  ToldInv'
<1>. SUFFICES ASSUME NEW d \in Dirs PROVE ToldOf(d)'
  BY DEF ToldInv
<1>1. ToldOf(d)
  BY DEF OutcomeInv, ToldInv
<1>2. /\ Len(bulkLog.told[d]) = bulkQ[d].remove /\ bulkQ[d].remove \in Nat
      /\ Len(bulkLog.asked[d]) = bulkQ[d].local_insert /\ bulkQ[d].local_insert \in Nat
      /\ bulkQ[d].remove <= bulkQ[d].local_insert
  BY <1>1, QueueFacts DEF ToldOf, IInv, RingInv, Ordered
<1>3. \A k \in 1..Len(bulkLog.told[d]) :
        k \in Nat /\ k <= bulkQ[d].remove /\ k \in 1..Len(bulkLog.asked[d])
  BY <1>2
<1>. QED BY <1>1, <1>2, <1>3 DEF ToldOf

LEMMA ToldReports ==
  ASSUME IInv, OutcomeInv, NotifyBulks
  PROVE  ToldInv'
<1>. SUFFICES ASSUME NEW d \in Dirs PROVE ToldOf(d)'
  BY DEF ToldInv
<1>1. PICK f \in Dirs : NotifyEffect(f)
  BY NotifyEffects
<1>2. /\ ToldOf(d) /\ bulkLog.told \in [Dirs -> Seq(Report)]
      /\ UNCHANGED peerQ
      /\ bulkLog'.asked = bulkLog.asked /\ bulkLog'.taken = bulkLog.taken
  BY <1>1 DEF OutcomeInv, ToldInv, PeerTypeInv, NotifyEffect
<1>3. CASE UNCHANGED <<bulkQ, bulkLog>>
  BY <1>2, <1>3 DEF ToldOf
<1>4. CASE ReportEffect(f)
  <2>1. PICK k \in Nat : k = bulkQ[f].remove
    BY QueueFacts
  <2>. DEFINE b == Entry(f, k)
              r == [to |-> b.userdata, actual |-> b.actual]
  <2>2. /\ k < bulkQ[f].process /\ bulkQ'[f].remove = k + 1
        /\ bulkLog'.told = [bulkLog.told EXCEPT ![f] = Append(@, r)]
        /\ \A g \in Dirs : g # f => bulkQ'[g].remove = bulkQ[g].remove
    BY <1>4, <2>1 DEF ReportEffect, IndexesKept
  <2>3. CASE d # f
    BY <1>2, <2>2, <2>3 DEF ToldOf
  <2>4. CASE d = f
    <3>1. /\ b \in BulkEntry /\ k \in Window(f)
          /\ Occupied(f, k, bulkLog.asked[f][k + 1])
      <4>1. b \in BulkEntry
        BY QueueFacts
      <4>2. k \in Window(f)
        BY <2>1, <2>2, QueueFacts DEF Window
      <4>. QED BY <4>1, <4>2 DEF IInv, RingInv
    <3>2. b.userdata = bulkLog.asked[f][k + 1] \/ <<f, k>> \in bulkLog.taken
      BY <3>1 DEF Occupied
    <3>3. b.actual = "done" <=> k < peerQ[f].local
      BY <2>1, <2>2 DEF OutcomeInv, EntryInv, EntryOf
    <3>4. r \in Report
      BY <3>1 DEF BulkEntry, Report
    <3>5. /\ bulkLog.told[f] \in Seq(Report) /\ Len(bulkLog.told[f]) = k
          /\ bulkLog'.told[f] = Append(bulkLog.told[f], r)
      BY <1>2, <2>1, <2>2, <2>4 DEF ToldOf
    <3>6. r.to = b.userdata /\ r.actual = b.actual
      OBVIOUS
    <3>. HIDE DEF b, r
    <3>7. /\ Len(bulkLog'.told[f]) = k + 1 /\ bulkLog'.told[f][k + 1] = r
          /\ \A j \in 1..k : bulkLog'.told[f][j] = bulkLog.told[f][j]
          /\ \A j \in 1..(k + 1) : j \in 1..k \/ j = k + 1
      BY <3>4, <3>5
    <3>8. (k + 1) - 1 = k /\ (k + 1 <= peerQ[f].local <=> k < peerQ[f].local)
      BY PeerFacts
    <3>9. ASSUME NEW j \in 1..(k + 1)
          PROVE  /\ \/ bulkLog'.told[f][j].to = bulkLog.asked[f][j]
                    \/ <<f, j - 1>> \in bulkLog.taken
                 /\ bulkLog'.told[f][j].actual = "done" <=> j <= peerQ[f].local
      <4>1. CASE j = k + 1
        BY <3>2, <3>3, <3>6, <3>7, <3>8, <4>1
      <4>2. CASE j \in 1..k
        BY <1>2, <2>4, <3>5, <3>7, <4>2 DEF ToldOf
      <4>. QED BY <3>7, <4>1, <4>2
    <3>. QED BY <1>2, <2>2, <2>4, <3>7, <3>9 DEF ToldOf
  <2>. QED BY <2>3, <2>4
<1>. QED BY <1>1, <1>3, <1>4 DEF NotifyEffect

LEMMA ToldTransfer ==
  ASSUME IInv, OutcomeInv, NEW f \in Dirs, PeerTransfer(f),
         NEW d \in Dirs, NEW n \in Nat, n <= bulkQ[d].remove
  PROVE  n <= peerQ'[d].local <=> n <= peerQ[d].local
<1>1. /\ srv.master = "OPEN" /\ peerQ' = [peerQ EXCEPT ![f].local = @ + 1]
      /\ peerQ \in [Dirs -> Peer]
  BY DEF PeerTransfer, OutcomeInv, PeerTypeInv
<1>2. peerQ'[d].local = peerQ[d].local + 1 \/ peerQ'[d].local = peerQ[d].local
  BY <1>1 DEF Peer
<1>3. /\ bulkQ[d].remove \in Nat /\ bulkQ[d].process \in Nat
      /\ peerQ[d].local \in Nat /\ peerQ[d].answered \in Nat
      /\ bulkQ[d].remove <= bulkQ[d].process
      /\ bulkQ[d].process <= peerQ[d].answered /\ peerQ[d].answered <= peerQ[d].local
  BY <1>1, QueueFacts, PeerFacts DEF PeerOf, Ended
<1>4. n <= peerQ[d].local
  BY <1>3
<1>5. n <= peerQ'[d].local
  BY <1>2, <1>3, <1>4
<1>. QED BY <1>4, <1>5

LEMMA ToldInvKept ==
  ASSUME IInv, OutcomeInv, [BulkNext]_bulkVars
  PROVE  ToldInv'
<1>1. CASE StillEffect
  BY <1>1, ToldFrame DEF StillEffect
<1>2. CASE ForgetEffect
  BY <1>2, ToldFrame DEF ForgetEffect, IndexesKept
<1>3. CASE AbortEffect
  BY <1>3, ToldFrame DEF AbortEffect
<1>4. ASSUME NEW t \in BulkThreads, TransferLock(t) PROVE ToldInv'
  <2>1. /\ UNCHANGED <<peerQ, bulkLog>>
        /\ \A d \in Dirs : bulkQ'[d].remove = bulkQ[d].remove
    BY <1>4, LockEffects DEF LockEffect, IndexesKept
  <2>. QED BY <2>1, ToldFrame
<1>5. ASSUME NEW t \in BulkThreads, TransferSend(t) PROVE ToldInv'
  <2>1. PICK f \in Dirs : SendEffect(t, f)
    BY <1>5, SendEffects
  <2>2. \A d \in Dirs : bulkQ'[d].remove = bulkQ[d].remove
    BY <2>1 DEF SendEffect, IndexesKept
  <2>. QED BY <2>1, <2>2, ToldFrame DEF SendEffect
<1>6. CASE ParseBulkDone
  <2>1. PICK f \in Dirs : ParseEffect(f)
    BY <1>6, ParseEffects
  <2>2. \A d \in Dirs : bulkQ'[d].remove = bulkQ[d].remove
    BY <2>1 DEF ParseEffect, IndexesKept
  <2>. QED BY <2>1, <2>2, ToldFrame DEF ParseEffect
<1>7. CASE CloseTerminate \/ CloseAnswer \/ CloseComplete \/ HandlerWoken
             \/ PeerReceive \/ PeerSendClose \/ PeerClose
             \/ \E d \in Dirs : PeerTransfer(d) \/ PeerAnswer(d)
  <2>1. UNCHANGED <<bulkQ, bulkLog>>
    BY <1>7, OutsideEffects DEF OutsideEffect
  <2>2. CloseTerminate \/ CloseAnswer \/ CloseComplete \/ HandlerWoken => UNCHANGED peerQ
    BY DEF CloseTerminate, CloseAnswer, CloseComplete, HandlerWoken
  <2>3. ASSUME NEW d \in Dirs, NEW n \in Nat, n <= bulkQ[d].remove
        PROVE  n <= peerQ'[d].local <=> n <= peerQ[d].local
    <3>1. CASE \E f \in Dirs : PeerTransfer(f)
      BY <2>3, <3>1, ToldTransfer
    <3>2. CASE ~\E f \in Dirs : PeerTransfer(f)
      <4>1. peerQ'[d].local = peerQ[d].local
        BY <1>7, <2>2, <3>2, LocalKept
      <4>. QED BY <4>1
    <3>. QED BY <3>1, <3>2
  <2>. QED BY <2>1, <2>3, ToldFrame
<1>. QED BY <1>1, <1>2, <1>3, <1>4, <1>5, <1>6, <1>7, ToldReports,
            StillEffects, ForgetEffects, AbortEffects
  DEF BulkNext, TransferStep, SlotHandlerStep

-----------------------------------------------------------------------------
LEMMA OutcomeStep ==
  ASSUME IInv, OutcomeInv, [BulkNext]_bulkVars
  PROVE  IInv' /\ OutcomeInv'
<1>1. IInv'
  BY BulkStepKeeps
<1>2. PeerTypeInv'
  BY PeerTypeKept
<1>3. SendInv' /\ PeerInv' /\ RequestInv' /\ AnswerInv'
  BY <1>1, <1>2, SendInvKept, PeerInvKept, RequestInvKept, AnswerInvKept
<1>4. CloseInv' /\ AbortInv' /\ EntryInv' /\ ToldInv'
  BY <1>1, CloseInvKept, AbortInvKept, EntryInvKept, ToldInvKept
<1>. QED BY <1>1, <1>2, <1>3, <1>4 DEF OutcomeInv

(* Each bulk is reported once, in order and as what became of it on the      *)
(* VideoCore, even if its answer and the CLOSE are under way together        *)
(* (notify_bulks, abort_outstanding_bulks), however many bulks and threads.  *)
THEOREM BulkOutcomesAlways == BulkSpec => []BulkOutcomes
<1>1. ASSUME IInv, OutcomeInv PROVE BulkOutcomes
  <2>1. ASSUME NEW d \in Dirs, srv.slave = "CLOSED",
               NEW n \in bulkQ[d].remove..(bulkQ[d].local_insert - 1)
        PROVE  <<d, n>> \in bulkLog.late
    <3>1. bulkQ[d].remove \in Nat /\ bulkQ[d].local_insert \in Nat
      BY <1>1, QueueFacts
    <3>2. n \in Nat /\ bulkQ[d].remove <= n /\ n < bulkQ[d].local_insert
      BY <2>1, <3>1
    <3>3. AbortOf(d)
      BY <1>1 DEF OutcomeInv, AbortInv
    <3>. QED BY <2>1, <3>2, <3>3 DEF AbortOf, LateFrom
  <2>2. ASSUME NEW d \in Dirs PROVE ToldOf(d)
    BY <1>1 DEF OutcomeInv, ToldInv
  <2>. QED BY <2>1, <2>2 DEF BulkOutcomes, ToldOf
<1>2. BulkInit => IInv /\ OutcomeInv
  BY BulkStarts, OutcomeStarts
<1>3. (IInv /\ OutcomeInv) /\ [BulkNext]_bulkVars => (IInv /\ OutcomeInv)'
  BY OutcomeStep
<1>. QED BY <1>1, <1>2, <1>3, PTL DEF BulkSpec

-----------------------------------------------------------------------------
(* The holders of the two mutexes, and the count of bulk_remove_event, which *)
(* is downed only when it has been upped.                                    *)
HolderInv ==
  /\ bulkMutex \in BulkThreads \union {NoWaiter}
  /\ slotMutex \in BulkThreads \union {NoWaiter}
  /\ removeEvent \in Nat

(* Every step keeps that.                                                    *)
LEMMA HolderStep == HolderInv /\ [BulkNext]_bulkVars => HolderInv'
<1>. SUFFICES ASSUME HolderInv, [BulkNext]_bulkVars PROVE HolderInv'
  OBVIOUS
<1>1. CASE UNCHANGED bulkVars
  BY <1>1 DEF bulkVars, HolderInv
<1>2. ASSUME NEW t \in BulkThreads, TransferCall(t) \/ TransferStep(t)
      PROVE  HolderInv'
  <2>1. CASE TransferCall(t)
    BY <2>1 DEF TransferCall, HolderInv
  <2>2. CASE TransferLock(t)
    BY <2>2 DEF TransferLock, HolderInv
  <2>3. CASE TransferStalled(t)
    BY <2>3 DEF TransferStalled, HolderInv
  <2>4. CASE TransferSlot(t)
    BY <2>4 DEF TransferSlot, HolderInv
  <2>5. CASE TransferSend(t)
    BY <2>5 DEF TransferSend, HolderInv
  <2>6. CASE TransferForget(t)
    BY <2>6 DEF TransferForget, HolderInv
  <2>. QED BY <1>2, <2>1, <2>2, <2>3, <2>4, <2>5, <2>6 DEF TransferStep
<1>3. CASE SlotHandlerStep \/ CloseTerminate \/ HandlerWoken
  <2>1. UNCHANGED <<bulkMutex, slotMutex>> /\ removeEvent' \in {removeEvent, removeEvent + 1}
    BY <1>3 DEF SlotHandlerStep, CloseTerminate, ParseBulkDone, NotifyBulks, NothingToNotify,
                CloseReceived, CloseAnswer, CloseComplete, HandlerWoken
  <2>. QED BY <2>1 DEF HolderInv
<1>4. CASE PeerReceive \/ PeerSendClose \/ PeerClose
             \/ \E d \in Dirs : PeerTransfer(d) \/ PeerAnswer(d)
  <2>1. PeerUnchanged
    BY <1>4 DEF PeerReceive, PeerSendClose, PeerClose, PeerTransfer, PeerAnswer
  <2>. QED BY <2>1 DEF PeerUnchanged, HolderInv
<1>. QED BY <1>1, <1>2, <1>3, <1>4 DEF BulkNext

(* No transport has more messages under way than it takes.                   *)
RoomOf(s) == Len(s) <= MessageRoom
RoomInv == RoomOf(bulkMsgs.slave) /\ RoomOf(bulkMsgs.master)

(* Messages are only taken, or sent into room.                               *)
LEMMA RoomFits ==
  ASSUME NEW S, NEW s \in Seq(S), RoomOf(s), NEW m
  PROVE  /\ s # <<>> => RoomOf(Tail(s))
         /\ Len(s) < MessageRoom => RoomOf(Append(s, m))
<1>1. MessageRoom \in Nat /\ Len(s) \in Nat
  BY BulkAssumption
<1>2. s # <<>> => Len(Tail(s)) = Len(s) - 1
  OBVIOUS
<1>3. Len(Append(s, m)) = Len(s) + 1
  OBVIOUS
<1>. QED BY <1>1, <1>2, <1>3 DEF RoomOf

(* Every step keeps to the room.                                             *)
LEMMA RoomStep ==
  ASSUME IInv, OutcomeInv, RoomInv, [BulkNext]_bulkVars
  PROVE  RoomInv'
<1>. DEFINE a == bulkMsgs.slave
            b == bulkMsgs.master
<1>1. /\ bulkMsgs = [slave |-> a, master |-> b]
      /\ a \in Seq(Answer) /\ b \in Seq(Request) /\ RoomOf(a) /\ RoomOf(b)
  BY DEF IInv, HandlerInv, OutcomeInv, PeerTypeInv, RoomInv
<1>2. \A m : /\ a # <<>> => RoomOf(Tail(a))
             /\ HasRoom("slave") => RoomOf(Append(a, m))
             /\ b # <<>> => RoomOf(Tail(b))
             /\ HasRoom("master") => RoomOf(Append(b, m))
  BY ONLY <1>1, RoomFits DEF HasRoom
<1>3. ASSUME NEW m, SendTo("slave", m), HasRoom("slave") PROVE RoomInv'
  <2>1. bulkMsgs' = [slave |-> Append(a, m), master |-> b]
    BY <1>1, <1>3 DEF SendTo
  <2>. HIDE DEF a, b
  <2>. QED BY <1>1, <1>2, <1>3, <2>1 DEF RoomInv
<1>4. ASSUME NEW m, SendTo("master", m), HasRoom("master") PROVE RoomInv'
  <2>1. bulkMsgs' = [slave |-> a, master |-> Append(b, m)]
    BY <1>1, <1>4 DEF SendTo
  <2>. HIDE DEF a, b
  <2>. QED BY <1>1, <1>2, <1>4, <2>1 DEF RoomInv
<1>5. ASSUME UNCHANGED bulkMsgs PROVE RoomInv'
  BY <1>5 DEF RoomInv
<1>6. ASSUME PopSlave, a # <<>> PROVE RoomInv'
  <2>1. bulkMsgs' = [slave |-> Tail(a), master |-> b]
    BY <1>1, <1>6 DEF PopSlave
  <2>. HIDE DEF a, b
  <2>. QED BY <1>1, <1>2, <1>6, <2>1 DEF RoomInv
<1>7. CASE UNCHANGED bulkVars
  BY <1>5, <1>7 DEF bulkVars
<1>8. ASSUME NEW t \in BulkThreads, TransferCall(t) \/ TransferStep(t)
      PROVE  RoomInv'
  <2>1. CASE TransferSend(t)
    BY <1>4, <2>1 DEF TransferSend
  <2>2. CASE ~TransferSend(t)
    BY <1>5, <1>8, <2>2
    DEF TransferStep, TransferCall, TransferLock, TransferStalled, TransferSlot, TransferForget
  <2>. QED BY <2>1, <2>2
<1>9. CASE SlotHandlerStep \/ CloseTerminate \/ HandlerWoken
  <2>1. CASE CloseTerminate
    BY <1>4, <2>1 DEF CloseTerminate
  <2>2. CASE ParseBulkDone
    BY <1>6, <2>2 DEF ParseBulkDone
  <2>3. CASE NotifyBulks \/ CloseReceived \/ HandlerWoken
    BY <1>5, <2>3 DEF NotifyBulks, CloseReceived, HandlerWoken
  <2>4. CASE CloseComplete
    <3>1. notifier.next # "idle" /\ PopSlave
      BY <2>4 DEF CloseComplete
    <3>2. a # <<>>
      BY <3>1 DEF IInv, HandlerInv
    <3>. QED BY <1>6, <3>1, <3>2
  <2>5. CASE CloseAnswer
    <3>1. notifier.next # "idle"
      BY <2>5 DEF CloseAnswer
    <3>2. a # <<>>
      BY <3>1 DEF IInv, HandlerInv
    <3>3. CASE HasRoom("master")
      <4>1. bulkMsgs' = [slave |-> Tail(a), master |-> Append(b, [type |-> "CLOSE"])]
        BY <2>5, <3>3 DEF CloseAnswer
      <4>. HIDE DEF a, b
      <4>2. RoomOf(Tail(a)) /\ RoomOf(Append(b, [type |-> "CLOSE"]))
        BY <1>2, <3>2, <3>3
      <4>. QED BY <4>1, <4>2 DEF RoomInv
    <3>4. CASE ~HasRoom("master")
      BY <1>5, <2>5, <3>4 DEF CloseAnswer
    <3>. QED BY <3>3, <3>4
  <2>. QED BY <1>9, <2>1, <2>2, <2>3, <2>4, <2>5 DEF SlotHandlerStep
<1>10. CASE PeerReceive
  <2>1. b # <<>> /\ bulkMsgs' = [slave |-> a, master |-> Tail(b)]
    BY <1>1, <1>10 DEF PeerReceive
  <2>. HIDE DEF a, b
  <2>. QED BY <1>1, <1>2, <2>1 DEF RoomInv
<1>11. CASE PeerSendClose
  BY <1>3, <1>11 DEF PeerSendClose
<1>12. CASE PeerClose
  BY <1>5, <1>12 DEF PeerClose
<1>13. ASSUME NEW d \in Dirs, PeerTransfer(d) PROVE RoomInv'
  BY <1>5, <1>13 DEF PeerTransfer
<1>14. ASSUME NEW d \in Dirs, PeerAnswer(d) PROVE RoomInv'
  BY <1>3, <1>14 DEF PeerAnswer
<1>. QED BY <1>7, <1>8, <1>9, <1>10, <1>11, <1>12, <1>13, <1>14 DEF BulkNext

(* The types of the bulk transfers: the entries and indexes of either ring,  *)
(* the states of the service on both sides, who holds its mutexes, and       *)
(* bulk_remove_event, never below zero. A transport never has more messages  *)
(* under way than it takes.                                                  *)
THEOREM BulkTypesKept == BulkSpec => []BulkTypeOK
<1>1. ASSUME IInv, OutcomeInv, HolderInv, RoomInv PROVE BulkTypeOK
  <2>1. bulkQ \in [Dirs -> Queue]
    BY <1>1 DEF IInv, TypeInv
  <2>2. PeerTypeInv
    BY <1>1 DEF OutcomeInv
  <2>3. peerQ \in [Dirs -> Peer]
        /\ srv \in [slave : {"OPEN", "CLOSESENT", "CLOSED"},
                    master : {"OPEN", "ABORTING", "ABORTRECVD", "CLOSESENT", "CLOSED"}]
    BY <2>2 DEF PeerTypeInv
  <2>4. HolderInv
    BY <1>1
  <2>5. bulkQ \in [Dirs -> [local_insert : Nat, remote_insert : Nat, process : Nat,
                            remote_notify : Nat, remove : Nat,
                            bulks : [0..(NumBulks - 1) ->
                              [userdata : BulkThreads \union {NoWaiter},
                               mode : {"blocking", "callback", "nocallback"},
                               actual : {"done", "aborted"}]]]]
    BY ONLY <2>1 DEF Queue, BulkEntry
  <2>6. peerQ \in [Dirs -> [local : Nat, remote : Nat, answered : Nat]]
    BY ONLY <2>3 DEF Peer
  <2>7. /\ bulkMutex \in BulkThreads \union {NoWaiter}
        /\ slotMutex \in BulkThreads \union {NoWaiter} /\ removeEvent \in Nat
    BY ONLY <2>4 DEF HolderInv
  <2>8. /\ btAt \in [BulkThreads -> {"idle", "lock", "stall", "slot", "send", "wait"}]
        /\ btCall \in [BulkThreads ->
             [dir : Dirs, mode : {"blocking", "callback", "nocallback"},
              bulk : Nat, calls : Nat]]
        /\ waiter \in [BulkThreads -> {"asleep", "done", "aborted"}]
    BY <1>1 DEF IInv, TypeInv, Call
  <2>9. notifier \in [dirs : {<<>>, <<"tx">>, <<"rx">>, DirOrder},
                      next : {"idle", "sendClose", "bailed", "complete"}]
    <3>1. notifier = [dirs |-> notifier.dirs, next |-> notifier.next]
          /\ notifier.dirs \in {<<>>, <<"tx">>, <<"rx">>, DirOrder}
      BY <1>1 DEF IInv, HandlerInv, Orders
    <3>2. notifier.next \in {"idle", "sendClose", "bailed", "complete"}
      BY <2>2 DEF PeerTypeInv
    <3>. QED BY ONLY <3>1, <3>2
  <2>10. \A side \in DOMAIN bulkMsgs : Len(bulkMsgs[side]) <= MessageRoom
    <3>1. bulkMsgs = [slave |-> bulkMsgs.slave, master |-> bulkMsgs.master]
      BY <1>1 DEF IInv, HandlerInv
    <3>2. DOMAIN bulkMsgs = {"slave", "master"}
      BY ONLY <3>1
    <3>3. Len(bulkMsgs["slave"]) <= MessageRoom /\ Len(bulkMsgs["master"]) <= MessageRoom
      BY <1>1 DEF RoomInv, RoomOf
    <3>. QED BY ONLY <3>2, <3>3
  <2>. QED BY ONLY <2>3, <2>5, <2>6, <2>7, <2>8, <2>9, <2>10 DEF BulkTypeOK
<1>2. BulkInit => IInv /\ OutcomeInv /\ HolderInv /\ RoomInv
  <2>. SUFFICES ASSUME BulkInit PROVE HolderInv /\ RoomInv
    BY BulkStarts, OutcomeStarts
  <2>1. HolderInv
    BY DEF BulkInit, HolderInv
  <2>2. bulkMsgs.slave = <<>> /\ bulkMsgs.master = <<>>
    BY DEF BulkInit
  <2>3. Len(<<>>) <= MessageRoom
    BY BulkAssumption
  <2>. QED BY <2>1, <2>2, <2>3 DEF RoomInv, RoomOf
<1>3. (IInv /\ OutcomeInv /\ HolderInv /\ RoomInv) /\ [BulkNext]_bulkVars
        => (IInv /\ OutcomeInv /\ HolderInv /\ RoomInv)'
  BY OutcomeStep, HolderStep, RoomStep
<1>. QED BY <1>1, <1>2, <1>3, PTL DEF BulkSpec
=============================================================================
