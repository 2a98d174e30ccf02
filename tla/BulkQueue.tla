------------------------------ MODULE BulkQueue ------------------------------
(***************************************************************************)
(* The bulk transfers of one open service: client threads on the ARM (the  *)
(* slave) queue them with vchiq_bulk_transfer, the VideoCore (the master)  *)
(* pairs each with one of its own and answers, the slot handler tells the  *)
(* clients, and either side may close the service meanwhile.               *)
(*                                                                         *)
(* A step ends where a mutex is taken or given back, or where the thread   *)
(* would wait.  notify_bulks runs without the mutex: one step per bulk.    *)
(* The master runs the same source; a step of it is a message it handles,  *)
(* a transfer its client queues, or a message it sends.  Bulks of one      *)
(* direction are numbered from 0, as the indexes of the queues count them. *)
(***************************************************************************)
EXTENDS Integers, Sequences, FiniteSets

CONSTANTS
  NumBulks,       (* VCHIQ_NUM_SERVICE_BULKS                                 *)
  BulkThreads,    (* client threads                                          *)
  BulkCalls,      (* bound: the transfers each asks for, direction and flags *)
  MessageRoom     (* messages either transport takes before its sender waits *)

NoWaiter == "none"

ASSUME BulkAssumption ==
  /\ NumBulks \in Nat \ {0} /\ MessageRoom \in Nat \ {0}
  /\ IsFiniteSet(BulkThreads) /\ NoWaiter \notin BulkThreads
  /\ BulkCalls \in [BulkThreads ->
                     Seq([dir : {"tx", "rx"}, flags : SUBSET {"callback",
                          "queued", "op_complete", "data_read"}])]

DirOrder == <<"tx", "rx">>
Dirs == {"tx", "rx"}

VARIABLES
  bulkQ,       (* VCHIQ_BULK_QUEUE_T of each direction                       *)
  peerQ,       (* the master's: transfers of its client, requests it got,    *)
               (* and answers it sent                                        *)
  srv,         (* srvstate, on either side                                   *)
  bulkMutex,   (* the holder of service->bulk_mutex                          *)
  slotMutex,   (* the holder of state->slot_mutex                            *)
  removeEvent, (* service->bulk_remove_event, shared by both queues          *)
  btAt,        (* where each thread is in vchiq_bulk_transfer                *)
  btCall,      (* its call: direction, mode, number of the bulk, calls made  *)
  waiter,      (* its bulk_waiter: what it was woken with                    *)
  notifier,    (* the slot handler: queues to notify, and what comes next    *)
  bulkMsgs,    (* messages on their way, by receiver                         *)
  bulkLog      (* history: who asked for each bulk and what became of it,    *)
               (* bulks queued too late for a close, bulks whose waiter was  *)
               (* taken by another thread                                    *)

bulkVars == <<bulkQ, peerQ, srv, bulkMutex, slotMutex, removeEvent, btAt,
              btCall, waiter, notifier, bulkMsgs, bulkLog>>

BulkIndex(n) == n % NumBulks

BulkInit ==
  /\ bulkQ = [d \in Dirs |->
                [local_insert |-> 0, remote_insert |-> 0, process |-> 0,
                 remote_notify |-> 0, remove |-> 0,
                 bulks |-> [i \in 0..(NumBulks - 1) |->
                              [userdata |-> NoWaiter, mode |-> "callback",
                               actual |-> "aborted"]]]]
  /\ peerQ = [d \in Dirs |-> [local |-> 0, remote |-> 0, answered |-> 0]]
  /\ srv = [slave |-> "OPEN", master |-> "OPEN"]
  /\ bulkMutex = NoWaiter /\ slotMutex = NoWaiter
  /\ removeEvent = 0
  /\ btAt = [t \in BulkThreads |-> "idle"]
  /\ btCall = [t \in BulkThreads |->
                 [dir |-> "tx", mode |-> "callback",
                  bulk |-> 0, calls |-> 0]]
  /\ waiter = [t \in BulkThreads |-> "asleep"]
  /\ notifier = [dirs |-> <<>>, next |-> "idle"]
  /\ bulkMsgs = [slave |-> <<>>, master |-> <<>>]
  /\ bulkLog = [asked |-> [d \in Dirs |-> <<>>], told |-> [d \in Dirs |-> <<>>],
                late |-> {}, taken |-> {}]

HasRoom(side) == Len(bulkMsgs[side]) < MessageRoom
SendTo(side, m) == bulkMsgs' = [bulkMsgs EXCEPT ![side] = Append(@, m)]

-----------------------------------------------------------------------------
(* What the flags of a VCHI transfer ask for.                                *)

(* vchi_bulk_queue_receive.                                                  *)
ReceiveMode(flags) ==
  CASE flags = {"callback", "queued"} -> "callback"
    [] flags = {"op_complete"}        -> "blocking"
    [] flags \in {{"queued"}, {}}     -> "nocallback"
    [] OTHER                          -> "unsupported"

(* vchi_bulk_queue_transmit also waits until the data is read.               *)
TransmitMode(flags) ==
  IF flags = {"data_read"} THEN "blocking" ELSE ReceiveMode(flags)

Mode(c) == IF c.dir = "rx" THEN ReceiveMode(c.flags) ELSE TransmitMode(c.flags)

(* vchiq_bulk_transmit and _receive: the others return once it is queued.    *)
Blocks(mode) == mode = "blocking"

-----------------------------------------------------------------------------
(* vchiq_bulk_transfer on the slave.                                         *)

BtGoto(t, here, next) == btAt[t] = here /\ btAt' = [btAt EXCEPT ![t] = next]

TransferCall(t) ==
  /\ BtGoto(t, "idle", "lock")
  /\ btCall[t].calls < Len(BulkCalls[t])
  /\ srv.slave = "OPEN"
  /\ LET c == BulkCalls[t][btCall[t].calls + 1] IN
     /\ Mode(c) # "unsupported"
     /\ btCall' = [btCall EXCEPT ![t] = [dir |-> c.dir, mode |-> Mode(c), bulk |-> 0,
                                         calls |-> @.calls + 1]]
  /\ waiter' = [waiter EXCEPT ![t] = "asleep"]
  /\ UNCHANGED <<bulkQ, peerQ, srv, bulkMutex, slotMutex, removeEvent,
                 notifier, bulkMsgs, bulkLog>>

(* Variant for mutation: the ring takes one bulk too many.                   *)
RingFullLate(q) == q.local_insert = q.remove + NumBulks + 1

RingFull(q) == q.local_insert = q.remove + NumBulks

(* With the mutex, either the ring is full and the thread stalls without it, *)
(* or the next entry is filled in and the mutex kept.                        *)
TransferLock(t) ==
  LET d == btCall[t].dir
      q == bulkQ[d]
      entry == [userdata |-> t, mode |-> btCall[t].mode, actual |-> "aborted"]
  IN /\ bulkMutex = NoWaiter
     /\ IF RingFull(q)
        THEN BtGoto(t, "lock", "stall") /\ UNCHANGED <<bulkQ, bulkMutex>>
        ELSE /\ BtGoto(t, "lock", "slot")
             /\ bulkMutex' = t
             /\ bulkQ' = [bulkQ EXCEPT
                            ![d].bulks[BulkIndex(q.local_insert)] = entry]
     /\ UNCHANGED <<peerQ, srv, slotMutex, removeEvent, btCall, waiter,
                    notifier, bulkMsgs, bulkLog>>

TransferStalled(t) ==
  /\ BtGoto(t, "stall", "lock")
  /\ removeEvent > 0
  /\ removeEvent' = removeEvent - 1
  /\ UNCHANGED <<bulkQ, peerQ, srv, bulkMutex, slotMutex, btCall, waiter,
                 notifier, bulkMsgs, bulkLog>>

(* Variant for mutation: the state of the service is not looked at again.    *)
TransferSlotUnchecked(t) ==
  /\ slotMutex = NoWaiter
  /\ BtGoto(t, "slot", "send")
  /\ slotMutex' = t
  /\ UNCHANGED <<bulkQ, peerQ, srv, bulkMutex, removeEvent, btCall, waiter,
                 notifier, bulkMsgs, bulkLog>>

(* Under the slot mutex the service cannot be closed: if it was, give up.    *)
TransferSlot(t) ==
  /\ slotMutex = NoWaiter
  /\ IF srv.slave = "OPEN"
     THEN BtGoto(t, "slot", "send") /\ slotMutex' = t /\ UNCHANGED bulkMutex
     ELSE BtGoto(t, "slot", "idle") /\ bulkMutex' = NoWaiter
          /\ UNCHANGED slotMutex
  /\ UNCHANGED <<bulkQ, peerQ, srv, removeEvent, btCall, waiter,
                 notifier, bulkMsgs, bulkLog>>

(* BULK_TX or BULK_RX is queued, then the bulk is inserted; both mutexes are *)
(* held while the transport has no room.                                     *)
TransferSend(t) ==
  LET d == btCall[t].dir
      n == bulkQ[d].local_insert
  IN /\ HasRoom("master")
     /\ BtGoto(t, "send", IF Blocks(btCall[t].mode) THEN "wait" ELSE "idle")
     /\ SendTo("master", [type |-> "BULK", dir |-> d])
     /\ bulkQ' = [bulkQ EXCEPT ![d].local_insert = n + 1]
     /\ btCall' = [btCall EXCEPT ![t].bulk = n]
     /\ slotMutex' = NoWaiter /\ bulkMutex' = NoWaiter
     /\ bulkLog' = [bulkLog EXCEPT
                      !.asked[d] = Append(@, t),
                      !.late = IF notifier.next \in {"sendClose", "bailed"}
                               THEN @ \union {<<d, n>>} ELSE @]
     /\ UNCHANGED <<peerQ, srv, removeEvent, waiter, notifier>>

(* vchiq_blocking_bulk_transfer, as it returns: the entry forgets its waiter,*)
(* whose waiter it is by now.                                                *)
TransferForget(t) ==
  LET d == btCall[t].dir
      i == BulkIndex(btCall[t].bulk)
      now == CHOOSE n \in bulkQ[d].remove..(bulkQ[d].remove + NumBulks - 1) :
               BulkIndex(n) = i
  IN /\ BtGoto(t, "wait", "idle")
     /\ waiter[t] # "asleep"
     /\ bulkQ' = [bulkQ EXCEPT ![d].bulks[i].userdata = NoWaiter]
     /\ bulkLog' = [bulkLog EXCEPT
                      !.taken = IF bulkQ[d].bulks[i].userdata \in {t, NoWaiter}
                                THEN @ ELSE @ \union {<<d, now>>}]
     /\ UNCHANGED <<peerQ, srv, bulkMutex, slotMutex, removeEvent, btCall,
                    waiter, notifier, bulkMsgs>>

TransferStep(t) ==
  \/ TransferLock(t) \/ TransferStalled(t) \/ TransferSlot(t)
  \/ TransferSend(t) \/ TransferForget(t)

-----------------------------------------------------------------------------
(* The slot handler of the slave.                                            *)

HandlerIdle == notifier = [dirs |-> <<>>, next |-> "idle"]
Received == Head(bulkMsgs.slave)
PopSlave == bulkMsgs' = [bulkMsgs EXCEPT !.slave = Tail(@)]

(* BULK_TX_DONE or BULK_RX_DONE: the bulk it answers is the oldest one; it   *)
(* is dropped if nothing was asked.                                          *)
ParseBulkDone ==
  /\ HandlerIdle /\ bulkMsgs.slave # <<>> /\ Received.type = "DONE"
  /\ bulkMutex = NoWaiter
  /\ PopSlave
  /\ LET d == Received.dir
         q == bulkQ[d]
     IN IF q.remote_insert >= q.local_insert
        THEN UNCHANGED <<bulkQ, notifier>>
        ELSE /\ bulkQ' = [bulkQ EXCEPT
                   ![d].bulks[BulkIndex(q.remote_insert)].actual = Received.actual,
                   ![d].remote_insert = @ + 1, ![d].process = @ + 1]
             /\ notifier' = [notifier EXCEPT !.dirs = <<d>>]
  /\ UNCHANGED <<peerQ, srv, bulkMutex, slotMutex, removeEvent, btAt, btCall,
                 waiter, bulkLog>>

(* The oldest bulk leaves the queue: its waiter is woken or its client called*)
(* back.                                                                     *)
TellClient(d) ==
  LET q == bulkQ[d]
      b == q.bulks[BulkIndex(q.remove)]
  IN /\ bulkQ' = [bulkQ EXCEPT ![d].remote_notify = q.process, ![d].remove = @ + 1]
     /\ waiter' = IF b.mode = "blocking" /\ b.userdata # NoWaiter
                  THEN [waiter EXCEPT ![b.userdata] = b.actual]
                  ELSE waiter
     /\ bulkLog' = [bulkLog EXCEPT
                      !.told[d] = Append(@, [to |-> b.userdata, actual |-> b.actual])]

NothingToNotify(d) ==
  /\ bulkQ[d].remove = bulkQ[d].process
  /\ notifier' = [notifier EXCEPT !.dirs = Tail(@)]
  /\ UNCHANGED <<bulkQ, removeEvent, waiter, bulkLog>>

(* Variant for mutation: the threads that stall are not woken.               *)
NotifyBulksNoUp ==
  /\ notifier.dirs # <<>>
  /\ \/ NothingToNotify(Head(notifier.dirs))
     \/ /\ bulkQ[Head(notifier.dirs)].remove # bulkQ[Head(notifier.dirs)].process
        /\ TellClient(Head(notifier.dirs))
        /\ UNCHANGED <<removeEvent, notifier>>
  /\ UNCHANGED <<peerQ, srv, bulkMutex, slotMutex, btAt, btCall, bulkMsgs>>

(* notify_bulks: one bulk after the other, a stalled thread is woken each    *)
(* time.                                                                     *)
NotifyBulks ==
  /\ notifier.dirs # <<>>
  /\ \/ NothingToNotify(Head(notifier.dirs))
     \/ /\ bulkQ[Head(notifier.dirs)].remove # bulkQ[Head(notifier.dirs)].process
        /\ TellClient(Head(notifier.dirs))
        /\ removeEvent' = removeEvent + 1
        /\ UNCHANGED notifier
  /\ UNCHANGED <<peerQ, srv, bulkMutex, slotMutex, btAt, btCall, bulkMsgs>>

-----------------------------------------------------------------------------
(* vchiq_close_service_internal of an open service, on the slave.            *)

(* Closed by its client (VCHIQ_POLL_TERMINATE): only CLOSE is sent, the      *)
(* master aborts first.  With no room the poll is asked for again.           *)
CloseTerminate ==
  /\ HandlerIdle /\ srv.slave = "OPEN"
  /\ slotMutex = NoWaiter /\ HasRoom("master")
  /\ SendTo("master", [type |-> "CLOSE"])
  /\ srv' = [srv EXCEPT !.slave = "CLOSESENT"]
  /\ UNCHANGED <<bulkQ, peerQ, bulkMutex, slotMutex, removeEvent, btAt, btCall,
                 waiter, notifier, bulkLog>>

(* abort_outstanding_bulks: dummies stand in for the missing half.           *)
Aborted(q) == [q EXCEPT !.remote_insert = q.local_insert,
                        !.process = q.local_insert]

(* CLOSE from the master: do_abort_bulks in either state.                    *)
CloseReceived ==
  /\ HandlerIdle /\ bulkMsgs.slave # <<>> /\ Received.type = "CLOSE"
  /\ bulkMutex = NoWaiter
  /\ bulkQ' = [d \in Dirs |-> Aborted(bulkQ[d])]
  /\ notifier' = [dirs |-> DirOrder,
                  next |-> IF srv.slave = "OPEN" THEN "sendClose" ELSE "complete"]
  /\ bulkLog' = [bulkLog EXCEPT !.late = {}]
  /\ UNCHANGED <<peerQ, srv, bulkMutex, slotMutex, removeEvent, btAt, btCall,
                 waiter, bulkMsgs>>

(* The answer to the master's CLOSE.  With no room for it parse_rx_slots     *)
(* bails, and the slot handler sleeps in remote_event_wait.                  *)
CloseAnswer ==
  /\ notifier.dirs = <<>> /\ notifier.next = "sendClose"
  /\ slotMutex = NoWaiter
  /\ notifier' = [notifier EXCEPT !.next = IF HasRoom("master") THEN "idle" ELSE "bailed"]
  /\ IF HasRoom("master")
     THEN /\ srv' = [srv EXCEPT !.slave = "CLOSED"]
          /\ bulkMsgs' = [slave |-> Tail(bulkMsgs.slave),
                          master |-> Append(bulkMsgs.master, [type |-> "CLOSE"])]
     ELSE UNCHANGED <<srv, bulkMsgs>>
  /\ UNCHANGED <<bulkQ, peerQ, bulkMutex, slotMutex, removeEvent, btAt, btCall,
                 waiter, bulkLog>>

CloseComplete ==
  /\ notifier.dirs = <<>> /\ notifier.next = "complete"
  /\ notifier' = [notifier EXCEPT !.next = "idle"]
  /\ srv' = [srv EXCEPT !.slave = "CLOSED"]
  /\ PopSlave
  /\ UNCHANGED <<bulkQ, peerQ, bulkMutex, slotMutex, removeEvent, btAt, btCall,
                 waiter, bulkLog>>

(* Room for the answer fires recycle, not trigger: only a message for another*)
(* service or a poll wakes the slot handler, to parse the CLOSE again, from  *)
(* the aborting on.                                                          *)
HandlerWoken ==
  /\ notifier.next = "bailed"
  /\ notifier' = [notifier EXCEPT !.next = "idle"]
  /\ UNCHANGED <<bulkQ, peerQ, srv, bulkMutex, slotMutex, removeEvent, btAt,
                 btCall, waiter, bulkMsgs, bulkLog>>

SlotHandlerStep ==
  \/ ParseBulkDone \/ NotifyBulks
  \/ CloseReceived \/ CloseAnswer \/ CloseComplete

-----------------------------------------------------------------------------
(* The master.                                                               *)

PeerUnchanged ==
  UNCHANGED <<bulkQ, bulkMutex, slotMutex, removeEvent, btAt, btCall, waiter,
              notifier, bulkLog>>

(* The master's client queues its half of a request: the bulk is paired and  *)
(* transferred (resolve_bulks).  Earlier or later makes no difference to the *)
(* slave.                                                                    *)
PeerTransfer(d) ==
  /\ srv.master = "OPEN"
  /\ peerQ[d].local < peerQ[d].remote
  /\ peerQ' = [peerQ EXCEPT ![d].local = @ + 1]
  /\ UNCHANGED <<srv, bulkMsgs>>
  /\ PeerUnchanged

(* BULK_TX and BULK_RX are ignored once the service is not open; CLOSE makes *)
(* it abort what is outstanding, unless it has done so.                      *)
PeerReceive ==
  /\ bulkMsgs.master # <<>>
  /\ bulkMsgs' = [bulkMsgs EXCEPT !.master = Tail(@)]
  /\ LET m == Head(bulkMsgs.master) IN
     \/ /\ m.type = "BULK"
        /\ peerQ' = IF srv.master \in {"OPEN", "ABORTING"}
                    THEN [peerQ EXCEPT ![m.dir].remote = @ + 1] ELSE peerQ
        /\ UNCHANGED srv
     \/ /\ m.type = "CLOSE"
        /\ srv' = [srv EXCEPT !.master =
                     IF @ = "CLOSESENT" THEN "CLOSED" ELSE "ABORTRECVD"]
        /\ UNCHANGED peerQ
  /\ PeerUnchanged

(* notify_bulks on the master: BULK_*_DONE for each request paired, or       *)
(* aborted with a dummy for the missing half.                                *)
PeerAnswer(d) ==
  LET q == peerQ[d] IN
  /\ q.answered < q.remote
  /\ q.answered < q.local \/ srv.master \in {"ABORTING", "ABORTRECVD"}
  /\ HasRoom("slave")
  /\ SendTo("slave", [type |-> "DONE", dir |-> d,
                      actual |-> IF q.answered < q.local THEN "done" ELSE "aborted"])
  /\ peerQ' = [peerQ EXCEPT ![d].answered = @ + 1]
  /\ UNCHANGED srv
  /\ PeerUnchanged

PeerClose ==
  /\ srv.master = "OPEN"
  /\ srv' = [srv EXCEPT !.master = "ABORTING"]
  /\ UNCHANGED <<peerQ, bulkMsgs>>
  /\ PeerUnchanged

(* CLOSE follows the answers.                                                *)
PeerSendClose ==
  /\ srv.master \in {"ABORTING", "ABORTRECVD"}
  /\ \A d \in Dirs : peerQ[d].answered = peerQ[d].remote
  /\ HasRoom("slave")
  /\ SendTo("slave", [type |-> "CLOSE"])
  /\ srv' = [srv EXCEPT !.master = IF @ = "ABORTING" THEN "CLOSESENT" ELSE "CLOSED"]
  /\ UNCHANGED peerQ
  /\ PeerUnchanged

BulkNext ==
  \/ \E t \in BulkThreads :
       TransferCall(t) \/ TransferStep(t)
  \/ SlotHandlerStep \/ CloseTerminate \/ HandlerWoken
  \/ PeerReceive \/ PeerSendClose \/ PeerClose
  \/ \E d \in Dirs : PeerTransfer(d) \/ PeerAnswer(d)

BulkSpec == BulkInit /\ [][BulkNext]_bulkVars

(* Threads and slot handlers run, and the VideoCore's client queues its half *)
(* of what the ARM asks for.  A slot handler that bailed need not wake: the  *)
(* master's close is tried again if its client asked for it, its answer to   *)
(* the slave's CLOSE may wait for ever.                                      *)
BulkFairness ==
  /\ \A t \in BulkThreads : WF_bulkVars(TransferStep(t))
  /\ WF_bulkVars(SlotHandlerStep)
  /\ WF_bulkVars(PeerReceive)
  /\ WF_bulkVars(srv.master = "ABORTING" /\ PeerSendClose)
  /\ \A d \in Dirs : WF_bulkVars(PeerAnswer(d) \/ PeerTransfer(d))

-----------------------------------------------------------------------------
BulkTypeOK ==
  /\ bulkQ \in [Dirs -> [local_insert : Nat, remote_insert : Nat, process : Nat,
                         remote_notify : Nat, remove : Nat,
                         bulks : [0..(NumBulks - 1) ->
                           [userdata : BulkThreads \union {NoWaiter},
                            mode : {"blocking", "callback", "nocallback"},
                            actual : {"done", "aborted"}]]]]
  /\ peerQ \in [Dirs -> [local : Nat, remote : Nat, answered : Nat]]
  /\ srv \in [slave : {"OPEN", "CLOSESENT", "CLOSED"},
              master : {"OPEN", "ABORTING", "ABORTRECVD", "CLOSESENT", "CLOSED"}]
  /\ bulkMutex \in BulkThreads \union {NoWaiter}
  /\ slotMutex \in BulkThreads \union {NoWaiter}
  /\ removeEvent \in Nat
  /\ btAt \in [BulkThreads -> {"idle", "lock", "stall", "slot", "send", "wait"}]
  /\ btCall \in [BulkThreads -> [dir : Dirs,
                                 mode : {"blocking", "callback", "nocallback"},
                                 bulk : Nat, calls : Nat]]
  /\ waiter \in [BulkThreads -> {"asleep", "done", "aborted"}]
  /\ notifier \in [dirs : {<<>>, <<"tx">>, <<"rx">>, DirOrder},
                   next : {"idle", "sendClose", "bailed", "complete"}]
  /\ \A side \in DOMAIN bulkMsgs : Len(bulkMsgs[side]) <= MessageRoom

(* The indexes of a queue stay in order and within a ring of each other, the *)
(* slave pairs a bulk as it is answered, and no entry is reused before its   *)
(* bulk has been notified: the entries belong to the bulks that follow       *)
(* "remove", but for those whose waiter another thread has taken.            *)
BulkRing ==
  \A d \in Dirs :
    LET q == bulkQ[d] IN
    /\ q.remote_notify <= q.process
    /\ q.remove <= q.process /\ q.process = q.remote_insert
    /\ q.process <= q.local_insert /\ q.local_insert <= q.remove + NumBulks
    /\ \A n \in q.remove..(q.local_insert - 1) :
         \/ q.bulks[BulkIndex(n)].userdata = bulkLog.asked[d][n + 1]
         \/ <<d, n>> \in bulkLog.taken

(* Each bulk is reported once, in the order of the requests, to whoever      *)
(* asked for it, and as done exactly if the VideoCore joined it: an answer   *)
(* under way when the service closes is not overtaken by the abort.  When it *)
(* has closed nothing is left in its queues, except a bulk that was queued   *)
(* after the abort and before the answer to the CLOSE.                       *)
BulkOutcomes ==
  \A d \in Dirs :
    LET told == bulkLog.told[d] IN
    /\ srv.slave = "CLOSED" =>
         \A n \in bulkQ[d].remove..(bulkQ[d].local_insert - 1) :
           <<d, n>> \in bulkLog.late
    /\ Len(told) = bulkQ[d].remove
    /\ \A k \in 1..Len(told) :
         /\ told[k].to = bulkLog.asked[d][k] \/ <<d, k - 1>> \in bulkLog.taken
         /\ (told[k].actual = "done") =
              (k <= peerQ[d].local)

(* A bulk queued after the abort is not aborted unless the CLOSE is parsed   *)
(* again, and whoever needs its entry stalls with it; a thread whose waiter  *)
(* another one has forgotten is not woken.                                   *)
LeftBehind(t) ==
  LET d == btCall[t].dir IN
  \/ btAt[t] = "wait" /\ <<d, btCall[t].bulk>> \in bulkLog.late \union bulkLog.taken
  \/ btAt[t] = "stall" /\ \E n \in bulkQ[d].remove..(bulkQ[d].local_insert - 1) :
                            <<d, n>> \in bulkLog.late

(* vchiq_bulk_transfer returns, whether the service is closed meanwhile or   *)
(* not, and whether the slot handler ever finds room for its answer to the   *)
(* CLOSE, unless the caller is left behind.                                  *)
BulkReturns ==
  \A t \in BulkThreads :
    btAt[t] # "idle" ~> btAt[t] = "idle" \/ LeftBehind(t)
=============================================================================
