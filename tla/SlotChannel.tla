----------------------------- MODULE SlotChannel -----------------------------
(***************************************************************************)
(* One direction of the VCHIQ slot transport (vchiq_core.c): the threads   *)
(* of one side queue messages into its slots (queue_message,               *)
(* reserve_space), the other side parses them (parse_rx_slots), keeps the  *)
(* DATA messages claimed until a client releases them (release_slot), and  *)
(* the recycle thread takes the freed slots back (process_free_queue).     *)
(* Both directions run this same code; is_master only swaps the roles of   *)
(* slot_zero->master and slot_zero->slave.                                 *)
(*                                                                         *)
(* A byte position n * VCHIQ_SLOT_SIZE + k of the stream is the record     *)
(* [slot |-> n, off |-> k], and sizes are counted in units of one message  *)
(* header, the granularity calc_stride rounds to.  Payloads are reduced to *)
(* the identity of their message.                                          *)
(***************************************************************************)
EXTENDS Integers, Sequences, FiniteSets

CONSTANTS
  TotalSlots,     (* slots handed to vchiq_init_slots after slot zero       *)
  QueueLen,       (* VCHIQ_MAX_SLOTS_PER_SIDE, length of the slot queue     *)
  SlotSize,       (* VCHIQ_SLOT_SIZE, in headers                            *)
  Strides,        (* strides of the messages the clients send               *)
  ControlStrides, (* strides of the slot handler's control messages         *)
  Services,       (* ports in use on the sending side                       *)
  Senders,        (* threads calling vchiq_queue_message                    *)
  Svc,            (* the service each sender sends on                       *)
  Closable,       (* the services an application closes                     *)
  Handler,        (* the slot handler thread, which sends control messages  *)
  NoThread,       (* slot_mutex is free                                     *)
  NoService,      (* a header that belongs to no service                    *)
  SlotQuotaOption,     (* vchiq_set_service_option values; 0 is the default *)
  MessageQuotaOption,
  MaxMsgs         (* bound on the messages issued                           *)

ASSUME SlotChannelAssumption ==
  /\ TotalSlots \in Nat /\ TotalSlots >= 4
  /\ QueueLen \in Nat /\ QueueLen >= TotalSlots - TotalSlots \div 2 - 1
  /\ SlotSize \in Nat \ {0}
  /\ Strides \subseteq 1..SlotSize /\ ControlStrides \subseteq 1..SlotSize
  /\ Svc \in [Senders -> Services]
  /\ Closable \subseteq Services
  /\ Handler \notin Senders /\ IsFiniteSet(Services)
  /\ NoThread \notin Senders \union {Handler}
  /\ NoService \notin Services
  /\ SlotQuotaOption \in Nat /\ MessageQuotaOption \in Nat
  /\ MaxMsgs \in Nat

(* vchiq_init_slots: the slave's share, relative to first_data_slot.        *)
SlotFirst == TotalSlots \div 2 + 1
SlotLast  == TotalSlots - 1
Slots     == SlotFirst..SlotLast
NSlots    == SlotLast - SlotFirst + 1
NoSlot    == 0

(* vchiq_init_state and vchiq_add_service_internal: the quotas.             *)
DefaultSlotQuota    == NSlots \div 2
DefaultMessageQuota == (DefaultSlotQuota * 256) % 65536
DataQuota           == NSlots - 1
SlotQuota    == IF SlotQuotaOption = 0 THEN DefaultSlotQuota
                                       ELSE SlotQuotaOption
MessageQuota == IF MessageQuotaOption = 0 THEN DefaultMessageQuota
                                          ELSE MessageQuotaOption

(* vchiq_set_service_option: setting a quota signals the service.            *)
OptionSignals == (IF SlotQuotaOption = 0 THEN 0 ELSE 1)
                 + (IF MessageQuotaOption = 0 THEN 0 ELSE 1)

Threads == Senders \union {Handler}
Offsets == 0..(SlotSize - 1)
Monus(a, b) == IF a > b THEN a - b ELSE 0

NoHeader == [type |-> "NONE", svc |-> NoService, id |-> 0, stride |-> 1,
             claimed |-> FALSE]
Blank == [o \in Offsets |-> NoHeader]

VARIABLES
  pc,                 (* where each thread stands in queue_message           *)
  msg,                (* the message each thread is sending                  *)
  slotMutex,          (* owner of state->slot_mutex                          *)
  localTxPos,         (* state->local_tx_pos                                 *)
  txData,             (* the slot state->tx_data points to                   *)
  slotAvailable,      (* count of state->slot_available_event                *)
  slotQueueAvailable, (* state->slot_queue_available                         *)
  msgUse, slotUse, prevTx, quotaEvent,  (* state->service_quotas[]           *)
  dataUse, prevData, dataEvent,         (* state->data_*                     *)
  closing, srvstate, closePhase,        (* the services' closing handshake   *)
  txPos,              (* local->tx_pos, shared                               *)
  slotQueue,          (* local->slot_queue, shared                           *)
  slotQueueRecycle,   (* local->slot_queue_recycle, shared                   *)
  mem,                (* the message headers in the slots, shared            *)
  rxPos, rxLimit,     (* the receiver's rx_pos and its snapshot of tx_pos    *)
  rxData,             (* the slot the receiver's rx_data points to           *)
  useCount, releaseCount,   (* the receiver's slot_info[]                    *)
  peerOpen,           (* services the receiver still has open                *)
  issued,             (* messages issued so far, bounded by MaxMsgs          *)
  sent, delivered     (* history: messages published, messages parsed        *)

quotaVars  == <<msgUse, slotUse, prevTx, quotaEvent, dataUse, prevData,
                dataEvent>>
spaceVars  == <<localTxPos, txData, slotAvailable, txPos, mem>>
closeVars  == <<closing, srvstate, closePhase>>
rxVars     == <<rxPos, rxLimit, rxData, useCount, releaseCount, peerOpen,
                delivered>>
queueVars  == <<slotQueueAvailable, slotQueue, slotQueueRecycle>>
vars == <<pc, msg, slotMutex, quotaVars, spaceVars, closeVars, rxVars,
          queueVars, issued, sent>>

-----------------------------------------------------------------------------
(* Positions in the stream.                                                  *)

(* Variant for mutation: the wrap at the slot boundary is off by one.        *)
AdvancePastEnd(pos, k) ==
  IF pos.off + k > SlotSize THEN [slot |-> pos.slot + 1, off |-> 0]
                            ELSE [slot |-> pos.slot, off |-> pos.off + k]

Advance(pos, k) ==
  IF pos.off + k = SlotSize THEN [slot |-> pos.slot + 1, off |-> 0]
                            ELSE [slot |-> pos.slot, off |-> pos.off + k]

(* SLOT_QUEUE_INDEX_FROM_POS(local_tx_pos + stride - 1)                      *)
TxEndIndex(k) == IF localTxPos.off + k <= SlotSize THEN localTxPos.slot
                                                   ELSE localTxPos.slot + 1

(* Variant for mutation: the slot after the message, not the one it ends in. *)
NextTxIndex == localTxPos.slot

(* SLOT_QUEUE_INDEX_FROM_POS(local_tx_pos - 1)                               *)
LastTxIndex == IF localTxPos.off = 0 THEN localTxPos.slot - 1
                                     ELSE localTxPos.slot

Init ==
  /\ pc = [t \in Threads |-> "idle"]
  /\ msg = [t \in Threads |-> NoHeader]
  /\ slotMutex = NoThread
  /\ localTxPos = [slot |-> 0, off |-> 0]
  /\ txPos = [slot |-> 0, off |-> 0]
  /\ txData = NoSlot
  /\ slotAvailable = NSlots
  /\ slotQueueAvailable = NSlots
  /\ slotQueueRecycle = NSlots
  /\ slotQueue = [i \in 0..(QueueLen - 1) |->
                    IF i < NSlots THEN SlotFirst + i ELSE NoSlot]
  /\ mem = [s \in Slots |-> Blank]
  /\ msgUse = [s \in Services |-> 0]
  /\ slotUse = [s \in Services |-> 0]
  /\ prevTx = [s \in Services |-> -1]
  /\ quotaEvent = [s \in Services |-> OptionSignals]
  /\ dataUse = 0
  /\ prevData = -1
  /\ dataEvent = 0
  /\ closing = [s \in Services |-> FALSE]
  /\ srvstate = [s \in Services |-> "OPEN"]
  /\ closePhase = [s \in Services |-> "none"]
  /\ rxPos = [slot |-> 0, off |-> 0]
  /\ rxLimit = [slot |-> 0, off |-> 0]
  /\ rxData = NoSlot
  /\ useCount = [s \in Slots |-> 0]
  /\ releaseCount = [s \in Slots |-> 0]
  /\ peerOpen = [s \in Services |-> TRUE]
  /\ issued = 0
  /\ sent = <<>>
  /\ delivered = <<>>

(* queue_message returns to its caller.                                      *)
Return(t) ==
  /\ pc' = [pc EXCEPT ![t] = "idle"]
  /\ msg' = [msg EXCEPT ![t] = NoHeader]

(* It stays inside, at the point named next.                                 *)
Goto(t, next) ==
  /\ pc' = [pc EXCEPT ![t] = next]
  /\ UNCHANGED msg

-----------------------------------------------------------------------------
(* Entering queue_message.                                                   *)

(* vchiq_queue_message on an open service.                                   *)
SendCall(t, k) ==
  /\ pc[t] = "idle"
  /\ issued < MaxMsgs
  /\ srvstate[Svc[t]] = "OPEN"
  /\ msg' = [msg EXCEPT ![t] = [type |-> "DATA", svc |-> Svc[t],
                                id |-> issued + 1, stride |-> k,
                                claimed |-> FALSE]]
  /\ issued' = issued + 1
  /\ pc' = [pc EXCEPT ![t] = "lock"]
  /\ UNCHANGED <<slotMutex, quotaVars, spaceVars, closeVars, rxVars,
                 queueVars, sent>>

(* A control message of the slot handler other than CLOSE.                   *)
ControlCall(k) ==
  /\ pc[Handler] = "idle"
  /\ issued < MaxMsgs
  /\ msg' = [msg EXCEPT ![Handler] = [type |-> "CTRL", svc |-> NoService,
                                      id |-> issued + 1, stride |-> k,
                                      claimed |-> FALSE]]
  /\ issued' = issued + 1
  /\ pc' = [pc EXCEPT ![Handler] = "lock"]
  /\ UNCHANGED <<slotMutex, quotaVars, spaceVars, closeVars, rxVars,
                 queueVars, sent>>

(* The slot handler polls a service marked for termination and queues its    *)
(* CLOSE; it comes back here when queue_message returns VCHIQ_RETRY.         *)
CloseCall(s) ==
  /\ pc[Handler] = "idle"
  /\ closePhase[s] = "poll"
  /\ srvstate[s] = "OPEN"
  /\ msg' = [msg EXCEPT ![Handler] = [type |-> "CLOSE", svc |-> s, id |-> 0,
                                      stride |-> 1, claimed |-> FALSE]]
  /\ pc' = [pc EXCEPT ![Handler] = "lock"]
  /\ UNCHANGED <<slotMutex, quotaVars, spaceVars, closeVars, rxVars,
                 queueVars, issued, sent>>

(* mark_service_closing: set the flag, ...                                   *)
MarkClosing(s) ==
  /\ s \in Closable
  /\ closePhase[s] = "none"
  /\ closing' = [closing EXCEPT ![s] = TRUE]
  /\ closePhase' = [closePhase EXCEPT ![s] = "sync"]
  /\ UNCHANGED <<pc, msg, slotMutex, quotaVars, spaceVars, srvstate, rxVars,
                 queueVars, issued, sent>>

(* ... pass through slot_mutex, wake a sender, and ask the slot handler to   *)
(* terminate the service.                                                    *)
SyncClosing(s) ==
  /\ closePhase[s] = "sync"
  /\ slotMutex = NoThread
  /\ quotaEvent' = [quotaEvent EXCEPT ![s] = @ + 1]
  /\ closePhase' = [closePhase EXCEPT ![s] = "poll"]
  /\ UNCHANGED <<pc, msg, slotMutex, msgUse, slotUse, prevTx, dataUse,
                 prevData, dataEvent, spaceVars, closing, srvstate, rxVars,
                 queueVars, issued, sent>>

-----------------------------------------------------------------------------
(* queue_message: the quotas of a DATA message.                              *)

DataStalled(k) ==
  TxEndIndex(k) # prevData /\ dataUse = DataQuota

(* Variant for mutation: wait only when both quotas are used up.             *)
ServiceStalledOnBoth(s, k) ==
  /\ msgUse[s] = MessageQuota
  /\ TxEndIndex(k) # prevTx[s] /\ slotUse[s] = SlotQuota

ServiceStalled(s, k) ==
  \/ msgUse[s] = MessageQuota
  \/ TxEndIndex(k) # prevTx[s] /\ slotUse[s] = SlotQuota

(* The second loop: wait for the service's quota, or go on with the mutex.   *)
ServiceQuota(t) ==
  \/ /\ ServiceStalled(msg[t].svc, msg[t].stride)
     /\ Goto(t, "quotaWait")
     /\ slotMutex' = NoThread
  \/ /\ ~ServiceStalled(msg[t].svc, msg[t].stride)
     /\ Goto(t, "reserve")
     /\ slotMutex' = t

LockForData(t) ==
  /\ pc[t] = "lock" /\ msg[t].type = "DATA"
  /\ slotMutex = NoThread
  /\ \/ /\ closing[msg[t].svc]
        /\ Return(t)
        /\ UNCHANGED slotMutex
     \/ /\ ~closing[msg[t].svc] /\ DataStalled(msg[t].stride)
        /\ Goto(t, "dataWait")
        /\ UNCHANGED slotMutex
     \/ /\ ~closing[msg[t].svc] /\ ~DataStalled(msg[t].stride)
        /\ ServiceQuota(t)
  /\ UNCHANGED <<quotaVars, spaceVars, closeVars, rxVars, queueVars,
                 issued, sent>>

(* down(data_quota_event)                                                    *)
DataQuotaDown(t) ==
  /\ pc[t] = "dataWait"
  /\ dataEvent > 0
  /\ dataEvent' = dataEvent - 1
  /\ Goto(t, "dataRelock")
  /\ UNCHANGED <<slotMutex, msgUse, slotUse, prevTx, quotaEvent, dataUse,
                 prevData, spaceVars, closeVars, rxVars, queueVars, issued,
                 sent>>

(* Variant for mutation: the woken sender keeps the signal to itself.        *)
DataRelockAlone(t) ==
  /\ pc[t] = "dataRelock"
  /\ slotMutex = NoThread
  /\ \/ /\ DataStalled(msg[t].stride)
        /\ Goto(t, "dataWait")
        /\ UNCHANGED slotMutex
     \/ /\ ~DataStalled(msg[t].stride)
        /\ ServiceQuota(t)
  /\ UNCHANGED <<quotaVars, spaceVars, closeVars, rxVars, queueVars, issued,
                 sent>>

(* Back with the mutex: go round again, or pass the signal on to the other   *)
(* waiters and leave the first loop.                                         *)
DataRelock(t) ==
  LET k == msg[t].stride
      under == TxEndIndex(k) = prevData \/ dataUse < DataQuota
  IN
  /\ pc[t] = "dataRelock"
  /\ slotMutex = NoThread
  /\ \/ /\ DataStalled(k)
        /\ Goto(t, "dataWait")
        /\ UNCHANGED <<slotMutex, dataEvent>>
     \/ /\ ~DataStalled(k)
        /\ dataEvent' = IF under THEN dataEvent + 1 ELSE dataEvent
        /\ ServiceQuota(t)
  /\ UNCHANGED <<msgUse, slotUse, prevTx, quotaEvent, dataUse, prevData,
                 spaceVars, closeVars, rxVars, queueVars, issued, sent>>

(* down(quota_event), and give up when the service is closing.               *)
QuotaDown(t) ==
  LET s == msg[t].svc IN
  /\ pc[t] = "quotaWait"
  /\ quotaEvent[s] > 0
  /\ quotaEvent' = [quotaEvent EXCEPT ![s] = @ - 1]
  /\ \/ closing[s] /\ Return(t)
     \/ ~closing[s] /\ Goto(t, "quotaRelock")
  /\ UNCHANGED <<slotMutex, msgUse, slotUse, prevTx, dataUse, prevData,
                 dataEvent, spaceVars, closeVars, rxVars, queueVars, issued,
                 sent>>

(* Variant for mutation: slot_mutex stays locked on the error return.        *)
QuotaRelockLeak(t) ==
  /\ pc[t] = "quotaRelock"
  /\ slotMutex = NoThread
  /\ \/ srvstate[msg[t].svc] # "OPEN" /\ Return(t) /\ slotMutex' = t
     \/ srvstate[msg[t].svc] = "OPEN" /\ ServiceQuota(t)
  /\ UNCHANGED <<quotaVars, spaceVars, closeVars, rxVars, queueVars,
                 issued, sent>>

QuotaRelock(t) ==
  /\ pc[t] = "quotaRelock"
  /\ slotMutex = NoThread
  /\ \/ /\ srvstate[msg[t].svc] # "OPEN"
        /\ Return(t)
        /\ UNCHANGED slotMutex
     \/ /\ srvstate[msg[t].svc] = "OPEN"
        /\ ServiceQuota(t)
  /\ UNCHANGED <<quotaVars, spaceVars, closeVars, rxVars, queueVars,
                 issued, sent>>

(* Variant for mutation: the slot handler does not take slot_mutex.          *)
ControlWithoutLock(t) ==
  /\ pc[t] = "lock" /\ msg[t].type # "DATA"
  /\ slotMutex = NoThread
  /\ Goto(t, "reserve")
  /\ UNCHANGED <<slotMutex, quotaVars, spaceVars, closeVars, rxVars,
                 queueVars, issued, sent>>

(* Control messages have no quota.                                           *)
LockForControl(t) ==
  /\ pc[t] = "lock" /\ msg[t].type # "DATA"
  /\ slotMutex = NoThread
  /\ slotMutex' = t
  /\ Goto(t, "reserve")
  /\ UNCHANGED <<quotaVars, spaceVars, closeVars, rxVars, queueVars,
                 issued, sent>>

-----------------------------------------------------------------------------
(* reserve_space, with slot_mutex held.                                      *)

Padding(space) == [type |-> "PADDING", svc |-> NoService, id |-> 0,
                   stride |-> space, claimed |-> FALSE]

(* Variant for mutation: slot_available_event is tested but not taken.       *)
TakeSlotUncounted(t, pos, padded) ==
  LET new == slotQueue[pos.slot % QueueLen] IN
  /\ txData' = new
  /\ mem' = [padded EXCEPT ![new] = Blank]
  /\ localTxPos' = Advance(pos, msg[t].stride)
  /\ Goto(t, "write")
  /\ UNCHANGED <<slotAvailable, txPos, slotMutex>>

(* Take the next slot off the queue; what it held before is forgotten.       *)
TakeSlot(t, pos, padded) ==
  LET new == slotQueue[pos.slot % QueueLen] IN
  /\ slotAvailable' = slotAvailable - 1
  /\ txData' = new
  /\ mem' = [padded EXCEPT ![new] = Blank]
  /\ localTxPos' = Advance(pos, msg[t].stride)
  /\ Goto(t, "write")
  /\ UNCHANGED <<txPos, slotMutex>>

(* Variant for mutation: tx_pos passes the padding before it is written.     *)
FlushUnpadded(t, pos, padded) ==
  /\ localTxPos' = pos
  /\ txPos' = pos
  /\ \/ msg[t].type = "DATA" /\ Goto(t, "slotWait") /\ UNCHANGED slotMutex
     \/ msg[t].type # "DATA" /\ Return(t) /\ slotMutex' = NoThread
  /\ UNCHANGED <<mem, txData, slotAvailable>>

(* No slot is free: flush up to the slot boundary, then wait for one with    *)
(* the mutex held (DATA) or return VCHIQ_RETRY (the slot handler).           *)
FlushAndWait(t, pos, padded) ==
  /\ localTxPos' = pos
  /\ txPos' = pos
  /\ mem' = padded
  /\ \/ /\ msg[t].type = "DATA"
        /\ Goto(t, "slotWait")
        /\ UNCHANGED slotMutex
     \/ /\ msg[t].type # "DATA"
        /\ Return(t)
        /\ slotMutex' = NoThread
  /\ UNCHANGED <<txData, slotAvailable>>

ReserveSpace(t) ==
  LET k      == msg[t].stride
      space  == SlotSize - localTxPos.off
      pos    == IF k > space THEN [slot |-> localTxPos.slot + 1, off |-> 0]
                             ELSE localTxPos
      padded == IF k > space
                THEN [mem EXCEPT ![txData][localTxPos.off] = Padding(space)]
                ELSE mem
  IN
  /\ pc[t] = "reserve"
  /\ \/ /\ pos.off # 0
        /\ localTxPos' = Advance(pos, k)
        /\ Goto(t, "write")
        /\ UNCHANGED <<txPos, slotMutex, mem, txData, slotAvailable>>
     \/ pos.off = 0 /\ slotAvailable > 0 /\ TakeSlot(t, pos, padded)
     \/ pos.off = 0 /\ slotAvailable = 0 /\ FlushAndWait(t, pos, padded)
  /\ UNCHANGED <<quotaVars, closeVars, rxVars, queueVars, issued, sent>>

(* down(slot_available_event)                                                *)
SlotDown(t) ==
  /\ pc[t] = "slotWait"
  /\ slotAvailable > 0
  /\ TakeSlot(t, localTxPos, mem)
  /\ UNCHANGED <<quotaVars, closeVars, rxVars, queueVars, issued, sent>>

(* Charge the quotas of a DATA message and write its header.                 *)
WriteHeader(t) ==
  LET s    == msg[t].svc
      k    == msg[t].stride
      last == LastTxIndex
      off  == (IF localTxPos.off = 0 THEN SlotSize ELSE localTxPos.off) - k
  IN
  /\ pc[t] = "write"
  /\ mem' = [mem EXCEPT ![txData][off] = msg[t]]
  /\ Goto(t, "publish")
  /\ \/ /\ msg[t].type = "DATA"
        /\ msgUse' = [msgUse EXCEPT ![s] = @ + 1]
        /\ dataUse' = IF last # prevData THEN dataUse + 1 ELSE dataUse
        /\ prevData' = last
        /\ slotUse' = [slotUse EXCEPT ![s] =
                         IF last # prevTx[s] THEN @ + 1 ELSE @]
        /\ prevTx' = [prevTx EXCEPT ![s] = last]
     \/ /\ msg[t].type # "DATA"
        /\ UNCHANGED <<msgUse, dataUse, prevData, slotUse, prevTx>>
  /\ UNCHANGED <<slotMutex, quotaEvent, dataEvent, localTxPos, txData,
                 slotAvailable, txPos, closeVars, rxVars, queueVars, issued,
                 sent>>

(* Make the new tx_pos visible to the peer and leave queue_message.          *)
Publish(t) ==
  /\ pc[t] = "publish"
  /\ txPos' = localTxPos
  /\ sent' = Append(sent, msg[t])
  /\ srvstate' = [s \in Services |->
                    IF msg[t].type = "CLOSE" /\ msg[t].svc = s
                    THEN "CLOSESENT" ELSE srvstate[s]]
  /\ slotMutex' = NoThread
  /\ Return(t)
  /\ UNCHANGED <<quotaVars, localTxPos, txData, slotAvailable, mem,
                 closing, closePhase, rxVars, queueVars, issued>>

-----------------------------------------------------------------------------
(* process_free_queue in the recycle thread: one freed slot.                 *)

DataIn(slot, s) ==
  {o \in Offsets : mem[slot][o].type = "DATA" /\ mem[slot][o].svc = s}

ProcessFreeSlot ==
  LET slot == slotQueue[slotQueueAvailable % QueueLen]
      n(s) == Cardinality(DataIn(slot, s))
      (* up(quota_event) for each message freed while at the quota, and once *)
      (* for the slot                                                        *)
      ups(s) == Cardinality({j \in 0..(n(s) - 1) :
                               Monus(msgUse[s], j) = MessageQuota})
                + (IF n(s) > 0 /\ slotUse[s] > 0 THEN 1 ELSE 0)
      dataFound == \E s \in Services : n(s) > 0
  IN
  /\ slotQueueAvailable # slotQueueRecycle
  /\ msgUse' = [s \in Services |-> Monus(msgUse[s], n(s))]
  /\ slotUse' = [s \in Services |->
                   IF n(s) > 0 THEN Monus(slotUse[s], 1) ELSE slotUse[s]]
  /\ quotaEvent' = [s \in Services |-> quotaEvent[s] + ups(s)]
  /\ dataUse' = IF dataFound THEN Monus(dataUse, 1) ELSE dataUse
  /\ dataEvent' = IF dataFound /\ dataUse = DataQuota THEN dataEvent + 1
                                                      ELSE dataEvent
  /\ slotQueueAvailable' = slotQueueAvailable + 1
  /\ slotAvailable' = slotAvailable + 1
  /\ UNCHANGED <<pc, msg, slotMutex, prevTx, prevData, localTxPos, txData,
                 txPos, mem, closeVars, rxVars, slotQueue, slotQueueRecycle,
                 issued, sent>>

-----------------------------------------------------------------------------
(* The receiving side.                                                       *)

(* parse_rx_slots starts with a snapshot of the sender's tx_pos.             *)
ParseBegin ==
  /\ rxPos = rxLimit
  /\ rxLimit # txPos
  /\ rxLimit' = txPos
  /\ UNCHANGED <<pc, msg, slotMutex, quotaVars, spaceVars, closeVars, rxPos,
                 rxData, useCount, releaseCount, peerOpen, delivered,
                 queueVars, issued, sent>>

(* release_slot's last part: hand a fully released slot back to the sender.  *)
Recycle(slot, freed) ==
  /\ slotQueue' = IF freed
                  THEN [slotQueue EXCEPT ![slotQueueRecycle % QueueLen] = slot]
                  ELSE slotQueue
  /\ slotQueueRecycle' = IF freed THEN slotQueueRecycle + 1
                                  ELSE slotQueueRecycle

(* One message of parse_rx_slots: enter the slot if it is new, dispatch,     *)
(* move on, and drop the parser's own reference at the end of the slot.      *)
ParseMessage ==
  LET fresh == rxData = NoSlot
      slot  == IF fresh THEN slotQueue[rxPos.slot % QueueLen] ELSE rxData
      h     == mem[slot][rxPos.off]
      claim == h.type = "DATA" /\ peerOpen[h.svc]
      use   == (IF fresh THEN 1 ELSE useCount[slot]) + (IF claim THEN 1 ELSE 0)
      next  == Advance(rxPos, h.stride)
      atEnd == next.off = 0
      rel   == (IF fresh THEN 0 ELSE releaseCount[slot])
               + (IF atEnd THEN 1 ELSE 0)
  IN
  /\ rxPos # rxLimit
  /\ mem' = IF claim THEN [mem EXCEPT ![slot][rxPos.off].claimed = TRUE]
                     ELSE mem
  /\ useCount' = [useCount EXCEPT ![slot] = use]
  /\ releaseCount' = [releaseCount EXCEPT ![slot] = rel]
  /\ peerOpen' = [s \in Services |->
                    peerOpen[s] /\ ~(h.type = "CLOSE" /\ h.svc = s)]
  /\ delivered' = IF h.type = "PADDING" THEN delivered
                                        ELSE Append(delivered, h)
  /\ rxPos' = next
  /\ rxData' = IF atEnd THEN NoSlot ELSE slot
  /\ Recycle(slot, atEnd /\ rel = use)
  /\ UNCHANGED <<pc, msg, slotMutex, quotaVars, localTxPos, txData,
                 slotAvailable, txPos, closeVars, rxLimit, slotQueueAvailable,
                 issued, sent>>

(* Variant for mutation: recycle when the clients are done, though the parser *)
(* still holds its own reference.                                            *)
ReleaseIgnoringParser(slot, off) ==
  LET rel == releaseCount[slot] + 1 IN
  /\ mem[slot][off].claimed
  /\ mem' = [mem EXCEPT ![slot][off].claimed = FALSE]
  /\ releaseCount' = [releaseCount EXCEPT ![slot] = rel]
  /\ Recycle(slot, rel >= useCount[slot] - 1)
  /\ UNCHANGED <<pc, msg, slotMutex, quotaVars, localTxPos, txData,
                 slotAvailable, txPos, closeVars, rxPos, rxLimit, rxData,
                 useCount, peerOpen, delivered, slotQueueAvailable, issued,
                 sent>>

(* vchiq_release_message: a client releases a message it holds.              *)
ReleaseMessage(slot, off) ==
  LET rel == releaseCount[slot] + 1 IN
  /\ mem[slot][off].claimed
  /\ mem' = [mem EXCEPT ![slot][off].claimed = FALSE]
  /\ releaseCount' = [releaseCount EXCEPT ![slot] = rel]
  /\ Recycle(slot, rel = useCount[slot])
  /\ UNCHANGED <<pc, msg, slotMutex, quotaVars, localTxPos, txData,
                 slotAvailable, txPos, closeVars, rxPos, rxLimit, rxData,
                 useCount, peerOpen, delivered, slotQueueAvailable, issued,
                 sent>>

-----------------------------------------------------------------------------
ThreadStep(t) ==
  \/ LockForData(t) \/ LockForControl(t)
  \/ DataQuotaDown(t) \/ DataRelock(t)
  \/ QuotaDown(t) \/ QuotaRelock(t)
  \/ ReserveSpace(t) \/ SlotDown(t)
  \/ WriteHeader(t) \/ Publish(t)

Parse == ParseBegin \/ ParseMessage

Release == \E slot \in Slots, off \in Offsets : ReleaseMessage(slot, off)

Next ==
  \/ \E t \in Senders, k \in Strides : SendCall(t, k)
  \/ \E k \in ControlStrides : ControlCall(k)
  \/ \E s \in Services : MarkClosing(s) \/ SyncClosing(s) \/ CloseCall(s)
  \/ \E t \in Threads : ThreadStep(t)
  \/ ProcessFreeSlot
  \/ Parse
  \/ Release

Spec == Init /\ [][Next]_vars

(* Every coroutine keeps being resumed and the clients release what they     *)
(* hold; nobody is obliged to send or to close.                              *)
Fairness ==
  /\ \A t \in Threads : WF_vars(ThreadStep(t))
  /\ \A s \in Closable : WF_vars(SyncClosing(s)) /\ WF_vars(CloseCall(s))
  /\ WF_vars(ProcessFreeSlot)
  /\ WF_vars(Parse)
  /\ WF_vars(Release)

FairSpec == Spec /\ Fairness

-----------------------------------------------------------------------------
(* Properties.                                                               *)

Messages == [type : {"DATA", "CTRL", "CLOSE"}, svc : Services \union {NoService},
             id : 0..MaxMsgs, stride : 1..SlotSize, claimed : {FALSE}]
Headers  == [type : {"DATA", "CTRL", "CLOSE", "PADDING", "NONE"},
             svc : Services \union {NoService}, id : 0..MaxMsgs,
             stride : 1..SlotSize, claimed : BOOLEAN]
Positions == [slot : Nat, off : Offsets]

(* The types of the transport's state: the threads in queue_message, ...     *)
ThreadsOK ==
  /\ pc \in [Threads -> {"idle", "lock", "dataWait", "dataRelock", "quotaWait",
                         "quotaRelock", "reserve", "slotWait", "write",
                         "publish"}]
  /\ msg \in [Threads -> Headers]
  /\ \A t \in Threads : pc[t] # "idle" => msg[t] \in Messages
  /\ slotMutex \in Threads \union {NoThread}
  /\ issued \in 0..MaxMsgs
  /\ sent \in Seq(Messages)

(* ... the transmit position and the slot queue, ...                         *)
SpaceOK ==
  /\ localTxPos \in Positions /\ txPos \in Positions /\ rxLimit \in Positions
  /\ rxPos.slot \in Nat
  /\ txData \in Slots \union {NoSlot} /\ rxData \in Slots \union {NoSlot}
  /\ slotAvailable \in Nat
  /\ slotQueueAvailable \in Nat /\ slotQueueRecycle \in Nat
  /\ slotQueue \in [0..(QueueLen - 1) -> Slots \union {NoSlot}]

(* ... the quotas, ...                                                       *)
QuotasOK ==
  /\ msgUse \in [Services -> Nat] /\ slotUse \in [Services -> Nat]
  /\ prevTx \in [Services -> Int] /\ quotaEvent \in [Services -> Nat]
  /\ dataUse \in Nat /\ prevData \in Int /\ dataEvent \in Nat

(* ... and the slots, their reference counts and the services.               *)
SlotsOK ==
  /\ mem \in [Slots -> [Offsets -> Headers]]
  /\ useCount \in [Slots -> Nat] /\ releaseCount \in [Slots -> Nat]
  /\ closing \in [Services -> BOOLEAN] /\ peerOpen \in [Services -> BOOLEAN]
  /\ srvstate \in [Services -> {"OPEN", "CLOSESENT"}]
  /\ closePhase \in [Services -> {"none", "sync", "poll"}]

(* Each step preserves these by itself; the receiver's position and what it  *)
(* parsed are well formed only because it stays on the sender's boundaries.  *)
StateTypeOK == ThreadsOK /\ SpaceOK /\ QuotasOK /\ SlotsOK

TypeOK ==
  /\ StateTypeOK
  /\ rxPos \in Positions
  /\ delivered \in Seq(Messages)

(* Slots the sender has ever taken off the queue: exactly the stream         *)
(* positions at or below local_tx_pos.                                       *)
SlotsTaken == IF localTxPos.off = 0 THEN localTxPos.slot ELSE localTxPos.slot + 1

QueuedSlots(from, to) == {slotQueue[i % QueueLen] : i \in from..(to - 1)}

FreeSlots   == QueuedSlots(SlotsTaken, slotQueueRecycle)
UnreadSlots == QueuedSlots(rxPos.slot, SlotsTaken)
HeldSlots   == {s \in Slots : \E o \in Offsets : mem[s][o].claimed}

(* Whoever is inside queue_message between the quota checks and tx_pos holds *)
(* slot_mutex, also while it sleeps in reserve_space, and nobody else does.  *)
SlotMutexHeld ==
  \A t \in Threads :
    pc[t] \in {"reserve", "slotWait", "write", "publish"} <=> slotMutex = t

(* slot_available_event counts exactly the slots between local_tx_pos and    *)
(* slot_queue_available, so BUG_ON(tx_pos == slot_queue_available * SIZE) in *)
(* reserve_space cannot fire and no slot is used before it was recycled.     *)
SlotAccounting ==
  /\ SlotsTaken + slotAvailable = slotQueueAvailable
  /\ slotQueueAvailable <= slotQueueRecycle
  /\ \A t \in Threads : pc[t] = "slotWait" => localTxPos.off = 0

(* Every slot is in exactly one place: queued as free (once), still to be    *)
(* parsed, or pinned by a message its client has not released.  A slot is    *)
(* never lost and never written while the receiver uses it.                  *)
SlotsConserved ==
  /\ Cardinality(FreeSlots) = slotQueueRecycle - SlotsTaken
  /\ FreeSlots \intersect (UnreadSlots \union HeldSlots) = {}
  /\ FreeSlots \union UnreadSlots \union HeldSlots = Slots

(* Slots charged to the quotas: taken, and not yet seen by the recycle thread. *)
ChargedSlots == Slots \ QueuedSlots(SlotsTaken, slotQueueAvailable)

(* queue_message and process_free_queue agree: the counters are the messages *)
(* and the slots a service, or all of them, really occupy.  Hence the        *)
(* "invalid message use count" and "bad slot use count" warnings never fire. *)
QuotaAccounting ==
  /\ \A s \in Services :
       /\ msgUse[s] = Cardinality({p \in ChargedSlots \X Offsets :
                                      p[2] \in DataIn(p[1], s)})
       /\ slotUse[s] = Cardinality({x \in ChargedSlots : DataIn(x, s) # {}})
  /\ dataUse = Cardinality({x \in ChargedSlots :
                              \E s \in Services : DataIn(x, s) # {}})

(* "Ensure this service doesn't use more than its quota of messages or       *)
(* slots" (queue_message).                                                   *)
ServiceQuotaRespected ==
  \A s \in Services : msgUse[s] <= MessageQuota /\ slotUse[s] <= SlotQuota

(* Why: slot_mutex is held from the check of the quotas until they are       *)
(* charged, and the slot the check foresaw is the slot the message ends in.  *)
QuotaRoom ==
  \A t \in Threads :
    LET s == msg[t].svc  k == msg[t].stride IN
    msg[t].type = "DATA" /\ s \in Services =>
      /\ pc[t] \in {"reserve", "slotWait", "write"} => msgUse[s] < MessageQuota
      /\ pc[t] \in {"reserve", "slotWait"} /\ TxEndIndex(k) # prevTx[s]
           => slotUse[s] < SlotQuota
      /\ pc[t] = "write" /\ LastTxIndex # prevTx[s] => slotUse[s] < SlotQuota

(* "Ensure data messages don't use more than their quota of slots"           *)
(* (queue_message): one slot is left for control messages.                   *)
DataQuotaRespected == dataUse <= DataQuota

(* A service that has sent CLOSE sends no more data: queue_message refuses   *)
(* with "The service has been closed".                                       *)
NoDataAfterClose ==
  \A i, j \in 1..Len(sent) :
    i < j /\ sent[i].type = "CLOSE" /\ sent[j].type = "DATA"
      => sent[i].svc # sent[j].svc

(* The transport implements the message stream of MessageStream.             *)
Held == {[mem[p[1]][p[2]] EXCEPT !.claimed = FALSE] :
           p \in {q \in Slots \X Offsets : mem[q[1]][q[2]].claimed}}
Stream == INSTANCE MessageStream WITH held <- Held
StreamSpec == Stream!Spec

(* Every call of vchiq_queue_message returns: no thread sleeps for ever on a *)
(* quota, on slot_mutex or on a free slot, also when its service closes.     *)
SendReturns == \A t \in Senders : pc[t] # "idle" ~> pc[t] = "idle"
=============================================================================
