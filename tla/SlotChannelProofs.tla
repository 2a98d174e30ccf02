-------------------------- MODULE SlotChannelProofs --------------------------
(***************************************************************************)
(* SlotChannel, for any number of slots, services and threads and for any  *)
(* message sizes.  The sending side: slot_mutex excludes, the semaphore of *)
(* free slots counts them, and no service exceeds its quota.  Both sides:  *)
(* every slot is free, unread or held, the parser stays on the boundaries  *)
(* of the messages, the quotas' counters count what the services occupy,   *)
(* and the transport implements MessageStream.                             *)
(***************************************************************************)
EXTENDS SlotChannel, FiniteSetTheorems, TLAPS

USE SlotChannelAssumption DEF SlotChannelAssumption, Threads, Offsets

(* The slots are numbers, and the slot queue has room for all of them.       *)
LEMMA SlotFacts ==
  /\ SlotFirst \in Nat /\ SlotLast \in Nat /\ NSlots \in Nat \ {0}
  /\ QueueLen \in Nat \ {0} /\ NSlots <= QueueLen
  /\ \A i \in Nat : i % QueueLen \in 0..(QueueLen - 1)
  /\ \A i \in 0..(NSlots - 1) : SlotFirst + i \in Slots
  /\ NoHeader \in Headers /\ Blank \in [Offsets -> Headers]
<1>1. SlotFirst \in Nat /\ SlotLast \in Nat /\ NSlots \in Nat \ {0}
  BY DEF SlotFirst, SlotLast, NSlots
<1>2. QueueLen \in Nat \ {0} /\ NSlots <= QueueLen
  BY DEF SlotFirst, SlotLast, NSlots
<1>3. \A i \in Nat : i % QueueLen \in 0..(QueueLen - 1)
  BY <1>2
<1>4. \A i \in 0..(NSlots - 1) : SlotFirst + i \in Slots
  BY <1>1 DEF Slots, NSlots
<1>5. NoHeader \in Headers /\ Blank \in [Offsets -> Headers]
  BY DEF NoHeader, Blank, Headers
<1> QED BY <1>1, <1>2, <1>3, <1>4, <1>5

(* Moving by a stride that fits the slot stays on positions.                 *)
LEMMA AdvanceType ==
  ASSUME NEW pos \in Positions, NEW k \in 1..SlotSize,
         k <= SlotSize - pos.off
  PROVE  Advance(pos, k) \in Positions
  BY DEF Advance, Positions

(* The headers of one service in a slot can be counted.                      *)
LEMMA DataInFinite ==
  ASSUME NEW slot, NEW s
  PROVE  IsFiniteSet(DataIn(slot, s)) /\ Cardinality(DataIn(slot, s)) \in Nat
<1>1. IsFiniteSet(Offsets)
  BY FS_Interval
<1>2. DataIn(slot, s) \subseteq Offsets
  BY DEF DataIn
<1> QED BY <1>1, <1>2, FS_Subset, FS_CardinalityType

(* Setting the two options signals a service at most twice.                  *)
LEMMA OptionSignalsType == OptionSignals \in Nat
  BY DEF OptionSignals

(* A message ends in the slot that the check of the quotas foresaw, also when *)
(* it had to be moved to the next slot.                                      *)
LEMMA MessageEnd ==
  ASSUME localTxPos \in Positions, NEW k \in 1..SlotSize,
         localTxPos' = Advance(IF k > SlotSize - localTxPos.off
                               THEN [slot |-> localTxPos.slot + 1, off |-> 0]
                               ELSE localTxPos, k)
  PROVE  LastTxIndex' = TxEndIndex(k)
<1> DEFINE here == localTxPos.slot  off == localTxPos.off
<1>1. here \in Nat /\ off \in Offsets
  BY DEF Positions
<1>2. CASE k > SlotSize - off
  <2>1. TxEndIndex(k) = here + 1
    BY <1>1, <1>2 DEF TxEndIndex
  <2>2. localTxPos' = Advance([slot |-> here + 1, off |-> 0], k)
    BY <1>2
  <2>3. \/ localTxPos' = [slot |-> here + 2, off |-> 0]
        \/ k # 0 /\ localTxPos' = [slot |-> here + 1, off |-> k]
    BY <1>1, <2>2 DEF Advance
  <2> QED BY <1>1, <2>1, <2>3 DEF LastTxIndex
<1>3. CASE k = SlotSize - off
  <2>1. TxEndIndex(k) = here
    BY <1>1, <1>3 DEF TxEndIndex
  <2>2. localTxPos' = [slot |-> here + 1, off |-> 0]
    BY <1>1, <1>3 DEF Advance
  <2> QED BY <1>1, <2>1, <2>2 DEF LastTxIndex
<1>4. CASE k < SlotSize - off
  <2>1. TxEndIndex(k) = here
    BY <1>1, <1>4 DEF TxEndIndex
  <2>2. off + k # 0 /\ localTxPos' = [slot |-> here, off |-> off + k]
    BY <1>1, <1>4 DEF Advance
  <2> QED BY <2>1, <2>2 DEF LastTxIndex
<1> QED BY <1>1, <1>2, <1>3, <1>4

LEMMA InitTypes == Init => StateTypeOK
<1> SUFFICES ASSUME Init PROVE StateTypeOK
  OBVIOUS
<1> USE SlotFacts DEF Init
<1>1. ThreadsOK BY DEF ThreadsOK
<1>2. SpaceOK
  <2>1. [slot |-> 0, off |-> 0] \in Positions
    BY DEF Positions
  <2>2. slotQueue \in [0..(QueueLen - 1) -> Slots \union {NoSlot}]
    <3>1. ASSUME NEW i \in 0..(QueueLen - 1)
          PROVE  (IF i < NSlots THEN SlotFirst + i ELSE NoSlot)
                    \in Slots \union {NoSlot}
      OBVIOUS
    <3> QED BY <3>1
  <2> QED BY <2>1, <2>2 DEF SpaceOK
<1>3. QuotasOK
  BY OptionSignalsType DEF QuotasOK
<1>4. SlotsOK BY DEF SlotsOK
<1> QED BY <1>1, <1>2, <1>3, <1>4 DEF StateTypeOK

(* What the helpers of an action leave typed.                                *)
LEMMA GotoType ==
  ASSUME ThreadsOK, NEW t \in Threads, pc[t] # "idle",
         NEW next \in {"dataWait", "dataRelock", "quotaWait", "quotaRelock",
                      "reserve", "slotWait", "write", "publish"},
         Goto(t, next), slotMutex' \in {slotMutex, t, NoThread},
         UNCHANGED <<issued, sent>>
  PROVE  ThreadsOK'
  BY DEF ThreadsOK, Goto

LEMMA ReturnType ==
  ASSUME ThreadsOK, NEW t \in Threads, Return(t),
         slotMutex' \in {slotMutex, NoThread}, issued' = issued,
         sent' \in Seq(Messages)
  PROVE  ThreadsOK'
  BY SlotFacts DEF ThreadsOK, Return

(* A thread enters queue_message with a message of its caller.               *)
LEMMA CallType ==
  ASSUME ThreadsOK, NEW t \in Threads, NEW m \in Messages,
         msg' = [msg EXCEPT ![t] = m], pc' = [pc EXCEPT ![t] = "lock"],
         issued' \in 0..MaxMsgs, UNCHANGED <<slotMutex, sent>>
  PROVE  ThreadsOK'
<1>1. m \in Headers
  BY DEF Messages, Headers
<1> QED BY <1>1 DEF ThreadsOK

(* Every message a thread sends is one it was called with.                   *)
LEMMA StepThreads == ThreadsOK /\ [Next]_vars => ThreadsOK'
<1> SUFFICES ASSUME ThreadsOK, [Next]_vars PROVE ThreadsOK'
  OBVIOUS
<1>1. ASSUME NEW t \in Senders, NEW k \in Strides, SendCall(t, k)
      PROVE  ThreadsOK'
  <2>1. [type |-> "DATA", svc |-> Svc[t], id |-> issued + 1, stride |-> k,
         claimed |-> FALSE] \in Messages
    BY <1>1 DEF SendCall, ThreadsOK, Messages
  <2>2. issued' \in 0..MaxMsgs
    BY <1>1 DEF SendCall, ThreadsOK
  <2> QED BY <1>1, <2>1, <2>2, CallType DEF SendCall
<1>2. ASSUME NEW k \in ControlStrides, ControlCall(k) PROVE ThreadsOK'
  <2>1. [type |-> "CTRL", svc |-> NoService, id |-> issued + 1, stride |-> k,
         claimed |-> FALSE] \in Messages
    BY <1>2 DEF ControlCall, ThreadsOK, Messages
  <2>2. issued' \in 0..MaxMsgs
    BY <1>2 DEF ControlCall, ThreadsOK
  <2> QED BY <1>2, <2>1, <2>2, CallType DEF ControlCall
<1>3. ASSUME NEW s \in Services, CloseCall(s) PROVE ThreadsOK'
  <2>1. [type |-> "CLOSE", svc |-> s, id |-> 0, stride |-> 1,
         claimed |-> FALSE] \in Messages
    BY DEF Messages
  <2>2. issued' \in 0..MaxMsgs
    BY <1>3 DEF CloseCall, ThreadsOK
  <2> QED BY <1>3, <2>1, <2>2, CallType DEF CloseCall
<1>4. ASSUME NEW s \in Services, MarkClosing(s) \/ SyncClosing(s)
      PROVE  ThreadsOK'
  BY <1>4 DEF MarkClosing, SyncClosing, ThreadsOK
<1>5. ASSUME NEW t \in Threads, ThreadStep(t) PROVE ThreadsOK'
  <2>1. CASE LockForData(t)
    BY <2>1, GotoType, ReturnType DEF LockForData, ServiceQuota, ThreadsOK
  <2>2. CASE LockForControl(t)
    BY <2>2, GotoType DEF LockForControl
  <2>3. CASE DataQuotaDown(t)
    BY <2>3, GotoType DEF DataQuotaDown
  <2>4. CASE DataRelock(t)
    BY <2>4, GotoType DEF DataRelock, ServiceQuota
  <2>5. CASE QuotaDown(t)
    BY <2>5, GotoType, ReturnType DEF QuotaDown, ThreadsOK
  <2>6. CASE QuotaRelock(t)
    BY <2>6, GotoType, ReturnType DEF QuotaRelock, ServiceQuota, ThreadsOK
  <2>7. CASE ReserveSpace(t)
    BY <2>7, GotoType, ReturnType
    DEF ReserveSpace, TakeSlot, FlushAndWait, ThreadsOK
  <2>8. CASE SlotDown(t)
    BY <2>8, GotoType DEF SlotDown, TakeSlot
  <2>9. CASE WriteHeader(t)
    BY <2>9, GotoType DEF WriteHeader
  <2>10. CASE Publish(t)
    <3>1. msg[t] \in Messages
      BY <2>10 DEF Publish, ThreadsOK
    <3>2. sent' \in Seq(Messages)
      BY <2>10, <3>1 DEF Publish, ThreadsOK
    <3> QED BY <2>10, <3>2, ReturnType DEF Publish
  <2> QED BY <1>5, <2>1, <2>2, <2>3, <2>4, <2>5, <2>6, <2>7, <2>8, <2>9, <2>10
          DEF ThreadStep
<1>6. CASE ProcessFreeSlot \/ Parse \/ Release
  BY <1>6 DEF ProcessFreeSlot, Parse, ParseBegin, ParseMessage, Release,
              ReleaseMessage, ThreadsOK
<1>7. CASE UNCHANGED vars
  BY <1>7 DEF vars, ThreadsOK
<1> QED BY <1>1, <1>2, <1>3, <1>4, <1>5, <1>6, <1>7 DEF Next

-----------------------------------------------------------------------------
(* slot_mutex.                                                               *)

LEMMA StepMutex ==
  ThreadsOK /\ SlotMutexHeld /\ [Next]_vars => SlotMutexHeld'
<1> SUFFICES ASSUME ThreadsOK, SlotMutexHeld, [Next]_vars PROVE SlotMutexHeld'
  OBVIOUS
<1> USE DEF ThreadsOK, SlotMutexHeld
<1>1. ASSUME NEW t \in Senders, NEW k \in Strides, SendCall(t, k)
      PROVE  SlotMutexHeld'
  BY <1>1 DEF SendCall
<1>2. ASSUME NEW k \in ControlStrides, ControlCall(k) PROVE SlotMutexHeld'
  BY <1>2 DEF ControlCall
<1>3. ASSUME NEW s \in Services, MarkClosing(s) \/ SyncClosing(s) \/ CloseCall(s)
      PROVE  SlotMutexHeld'
  BY <1>3 DEF MarkClosing, SyncClosing, CloseCall
<1>4. ASSUME NEW t \in Threads, ThreadStep(t) PROVE SlotMutexHeld'
  <2> USE DEF Goto, Return, ServiceQuota
  <2>1. CASE LockForData(t) BY <2>1 DEF LockForData
  <2>2. CASE LockForControl(t) BY <2>2 DEF LockForControl
  <2>3. CASE DataQuotaDown(t) BY <2>3 DEF DataQuotaDown
  <2>4. CASE DataRelock(t) BY <2>4 DEF DataRelock
  <2>5. CASE QuotaDown(t) BY <2>5 DEF QuotaDown
  <2>6. CASE QuotaRelock(t) BY <2>6 DEF QuotaRelock
  <2>7. CASE ReserveSpace(t)
    BY <2>7 DEF ReserveSpace, TakeSlot, FlushAndWait
  <2>8. CASE SlotDown(t) BY <2>8 DEF SlotDown, TakeSlot
  <2>9. CASE WriteHeader(t) BY <2>9 DEF WriteHeader
  <2>10. CASE Publish(t) BY <2>10 DEF Publish
  <2> QED BY <1>4, <2>1, <2>2, <2>3, <2>4, <2>5, <2>6, <2>7, <2>8, <2>9, <2>10
          DEF ThreadStep
<1>5. CASE ProcessFreeSlot \/ Parse \/ Release
  BY <1>5 DEF ProcessFreeSlot, Parse, ParseBegin, ParseMessage, Release,
              ReleaseMessage
<1>6. CASE UNCHANGED vars
  BY <1>6 DEF vars
<1> QED BY <1>1, <1>2, <1>3, <1>4, <1>5, <1>6 DEF Next

-----------------------------------------------------------------------------
(* The transmit position.                                                    *)

(* Where reserve_space puts a message: at local_tx_pos, or at the start of   *)
(* the next slot when the rest of this one is too small.                     *)
LEMMA ReservedPosition ==
  ASSUME localTxPos \in Positions, NEW k \in 1..SlotSize
  PROVE  LET space == SlotSize - localTxPos.off
             pos == IF k > space THEN [slot |-> localTxPos.slot + 1, off |-> 0]
                                 ELSE localTxPos
         IN  /\ pos \in Positions
             /\ k <= SlotSize - pos.off
             /\ k > space => localTxPos.off # 0
  BY DEF Positions

(* A message that starts a slot ends in it.                                  *)
LEMMA AdvanceFromBoundary ==
  ASSUME NEW pos \in Positions, NEW k \in 1..SlotSize, pos.off = 0
  PROVE  /\ Advance(pos, k) \in Positions
         /\ Advance(pos, k).off = 0 => Advance(pos, k).slot = pos.slot + 1
         /\ Advance(pos, k).off # 0 => Advance(pos, k).slot = pos.slot
  BY DEF Advance, Positions

LEMMA StrideOfMessage ==
  ASSUME ThreadsOK, NEW t \in Threads, pc[t] # "idle"
  PROVE  msg[t].stride \in 1..SlotSize
  BY DEF ThreadsOK, Messages

LEMMA RecycleType ==
  ASSUME SpaceOK, NEW slot \in Slots \union {NoSlot}, NEW freed,
         Recycle(slot, freed)
  PROVE  /\ slotQueue' \in [0..(QueueLen - 1) -> Slots \union {NoSlot}]
         /\ slotQueueRecycle' \in Nat /\ slotQueueRecycle <= slotQueueRecycle'
<1>1. slotQueueRecycle \in Nat
  BY DEF SpaceOK
<1>2. slotQueue' \in [0..(QueueLen - 1) -> Slots \union {NoSlot}]
  BY DEF Recycle, SpaceOK
<1>3. slotQueueRecycle' \in Nat /\ slotQueueRecycle <= slotQueueRecycle'
  BY <1>1 DEF Recycle
<1> QED BY <1>2, <1>3

LEMMA StepSpace ==
  ThreadsOK /\ SpaceOK /\ SlotAccounting /\ [Next]_vars => SpaceOK'
<1> SUFFICES ASSUME ThreadsOK, SpaceOK, SlotAccounting, [Next]_vars
             PROVE  SpaceOK'
  OBVIOUS
<1> USE DEF spaceVars, queueVars, rxVars, SpaceOK
<1>1. ASSUME NEW t \in Senders, NEW k \in Strides, SendCall(t, k)
      PROVE  SpaceOK'
  BY <1>1 DEF SendCall
<1>2. ASSUME NEW k \in ControlStrides, ControlCall(k) PROVE SpaceOK'
  BY <1>2 DEF ControlCall
<1>3. ASSUME NEW s \in Services, MarkClosing(s) \/ SyncClosing(s) \/ CloseCall(s)
      PROVE  SpaceOK'
  BY <1>3 DEF MarkClosing, SyncClosing, CloseCall
<1>4. ASSUME NEW t \in Threads, ThreadStep(t) PROVE SpaceOK'
  <2>1. CASE LockForData(t) BY <2>1 DEF LockForData
  <2>2. CASE LockForControl(t) BY <2>2 DEF LockForControl
  <2>3. CASE DataQuotaDown(t) BY <2>3 DEF DataQuotaDown
  <2>4. CASE DataRelock(t) BY <2>4 DEF DataRelock
  <2>5. CASE QuotaDown(t) BY <2>5 DEF QuotaDown
  <2>6. CASE QuotaRelock(t) BY <2>6 DEF QuotaRelock
  <2>7. CASE ReserveSpace(t)
    <3> DEFINE k == msg[t].stride
               pos == IF k > SlotSize - localTxPos.off
                      THEN [slot |-> localTxPos.slot + 1, off |-> 0]
                      ELSE localTxPos
    <3>1. k \in 1..SlotSize
      BY <2>7, StrideOfMessage DEF ReserveSpace
    <3>2. pos \in Positions /\ k <= SlotSize - pos.off
      BY <3>1, ReservedPosition
    <3>3. Advance(pos, k) \in Positions
      BY <3>1, <3>2, AdvanceType
    <3>4. slotQueue[pos.slot % QueueLen] \in Slots \union {NoSlot}
      BY <3>2, SlotFacts DEF Positions
    <3>5. localTxPos' \in {pos, Advance(pos, k)} /\ txPos' \in {txPos, pos}
      BY <2>7 DEF ReserveSpace, TakeSlot, FlushAndWait
    <3>6. \/ UNCHANGED <<txData, slotAvailable>>
          \/ /\ slotAvailable > 0 /\ slotAvailable' = slotAvailable - 1
             /\ txData' = slotQueue[pos.slot % QueueLen]
      BY <2>7 DEF ReserveSpace, TakeSlot, FlushAndWait
    <3>7. UNCHANGED <<slotQueueAvailable, slotQueueRecycle, slotQueue, rxPos,
                      rxLimit, rxData>>
      BY <2>7 DEF ReserveSpace
    <3> QED BY <3>2, <3>3, <3>4, <3>5, <3>6, <3>7
  <2>8. CASE SlotDown(t)
    <3>1. msg[t].stride \in 1..SlotSize
      BY <2>8, StrideOfMessage DEF SlotDown
    <3>2. localTxPos.off = 0
      BY <2>8 DEF SlotDown, SlotAccounting
    <3>3. localTxPos' \in Positions
      BY <2>8, <3>1, <3>2, AdvanceFromBoundary DEF SlotDown, TakeSlot
    <3>4. txData' \in Slots \union {NoSlot}
      BY <2>8, SlotFacts DEF SlotDown, TakeSlot, Positions
    <3>5. slotAvailable' \in Nat
      BY <2>8 DEF SlotDown, TakeSlot
    <3>6. UNCHANGED <<txPos, rxPos, rxLimit, rxData, slotQueueAvailable,
                      slotQueueRecycle, slotQueue>>
      BY <2>8 DEF SlotDown, TakeSlot
    <3> QED BY <3>3, <3>4, <3>5, <3>6
  <2>9. CASE WriteHeader(t) BY <2>9 DEF WriteHeader
  <2>10. CASE Publish(t) BY <2>10 DEF Publish
  <2> QED BY <1>4, <2>1, <2>2, <2>3, <2>4, <2>5, <2>6, <2>7, <2>8, <2>9, <2>10
          DEF ThreadStep
<1>5. CASE ProcessFreeSlot
  BY <1>5 DEF ProcessFreeSlot
<1>6. CASE ParseBegin BY <1>6 DEF ParseBegin
<1>7. CASE ParseMessage
  <2> DEFINE slot == IF rxData = NoSlot THEN slotQueue[rxPos.slot % QueueLen]
                                        ELSE rxData
  <2>1. slot \in Slots \union {NoSlot}
    <3>1. rxPos.slot \in Nat
      OBVIOUS
    <3>2. slotQueue[rxPos.slot % QueueLen] \in Slots \union {NoSlot}
      BY <3>1, SlotFacts
    <3> QED BY <3>2
  <2>2. PICK freed : Recycle(slot, freed)
    BY <1>7 DEF ParseMessage
  <2>3. rxData' \in {NoSlot, slot}
    BY <1>7 DEF ParseMessage
  <2>4. UNCHANGED <<localTxPos, txPos, rxLimit, txData, slotAvailable,
                    slotQueueAvailable>>
    BY <1>7 DEF ParseMessage
  <2>5. rxPos'.slot \in Nat
    <3>1. PICK k : rxPos' = Advance(rxPos, k)
      BY <1>7 DEF ParseMessage
    <3>2. Advance(rxPos, k).slot \in Nat
      BY DEF Advance
    <3> QED BY <3>1, <3>2
  <2> QED BY <2>1, <2>2, <2>3, <2>4, <2>5, RecycleType
<1>8. CASE Release
  <2>1. PICK slot \in Slots, off \in Offsets : ReleaseMessage(slot, off)
    BY <1>8 DEF Release
  <2>2. PICK freed : Recycle(slot, freed)
    BY <2>1 DEF ReleaseMessage
  <2>3. UNCHANGED <<localTxPos, txPos, rxPos, rxLimit, txData, rxData,
                    slotAvailable, slotQueueAvailable>>
    BY <2>1 DEF ReleaseMessage
  <2> QED BY <2>2, <2>3, RecycleType
<1>9. CASE UNCHANGED vars
  BY <1>9 DEF vars
<1> QED BY <1>1, <1>2, <1>3, <1>4, <1>5, <1>6, <1>7, <1>8, <1>9 DEF Next, Parse

-----------------------------------------------------------------------------
(* The quotas' counters.                                                     *)

LEMMA StepQuotas == ThreadsOK /\ SpaceOK /\ QuotasOK /\ [Next]_vars => QuotasOK'
<1> SUFFICES ASSUME ThreadsOK, SpaceOK, QuotasOK, [Next]_vars PROVE QuotasOK'
  OBVIOUS
<1> USE DEF quotaVars, QuotasOK
<1>1. ASSUME NEW t \in Senders, NEW k \in Strides, SendCall(t, k)
      PROVE  QuotasOK'
  BY <1>1 DEF SendCall
<1>2. ASSUME NEW k \in ControlStrides, ControlCall(k) PROVE QuotasOK'
  BY <1>2 DEF ControlCall
<1>3. ASSUME NEW s \in Services, MarkClosing(s) \/ SyncClosing(s) \/ CloseCall(s)
      PROVE  QuotasOK'
  BY <1>3 DEF MarkClosing, SyncClosing, CloseCall
<1>4. ASSUME NEW t \in Threads, ThreadStep(t) PROVE QuotasOK'
  <2>1. CASE LockForData(t) BY <2>1 DEF LockForData
  <2>2. CASE LockForControl(t) BY <2>2 DEF LockForControl
  <2>3. CASE DataQuotaDown(t) BY <2>3 DEF DataQuotaDown
  <2>4. CASE DataRelock(t) BY <2>4 DEF DataRelock
  <2>5. CASE QuotaDown(t)
    <3>1. PICK s : /\ quotaEvent[s] > 0
                   /\ quotaEvent' = [quotaEvent EXCEPT ![s] = @ - 1]
      BY <2>5 DEF QuotaDown
    <3>2. UNCHANGED <<msgUse, slotUse, prevTx, dataUse, prevData, dataEvent>>
      BY <2>5 DEF QuotaDown
    <3>3. \A x \in Services :
            x = s /\ quotaEvent[x] > 0 => quotaEvent[x] - 1 \in Nat
      OBVIOUS
    <3>4. quotaEvent' \in [Services -> Nat]
      BY <3>1, <3>3
    <3> QED BY <3>2, <3>4
  <2>6. CASE QuotaRelock(t) BY <2>6 DEF QuotaRelock
  <2>7. CASE ReserveSpace(t) BY <2>7 DEF ReserveSpace
  <2>8. CASE SlotDown(t) BY <2>8 DEF SlotDown
  <2>9. CASE WriteHeader(t)
    <3>1. LastTxIndex \in Int
      BY DEF LastTxIndex, SpaceOK, Positions
    <3> QED BY <2>9, <3>1 DEF WriteHeader
  <2>10. CASE Publish(t) BY <2>10 DEF Publish
  <2> QED BY <1>4, <2>1, <2>2, <2>3, <2>4, <2>5, <2>6, <2>7, <2>8, <2>9, <2>10
          DEF ThreadStep
<1>5. CASE ProcessFreeSlot
  <2> DEFINE slot == slotQueue[slotQueueAvailable % QueueLen]
             n(s) == Cardinality(DataIn(slot, s))
             ups(s) == Cardinality({j \in 0..(n(s) - 1) :
                                      Monus(msgUse[s], j) = MessageQuota})
                       + (IF n(s) > 0 /\ slotUse[s] > 0 THEN 1 ELSE 0)
  <2>1. \A s : n(s) \in Nat
    BY DataInFinite
  <2>2. \A s : ups(s) \in Nat
    <3> TAKE s
    <3>1. IsFiniteSet(0..(n(s) - 1))
      BY <2>1, FS_Interval
    <3>2. Cardinality({j \in 0..(n(s) - 1) :
                         Monus(msgUse[s], j) = MessageQuota}) \in Nat
      BY <3>1, FS_Subset, FS_CardinalityType
    <3> QED BY <3>2
  <2> HIDE DEF n, ups
  <2>3. /\ msgUse' = [s \in Services |-> Monus(msgUse[s], n(s))]
        /\ slotUse' = [s \in Services |->
                         IF n(s) > 0 THEN Monus(slotUse[s], 1) ELSE slotUse[s]]
        /\ quotaEvent' = [s \in Services |-> quotaEvent[s] + ups(s)]
        /\ dataUse' \in {Monus(dataUse, 1), dataUse}
        /\ dataEvent' \in {dataEvent + 1, dataEvent}
        /\ UNCHANGED <<prevTx, prevData>>
    BY <1>5 DEF ProcessFreeSlot, n, ups
  <2> QED BY <2>1, <2>2, <2>3 DEF Monus
<1>6. CASE Parse \/ Release
  BY <1>6 DEF Parse, ParseBegin, ParseMessage, Release, ReleaseMessage
<1>7. CASE UNCHANGED vars
  BY <1>7 DEF vars
<1> QED BY <1>1, <1>2, <1>3, <1>4, <1>5, <1>6, <1>7 DEF Next

-----------------------------------------------------------------------------
(* The slots and the services.                                               *)

Contents == [Slots -> [Offsets -> Headers]]

LEMMA PutHeader ==
  ASSUME NEW f \in Contents, NEW slot, NEW off, NEW h \in Headers
  PROVE  [f EXCEPT ![slot][off] = h] \in Contents
  BY DEF Contents

LEMMA BlankSlot ==
  ASSUME NEW f \in Contents, NEW slot
  PROVE  [f EXCEPT ![slot] = Blank] \in Contents
  BY SlotFacts DEF Contents

LEMMA ClaimHeader ==
  ASSUME NEW f \in Contents, NEW slot, NEW off, NEW b \in BOOLEAN
  PROVE  [f EXCEPT ![slot][off].claimed = b] \in Contents
<1>1. ASSUME NEW h \in Headers PROVE [h EXCEPT !.claimed = b] \in Headers
  BY DEF Headers
<1> QED BY <1>1 DEF Contents

LEMMA StepContents ==
  ThreadsOK /\ SpaceOK /\ mem \in Contents /\ [Next]_vars => mem' \in Contents
<1> SUFFICES ASSUME ThreadsOK, SpaceOK, mem \in Contents, [Next]_vars
             PROVE  mem' \in Contents
  OBVIOUS
<1> USE DEF spaceVars
<1>1. ASSUME NEW t \in Senders, NEW k \in Strides, SendCall(t, k)
      PROVE  mem' \in Contents
  BY <1>1 DEF SendCall
<1>2. ASSUME NEW k \in ControlStrides, ControlCall(k) PROVE mem' \in Contents
  BY <1>2 DEF ControlCall
<1>3. ASSUME NEW s \in Services, MarkClosing(s) \/ SyncClosing(s) \/ CloseCall(s)
      PROVE  mem' \in Contents
  BY <1>3 DEF MarkClosing, SyncClosing, CloseCall
<1>4. ASSUME NEW t \in Threads, ThreadStep(t) PROVE mem' \in Contents
  <2>1. CASE LockForData(t) BY <2>1 DEF LockForData
  <2>2. CASE LockForControl(t) BY <2>2 DEF LockForControl
  <2>3. CASE DataQuotaDown(t) BY <2>3 DEF DataQuotaDown
  <2>4. CASE DataRelock(t) BY <2>4 DEF DataRelock
  <2>5. CASE QuotaDown(t) BY <2>5 DEF QuotaDown
  <2>6. CASE QuotaRelock(t) BY <2>6 DEF QuotaRelock
  <2>7. CASE ReserveSpace(t)
    <3> DEFINE space  == SlotSize - localTxPos.off
               padded == IF msg[t].stride > space
                         THEN [mem EXCEPT ![txData][localTxPos.off] =
                                            Padding(space)]
                         ELSE mem
    <3>1. Padding(space) \in Headers
      BY DEF Padding, Headers, SpaceOK, Positions
    <3>2. padded \in Contents
      BY <3>1, PutHeader
    <3>3. PICK new : mem' \in {mem, padded, [padded EXCEPT ![new] = Blank]}
      BY <2>7 DEF ReserveSpace, TakeSlot, FlushAndWait
    <3> HIDE DEF padded
    <3>4. [padded EXCEPT ![new] = Blank] \in Contents
      BY <3>2, BlankSlot
    <3> QED BY <3>2, <3>3, <3>4
  <2>8. CASE SlotDown(t) BY <2>8, BlankSlot DEF SlotDown, TakeSlot
  <2>9. CASE WriteHeader(t)
    <3>1. msg[t] \in Headers
      BY DEF ThreadsOK
    <3>2. PICK off : mem' = [mem EXCEPT ![txData][off] = msg[t]]
      BY <2>9 DEF WriteHeader
    <3> QED BY <3>1, <3>2, PutHeader
  <2>10. CASE Publish(t) BY <2>10 DEF Publish
  <2> QED BY <1>4, <2>1, <2>2, <2>3, <2>4, <2>5, <2>6, <2>7, <2>8, <2>9, <2>10
          DEF ThreadStep
<1>5. CASE ProcessFreeSlot BY <1>5 DEF ProcessFreeSlot
<1>6. CASE ParseBegin BY <1>6 DEF ParseBegin
<1>7. CASE ParseMessage
  <2>1. PICK slot, off : mem' \in {mem, [mem EXCEPT ![slot][off].claimed = TRUE]}
    BY <1>7 DEF ParseMessage
  <2>2. [mem EXCEPT ![slot][off].claimed = TRUE] \in Contents
    BY ClaimHeader
  <2> QED BY <2>1, <2>2
<1>8. CASE Release
  <2>1. PICK slot, off : mem' = [mem EXCEPT ![slot][off].claimed = FALSE]
    BY <1>8 DEF Release, ReleaseMessage
  <2> QED BY <2>1, ClaimHeader
<1>9. CASE UNCHANGED vars BY <1>9 DEF vars
<1> QED BY <1>1, <1>2, <1>3, <1>4, <1>5, <1>6, <1>7, <1>8, <1>9 DEF Next, Parse

LEMMA StepSlots == ThreadsOK /\ SpaceOK /\ SlotsOK /\ [Next]_vars => SlotsOK'
<1> SUFFICES ASSUME ThreadsOK, SpaceOK, SlotsOK, [Next]_vars PROVE SlotsOK'
  OBVIOUS
<1>1. mem' \in [Slots -> [Offsets -> Headers]]
  BY StepContents DEF SlotsOK, Contents
<1>2. useCount' \in [Slots -> Nat] /\ releaseCount' \in [Slots -> Nat]
  <2> USE DEF SlotsOK, rxVars
  <2>1. ASSUME ~ParseMessage, ~Release
        PROVE  UNCHANGED <<useCount, releaseCount>>
    BY <2>1
    DEF Next, SendCall, ControlCall, MarkClosing, SyncClosing, CloseCall,
        ThreadStep, LockForData, LockForControl, DataQuotaDown, DataRelock,
        QuotaDown, QuotaRelock, ReserveSpace, SlotDown, WriteHeader, Publish,
        ProcessFreeSlot, Parse, ParseBegin, vars
  <2>2. CASE ParseMessage
    <3>1. PICK slot, n1, n2, u, r :
               /\ n1 \in {0, 1} /\ n2 \in {0, 1}
               /\ u \in {1, useCount[slot]} /\ r \in {0, releaseCount[slot]}
               /\ useCount' = [useCount EXCEPT ![slot] = u + n1]
               /\ releaseCount' = [releaseCount EXCEPT ![slot] = r + n2]
      BY <2>2 DEF ParseMessage
    <3>2. slot \in Slots => u + n1 \in Nat /\ r + n2 \in Nat
      BY <3>1
    <3> QED BY <3>1, <3>2
  <2>3. CASE Release
    <3>1. PICK slot \in Slots :
               releaseCount' = [releaseCount EXCEPT ![slot] =
                                  releaseCount[slot] + 1]
      BY <2>3 DEF Release, ReleaseMessage
    <3>2. UNCHANGED useCount
      BY <2>3 DEF Release, ReleaseMessage
    <3> QED BY <3>1, <3>2
  <2> QED BY <2>1, <2>2, <2>3
<1>3. closing' \in [Services -> BOOLEAN]
  <2>1. ASSUME \A x \in Services : ~MarkClosing(x) PROVE closing' = closing
    BY <2>1
    DEF Next, SendCall, ControlCall, SyncClosing, CloseCall, closeVars,
        ThreadStep, LockForData, LockForControl, DataQuotaDown, DataRelock,
        QuotaDown, QuotaRelock, ReserveSpace, SlotDown, WriteHeader, Publish,
        ProcessFreeSlot, Parse, ParseBegin, ParseMessage, Release,
        ReleaseMessage, vars
  <2>2. ASSUME NEW x \in Services, MarkClosing(x)
        PROVE  closing' \in [Services -> BOOLEAN]
    BY <2>2 DEF MarkClosing, SlotsOK
  <2> QED BY <2>1, <2>2 DEF SlotsOK
<1>4. closePhase' \in [Services -> {"none", "sync", "poll"}]
  <2>1. ASSUME \A x \in Services : ~MarkClosing(x) /\ ~SyncClosing(x)
        PROVE  closePhase' = closePhase
    BY <2>1
    DEF Next, SendCall, ControlCall, CloseCall, closeVars,
        ThreadStep, LockForData, LockForControl, DataQuotaDown, DataRelock,
        QuotaDown, QuotaRelock, ReserveSpace, SlotDown, WriteHeader, Publish,
        ProcessFreeSlot, Parse, ParseBegin, ParseMessage, Release,
        ReleaseMessage, vars
  <2>2. ASSUME NEW x \in Services, MarkClosing(x) \/ SyncClosing(x)
        PROVE  closePhase' \in [Services -> {"none", "sync", "poll"}]
    BY <2>2 DEF MarkClosing, SyncClosing, SlotsOK
  <2> QED BY <2>1, <2>2 DEF SlotsOK
<1>5. srvstate' \in [Services -> {"OPEN", "CLOSESENT"}]
  <2>1. ASSUME \A t \in Threads : ~Publish(t) PROVE srvstate' = srvstate
    BY <2>1
    DEF Next, SendCall, ControlCall, MarkClosing, SyncClosing, CloseCall,
        closeVars, ThreadStep, LockForData, LockForControl, DataQuotaDown,
        DataRelock, QuotaDown, QuotaRelock, ReserveSpace, SlotDown,
        WriteHeader, ProcessFreeSlot, Parse, ParseBegin, ParseMessage, Release,
        ReleaseMessage, vars
  <2>2. ASSUME NEW t \in Threads, Publish(t)
        PROVE  srvstate' \in [Services -> {"OPEN", "CLOSESENT"}]
    BY <2>2 DEF Publish, SlotsOK
  <2> QED BY <2>1, <2>2 DEF SlotsOK
<1>6. peerOpen' \in [Services -> BOOLEAN]
  <2>1. ASSUME ~ParseMessage PROVE peerOpen' = peerOpen
    BY <2>1
    DEF Next, SendCall, ControlCall, MarkClosing, SyncClosing, CloseCall,
        rxVars, ThreadStep, LockForData, LockForControl, DataQuotaDown,
        DataRelock, QuotaDown, QuotaRelock, ReserveSpace, SlotDown,
        WriteHeader, Publish, ProcessFreeSlot, Parse, ParseBegin, Release,
        ReleaseMessage, vars
  <2>2. CASE ParseMessage
    <3>1. PICK h : peerOpen' = [x \in Services |->
                       peerOpen[x] /\ ~(h.type = "CLOSE" /\ h.svc = x)]
      BY <2>2 DEF ParseMessage
    <3> QED BY <3>1
  <2> QED BY <2>1, <2>2 DEF SlotsOK
<1> QED BY <1>1, <1>2, <1>3, <1>4, <1>5, <1>6 DEF SlotsOK

-----------------------------------------------------------------------------
(* slot_available_event counts the free slots.                               *)

(* A step that leaves the sender's position and the queue's counters alone.  *)
LEMMA AccountingUntouched ==
  ASSUME ThreadsOK, SlotAccounting,
         UNCHANGED <<localTxPos, slotAvailable, slotQueueAvailable,
                     slotQueueRecycle>>,
         \A t \in Threads : pc'[t] = "slotWait" => pc[t] = "slotWait"
  PROVE  SlotAccounting'
  BY DEF SlotAccounting, SlotsTaken

LEMMA StepAccounting ==
  ThreadsOK /\ SpaceOK /\ SlotMutexHeld /\ SlotAccounting /\ [Next]_vars
    => SlotAccounting'
<1> SUFFICES ASSUME ThreadsOK, SpaceOK, SlotMutexHeld, SlotAccounting, [Next]_vars
             PROVE  SlotAccounting'
  OBVIOUS
<1> USE DEF spaceVars, queueVars
<1>1. ASSUME NEW t \in Senders, NEW k \in Strides, SendCall(t, k)
      PROVE  SlotAccounting'
  BY <1>1, AccountingUntouched DEF SendCall, ThreadsOK
<1>2. ASSUME NEW k \in ControlStrides, ControlCall(k) PROVE SlotAccounting'
  BY <1>2, AccountingUntouched DEF ControlCall, ThreadsOK
<1>3. ASSUME NEW s \in Services, MarkClosing(s) \/ SyncClosing(s) \/ CloseCall(s)
      PROVE  SlotAccounting'
  BY <1>3, AccountingUntouched DEF MarkClosing, SyncClosing, CloseCall, ThreadsOK
<1>4. ASSUME NEW t \in Threads, ThreadStep(t) PROVE SlotAccounting'
  <2> USE DEF Goto, Return, ServiceQuota
  <2>1. CASE LockForData(t)
    BY <2>1, AccountingUntouched DEF LockForData, ThreadsOK
  <2>2. CASE LockForControl(t)
    BY <2>2, AccountingUntouched DEF LockForControl, ThreadsOK
  <2>3. CASE DataQuotaDown(t)
    BY <2>3, AccountingUntouched DEF DataQuotaDown, ThreadsOK
  <2>4. CASE DataRelock(t)
    BY <2>4, AccountingUntouched DEF DataRelock, ThreadsOK
  <2>5. CASE QuotaDown(t)
    BY <2>5, AccountingUntouched DEF QuotaDown, ThreadsOK
  <2>6. CASE QuotaRelock(t)
    BY <2>6, AccountingUntouched DEF QuotaRelock, ThreadsOK
  <2>7. CASE ReserveSpace(t)
    <3> DEFINE k == msg[t].stride
               pos == IF k > SlotSize - localTxPos.off
                      THEN [slot |-> localTxPos.slot + 1, off |-> 0]
                      ELSE localTxPos
    <3>1. k \in 1..SlotSize
      BY <2>7, StrideOfMessage DEF ReserveSpace
    <3>2. /\ pos \in Positions /\ k <= SlotSize - pos.off
          /\ pos.off = 0 => pos.slot = SlotsTaken
          /\ pos.off # 0 => pos.slot + 1 = SlotsTaken
      BY <3>1, ReservedPosition DEF SlotsTaken, SpaceOK, Positions
    <3>3. UNCHANGED <<slotQueueAvailable, slotQueueRecycle>>
      BY <2>7 DEF ReserveSpace
    <3>4. \A x \in Threads : x # t => pc[x] # "slotWait" /\ pc'[x] = pc[x]
      BY <2>7 DEF ReserveSpace, TakeSlot, FlushAndWait, SlotMutexHeld, ThreadsOK
    <3>5. CASE pos.off # 0
      <4>1. /\ localTxPos' = Advance(pos, k) /\ slotAvailable' = slotAvailable
            /\ pc'[t] # "slotWait"
        BY <2>7, <3>5 DEF ReserveSpace, TakeSlot, FlushAndWait, ThreadsOK
      <4>2. SlotsTaken' = SlotsTaken
        BY <3>1, <3>2, <3>5, <4>1 DEF SlotsTaken, Advance, Positions
      <4> QED BY <3>3, <3>4, <4>1, <4>2 DEF SlotAccounting
    <3>6. CASE pos.off = 0 /\ slotAvailable > 0
      <4>1. /\ localTxPos' = Advance(pos, k) /\ slotAvailable' = slotAvailable - 1
            /\ pc'[t] # "slotWait"
        BY <2>7, <3>6 DEF ReserveSpace, TakeSlot, FlushAndWait, ThreadsOK
      <4>2. SlotsTaken' = SlotsTaken + 1
        BY <3>1, <3>2, <3>6, <4>1, AdvanceFromBoundary DEF SlotsTaken
      <4>3. SlotsTaken \in Nat
        BY DEF SlotsTaken, SpaceOK, Positions
      <4> QED BY <3>3, <3>4, <4>1, <4>2, <4>3 DEF SlotAccounting, SpaceOK
    <3>7. CASE pos.off = 0 /\ slotAvailable = 0
      <4>1. localTxPos' = pos /\ slotAvailable' = slotAvailable
        BY <2>7, <3>7 DEF ReserveSpace, TakeSlot, FlushAndWait
      <4>2. SlotsTaken' = SlotsTaken /\ localTxPos'.off = 0
        BY <3>2, <3>7, <4>1 DEF SlotsTaken
      <4> QED BY <3>3, <3>4, <4>1, <4>2 DEF SlotAccounting
    <3> QED BY <3>5, <3>6, <3>7 DEF SpaceOK
  <2>8. CASE SlotDown(t)
    <3>1. msg[t].stride \in 1..SlotSize
      BY <2>8, StrideOfMessage DEF SlotDown
    <3>2. localTxPos \in Positions /\ localTxPos.off = 0
      BY <2>8 DEF SlotDown, SlotAccounting, SpaceOK
    <3>3. /\ localTxPos' = Advance(localTxPos, msg[t].stride)
          /\ slotAvailable' = slotAvailable - 1 /\ pc'[t] # "slotWait"
          /\ UNCHANGED <<slotQueueAvailable, slotQueueRecycle>>
      BY <2>8 DEF SlotDown, TakeSlot, ThreadsOK
    <3>4. \A x \in Threads : x # t => pc[x] # "slotWait" /\ pc'[x] = pc[x]
      BY <2>8 DEF SlotDown, TakeSlot, SlotMutexHeld, ThreadsOK
    <3>5. SlotsTaken' = SlotsTaken + 1 /\ SlotsTaken \in Nat
      BY <3>1, <3>2, <3>3, AdvanceFromBoundary DEF SlotsTaken, Positions
    <3> QED BY <3>3, <3>4, <3>5 DEF SlotAccounting, SpaceOK
  <2>9. CASE WriteHeader(t)
    BY <2>9, AccountingUntouched DEF WriteHeader, ThreadsOK
  <2>10. CASE Publish(t)
    BY <2>10, AccountingUntouched DEF Publish, ThreadsOK
  <2> QED BY <1>4, <2>1, <2>2, <2>3, <2>4, <2>5, <2>6, <2>7, <2>8, <2>9, <2>10
          DEF ThreadStep
<1>5. CASE ProcessFreeSlot
  <2>1. /\ slotQueueAvailable # slotQueueRecycle
        /\ slotQueueAvailable' = slotQueueAvailable + 1
        /\ slotAvailable' = slotAvailable + 1
        /\ UNCHANGED <<pc, localTxPos, slotQueueRecycle>>
    BY <1>5 DEF ProcessFreeSlot
  <2>2. SlotsTaken \in Nat /\ SlotsTaken' = SlotsTaken
    BY <2>1 DEF SlotsTaken, SpaceOK, Positions
  <2> QED BY <2>1, <2>2 DEF SlotAccounting, SpaceOK
<1>6. CASE ParseBegin BY <1>6, AccountingUntouched DEF ParseBegin
<1>7. CASE ParseMessage \/ Release
  <2>1. PICK slot, freed : Recycle(slot, freed)
    BY <1>7 DEF ParseMessage, Release, ReleaseMessage
  <2>2. UNCHANGED <<pc, localTxPos, slotAvailable, slotQueueAvailable>>
    BY <1>7 DEF ParseMessage, Release, ReleaseMessage
  <2>3. slotQueueRecycle' >= slotQueueRecycle /\ slotQueueRecycle' \in Nat
    BY <2>1 DEF Recycle, SpaceOK
  <2>4. SlotsTaken' = SlotsTaken
    BY <2>2 DEF SlotsTaken
  <2> QED BY <2>2, <2>3, <2>4 DEF SlotAccounting, SpaceOK
<1>8. CASE UNCHANGED vars BY <1>8, AccountingUntouched DEF vars
<1> QED BY <1>1, <1>2, <1>3, <1>4, <1>5, <1>6, <1>7, <1>8 DEF Next, Parse

-----------------------------------------------------------------------------
(* No service uses more than its quota.                                      *)

QuotaInv == QuotaRoom /\ ServiceQuotaRespected

LEMMA QuotaTypes == MessageQuota \in Nat /\ SlotQuota \in Nat
<1>1. DefaultSlotQuota \in Nat
  BY SlotFacts DEF DefaultSlotQuota
<1>2. DefaultMessageQuota \in Nat
  BY <1>1 DEF DefaultMessageQuota
<1> QED BY <1>1, <1>2 DEF MessageQuota, SlotQuota

(* A step that charges nothing and lets nobody past the quota checks.        *)
LEMMA RoomUntouched ==
  ASSUME QuotaInv, UNCHANGED <<localTxPos, msgUse, slotUse, prevTx>>,
         \A x \in Threads : pc'[x] \in {"reserve", "slotWait", "write"}
                             => pc'[x] = pc[x] /\ msg'[x] = msg[x]
  PROVE  QuotaInv'
  BY DEF QuotaInv, QuotaRoom, ServiceQuotaRespected, TxEndIndex, LastTxIndex

(* Passing the quota checks with slot_mutex free leaves room for the message. *)
LEMMA RoomChecked ==
  ASSUME ThreadsOK, QuotasOK, SlotMutexHeld, QuotaInv, slotMutex = NoThread,
         NEW t \in Threads, ServiceQuota(t),
         UNCHANGED <<localTxPos, msgUse, slotUse, prevTx>>
  PROVE  QuotaInv'
<1>1. CASE ServiceStalled(msg[t].svc, msg[t].stride)
  BY <1>1, RoomUntouched DEF ServiceQuota, Goto, ThreadsOK
<1>2. CASE ~ServiceStalled(msg[t].svc, msg[t].stride)
  <2>1. ServiceQuotaRespected'
    BY DEF QuotaInv, ServiceQuotaRespected
  <2>2. \A x \in Threads : pc'[x] \in {"reserve", "slotWait", "write"} => x = t
    BY <1>2 DEF ServiceQuota, Goto, ThreadsOK, SlotMutexHeld
  <2>3. msg' = msg /\ pc'[t] = "reserve"
    BY <1>2 DEF ServiceQuota, Goto, ThreadsOK
  <2> DEFINE s == msg[t].svc  k == msg[t].stride
  <2>4. TxEndIndex(k)' = TxEndIndex(k)
    BY <2>3 DEF TxEndIndex
  <2>5. ASSUME s \in Services
        PROVE  /\ msgUse[s] < MessageQuota
               /\ TxEndIndex(k) # prevTx[s] => slotUse[s] < SlotQuota
    <3>1. /\ msgUse[s] \in Nat /\ slotUse[s] \in Nat
          /\ MessageQuota \in Nat /\ SlotQuota \in Nat
      BY <2>5, QuotaTypes DEF QuotasOK
    <3>2. msgUse[s] <= MessageQuota /\ slotUse[s] <= SlotQuota
      BY <2>5 DEF QuotaInv, ServiceQuotaRespected
    <3> QED BY <1>2, <3>1, <3>2 DEF ServiceStalled
  <2>6. QuotaRoom'
    BY <2>2, <2>3, <2>4, <2>5 DEF QuotaRoom
  <2> QED BY <2>1, <2>6 DEF QuotaInv
<1> QED BY <1>1, <1>2

(* reserve_space puts the message where the quota check foresaw it.          *)
LEMMA ReservedSlot ==
  ASSUME localTxPos \in Positions, NEW k \in 1..SlotSize
  PROVE  LET pos == IF k > SlotSize - localTxPos.off
                    THEN [slot |-> localTxPos.slot + 1, off |-> 0]
                    ELSE localTxPos
         IN  /\ localTxPos' = Advance(pos, k) => LastTxIndex' = TxEndIndex(k)
             /\ localTxPos' = pos => TxEndIndex(k)' = TxEndIndex(k)
  BY DEF Positions, Advance, LastTxIndex, TxEndIndex

LEMMA StepQuotaInv ==
  StateTypeOK /\ SlotMutexHeld /\ SlotAccounting /\ QuotaInv /\ [Next]_vars
    => QuotaInv'
<1> SUFFICES ASSUME ThreadsOK, SpaceOK, QuotasOK, SlotMutexHeld, SlotAccounting,
                    QuotaInv, [Next]_vars
             PROVE  QuotaInv'
  BY DEF StateTypeOK
<1> USE DEF spaceVars, quotaVars
<1>1. ASSUME NEW t \in Senders, NEW k \in Strides, SendCall(t, k)
      PROVE  QuotaInv'
  BY <1>1, RoomUntouched DEF SendCall, ThreadsOK
<1>2. ASSUME NEW k \in ControlStrides, ControlCall(k) PROVE QuotaInv'
  BY <1>2, RoomUntouched DEF ControlCall, ThreadsOK
<1>3. ASSUME NEW s \in Services, MarkClosing(s) \/ SyncClosing(s) \/ CloseCall(s)
      PROVE  QuotaInv'
  BY <1>3, RoomUntouched DEF MarkClosing, SyncClosing, CloseCall, ThreadsOK
<1>4. ASSUME NEW t \in Threads, ThreadStep(t) PROVE QuotaInv'
  <2>1. CASE LockForData(t)
    <3>1. UNCHANGED <<localTxPos, msgUse, slotUse, prevTx>>
      BY <2>1 DEF LockForData
    <3>2. CASE ServiceQuota(t)
      BY <2>1, <3>1, <3>2, RoomChecked DEF LockForData
    <3>3. CASE ~ServiceQuota(t)
      BY <2>1, <3>1, <3>3, RoomUntouched DEF LockForData, Goto, Return, ThreadsOK
    <3> QED BY <3>2, <3>3
  <2>2. CASE LockForControl(t)
    <3>1. ServiceQuotaRespected'
      BY <2>2 DEF LockForControl, QuotaInv, ServiceQuotaRespected
    <3>2. \A x \in Threads :
            pc'[x] \in {"reserve", "slotWait", "write"} => x = t
      BY <2>2 DEF LockForControl, Goto, ThreadsOK, SlotMutexHeld
    <3>3. msg'[t].type # "DATA"
      BY <2>2 DEF LockForControl, Goto
    <3> QED BY <3>1, <3>2, <3>3 DEF QuotaInv, QuotaRoom
  <2>3. CASE DataQuotaDown(t)
    BY <2>3, RoomUntouched DEF DataQuotaDown, Goto, ThreadsOK
  <2>4. CASE DataRelock(t)
    <3>1. UNCHANGED <<localTxPos, msgUse, slotUse, prevTx>>
      BY <2>4 DEF DataRelock
    <3>2. CASE ServiceQuota(t)
      BY <2>4, <3>1, <3>2, RoomChecked DEF DataRelock
    <3>3. CASE ~ServiceQuota(t)
      BY <2>4, <3>1, <3>3, RoomUntouched DEF DataRelock, Goto, ThreadsOK
    <3> QED BY <3>2, <3>3
  <2>5. CASE QuotaDown(t)
    BY <2>5, RoomUntouched DEF QuotaDown, Goto, Return, ThreadsOK
  <2>6. CASE QuotaRelock(t)
    <3>1. UNCHANGED <<localTxPos, msgUse, slotUse, prevTx>>
      BY <2>6 DEF QuotaRelock
    <3>2. CASE ServiceQuota(t)
      BY <2>6, <3>1, <3>2, RoomChecked DEF QuotaRelock
    <3>3. CASE ~ServiceQuota(t)
      BY <2>6, <3>1, <3>3, RoomUntouched DEF QuotaRelock, Return, ThreadsOK
    <3> QED BY <3>2, <3>3
  <2>7. CASE ReserveSpace(t)
    <3> DEFINE k == msg[t].stride
               pos == IF k > SlotSize - localTxPos.off
                      THEN [slot |-> localTxPos.slot + 1, off |-> 0]
                      ELSE localTxPos
    <3>1. k \in 1..SlotSize
      BY <2>7, StrideOfMessage DEF ReserveSpace
    <3>2. /\ UNCHANGED <<msgUse, slotUse, prevTx>>
          /\ pc[t] = "reserve"
          /\ \/ localTxPos' = Advance(pos, k) /\ pc'[t] = "write" /\ msg' = msg
             \/ localTxPos' = pos /\ pc'[t] = "slotWait" /\ msg' = msg
             \/ pc'[t] = "idle"
      BY <2>7 DEF ReserveSpace, TakeSlot, FlushAndWait, Goto, Return, ThreadsOK
    <3>3. \A x \in Threads :
            pc'[x] \in {"reserve", "slotWait", "write"} => x = t
      BY <2>7 DEF ReserveSpace, TakeSlot, FlushAndWait, Goto, Return,
                  SlotMutexHeld, ThreadsOK
    <3>4. /\ localTxPos' = Advance(pos, k) => LastTxIndex' = TxEndIndex(k)
          /\ localTxPos' = pos /\ msg' = msg => TxEndIndex(k)' = TxEndIndex(k)
      <4>1. localTxPos' = Advance(pos, k) => LastTxIndex' = TxEndIndex(k)
        BY <3>1, MessageEnd DEF SpaceOK
      <4>2. localTxPos' = pos /\ msg' = msg => TxEndIndex(k)' = TxEndIndex(k)
        BY <3>1 DEF SpaceOK, Positions, Advance, LastTxIndex, TxEndIndex
      <4> QED BY <4>1, <4>2
    <3>5. ServiceQuotaRespected'
      BY <3>2 DEF QuotaInv, ServiceQuotaRespected
    <3>6. QuotaRoom'
      <4> HIDE DEF pos
      <4> QED BY <3>2, <3>3, <3>4 DEF QuotaInv, QuotaRoom
    <3> QED BY <3>5, <3>6 DEF QuotaInv
  <2>8. CASE SlotDown(t)
    <3> DEFINE k == msg[t].stride
    <3>1. k \in 1..SlotSize
      BY <2>8, StrideOfMessage DEF SlotDown
    <3>2. localTxPos.off = 0 /\ ~(k > SlotSize - localTxPos.off)
      BY <2>8, <3>1 DEF SlotDown, SlotAccounting
    <3>3. /\ UNCHANGED <<msgUse, slotUse, prevTx, msg>>
          /\ pc[t] = "slotWait" /\ pc'[t] = "write"
          /\ localTxPos' = Advance(localTxPos, k)
      BY <2>8 DEF SlotDown, TakeSlot, Goto, ThreadsOK
    <3>4. \A x \in Threads :
            pc'[x] \in {"reserve", "slotWait", "write"} => x = t
      BY <2>8 DEF SlotDown, TakeSlot, Goto, SlotMutexHeld, ThreadsOK
    <3>5. LastTxIndex' = TxEndIndex(k)
      BY <3>1, <3>2, <3>3, ReservedSlot DEF SpaceOK
    <3>6. ServiceQuotaRespected'
      BY <3>3 DEF QuotaInv, ServiceQuotaRespected
    <3>7. QuotaRoom'
      BY <3>3, <3>4, <3>5 DEF QuotaInv, QuotaRoom
    <3> QED BY <3>6, <3>7 DEF QuotaInv
  <2>9. CASE WriteHeader(t)
    <3>1. \A x \in Threads : pc'[x] \notin {"reserve", "slotWait", "write"}
      BY <2>9 DEF WriteHeader, Goto, SlotMutexHeld, ThreadsOK
    <3>2. QuotaRoom'
      BY <3>1 DEF QuotaRoom
    <3>3. ASSUME NEW s \in Services
          PROVE  msgUse'[s] <= MessageQuota /\ slotUse'[s] <= SlotQuota
      <4>1. msgUse[s] <= MessageQuota /\ slotUse[s] <= SlotQuota
        BY DEF QuotaInv, ServiceQuotaRespected
      <4>2. CASE msg[t].type # "DATA"
        BY <2>9, <4>1, <4>2 DEF WriteHeader
      <4>3. CASE msg[t].type = "DATA" /\ msg[t].svc # s
        BY <2>9, <4>1, <4>3 DEF WriteHeader, QuotasOK
      <4>4. CASE msg[t].type = "DATA" /\ msg[t].svc = s
        <5>1. /\ msgUse[s] < MessageQuota
              /\ LastTxIndex # prevTx[s] => slotUse[s] < SlotQuota
          BY <2>9, <4>4 DEF WriteHeader, QuotaInv, QuotaRoom
        <5>2. /\ msgUse'[s] = msgUse[s] + 1
              /\ slotUse'[s] = IF LastTxIndex # prevTx[s] THEN slotUse[s] + 1
                                                          ELSE slotUse[s]
          BY <2>9, <4>4 DEF WriteHeader, QuotasOK
        <5> QED BY <4>1, <5>1, <5>2, QuotaTypes DEF QuotasOK
      <4> QED BY <4>2, <4>3, <4>4
    <3> QED BY <3>2, <3>3 DEF QuotaInv, ServiceQuotaRespected
  <2>10. CASE Publish(t)
    BY <2>10, RoomUntouched DEF Publish, Return, ThreadsOK
  <2> QED BY <1>4, <2>1, <2>2, <2>3, <2>4, <2>5, <2>6, <2>7, <2>8, <2>9, <2>10
          DEF ThreadStep
<1>5. CASE ProcessFreeSlot
  <2>1. PICK n \in [Services -> Nat] :
          /\ msgUse' = [s \in Services |-> Monus(msgUse[s], n[s])]
          /\ slotUse' = [s \in Services |->
                            IF n[s] > 0 THEN Monus(slotUse[s], 1)
                                        ELSE slotUse[s]]
    <3> DEFINE slot == slotQueue[slotQueueAvailable % QueueLen]
               n == [s \in Services |-> Cardinality(DataIn(slot, s))]
    <3>1. n \in [Services -> Nat]
      BY DataInFinite
    <3>2. /\ msgUse' = [s \in Services |-> Monus(msgUse[s], n[s])]
          /\ slotUse' = [s \in Services |->
                            IF n[s] > 0 THEN Monus(slotUse[s], 1)
                                        ELSE slotUse[s]]
      BY <1>5 DEF ProcessFreeSlot
    <3> HIDE DEF n
    <3> QED BY <3>1, <3>2
  <2>2. UNCHANGED <<pc, msg, prevTx, localTxPos>>
    BY <1>5 DEF ProcessFreeSlot
  <2>3. \A s \in Services :
          msgUse'[s] <= msgUse[s] /\ slotUse'[s] <= slotUse[s]
          /\ msgUse'[s] \in Nat /\ slotUse'[s] \in Nat
    BY <2>1 DEF Monus, QuotasOK
  <2>4. ServiceQuotaRespected'
    BY <2>3, QuotaTypes DEF QuotaInv, ServiceQuotaRespected, QuotasOK
  <2>5. QuotaRoom'
    BY <2>2, <2>3, QuotaTypes
    DEF QuotaInv, QuotaRoom, TxEndIndex, LastTxIndex, QuotasOK
  <2> QED BY <2>4, <2>5 DEF QuotaInv
<1>6. CASE Parse \/ Release
  BY <1>6, RoomUntouched
  DEF Parse, ParseBegin, ParseMessage, Release, ReleaseMessage
<1>7. CASE UNCHANGED vars BY <1>7, RoomUntouched DEF vars
<1> QED BY <1>1, <1>2, <1>3, <1>4, <1>5, <1>6, <1>7 DEF Next

-----------------------------------------------------------------------------
SenderInv == StateTypeOK /\ SlotMutexHeld /\ SlotAccounting /\ QuotaInv

LEMMA InitSender == Init => SenderInv
<1> SUFFICES ASSUME Init PROVE SenderInv
  OBVIOUS
<1>1. SlotMutexHeld BY DEF Init, SlotMutexHeld
<1>2. SlotAccounting BY SlotFacts DEF Init, SlotAccounting, SlotsTaken
<1>3. QuotaInv
  BY QuotaTypes DEF Init, QuotaInv, QuotaRoom, ServiceQuotaRespected
<1> QED BY <1>1, <1>2, <1>3, InitTypes DEF SenderInv

(* The inductive invariant of the sending side.                              *)
THEOREM SenderInvariant == Spec => []SenderInv
<1>1. SenderInv /\ [Next]_vars => SenderInv'
  BY StepThreads, StepSpace, StepQuotas, StepSlots, StepMutex, StepAccounting,
     StepQuotaInv DEF SenderInv, StateTypeOK
<1> QED BY InitSender, <1>1, PTL DEF Spec

(* Every counter, position, queue entry and header of the transport keeps    *)
(* its type.                                                                 *)
THEOREM StateTypeCorrect == Spec => []StateTypeOK
<1>1. SenderInv => StateTypeOK BY DEF SenderInv
<1> QED BY SenderInvariant, <1>1, PTL

(* At most one thread is between the quota checks of queue_message and its   *)
(* unlock, and slot_mutex names it.                                          *)
THEOREM MutexCorrect == Spec => []SlotMutexHeld
<1>1. SenderInv => SlotMutexHeld BY DEF SenderInv
<1> QED BY SenderInvariant, <1>1, PTL

(* slot_available_event counts the recycled slots not yet taken, so          *)
(* reserve_space never overtakes the recycle thread.                         *)
THEOREM AccountingCorrect == Spec => []SlotAccounting
<1>1. SenderInv => SlotAccounting BY DEF SenderInv
<1> QED BY SenderInvariant, <1>1, PTL

(* No service ever uses more than its quota of messages or of slots.         *)
THEOREM QuotaCorrect == Spec => []ServiceQuotaRespected
<1>1. SenderInv => ServiceQuotaRespected BY DEF SenderInv, QuotaInv
<1> QED BY SenderInvariant, <1>1, PTL

-----------------------------------------------------------------------------
(* The receiving side.                                                     *)

(* The entry of the slot queue for a slot of the stream, and its headers.    *)
QueueEntry(i)   == slotQueue[i % QueueLen]
Header(m, i, o) == m[QueueEntry(i)][o]

(* The slots of the stream in the queue, unread or free.                     *)
Window == rxPos.slot .. slotQueueRecycle - 1

(* The claimed messages of a slot: each holds a reference (claim_slot).      *)
Claims(slot) == {o \in Offsets : mem[slot][o].claimed}

(* The order of the positions of the stream.                                 *)
Precedes(p, q) == p.slot < q.slot \/ (p.slot = q.slot /\ p.off <= q.off)
Below(i, o, p) == i < p.slot \/ (i = p.slot /\ o < p.off)

(* rx_pos, the snapshot the parser works from and tx_pos follow each other,  *)
(* and rx_data points into the slot of rx_pos unless the parser is between   *)
(* slots.                                                                    *)
InOrder ==
  /\ rxPos \in Positions
  /\ Precedes(rxPos, rxLimit) /\ Precedes(rxLimit, txPos)
  /\ rxData = IF rxPos.off = 0 THEN NoSlot ELSE QueueEntry(rxPos.slot)

(* No slot is queued twice.                                                  *)
Apart ==
  /\ \A i \in Window : QueueEntry(i) \in Slots
  /\ \A i, j \in Window : QueueEntry(i) = QueueEntry(j) => i = j

(* A slot that is no longer queued is pinned by its claims alone, and by at  *)
(* least one; the slot being parsed has the parser's own reference besides.  *)
Counted ==
  /\ \A slot \in Slots :
       (\A i \in Window : QueueEntry(i) # slot) =>
         /\ Claims(slot) # {}
         /\ useCount[slot] = releaseCount[slot] + Cardinality(Claims(slot))
  /\ rxPos.off # 0 =>
       useCount[rxData] = releaseCount[rxData] + Cardinality(Claims(rxData)) + 1

(* Nothing the parser has not reached is claimed.                            *)
Unclaimed ==
  \A i \in Window, o \in Offsets :
    (i = rxPos.slot => o >= rxPos.off) => ~ Header(mem, i, o).claimed

(* Up to a position the headers follow each other without a gap: each slot   *)
(* begins with one, each ends where the next begins or at the end of the     *)
(* slot, none reaches over p or over the parser's snapshot, and the parser   *)
(* stands on one.                                                            *)
TiledTo(m, p) ==
  /\ \A i \in Window : Below(i, 0, p) => Header(m, i, 0).type # "NONE"
  /\ \A i \in Window, o \in Offsets :
       Below(i, o, p) /\ Header(m, i, o).type # "NONE" =>
         LET next == o + Header(m, i, o).stride IN
           /\ next <= SlotSize
           /\ i = p.slot => next <= p.off
           /\ i = rxLimit.slot /\ o < rxLimit.off => next <= rxLimit.off
           /\ next < SlotSize /\ Below(i, next, p)
                => Header(m, i, next).type # "NONE"
  /\ \A q \in {rxPos, rxLimit} :
       Below(q.slot, q.off, p) => Header(m, q.slot, q.off).type # "NONE"

(* Everything published is tiled.                                            *)
Tiled == TiledTo(mem, txPos)

(* A thread between reserve_space and the update of tx_pos, ...              *)
Writing(t) == pc[t] \in {"write", "publish"}

(* ... and where in its slot it writes.                                      *)
MsgOffset(t) ==
  (IF localTxPos.off = 0 THEN SlotSize ELSE localTxPos.off) - msg[t].stride

(* The slot was never written from here on.                                  *)
BlankFrom(m, slot, off) == \A o \in Offsets : o >= off => m[slot][o].type = "NONE"

(* The rest of the slot is padding, as reserve_space leaves it.              *)
Padded(m, p) ==
  /\ p.off # 0
  /\ Header(m, p.slot, p.off) = Padding(SlotSize - p.off)
  /\ BlankFrom(m, QueueEntry(p.slot), p.off + 1)

(* What a writing thread has reserved: the place just behind tx_pos, or the  *)
(* start of the next slot behind padding; blank until it writes its header   *)
(* there.                                                                    *)
Written(m, t) ==
  LET last == LastTxIndex  off == MsgOffset(t) IN
  /\ last \in Nat /\ off \in Offsets
  /\ txData = QueueEntry(last)
  /\ \/ txPos = [slot |-> last, off |-> off]
     \/ off = 0 /\ txPos.slot = last - 1 /\ Padded(m, txPos)
  /\ BlankFrom(m, txData, IF pc[t] = "write" THEN off ELSE off + 1)
  /\ pc[t] = "publish" => m[txData][off] = msg[t]

(* Without a writer local_tx_pos is published and blank from there on; a     *)
(* writer has what Written says.                                             *)
Writer ==
  /\ (\A t \in Threads : ~ Writing(t)) =>
       /\ txPos = localTxPos
       /\ localTxPos.off # 0 => BlankFrom(mem, txData, localTxPos.off)
  /\ localTxPos.off # 0 => txData = QueueEntry(localTxPos.slot)
  /\ \A t \in Threads : Writing(t) => Written(mem, t)

(* The invariant of the receiving side: why the parser finds whole messages  *)
(* and why a slot is recycled exactly when nobody uses it.                   *)
ReceiverInv == InOrder /\ Apart /\ Counted /\ Unclaimed /\ Tiled /\ Writer

(* Division with remainder.                                                  *)
LEMMA DivMod ==
  ASSUME NEW q \in Nat \ {0}, NEW i \in Nat
  PROVE  i \div q \in Nat /\ i % q \in 0 .. q - 1 /\ i = q * (i \div q) + (i % q)
<1>1. i \div q \in Int /\ i % q \in 0 .. q - 1
  OBVIOUS
<1>2. i = q * (i \div q) + (i % q)
  OBVIOUS
<1>3. i \div q >= 0
  OBVIOUS
<1> QED BY <1>1, <1>2, <1>3

(* Indices closer than the length of the queue have entries of their own.    *)
LEMMA ModApart ==
  ASSUME NEW i \in Nat, NEW j \in Nat, i < j, j - i < QueueLen
  PROVE  i % QueueLen # j % QueueLen
<1>1. QueueLen \in Nat \ {0}
  BY SlotFacts
<1> DEFINE a == i \div QueueLen  b == j \div QueueLen
<1>2. /\ a \in Int /\ i % QueueLen \in Int /\ i = QueueLen * a + (i % QueueLen)
      /\ b \in Int /\ j % QueueLen \in Int /\ j = QueueLen * b + (j % QueueLen)
  <2>1. /\ a \in Nat /\ i % QueueLen \in 0 .. QueueLen - 1
        /\ i = QueueLen * a + (i % QueueLen)
    BY ONLY <1>1, DivMod, i \in Nat
  <2>2. /\ b \in Nat /\ j % QueueLen \in 0 .. QueueLen - 1
        /\ j = QueueLen * b + (j % QueueLen)
    BY ONLY <1>1, DivMod, j \in Nat
  <2> QED BY <1>1, <2>1, <2>2
<1> SUFFICES ASSUME i % QueueLen = j % QueueLen PROVE FALSE
  OBVIOUS
<1> HIDE DEF a, b
<1>3. j - i = QueueLen * (b - a)
  BY <1>1, <1>2
<1>4. CASE b - a >= 1
  <2>1. QueueLen * (b - a) >= QueueLen
    BY <1>1, <1>2, <1>4
  <2> QED BY <1>1, <1>2, <1>3, <2>1
<1>5. CASE b - a <= 0
  <2>1. QueueLen * (b - a) <= 0
    BY <1>1, <1>2, <1>5
  <2> QED BY <1>1, <1>2, <1>3, <2>1
<1> QED BY <1>2, <1>4, <1>5

(* Distinct slots, so the window is never longer than the share of slots.    *)
LEMMA WindowSize ==
  ASSUME SpaceOK, NEW from \in Nat, from <= slotQueueRecycle,
         \A i \in from .. slotQueueRecycle - 1 : QueueEntry(i) \in Slots,
         \A i, j \in from .. slotQueueRecycle - 1 :
           QueueEntry(i) = QueueEntry(j) => i = j
  PROVE  /\ slotQueueRecycle - from <= NSlots
         /\ \A slot \in Slots :
              (\A i \in from .. slotQueueRecycle - 1 : QueueEntry(i) # slot)
                => slotQueueRecycle - from < NSlots
<1> DEFINE W == from .. slotQueueRecycle - 1
           f == [i \in W |-> QueueEntry(i)]
<1>1. slotQueueRecycle \in Nat
  BY DEF SpaceOK
<1>2. /\ IsFiniteSet(W) /\ Cardinality(W) = slotQueueRecycle - from
      /\ IsFiniteSet(Slots) /\ Cardinality(Slots) = NSlots
  <2>1. IsFiniteSet(W) /\ Cardinality(W) = slotQueueRecycle - from
    BY <1>1, FS_Interval
  <2>2. IsFiniteSet(Slots) /\ Cardinality(Slots) = NSlots
    <3>1. SlotFirst \in Int /\ SlotLast \in Int /\ SlotFirst <= SlotLast
      BY SlotFacts DEF NSlots
    <3>2. IsFiniteSet(Slots)
      BY <3>1, FS_Interval DEF Slots
    <3>3. Cardinality(Slots) = NSlots
      BY <3>1, FS_Interval DEF Slots, NSlots
    <3> QED BY <3>2, <3>3
  <2> QED BY <2>1, <2>2
<1>3. ASSUME NEW S \in SUBSET Slots, \A i \in W : QueueEntry(i) \in S
      PROVE  slotQueueRecycle - from <= Cardinality(S)
  <2>1. IsFiniteSet(S)
    BY <1>2, FS_Subset
  <2>2. f \in Injection(W, S)
    BY <1>3 DEF Injection, IsInjective
  <2> QED BY <1>2, <2>1, <2>2, FS_Injection DEF ExistsInjection
<1>4. ASSUME NEW slot \in Slots, \A i \in W : QueueEntry(i) # slot
      PROVE  slotQueueRecycle - from < NSlots
  <2>1. slotQueueRecycle - from <= Cardinality(Slots \ {slot})
    BY <1>3, <1>4
  <2>2. Cardinality(Slots \ {slot}) = NSlots - 1
    BY <1>2, FS_RemoveElement
  <2> QED BY <1>1, <2>1, <2>2, SlotFacts
<1>5. slotQueueRecycle - from <= NSlots
  BY <1>2, <1>3
<1> QED BY <1>4, <1>5

HIDE SlotChannelAssumption DEF SlotChannelAssumption

(* The positions in their order, as numbers.                                 *)
LEMMA Bounds ==
  ASSUME SpaceOK, SlotAccounting, InOrder, Writer
  PROVE  /\ {rxPos.slot, rxLimit.slot, txPos.slot, SlotsTaken} \subseteq Nat
         /\ {slotQueueRecycle, slotAvailable} \subseteq Nat
         /\ {rxPos.off, rxLimit.off, txPos.off, localTxPos.off} \subseteq Offsets
         /\ rxPos.slot <= rxLimit.slot /\ rxLimit.slot <= txPos.slot
         /\ txPos.slot <= SlotsTaken /\ SlotsTaken <= slotQueueRecycle
         /\ txPos.off # 0 => txPos.slot < SlotsTaken
         /\ rxPos.off # 0 => rxPos.slot < SlotsTaken
         /\ slotAvailable > 0 => SlotsTaken < slotQueueRecycle
         /\ LastTxIndex = SlotsTaken - 1
<1>1. /\ {rxPos.slot, rxLimit.slot, txPos.slot, localTxPos.slot} \subseteq Nat
      /\ {rxPos.off, rxLimit.off, txPos.off, localTxPos.off} \subseteq Offsets
      /\ {slotQueueRecycle, slotQueueAvailable, slotAvailable} \subseteq Nat
  BY DEF SpaceOK, InOrder, Positions
<1>2. SlotsTaken \in Nat /\ LastTxIndex = SlotsTaken - 1
  BY <1>1 DEF SlotsTaken, LastTxIndex
<1>3. /\ SlotsTaken <= slotQueueRecycle
      /\ slotAvailable > 0 => SlotsTaken < slotQueueRecycle
  BY <1>1, <1>2 DEF SlotAccounting
<1>4. /\ rxPos.slot <= rxLimit.slot /\ rxLimit.slot <= txPos.slot
      /\ rxPos.off # 0 => rxPos.slot < txPos.slot \/ txPos.off # 0
  BY <1>1 DEF InOrder, Precedes
<1>5. txPos.slot <= SlotsTaken /\ (txPos.off # 0 => txPos.slot < SlotsTaken)
  <2>1. CASE \A t \in Threads : ~ Writing(t)
    BY <1>1, <2>1 DEF Writer, SlotsTaken
  <2>2. ASSUME NEW t \in Threads, Writing(t)
        PROVE  txPos.slot < SlotsTaken
    <3>1. txPos.slot \in {LastTxIndex, LastTxIndex - 1}
      BY <2>2 DEF Writer, Written
    <3> QED BY <1>2, <3>1
  <2> QED BY <1>1, <1>2, <2>1, <2>2
<1> QED BY <1>1, <1>2, <1>3, <1>4, <1>5

(* A step outside reserve_space, WriteHeader, Publish and the receiver.      *)
LEMMA ReceiverUntouched ==
  ASSUME ReceiverInv,
         UNCHANGED <<spaceVars, rxVars, slotQueue, slotQueueRecycle>>
           \/ UNCHANGED <<localTxPos, txData, txPos, mem, rxVars, slotQueue,
                          slotQueueRecycle>>,
         \A x \in Threads : Writing(x)' \/ Writing(x)
                             => pc'[x] = pc[x] /\ msg'[x] = msg[x]
  PROVE  ReceiverInv'
<1>1. /\ UNCHANGED <<localTxPos, txData, txPos, mem, rxPos, rxLimit, rxData>>
      /\ UNCHANGED <<useCount, releaseCount, slotQueue, slotQueueRecycle>>
  BY DEF spaceVars, rxVars
<1>2. /\ \A i : QueueEntry(i)' = QueueEntry(i)
      /\ \A slot : Claims(slot)' = Claims(slot)
  BY <1>1 DEF QueueEntry, Claims
<1>3. Window' = Window
  BY <1>1 DEF Window
<1>4. InOrder'
  BY <1>1, <1>2 DEF ReceiverInv, InOrder
<1>5. Apart' /\ Unclaimed'
  BY <1>1, <1>2, <1>3 DEF ReceiverInv, Apart, Unclaimed, Header
<1>6. Counted'
  BY <1>1, <1>2, <1>3 DEF ReceiverInv, Counted
<1>7. Tiled'
  BY <1>1, <1>2, <1>3 DEF ReceiverInv, Tiled, TiledTo, Header
<1>8. Writer'
  <2>1. \A x \in Threads : Writing(x)' <=> Writing(x)
    BY DEF Writing
  <2>2. ASSUME NEW x \in Threads, Writing(x)
        PROVE  Written(mem, x)'
    <3>1. Written(mem, x) /\ pc'[x] = pc[x] /\ msg'[x] = msg[x]
      BY <2>2 DEF ReceiverInv, Writer
    <3>2. LastTxIndex' = LastTxIndex /\ MsgOffset(x)' = MsgOffset(x)
      BY <1>1, <3>1 DEF LastTxIndex, MsgOffset
    <3> QED
      BY <1>1, <1>2, <3>1, <3>2 DEF Written, Padded, BlankFrom, Header
  <2>3. (\A x \in Threads : ~ Writing(x)) =>
          (/\ txPos = localTxPos
           /\ localTxPos.off # 0 => BlankFrom(mem, txData, localTxPos.off))'
    BY <1>1 DEF ReceiverInv, Writer, BlankFrom
  <2>4. (localTxPos.off # 0 => txData = QueueEntry(localTxPos.slot))'
    BY <1>1, <1>2 DEF ReceiverInv, Writer
  <2> QED BY <2>1, <2>2, <2>3, <2>4 DEF Writer
<1> QED BY <1>4, <1>5, <1>6, <1>7, <1>8 DEF ReceiverInv

(* What release_slot does to the queue, from any position of the parser.     *)
LEMMA RecycleStep ==
  ASSUME SpaceOK, Apart, rxPos.slot \in Nat, NEW from \in Nat,
         rxPos.slot <= from, from <= slotQueueRecycle, rxPos'.slot = from,
         NEW slot \in Slots, NEW freed \in BOOLEAN, Recycle(slot, freed),
         freed => \A i \in from .. slotQueueRecycle - 1 : QueueEntry(i) # slot
  PROVE  /\ slotQueueRecycle' = IF freed THEN slotQueueRecycle + 1
                                         ELSE slotQueueRecycle
         /\ \A i \in from .. slotQueueRecycle - 1 : QueueEntry(i)' = QueueEntry(i)
         /\ freed => \A i \in Nat : i = slotQueueRecycle => QueueEntry(i)' = slot
         /\ Apart'
<1>1. slotQueueRecycle \in Nat /\ QueueLen \in Nat \ {0} /\ NSlots <= QueueLen
      /\ NSlots \in Nat
  BY SlotFacts DEF SpaceOK
<1>2. slotQueueRecycle' = IF freed THEN slotQueueRecycle + 1
                                   ELSE slotQueueRecycle
  BY DEF Recycle
<1>3. /\ \A i \in from .. slotQueueRecycle - 1 : QueueEntry(i) \in Slots
      /\ \A i, j \in from .. slotQueueRecycle - 1 :
           QueueEntry(i) = QueueEntry(j) => i = j
  BY <1>1 DEF Apart, Window
<1>4. ASSUME NEW i \in from .. slotQueueRecycle - 1
      PROVE  QueueEntry(i)' = QueueEntry(i)
  <2>1. CASE ~ freed
    BY <2>1 DEF Recycle, QueueEntry
  <2>2. CASE freed
    <3>1. slotQueueRecycle - from < NSlots
      BY <1>3, <2>2, WindowSize
    <3>2. i \in Nat /\ i < slotQueueRecycle /\ slotQueueRecycle - i < QueueLen
      BY <1>1, <3>1
    <3>3. i % QueueLen # slotQueueRecycle % QueueLen
      BY <1>1, <3>2, ModApart
    <3>4. i % QueueLen \in 0..(QueueLen - 1)
      BY <3>2, SlotFacts
    <3>5. slotQueue' = [slotQueue EXCEPT ![slotQueueRecycle % QueueLen] = slot]
      BY <2>2 DEF Recycle
    <3>6. slotQueue \in [0..(QueueLen - 1) -> Slots \union {NoSlot}]
      BY DEF SpaceOK
    <3> QED BY <3>3, <3>4, <3>5, <3>6 DEF QueueEntry
  <2> QED BY <2>1, <2>2
<1>5. freed => \A i \in Nat : i = slotQueueRecycle => QueueEntry(i)' = slot
  <2>1. slotQueueRecycle % QueueLen \in 0..(QueueLen - 1)
    BY <1>1, SlotFacts
  <2>2. slotQueue \in [0..(QueueLen - 1) -> Slots \union {NoSlot}]
    BY DEF SpaceOK
  <2>3. ASSUME freed
        PROVE  slotQueue' =
                 [slotQueue EXCEPT ![slotQueueRecycle % QueueLen] = slot]
    BY <2>3 DEF Recycle
  <2>4. CASE freed /\ slotQueueRecycle' = slotQueueRecycle + 1
    BY <2>1, <2>2, <2>3, <2>4 DEF QueueEntry
  <2> QED BY <1>2, <2>4
<1>6. Apart'
  <2>1. CASE ~ freed
    <3>1. Window' = from .. slotQueueRecycle - 1
      BY <1>2, <2>1 DEF Window
    <3> QED BY <1>3, <1>4, <3>1 DEF Apart
  <2>2. CASE freed
    <3>1. Window' = from .. slotQueueRecycle
      BY <1>1, <1>2, <2>2 DEF Window
    <3>2. \A i \in from .. slotQueueRecycle :
            i \in from .. slotQueueRecycle - 1 \/ i = slotQueueRecycle
      BY <1>1
    <3>3. \A i \in from .. slotQueueRecycle - 1 : QueueEntry(i)' # slot
      BY <1>4, <2>2
    <3>4. \A i \in Window' : QueueEntry(i)' \in Slots
      BY <1>3, <1>4, <1>5, <2>2, <3>1, <3>2
    <3>5. \A i, j \in Window' : QueueEntry(i)' = QueueEntry(j)' => i = j
      BY <1>3, <1>4, <1>5, <2>2, <3>1, <3>2, <3>3
    <3> QED BY <3>4, <3>5 DEF Apart
  <2> QED BY <2>1, <2>2
<1> QED BY <1>2, <1>4, <1>5, <1>6

HIDE DEF Threads, Offsets

(* The offsets of a slot.                                                    *)
LEMMA OffsetsAre ==
  /\ SlotSize \in Nat \ {0} /\ 0 \in Offsets
  /\ \A o \in Offsets : o \in Nat /\ o < SlotSize
  /\ \A o \in Nat : o < SlotSize => o \in Offsets
<1>1. SlotSize \in Nat \ {0}
  BY ONLY SlotChannelAssumption DEF SlotChannelAssumption
<1> QED BY ONLY <1>1 DEF Offsets

(* Headers that the parser will read only need their kind and their stride.  *)
LEMMA TiledKept ==
  ASSUME NEW m, NEW n, NEW p \in Positions, TiledTo(m, p),
         \A i \in Window, o \in Offsets : Header(m, i, o).stride \in Nat,
         rxPos \in Positions, rxLimit \in Positions, rxPos.slot <= rxLimit.slot,
         slotQueueRecycle \in Nat,
         \A i \in Nat, o \in Offsets :
           rxPos.slot <= i /\ Below(i, o, p) =>
             /\ Header(n, i, o).type = Header(m, i, o).type
             /\ Header(n, i, o).stride = Header(m, i, o).stride
  PROVE  TiledTo(n, p)
<1>1. /\ rxPos.slot \in Nat /\ rxLimit.slot \in Nat
      /\ rxPos.off \in Offsets /\ rxLimit.off \in Offsets
      /\ 0 \in Offsets /\ \A i \in Window : i \in Nat /\ rxPos.slot <= i
  <2>1. 0 \in Offsets
    BY ONLY OffsetsAre
  <2>2. rxPos.slot \in Nat /\ rxLimit.slot \in Nat
        /\ rxPos.off \in Offsets /\ rxLimit.off \in Offsets
    BY ONLY rxPos \in Positions, rxLimit \in Positions DEF Positions
  <2>3. ASSUME NEW i \in Window PROVE i \in Nat /\ rxPos.slot <= i
    BY ONLY i \in Window, <2>2, slotQueueRecycle \in Nat DEF Window
  <2> QED
    BY <2>1, <2>2, <2>3
<1>2. \A i \in Window : Below(i, 0, p) => Header(n, i, 0).type # "NONE"
  BY <1>1 DEF TiledTo
<1>3. ASSUME NEW i \in Window, NEW o \in Offsets, Below(i, o, p),
             Header(n, i, o).type # "NONE"
      PROVE  LET next == o + Header(n, i, o).stride IN
               /\ next <= SlotSize
               /\ i = p.slot => next <= p.off
               /\ i = rxLimit.slot /\ o < rxLimit.off => next <= rxLimit.off
               /\ next < SlotSize /\ Below(i, next, p)
                    => Header(n, i, next).type # "NONE"
  <2> DEFINE next == o + Header(m, i, o).stride
  <2>1. /\ Header(m, i, o).type # "NONE"
        /\ Header(n, i, o).stride = Header(m, i, o).stride
    BY <1>1, <1>3
  <2>2. /\ next <= SlotSize
        /\ i = p.slot => next <= p.off
        /\ i = rxLimit.slot /\ o < rxLimit.off => next <= rxLimit.off
        /\ next < SlotSize /\ Below(i, next, p)
             => Header(m, i, next).type # "NONE"
    BY <1>3, <2>1 DEF TiledTo
  <2>3. next < SlotSize /\ Below(i, next, p)
          => Header(n, i, next).type = Header(m, i, next).type
    <3>1. next \in Nat
      BY OffsetsAre
    <3>2. next < SlotSize => next \in Offsets
      BY ONLY OffsetsAre, <3>1
    <3> QED
      BY <1>1, <3>2
  <2> HIDE DEF next
  <2> QED BY <2>1, <2>2, <2>3 DEF next
<1>4. ASSUME NEW q \in {rxPos, rxLimit}, Below(q.slot, q.off, p)
      PROVE  Header(n, q.slot, q.off).type # "NONE"
  BY <1>1, <1>4 DEF TiledTo
<1> QED BY <1>2, <1>3, <1>4 DEF TiledTo

(* What lies behind a position advanced over a message.                      *)
LEMMA BelowAdvance ==
  ASSUME NEW p \in Positions, NEW k \in 1..SlotSize, p.off + k <= SlotSize,
         NEW i \in Nat, NEW o \in Offsets, Below(i, o, Advance(p, k))
  PROVE  Below(i, o, p) \/ (i = p.slot /\ p.off <= o /\ o < p.off + k)
<1>1. /\ p.slot \in Nat /\ p.off \in Nat /\ SlotSize \in Nat
      /\ o \in Nat /\ o < SlotSize
  BY ONLY OffsetsAre, p \in Positions, o \in Offsets DEF Positions
<1>2. CASE p.off + k = SlotSize
  <2>1. Advance(p, k).slot = p.slot + 1 /\ Advance(p, k).off = 0
    BY <1>2 DEF Advance
  <2> QED
    BY ONLY <1>1, <1>2, <2>1, i \in Nat, Below(i, o, Advance(p, k))
    DEF Below
<1>3. CASE p.off + k # SlotSize
  <2>1. Advance(p, k).slot = p.slot /\ Advance(p, k).off = p.off + k
    BY <1>3 DEF Advance
  <2> QED
    BY ONLY <1>1, <2>1, i \in Nat, k \in 1..SlotSize,
            Below(i, o, Advance(p, k))
    DEF Below
<1> QED BY <1>2, <1>3

(* A header written at the end of what is tiled extends it.                  *)
LEMMA TiledExtended ==
  ASSUME NEW m, NEW p \in Positions, NEW k \in 1..SlotSize, TiledTo(m, p),
         \A i \in Window, o \in Offsets : Header(m, i, o).stride \in Nat,
         rxPos \in Positions, rxLimit \in Positions, slotQueueRecycle \in Nat,
         Precedes(rxPos, p), Precedes(rxLimit, p), p.off + k <= SlotSize,
         Header(m, p.slot, p.off).type # "NONE",
         Header(m, p.slot, p.off).stride = k,
         \A o \in Offsets : o > p.off => Header(m, p.slot, o).type = "NONE"
  PROVE  TiledTo(m, Advance(p, k))
<1> DEFINE r == Advance(p, k)
<1>1. /\ p.slot \in Nat /\ p.off \in Nat /\ r.slot \in Nat
      /\ \/ r.slot = p.slot + 1 /\ r.off = 0 /\ p.off + k = SlotSize
         \/ r.slot = p.slot /\ r.off = p.off + k
  BY OffsetsAre DEF Positions, Advance
<1>2. /\ 0 \in Offsets /\ SlotSize \in Nat
      /\ \A o \in Offsets : o \in Nat /\ o < SlotSize
      /\ \A o \in Nat : o < SlotSize => o \in Offsets
  BY ONLY OffsetsAre
<1>3. \A i \in Window : i \in Nat
  BY ONLY rxPos \in Positions, slotQueueRecycle \in Nat DEF Window, Positions
<1>4. /\ \A i \in Window : Below(i, 0, p) => Header(m, i, 0).type # "NONE"
      /\ \A q \in {rxPos, rxLimit} :
           Below(q.slot, q.off, p) => Header(m, q.slot, q.off).type # "NONE"
  BY DEF TiledTo
<1>5. ASSUME NEW i \in Window, NEW o \in Offsets, Below(i, o, r)
      PROVE  Below(i, o, p) \/ (i = p.slot /\ p.off <= o /\ o < p.off + k)
  <2>1. i \in Nat
    BY <1>3
  <2> QED
    BY ONLY <2>1, <1>5, BelowAdvance, p \in Positions, k \in 1..SlotSize,
            p.off + k <= SlotSize
<1> HIDE DEF r
<1>6. ASSUME NEW i \in Window, Below(i, 0, r)
      PROVE  Header(m, i, 0).type # "NONE"
  <2>1. Below(i, 0, p) \/ (i = p.slot /\ p.off <= 0)
    BY ONLY <1>2, <1>5, <1>6
  <2>2. CASE i = p.slot /\ p.off <= 0
    <3>1. p.off = 0
      BY ONLY <1>1, <1>2, <2>2
    <3> QED
      BY ONLY <2>2, <3>1, Header(m, p.slot, p.off).type # "NONE"
  <2> QED
    BY ONLY <1>4, <2>1, <2>2, i \in Window
<1>7. ASSUME NEW i \in Window, NEW o \in Offsets, Below(i, o, r),
             Header(m, i, o).type # "NONE"
      PROVE  LET next == o + Header(m, i, o).stride IN
               /\ next <= SlotSize
               /\ i = r.slot => next <= r.off
               /\ i = rxLimit.slot /\ o < rxLimit.off => next <= rxLimit.off
               /\ next < SlotSize /\ Below(i, next, r)
                    => Header(m, i, next).type # "NONE"
  <2> DEFINE next == o + Header(m, i, o).stride
  <2>1. next \in Nat /\ i \in Nat /\ o \in Nat
    BY <1>2, <1>3
  <2>2. CASE Below(i, o, p)
    <3>1. /\ next <= SlotSize
          /\ i = p.slot => next <= p.off
          /\ i = rxLimit.slot /\ o < rxLimit.off => next <= rxLimit.off
          /\ next < SlotSize /\ Below(i, next, p)
               => Header(m, i, next).type # "NONE"
      BY <1>7, <2>2 DEF TiledTo
    <3> HIDE DEF next
    <3>2. i = r.slot => next <= r.off
      BY ONLY <1>1, <1>2, <2>1, <2>2, <3>1, k \in 1..SlotSize DEF Below
    <3>3. ASSUME next < SlotSize, Below(i, next, r)
          PROVE  Below(i, next, p) \/ (i = p.slot /\ next = p.off)
      <4>1. Below(i, next, p) \/ (i = p.slot /\ p.off <= next)
        BY ONLY <1>2, <1>5, <2>1, <3>3, i \in Window
      <4> QED
        BY ONLY <1>1, <1>2, <2>1, <3>1, <4>1
    <3>4. next < SlotSize /\ Below(i, next, r) => Header(m, i, next).type # "NONE"
      BY <3>1, <3>3
    <3> QED
      BY <3>1, <3>2, <3>4 DEF next
  <2>3. CASE i = p.slot /\ o = p.off
    <3>1. next = p.off + k
      BY <2>3
    <3> HIDE DEF next
    <3>2. next <= SlotSize /\ (i = r.slot => next <= r.off)
      BY ONLY <1>1, <2>3, <3>1, p.off + k <= SlotSize
    <3>3. ~ (i = rxLimit.slot /\ o < rxLimit.off)
      <4>1. rxLimit.slot \in Nat /\ rxLimit.off \in Nat /\ p.off \in Nat
        BY <1>1, <1>2 DEF Positions
      <4> QED
        BY ONLY <1>1, <2>3, <4>1, Precedes(rxLimit, p) DEF Precedes
    <3>4. next < SlotSize => ~ Below(i, next, r)
      BY ONLY <1>1, <1>2, <2>3, <3>1, k \in 1..SlotSize DEF Below
    <3> QED
      BY <3>2, <3>3, <3>4 DEF next
  <2>4. Below(i, o, p) \/ (i = p.slot /\ p.off <= o)
    BY ONLY <1>5, <1>7
  <2>5. i = p.slot /\ o > p.off => FALSE
    BY <1>7
  <2>6. Below(i, o, p) \/ (i = p.slot /\ o = p.off)
    BY ONLY <1>1, <2>1, <2>4, <2>5
  <2> QED
    BY <2>2, <2>3, <2>6
<1>8. ASSUME NEW q \in {rxPos, rxLimit}, Below(q.slot, q.off, r)
      PROVE  Header(m, q.slot, q.off).type # "NONE"
  <2>1. q \in Positions /\ Precedes(q, p)
    OBVIOUS
  <2>2. q.slot \in Nat /\ q.off \in Nat /\ p.off \in Nat
    BY <1>1, <1>2, <2>1 DEF Positions
  <2>3. Below(q.slot, q.off, p) \/ (q.slot = p.slot /\ q.off = p.off)
    BY ONLY <1>1, <2>1, <2>2 DEF Precedes, Below
  <2> QED
    BY <1>4, <2>3
<1>9. TiledTo(m, r)
  BY <1>6, <1>7, <1>8 DEF TiledTo
<1> QED
  BY <1>9 DEF r

(* A step of the sender that claims and releases nothing, and leaves what    *)
(* the parser will read whole.                                               *)
LEMMA SenderStep ==
  ASSUME SpaceOK, SlotAccounting, ReceiverInv, txPos' \in Positions,
         UNCHANGED <<rxPos, rxLimit, rxData, useCount, releaseCount>>,
         UNCHANGED <<slotQueue, slotQueueRecycle>>,
         \A slot \in Slots : Claims(slot)' = Claims(slot),
         Precedes(txPos, txPos'), TiledTo(mem', txPos')
  PROVE  InOrder' /\ Apart' /\ Counted' /\ Unclaimed' /\ Tiled'
<1>1. /\ InOrder /\ Apart /\ Counted /\ Unclaimed /\ Writer
      /\ txPos \in Positions /\ rxLimit \in Positions
  BY DEF ReceiverInv, SpaceOK
<1>2. /\ Window' = Window /\ \A i : QueueEntry(i)' = QueueEntry(i)
      /\ rxPos.off # 0 => rxPos.slot \in Window
  BY <1>1, Bounds DEF Window, QueueEntry
<1>3. InOrder'
  <2>1. /\ rxLimit.slot \in Nat /\ rxLimit.off \in Nat
        /\ txPos.slot \in Nat /\ txPos.off \in Nat
        /\ txPos'.slot \in Nat /\ txPos'.off \in Nat
    BY <1>1, OffsetsAre DEF Positions
  <2>2. Precedes(rxLimit, txPos')
    BY ONLY <1>1, <2>1, Precedes(txPos, txPos') DEF InOrder, Precedes
  <2>3. rxData' = IF rxPos.off = 0 THEN NoSlot
                                   ELSE slotQueue[rxPos.slot % QueueLen]
    BY <1>1 DEF InOrder, QueueEntry
  <2> QED
    BY <1>1, <2>2, <2>3 DEF InOrder, QueueEntry, Precedes
<1>4. Apart'
  BY <1>1, <1>2 DEF Apart
<1>5. Counted'
  <2>1. rxPos.off # 0 => rxData \in Slots
    BY <1>1, <1>2 DEF InOrder, Apart
  <2> QED BY <1>1, <1>2, <2>1 DEF Counted
<1>6. Unclaimed'
  <2>1. \A i \in Window, o \in Offsets :
          Header(mem, i, o)'.claimed <=> Header(mem, i, o).claimed
    <3> TAKE i \in Window, o \in Offsets
    <3>1. QueueEntry(i) \in Slots /\ QueueEntry(i)' = QueueEntry(i)
      BY <1>1, <1>2 DEF Apart
    <3>2. o \in Claims(QueueEntry(i)) <=> Header(mem, i, o).claimed
      BY DEF Claims, Header
    <3>3. o \in Claims(QueueEntry(i))' <=> Header(mem, i, o)'.claimed
      BY <3>1 DEF Claims, Header
    <3>4. \A slot : slot = QueueEntry(i) => Claims(slot)' = Claims(QueueEntry(i))'
      BY <3>1 DEF Claims
    <3> QED BY <3>1, <3>2, <3>3, <3>4
  <2> QED BY <1>1, <1>2, <2>1 DEF Unclaimed
<1>7. Tiled'
  BY <1>2 DEF Tiled, TiledTo, Header
<1> QED BY <1>3, <1>4, <1>5, <1>6, <1>7

(* What the steps of the sender start from.                                  *)
SendReady == ThreadsOK /\ SpaceOK /\ SlotsOK /\ SlotMutexHeld /\ SlotAccounting
             /\ ReceiverInv

(* The positions and the counters of the queue in their order.               *)
LEMMA ReadyFacts ==
  ASSUME SendReady
  PROVE  /\ rxPos.slot \in Nat /\ rxPos.off \in Nat
         /\ rxLimit.slot \in Nat /\ rxLimit.off \in Nat
         /\ txPos.slot \in Nat /\ txPos.off \in Nat
         /\ txPos.slot <= SlotsTaken /\ SlotsTaken <= slotQueueRecycle
         /\ SlotsTaken \in Nat /\ slotQueueRecycle \in Nat
         /\ rxPos.slot <= rxLimit.slot /\ rxLimit.slot <= txPos.slot
         /\ txPos.off # 0 => txPos.slot < SlotsTaken
         /\ rxPos.off # 0 => rxPos.slot < SlotsTaken
         /\ slotAvailable > 0 => SlotsTaken < slotQueueRecycle
         /\ LastTxIndex = SlotsTaken - 1
         /\ rxPos.slot = txPos.slot => rxPos.off <= txPos.off
<1>1. SpaceOK /\ SlotAccounting /\ InOrder /\ Writer
  BY DEF SendReady, ReceiverInv
<1>2. /\ rxPos.off \in Offsets /\ rxLimit.off \in Offsets
      /\ txPos.off \in Offsets
  BY <1>1, Bounds
<1>3. rxPos.off \in Nat /\ rxLimit.off \in Nat /\ txPos.off \in Nat
  BY ONLY <1>2, OffsetsAre
<1>4. /\ rxPos.slot \in Nat /\ rxLimit.slot \in Nat /\ txPos.slot \in Nat
      /\ SlotsTaken \in Nat /\ slotQueueRecycle \in Nat
      /\ txPos.slot <= SlotsTaken /\ SlotsTaken <= slotQueueRecycle
      /\ rxPos.slot <= rxLimit.slot /\ rxLimit.slot <= txPos.slot
      /\ txPos.off # 0 => txPos.slot < SlotsTaken
      /\ rxPos.off # 0 => rxPos.slot < SlotsTaken
      /\ slotAvailable > 0 => SlotsTaken < slotQueueRecycle
      /\ LastTxIndex = SlotsTaken - 1
  BY <1>1, Bounds
<1>5. rxPos.slot = txPos.slot => rxPos.off <= txPos.off
  <2>1. Precedes(rxPos, rxLimit) /\ Precedes(rxLimit, txPos)
    BY <1>1 DEF InOrder
  <2> QED BY ONLY <1>3, <1>4, <2>1 DEF Precedes
<1> QED BY ONLY <1>3, <1>4, <1>5

(* The slot of a stream index that is not behind the parser.                 *)
LEMMA WindowEntry ==
  ASSUME SendReady, NEW i \in Nat, rxPos.slot <= i, i < slotQueueRecycle
  PROVE  /\ i \in Window /\ QueueEntry(i) \in Slots
         /\ \A j \in Nat : rxPos.slot <= j /\ j < slotQueueRecycle /\ j # i
              => QueueEntry(j) # QueueEntry(i)
<1>1. rxPos.slot \in Nat /\ slotQueueRecycle \in Nat
  BY ReadyFacts
<1>2. \A j \in Nat : rxPos.slot <= j /\ j < slotQueueRecycle => j \in Window
  BY ONLY <1>1 DEF Window
<1> QED BY <1>2 DEF SendReady, ReceiverInv, Apart

(* Nothing at or behind the transmit position is claimed.                    *)
LEMMA AheadUnclaimed ==
  ASSUME SendReady, NEW i \in Nat, NEW o \in Offsets, i < slotQueueRecycle,
         txPos.slot < i \/ (txPos.slot = i /\ txPos.off <= o)
  PROVE  ~ mem[QueueEntry(i)][o].claimed
<1>1. /\ rxPos.slot <= i /\ (i = rxPos.slot => o >= rxPos.off)
  <2>1. o \in Nat
    BY ONLY OffsetsAre, o \in Offsets
  <2> QED BY <2>1, ReadyFacts
<1>2. i \in Window
  BY <1>1, WindowEntry
<1> QED BY <1>1, <1>2 DEF SendReady, ReceiverInv, Unclaimed, Header

(* Headers keep their stride a number.                                       *)
LEMMA StridesAre ==
  ASSUME SendReady, NEW m \in [Slots -> [Offsets -> Headers]]
  PROVE  \A i \in Window, o \in Offsets : Header(m, i, o).stride \in Nat
<1> TAKE i \in Window, o \in Offsets
<1>1. QueueEntry(i) \in Slots
  BY DEF SendReady, ReceiverInv, Apart
<1>2. Header(m, i, o) \in Headers
  BY <1>1 DEF Header
<1>3. Header(m, i, o).stride \in 1..SlotSize
  BY ONLY <1>2 DEF Headers
<1> QED BY ONLY <1>3, OffsetsAre

(* slot_mutex: while one thread is inside, no other writes.                  *)
LEMMA AloneInside ==
  ASSUME SendReady, NEW t \in Threads,
         pc[t] \in {"reserve", "slotWait", "write", "publish"}
  PROVE  \A x \in Threads : Writing(x) => x = t
BY DEF SendReady, SlotMutexHeld, Writing

(* A step that changes no header the parser may read.                        *)
LEMMA AheadKept ==
  ASSUME SendReady, NEW n \in [Slots -> [Offsets -> Headers]],
         \A i \in Nat, o \in Offsets :
           /\ rxPos.slot <= i /\ i < slotQueueRecycle
           /\ i < txPos.slot \/ (i = txPos.slot /\ o < txPos.off)
           => n[QueueEntry(i)][o] = mem[QueueEntry(i)][o]
  PROVE  TiledTo(n, txPos)
<1>1. \A i \in Nat, o \in Offsets :
        rxPos.slot <= i /\ Below(i, o, txPos) =>
          /\ Header(n, i, o).type = Header(mem, i, o).type
          /\ Header(n, i, o).stride = Header(mem, i, o).stride
  <2> SUFFICES ASSUME NEW i \in Nat, NEW o \in Offsets,
                      rxPos.slot <= i, Below(i, o, txPos)
               PROVE  Header(n, i, o) = Header(mem, i, o)
    OBVIOUS
  <2>1. o \in Nat
    BY ONLY OffsetsAre, o \in Offsets
  <2>2. i < slotQueueRecycle
    BY <2>1, ReadyFacts DEF Below
  <2> QED BY <2>2 DEF Below, Header
<1>2. /\ TiledTo(mem, txPos) /\ txPos \in Positions /\ rxPos \in Positions
      /\ rxLimit \in Positions /\ mem \in [Slots -> [Offsets -> Headers]]
  BY DEF SendReady, ReceiverInv, Tiled, InOrder, SpaceOK, SlotsOK
<1>3. \A i \in Window, o \in Offsets : Header(mem, i, o).stride \in Nat
  BY <1>2, StridesAre
<1>4. rxPos.slot <= rxLimit.slot /\ slotQueueRecycle \in Nat
  BY ReadyFacts
<1> QED BY <1>1, <1>2, <1>3, <1>4, TiledKept

(* The positions published and not yet parsed, ...                           *)
Unread == {p \in Positions : ~ Below(p.slot, p.off, rxPos)
                             /\ Below(p.slot, p.off, txPos)}

(* What stands at a position of the stream.                                  *)
Content(p) == Header(mem, p.slot, p.off)

(* ... and what a step of the sender, and of the receiver, must leave there. *)
Keeps ==
  \A p \in Unread : Header(mem', p.slot, p.off) = Header(mem, p.slot, p.off)

ReaderKeeps ==
  \A p \in Unread :
    ~ Below(p.slot, p.off, rxPos') => Content(p)' = Content(p)

(* A step that changes no header of the queue behind tx_pos keeps them.      *)
LEMMA UnreadKept ==
  ASSUME SendReady,
         \A i \in Nat, o \in Offsets :
           /\ rxPos.slot <= i /\ i < slotQueueRecycle
           /\ i < txPos.slot \/ (i = txPos.slot /\ o < txPos.off)
           => mem'[QueueEntry(i)][o] = mem[QueueEntry(i)][o]
  PROVE  Keeps
<1> SUFFICES ASSUME NEW p \in Unread
             PROVE  mem'[QueueEntry(p.slot)][p.off] =
                      mem[QueueEntry(p.slot)][p.off]
  BY DEF Keeps, Header
<1>1. /\ p.slot \in Nat /\ p.off \in Offsets
      /\ ~ Below(p.slot, p.off, rxPos) /\ Below(p.slot, p.off, txPos)
  BY DEF Unread, Positions
<1>2. p.off \in Nat
  BY <1>1, OffsetsAre
<1>3. rxPos.slot <= p.slot /\ p.slot < slotQueueRecycle
  <2>1. /\ {rxPos.slot, txPos.slot, SlotsTaken, slotQueueRecycle} \subseteq Nat
        /\ txPos.slot <= SlotsTaken /\ SlotsTaken <= slotQueueRecycle
        /\ txPos.off # 0 => txPos.slot < SlotsTaken
        /\ txPos.off \in Nat /\ rxPos.off \in Nat
    BY ReadyFacts
  <2> QED BY ONLY <1>1, <1>2, <2>1 DEF Below
<1> QED BY <1>1, <1>3 DEF Below

(* What a thread of the sender leaves alone.                                 *)
ReceiverSide == <<rxPos, rxLimit, rxData, useCount, releaseCount, slotQueue,
                  slotQueueRecycle>>

(* Claims stay as they are when the headers written were not claimed, and    *)
(* are not claimed.                                                          *)
LEMMA ClaimsKept ==
  ASSUME \A slot \in Slots, o \in Offsets :
           /\ mem'[slot][o].claimed <=> mem[slot][o].claimed
           /\ mem[slot][o].claimed => mem'[slot][o] = mem[slot][o]
  PROVE  (\A slot \in Slots : Claims(slot)' = Claims(slot)) /\ Held' = Held
<1>1. \A slot \in Slots : Claims(slot)' = Claims(slot)
  BY DEF Claims
<1> DEFINE places == {q \in Slots \X Offsets : mem[q[1]][q[2]].claimed}
           places2 == {q \in Slots \X Offsets : mem'[q[1]][q[2]].claimed}
<1>2. places2 = places
  OBVIOUS
<1>3. \A q \in places : mem'[q[1]][q[2]] = mem[q[1]][q[2]]
  OBVIOUS
<1>4. /\ Held = {[mem[p[1]][p[2]] EXCEPT !.claimed = FALSE] : p \in places}
      /\ Held' = {[mem'[p[1]][p[2]] EXCEPT !.claimed = FALSE] : p \in places2}
  BY DEF Held
<1> HIDE DEF places, places2
<1> QED BY <1>1, <1>2, <1>3, <1>4

(* Reading a header after one was written, or a slot was cleared.            *)
LEMMA ReadHeader ==
  ASSUME NEW f \in [Slots -> [Offsets -> Headers]], NEW slot \in Slots,
         NEW off \in Offsets, NEW h
  PROVE  \A x \in Slots, o \in Offsets :
           [f EXCEPT ![slot][off] = h][x][o] =
             IF x = slot /\ o = off THEN h ELSE f[x][o]
<1> TAKE x \in Slots, o \in Offsets
<1>1. f[slot] \in [Offsets -> Headers] /\ f[x] \in [Offsets -> Headers]
  OBVIOUS
<1>2. [f EXCEPT ![slot][off] = h][x] =
        IF x = slot THEN [f[slot] EXCEPT ![off] = h] ELSE f[x]
  OBVIOUS
<1> QED BY <1>1, <1>2

LEMMA ReadCleared ==
  ASSUME NEW f \in [Slots -> [Offsets -> Headers]], NEW slot \in Slots
  PROVE  \A x \in Slots, o \in Offsets :
           [f EXCEPT ![slot] = Blank][x][o] =
             IF x = slot THEN NoHeader ELSE f[x][o]
BY DEF Blank

(* What is known of the padding at the end of a slot.                        *)
LEMMA PaddedFacts ==
  ASSUME SendReady, \A x \in Threads : ~ Writing(x), localTxPos.off # 0
  PROVE  /\ txPos = localTxPos /\ txPos.off \in Offsets
         /\ txPos.slot = SlotsTaken - 1 /\ txPos.slot \in Nat
         /\ txData = QueueEntry(txPos.slot) /\ txData \in Slots
         /\ BlankFrom(mem, txData, txPos.off)
         /\ Padding(SlotSize - txPos.off) \in Headers
         /\ SlotSize - txPos.off \in 1..SlotSize
         /\ ~ mem[txData][txPos.off].claimed
<1>1. /\ txPos = localTxPos /\ txData = QueueEntry(localTxPos.slot)
      /\ BlankFrom(mem, txData, txPos.off)
  BY DEF SendReady, ReceiverInv, Writer
<1>2. txPos.slot = SlotsTaken - 1 /\ txPos.slot \in Nat /\ txPos.off \in Offsets
  BY <1>1, ReadyFacts DEF SendReady, SpaceOK, Positions, SlotsTaken
<1>3. /\ txPos.slot < slotQueueRecycle /\ rxPos.slot <= txPos.slot
      /\ txPos.off <= txPos.off
  BY <1>2, ReadyFacts
<1>4. txData \in Slots
  BY <1>1, <1>2, <1>3, WindowEntry
<1>5. ~ mem[txData][txPos.off].claimed
  BY <1>1, <1>2, <1>3, AheadUnclaimed
<1>6. SlotSize - txPos.off \in 1..SlotSize
  BY ONLY <1>2, OffsetsAre
<1>7. Padding(SlotSize - txPos.off) \in Headers
  <2>1. 0 \in 0..MaxMsgs
    BY SlotChannelAssumption DEF SlotChannelAssumption
  <2> QED BY ONLY <1>6, <2>1 DEF Padding, Headers
<1> QED BY <1>1, <1>2, <1>4, <1>5, <1>6, <1>7

(* TakeSlot: a message begins a slot, behind the padding of the last one.    *)
LEMMA TakeSlotStep ==
  ASSUME SendReady, ReceiverSide' = ReceiverSide, NEW t \in Threads,
         pc[t] \in {"reserve", "slotWait"}, slotAvailable > 0,
         NEW pos \in Positions, pos.off = 0, pos.slot = SlotsTaken, NEW padded,
         \/ padded = mem /\ pos = localTxPos
         \/ /\ localTxPos.off # 0
            /\ padded = [mem EXCEPT ![txData][localTxPos.off] =
                                       Padding(SlotSize - localTxPos.off)],
         NEW new, new = QueueEntry(pos.slot), TakeSlot(t, pos, padded)
  PROVE  ReceiverInv' /\ Keeps /\ Held' = Held
<1>1. /\ ThreadsOK /\ SpaceOK /\ SlotAccounting /\ ReceiverInv /\ Writer
      /\ mem \in [Slots -> [Offsets -> Headers]]
  BY DEF SendReady, ReceiverInv, SlotsOK
<1>2. \A x \in Threads : ~ Writing(x)
  BY AloneInside DEF Writing
<1>3. /\ txPos = localTxPos
      /\ localTxPos.off = 0 => txPos.slot = SlotsTaken
      /\ txPos \in Positions /\ txPos.off \in Offsets
  BY <1>1, <1>2 DEF Writer, SlotsTaken, SpaceOK, Positions
<1>4. /\ SlotsTaken \in Nat /\ SlotsTaken < slotQueueRecycle
      /\ rxPos.slot <= SlotsTaken /\ txPos.slot <= SlotsTaken
      /\ txPos.slot \in Nat /\ rxPos.slot \in Nat /\ slotQueueRecycle \in Nat
      /\ txPos.off # 0 => txPos.slot < SlotsTaken
  BY ReadyFacts
<1>5. /\ new \in Slots
      /\ \A j \in Nat : rxPos.slot <= j /\ j < slotQueueRecycle /\ j # SlotsTaken
           => QueueEntry(j) # new
  BY <1>4, WindowEntry
<1>6. \A o \in Offsets : ~ mem[new][o].claimed
  BY <1>3, <1>4, AheadUnclaimed, OffsetsAre
<1>7. /\ txData' = new /\ mem' = [padded EXCEPT ![new] = Blank]
      /\ localTxPos' = Advance(pos, msg[t].stride) /\ txPos' = txPos
      /\ pc' = [pc EXCEPT ![t] = "write"] /\ msg' = msg
  BY DEF TakeSlot, Goto, QueueEntry
<1> DEFINE p == txPos.off
           Padded1(slot, o) == localTxPos.off # 0 /\ slot = txData /\ o = p
<1>8. /\ padded \in [Slots -> [Offsets -> Headers]]
      /\ \A slot \in Slots, o \in Offsets :
           padded[slot][o] = IF Padded1(slot, o)
                               THEN Padding(SlotSize - p) ELSE mem[slot][o]
  <2>1. CASE localTxPos.off # 0
    <3>1. /\ txData \in Slots /\ Padding(SlotSize - p) \in Headers
      BY <1>2, <2>1, PaddedFacts
    <3>2. padded = [mem EXCEPT ![txData][p] = Padding(SlotSize - p)]
      BY <1>3, <2>1
    <3>3. padded \in [Slots -> [Offsets -> Headers]]
      BY <1>1, <3>1, <3>2, PutHeader DEF Contents
    <3> QED BY <1>1, <1>3, <2>1, <3>1, <3>2, <3>3, ReadHeader
  <2>2. CASE localTxPos.off = 0
    BY <1>1, <2>2
  <2> QED BY <2>1, <2>2
<1>9. /\ mem' \in [Slots -> [Offsets -> Headers]]
      /\ \A slot \in Slots, o \in Offsets :
           mem'[slot][o] = IF slot = new THEN NoHeader ELSE padded[slot][o]
  <2>1. mem' \in [Slots -> [Offsets -> Headers]]
    BY <1>7, <1>8, BlankSlot DEF Contents
  <2> QED BY <1>5, <1>7, <1>8, <2>1, ReadCleared
<1>10. (\A slot \in Slots : Claims(slot)' = Claims(slot)) /\ Held' = Held
  <2>1. \A slot \in Slots, o \in Offsets : Padded1(slot, o) =>
          ~ mem[slot][o].claimed /\ ~ Padding(SlotSize - p).claimed
    BY <1>2, PaddedFacts DEF Padding
  <2>2. \A slot \in Slots, o \in Offsets :
          /\ mem'[slot][o].claimed <=> mem[slot][o].claimed
          /\ mem[slot][o].claimed => mem'[slot][o] = mem[slot][o]
    BY <1>6, <1>8, <1>9, <2>1 DEF NoHeader
  <2> QED BY <2>2, ClaimsKept
<1>11. TiledTo(mem', txPos) /\ Keeps
  <2>1. ASSUME NEW i \in Nat, NEW o \in Offsets,
               rxPos.slot <= i, i < slotQueueRecycle,
               i < txPos.slot \/ (i = txPos.slot /\ o < p)
        PROVE  mem'[QueueEntry(i)][o] = mem[QueueEntry(i)][o]
    <3>1. i # SlotsTaken
      <4>1. o \in Nat
        BY ONLY OffsetsAre, o \in Offsets
      <4> QED BY <1>4, <2>1, <4>1
    <3>2. QueueEntry(i) \in Slots /\ QueueEntry(i) # new
      BY <1>5, <2>1, <3>1, WindowEntry
    <3>3. ~ Padded1(QueueEntry(i), o)
      <4>1. ASSUME Padded1(QueueEntry(i), o) PROVE FALSE
        <5>1. /\ txPos.slot = SlotsTaken - 1 /\ txData = QueueEntry(txPos.slot)
          BY <1>2, <4>1, PaddedFacts
        <5>2. i = txPos.slot
          BY <1>4, <2>1, <4>1, <5>1, WindowEntry
        <5> QED BY <1>4, <2>1, <4>1, <5>2, OffsetsAre
      <4> QED BY <4>1
    <3> QED BY <1>8, <1>9, <3>2, <3>3
  <2> QED BY <1>9, <2>1, AheadKept, UnreadKept
<1>12. InOrder' /\ Apart' /\ Counted' /\ Unclaimed' /\ Tiled'
  <2>1. UNCHANGED <<rxPos, rxLimit, rxData, useCount, releaseCount>>
        /\ UNCHANGED <<slotQueue, slotQueueRecycle>>
    BY DEF ReceiverSide
  <2>2. Precedes(txPos, txPos') /\ txPos' \in Positions
    BY <1>3, <1>7, OffsetsAre DEF Precedes, Positions
  <2>3. TiledTo(mem', txPos')
    BY <1>7, <1>11
  <2> QED BY <1>1, <1>10, <2>1, <2>2, <2>3, SenderStep
<1>13. Writer'
  <2> DEFINE k == msg[t].stride
  <2>1. k \in 1..SlotSize
    BY <1>1, StrideOfMessage
  <2>2. /\ localTxPos' = IF k = SlotSize THEN [slot |-> SlotsTaken + 1, off |-> 0]
                                         ELSE [slot |-> SlotsTaken, off |-> k]
    BY <1>7, <2>1, OffsetsAre DEF Advance
  <2>3. LastTxIndex' = SlotsTaken /\ MsgOffset(t)' = 0
    BY <1>4, <1>7, <2>1, <2>2, OffsetsAre DEF LastTxIndex, MsgOffset
  <2>4. slotQueue[SlotsTaken % QueueLen] = new
    BY DEF QueueEntry
  <2>5. Written(mem, t)'
    <3>1. \/ txPos' = [slot |-> SlotsTaken, off |-> 0]
          \/ txPos'.slot = SlotsTaken - 1 /\ Padded(mem, txPos)'
      <4>1. CASE localTxPos.off = 0
        BY <1>3, <1>7, <4>1 DEF Positions
      <4>2. CASE localTxPos.off # 0
        <5>1. /\ txPos.slot = SlotsTaken - 1 /\ txPos.slot \in Nat
              /\ txData = QueueEntry(txPos.slot) /\ txData \in Slots
              /\ BlankFrom(mem, txData, p)
          BY <1>2, <4>2, PaddedFacts
        <5>2. txData # new
          BY <1>4, <1>5, <5>1, ReadyFacts
        <5>3. \A o \in Offsets :
                mem'[txData][o] = IF o = p THEN Padding(SlotSize - p)
                                           ELSE mem[txData][o]
          BY <1>8, <1>9, <4>2, <5>1, <5>2
        <5>4. mem'[txData][p] = Padding(SlotSize - p)
          BY <1>3, <5>3
        <5>5. \A o \in Offsets : o >= p + 1 => mem'[txData][o].type = "NONE"
          <6> TAKE o \in Offsets
          <6>1. o \in Nat /\ p \in Nat
            BY <1>3, OffsetsAre
          <6>2. o >= p + 1 => o # p /\ o >= p
            BY ONLY <6>1
          <6> QED BY <5>1, <5>3, <6>2 DEF BlankFrom
        <5>6. slotQueue'[txPos'.slot % QueueLen] = txData
          BY <1>7, <5>1 DEF QueueEntry, ReceiverSide
        <5> QED BY <1>3, <1>7, <4>2, <5>1, <5>4, <5>5, <5>6
                DEF Padded, BlankFrom, Header, QueueEntry
      <4> QED BY <4>1, <4>2
    <3>2. BlankFrom(mem, txData, 0)'
      BY <1>5, <1>7, <1>9 DEF BlankFrom, NoHeader
    <3>3. pc'[t] = "write"
      BY <1>1, <1>7 DEF ThreadsOK
    <3>4. txData' = slotQueue'[SlotsTaken % QueueLen]
      BY <1>7, <2>4 DEF ReceiverSide, QueueEntry
    <3> QED BY <1>4, <2>3, <3>1, <3>2, <3>3, <3>4, OffsetsAre
            DEF Written, QueueEntry
  <2>6. \A x \in Threads : Writing(x)' => x = t
    BY <1>1, <1>2, <1>7 DEF Writing, ThreadsOK
  <2>7. Writing(t)'
    BY <1>1, <1>7 DEF Writing, ThreadsOK
  <2>8. (localTxPos.off # 0 => txData = QueueEntry(localTxPos.slot))'
    <3>1. localTxPos'.off # 0 => localTxPos'.slot = SlotsTaken
      BY ONLY <2>2
    <3> QED BY <1>7, <2>4, <3>1 DEF QueueEntry, ReceiverSide
  <2> QED BY <2>5, <2>6, <2>7, <2>8 DEF Writer
<1> QED BY <1>10, <1>11, <1>12, <1>13 DEF ReceiverInv

(* reserve_space: the message follows the last one in the same slot.         *)
LEMMA ReserveHere ==
  ASSUME SendReady, ReceiverSide' = ReceiverSide, NEW t \in Threads,
         pc[t] = "reserve", localTxPos.off # 0,
         msg[t].stride <= SlotSize - localTxPos.off,
         localTxPos' = Advance(localTxPos, msg[t].stride), Goto(t, "write"),
         UNCHANGED <<txPos, mem, txData>>
  PROVE  ReceiverInv' /\ Keeps /\ Held' = Held
<1>1. /\ ThreadsOK /\ SpaceOK /\ SlotAccounting /\ ReceiverInv /\ Writer
      /\ txPos \in Positions
  BY DEF SendReady, ReceiverInv, SpaceOK
<1>2. \A x \in Threads : ~ Writing(x)
  BY AloneInside DEF Writing
<1>3. /\ txPos = localTxPos /\ txPos.off \in Offsets /\ txPos.slot \in Nat
      /\ txData = QueueEntry(txPos.slot) /\ BlankFrom(mem, txData, txPos.off)
  BY <1>2, PaddedFacts
<1>4. pc' = [pc EXCEPT ![t] = "write"] /\ msg' = msg
  BY DEF Goto
<1>5. InOrder' /\ Apart' /\ Counted' /\ Unclaimed' /\ Tiled'
  <2>1. UNCHANGED <<rxPos, rxLimit, rxData, useCount, releaseCount>>
        /\ UNCHANGED <<slotQueue, slotQueueRecycle>>
    BY DEF ReceiverSide
  <2>2. Precedes(txPos, txPos') /\ txPos' \in Positions
    BY <1>1, <1>3, OffsetsAre DEF Precedes, Positions
  <2>3. TiledTo(mem', txPos')
    BY <1>1 DEF ReceiverInv, Tiled
  <2>4. \A slot \in Slots : Claims(slot)' = Claims(slot)
    BY ClaimsKept
  <2> QED BY <1>1, <2>1, <2>2, <2>3, <2>4, SenderStep
<1>6. Writer'
  <2> DEFINE k == msg[t].stride
  <2>1. k \in 1..SlotSize
    BY <1>1, StrideOfMessage
  <2>2. localTxPos' = IF txPos.off + k = SlotSize
                        THEN [slot |-> txPos.slot + 1, off |-> 0]
                        ELSE [slot |-> txPos.slot, off |-> txPos.off + k]
    BY <1>3 DEF Advance
  <2>3. LastTxIndex' = txPos.slot /\ MsgOffset(t)' = txPos.off
    BY <1>3, <1>4, <2>1, <2>2, OffsetsAre DEF LastTxIndex, MsgOffset
  <2>4. txData' = slotQueue'[txPos.slot % QueueLen]
    BY <1>3 DEF QueueEntry, ReceiverSide
  <2>5. /\ pc'[t] = "write"
        /\ txPos' = [slot |-> txPos.slot, off |-> txPos.off]
    BY <1>1, <1>4 DEF ThreadsOK, Positions
  <2>6. BlankFrom(mem', txData', txPos.off)
    BY <1>3 DEF BlankFrom
  <2>7. Written(mem, t)'
    BY <1>3, <2>3, <2>4, <2>5, <2>6 DEF Written, QueueEntry
  <2>8. \A x \in Threads : Writing(x)' => x = t
    BY <1>1, <1>2, <1>4 DEF Writing, ThreadsOK
  <2>9. Writing(t)'
    BY <2>5 DEF Writing
  <2>10. (localTxPos.off # 0 => txData = QueueEntry(localTxPos.slot))'
    <3>1. localTxPos'.off # 0 => localTxPos'.slot = txPos.slot
      BY ONLY <2>2
    <3> QED BY <2>4, <3>1 DEF QueueEntry
  <2> QED BY <2>7, <2>8, <2>9, <2>10 DEF Writer
<1> QED BY <1>5, <1>6, ClaimsKept DEF ReceiverInv, Keeps

(* FlushAndWait: the padding completes the slot, and nothing is reserved.    *)
LEMMA FlushStep ==
  ASSUME SendReady, ReceiverSide' = ReceiverSide, NEW t \in Threads,
         pc[t] = "reserve", NEW pos \in Positions, pos.off = 0, NEW padded,
         \/ padded = mem /\ pos = localTxPos
         \/ /\ localTxPos.off # 0
            /\ pos = [slot |-> localTxPos.slot + 1, off |-> 0]
            /\ padded = [mem EXCEPT ![txData][localTxPos.off] =
                                       Padding(SlotSize - localTxPos.off)],
         FlushAndWait(t, pos, padded)
  PROVE  ReceiverInv' /\ Keeps /\ Held' = Held
<1>1. /\ ThreadsOK /\ SpaceOK /\ SlotAccounting /\ ReceiverInv /\ Writer
      /\ mem \in [Slots -> [Offsets -> Headers]]
      /\ txPos \in Positions /\ rxPos \in Positions /\ rxLimit \in Positions
      /\ Precedes(rxPos, rxLimit) /\ Precedes(rxLimit, txPos)
  BY DEF SendReady, ReceiverInv, SlotsOK, SpaceOK, InOrder
<1>2. \A x \in Threads : ~ Writing(x)
  BY AloneInside DEF Writing
<1>3. localTxPos' = pos /\ txPos' = pos /\ mem' = padded /\ txData' = txData
  BY DEF FlushAndWait
<1>4. \A x \in Threads : ~ Writing(x)'
  <2>1. \A x \in Threads : pc'[x] \in {pc[x], "slotWait", "idle"}
    BY <1>1 DEF FlushAndWait, Goto, Return, ThreadsOK
  <2> QED BY <1>2, <2>1 DEF Writing
<1>5. Writer'
  BY <1>3, <1>4 DEF Writer
<1>6. UNCHANGED <<rxPos, rxLimit, rxData, useCount, releaseCount>>
      /\ UNCHANGED <<slotQueue, slotQueueRecycle>>
  BY DEF ReceiverSide
<1>7. CASE padded = mem /\ pos = localTxPos
  <2>1. txPos' = txPos /\ mem' = mem
    BY <1>2, <1>3, <1>1, <1>7 DEF Writer
  <2>2. TiledTo(mem', txPos')
    BY <1>1, <2>1 DEF ReceiverInv, Tiled
  <2>3. Precedes(txPos, txPos') /\ txPos' \in Positions
    BY <1>1, <2>1, OffsetsAre DEF Precedes, Positions
  <2>4. (\A slot \in Slots : Claims(slot)' = Claims(slot)) /\ Held' = Held
    BY <2>1, ClaimsKept
  <2>5. InOrder' /\ Apart' /\ Counted' /\ Unclaimed' /\ Tiled'
    BY <1>1, <1>6, <2>2, <2>3, <2>4, SenderStep
  <2> QED BY <1>5, <2>1, <2>4, <2>5 DEF ReceiverInv, Keeps
<1>8. CASE /\ localTxPos.off # 0
           /\ pos = [slot |-> localTxPos.slot + 1, off |-> 0]
           /\ padded = [mem EXCEPT ![txData][localTxPos.off] =
                                      Padding(SlotSize - localTxPos.off)]
  <2> DEFINE p == txPos.off  k == SlotSize - p
  <2>1. /\ txPos = localTxPos /\ p \in Offsets /\ txPos.slot \in Nat
        /\ txPos.slot = SlotsTaken - 1
        /\ txData = QueueEntry(txPos.slot) /\ txData \in Slots
        /\ BlankFrom(mem, txData, p)
        /\ Padding(k) \in Headers /\ k \in 1..SlotSize
        /\ ~ mem[txData][p].claimed
    BY <1>2, <1>8, PaddedFacts
  <2>2. mem' = [mem EXCEPT ![txData][p] = Padding(k)]
    BY <1>3, <1>8, <2>1
  <2>3. mem' \in [Slots -> [Offsets -> Headers]]
    BY <1>1, <2>1, <2>2, PutHeader DEF Contents
  <2>4. \A x \in Slots, o \in Offsets :
          mem'[x][o] = IF x = txData /\ o = p THEN Padding(k) ELSE mem[x][o]
    BY <1>1, <2>1, <2>2, ReadHeader
  <2>5. (\A slot \in Slots : Claims(slot)' = Claims(slot)) /\ Held' = Held
    <3>1. ~ Padding(k).claimed
      BY DEF Padding
    <3>2. \A x \in Slots, o \in Offsets :
            /\ mem'[x][o].claimed <=> mem[x][o].claimed
            /\ mem[x][o].claimed => mem'[x][o] = mem[x][o]
      BY <2>1, <2>4, <3>1
    <3> QED BY <3>2, ClaimsKept
  <2>6. TiledTo(mem', txPos) /\ Keeps
    <3>1. ASSUME NEW i \in Nat, NEW o \in Offsets,
                 rxPos.slot <= i, i < slotQueueRecycle,
                 i < txPos.slot \/ (i = txPos.slot /\ o < p)
          PROVE  mem'[QueueEntry(i)][o] = mem[QueueEntry(i)][o]
      <4>1. /\ QueueEntry(i) \in Slots
            /\ \A j \in Nat : rxPos.slot <= j /\ j < slotQueueRecycle /\ j # i
                 => QueueEntry(j) # QueueEntry(i)
        BY <3>1, WindowEntry
      <4>2. ~ (QueueEntry(i) = txData /\ o = p)
        <5>1. CASE i = txPos.slot
          <6>1. o \in Nat /\ p \in Nat
            BY <2>1, OffsetsAre
          <6>2. o # p
            BY ONLY <3>1, <5>1, <6>1, <2>1
          <6> QED BY <6>2
        <5>2. CASE i # txPos.slot
          <6>1. rxPos.slot <= txPos.slot /\ txPos.slot < slotQueueRecycle
            BY <2>1, ReadyFacts
          <6> QED BY <2>1, <4>1, <5>2, <6>1
        <5> QED BY <5>1, <5>2
      <4> QED BY <2>4, <4>1, <4>2
    <3> QED BY <2>3, <3>1, AheadKept, UnreadKept
  <2>7. TiledTo(mem', Advance(txPos, k))
    <3>1. Header(mem', txPos.slot, p) = Padding(k)
      BY <2>1, <2>4 DEF Header
    <3>2. /\ Header(mem', txPos.slot, p).type # "NONE"
          /\ Header(mem', txPos.slot, p).stride = k
      BY <3>1 DEF Padding
    <3>3. \A o \in Offsets : o > p => Header(mem', txPos.slot, o).type = "NONE"
      <4> SUFFICES ASSUME NEW o \in Offsets, o > p
                   PROVE  mem'[txData][o].type = "NONE"
        BY <2>1 DEF Header
      <4>1. o # p /\ o >= p
        BY <2>1, OffsetsAre
      <4> QED BY <2>1, <2>4, <4>1 DEF BlankFrom
    <3>4. /\ p + k <= SlotSize /\ slotQueueRecycle \in Nat
          /\ Precedes(rxPos, txPos)
      BY <1>1, <2>1, OffsetsAre, ReadyFacts DEF Precedes
    <3>5. \A i \in Window, o \in Offsets : Header(mem', i, o).stride \in Nat
      BY <2>3, StridesAre
    <3> HIDE DEF k
    <3> QED BY <1>1, <2>1, <2>6, <3>2, <3>3, <3>4, <3>5, TiledExtended
  <2>8. Advance(txPos, k) = pos
    BY <1>8, <2>1, OffsetsAre DEF Advance
  <2>9. TiledTo(mem', txPos')
    BY <1>3, <2>7, <2>8
  <2>10. Precedes(txPos, txPos') /\ txPos' \in Positions
    BY <1>3, <1>8, <2>1 DEF Precedes
  <2>11. InOrder' /\ Apart' /\ Counted' /\ Unclaimed' /\ Tiled'
    BY <1>1, <1>6, <2>5, <2>9, <2>10, SenderStep
  <2> QED BY <1>5, <2>5, <2>6, <2>11 DEF ReceiverInv
<1> QED BY <1>7, <1>8

(* A thread that writes a message is alone, ahead of the parser.             *)
LEMMA WriterFacts ==
  ASSUME SendReady, NEW t \in Threads, Writing(t)
  PROVE  /\ Written(mem, t) /\ msg[t] \in Messages
         /\ \A x \in Threads : Writing(x) => x = t
         /\ LastTxIndex \in Nat /\ MsgOffset(t) \in Offsets
         /\ LastTxIndex = SlotsTaken - 1
         /\ LastTxIndex < slotQueueRecycle /\ rxPos.slot <= LastTxIndex
         /\ txData = QueueEntry(LastTxIndex) /\ txData \in Slots
         /\ ~ mem[txData][MsgOffset(t)].claimed
         /\ msg[t].stride \in 1..SlotSize
         /\ MsgOffset(t) + msg[t].stride =
              (IF localTxPos.off = 0 THEN SlotSize ELSE localTxPos.off)
         /\ localTxPos = Advance([slot |-> LastTxIndex, off |-> MsgOffset(t)],
                                 msg[t].stride)
<1>1. ThreadsOK /\ SpaceOK /\ Writer /\ Written(mem, t)
  BY DEF SendReady, ReceiverInv, Writer
<1>2. pc[t] \in {"write", "publish"} /\ pc[t] # "idle"
  BY DEF Writing
<1>3. msg[t] \in Messages /\ msg[t].stride \in 1..SlotSize
  BY <1>1, <1>2, StrideOfMessage DEF ThreadsOK
<1>4. \A x \in Threads : Writing(x) => x = t
  BY <1>2, AloneInside
<1>5. /\ LastTxIndex \in Nat /\ MsgOffset(t) \in Offsets
      /\ txData = QueueEntry(LastTxIndex)
      /\ \/ txPos = [slot |-> LastTxIndex, off |-> MsgOffset(t)]
         \/ MsgOffset(t) = 0 /\ txPos.slot = LastTxIndex - 1
  BY <1>1 DEF Written
<1>6. LastTxIndex = SlotsTaken - 1 /\ LastTxIndex < slotQueueRecycle
      /\ rxPos.slot <= LastTxIndex
  <2>1. rxPos.slot <= txPos.slot /\ txPos.slot \in Nat /\ rxPos.slot \in Nat
    BY ReadyFacts
  <2>2. txPos.slot <= LastTxIndex
    BY <1>5, <2>1
  <2> QED BY <1>5, <2>1, <2>2, ReadyFacts
<1>7. txData \in Slots
  BY <1>5, <1>6, WindowEntry
<1>8. ~ mem[txData][MsgOffset(t)].claimed
  <2>1. \/ txPos.slot < LastTxIndex
        \/ txPos.slot = LastTxIndex /\ txPos.off <= MsgOffset(t)
    BY <1>5, OffsetsAre
  <2> QED BY <1>5, <1>6, <2>1, AheadUnclaimed
<1>9. MsgOffset(t) + msg[t].stride =
        (IF localTxPos.off = 0 THEN SlotSize ELSE localTxPos.off)
  <2>1. localTxPos.off \in Nat /\ msg[t].stride \in Nat /\ SlotSize \in Nat
    BY <1>1, <1>3, OffsetsAre DEF SpaceOK, Positions
  <2> QED BY <2>1 DEF MsgOffset
<1>10. localTxPos = Advance([slot |-> LastTxIndex, off |-> MsgOffset(t)],
                            msg[t].stride)
  <2>1. /\ localTxPos = [slot |-> localTxPos.slot, off |-> localTxPos.off]
        /\ localTxPos.slot \in Nat /\ localTxPos.off \in Offsets
    BY <1>1 DEF SpaceOK, Positions
  <2>2. localTxPos.off # 0 => localTxPos.off # SlotSize /\ localTxPos.off \in Nat
    BY ONLY <2>1, OffsetsAre
  <2> QED BY <1>9, <2>1, <2>2, OffsetsAre DEF Advance, LastTxIndex
<1> QED BY <1>1, <1>3, <1>4, <1>5, <1>6, <1>7, <1>8, <1>9, <1>10

(* WriteHeader writes behind everything the parser may read.                 *)
LEMMA WriteStep ==
  ASSUME SendReady, ReceiverSide' = ReceiverSide, NEW t \in Threads,
         pc[t] = "write", mem' = [mem EXCEPT ![txData][MsgOffset(t)] = msg[t]],
         Goto(t, "publish"), UNCHANGED <<localTxPos, txPos, txData>>
  PROVE  ReceiverInv' /\ Keeps /\ Held' = Held
<1> DEFINE last == LastTxIndex  off == MsgOffset(t)
<1>1. /\ ThreadsOK /\ SpaceOK /\ SlotAccounting /\ ReceiverInv /\ Writer
      /\ mem \in [Slots -> [Offsets -> Headers]] /\ txPos \in Positions
  BY DEF SendReady, ReceiverInv, SlotsOK, SpaceOK
<1>2. Writing(t)
  BY DEF Writing
<1>3. /\ Written(mem, t) /\ msg[t] \in Messages
      /\ \A x \in Threads : Writing(x) => x = t
      /\ last \in Nat /\ off \in Offsets
      /\ last < slotQueueRecycle /\ rxPos.slot <= last
      /\ txData = QueueEntry(last) /\ txData \in Slots
      /\ ~ mem[txData][off].claimed
  BY <1>2, WriterFacts
<1>4. msg[t] \in Headers /\ ~ msg[t].claimed /\ msg[t].type # "NONE"
  BY <1>3 DEF Messages, Headers
<1>5. /\ mem' \in [Slots -> [Offsets -> Headers]]
      /\ \A x \in Slots, o \in Offsets :
           mem'[x][o] = IF x = txData /\ o = off THEN msg[t] ELSE mem[x][o]
  <2>1. mem' \in [Slots -> [Offsets -> Headers]]
    BY <1>1, <1>4, PutHeader DEF Contents
  <2> QED BY <1>1, <1>3, <2>1, ReadHeader
<1>6. (\A slot \in Slots : Claims(slot)' = Claims(slot)) /\ Held' = Held
  <2>1. \A x \in Slots, o \in Offsets :
          /\ mem'[x][o].claimed <=> mem[x][o].claimed
          /\ mem[x][o].claimed => mem'[x][o] = mem[x][o]
    BY <1>3, <1>4, <1>5
  <2> QED BY <2>1, ClaimsKept
<1>7. \/ txPos = [slot |-> last, off |-> off]
      \/ off = 0 /\ txPos.slot = last - 1 /\ Padded(mem, txPos)
  BY <1>3 DEF Written
<1>8. TiledTo(mem', txPos) /\ Keeps
  <2>1. ASSUME NEW i \in Nat, NEW o \in Offsets,
               rxPos.slot <= i, i < slotQueueRecycle,
               i < txPos.slot \/ (i = txPos.slot /\ o < txPos.off)
        PROVE  mem'[QueueEntry(i)][o] = mem[QueueEntry(i)][o]
    <3>1. /\ QueueEntry(i) \in Slots
          /\ \A j \in Nat : rxPos.slot <= j /\ j < slotQueueRecycle /\ j # i
               => QueueEntry(j) # QueueEntry(i)
      BY <2>1, WindowEntry
    <3>2. ~ (i = last /\ o = off)
      BY <1>3, <1>7, <2>1, OffsetsAre
    <3> QED BY <1>3, <1>5, <3>1, <3>2
  <2> QED BY <1>5, <2>1, AheadKept, UnreadKept
<1>9. InOrder' /\ Apart' /\ Counted' /\ Unclaimed' /\ Tiled'
  <2>1. UNCHANGED <<rxPos, rxLimit, rxData, useCount, releaseCount>>
        /\ UNCHANGED <<slotQueue, slotQueueRecycle>>
    BY DEF ReceiverSide
  <2>2. Precedes(txPos, txPos') /\ txPos' \in Positions /\ txPos' = txPos
    BY <1>1, OffsetsAre DEF Precedes, Positions
  <2>3. TiledTo(mem', txPos')
    BY <1>8, <2>2
  <2> QED BY <1>1, <1>6, <2>1, <2>2, <2>3, SenderStep
<1>10. Writer'
  <2>1. pc' = [pc EXCEPT ![t] = "publish"] /\ msg' = msg
    BY DEF Goto
  <2>2. pc'[t] = "publish"
    BY <1>1, <2>1 DEF ThreadsOK
  <2>3. \A x \in Threads : Writing(x)' => x = t
    BY <1>1, <1>3, <2>1 DEF Writing, ThreadsOK
  <2>4. Writing(t)'
    BY <2>2 DEF Writing
  <2>5. LastTxIndex' = last /\ MsgOffset(t)' = off
    BY <2>1 DEF LastTxIndex, MsgOffset
  <2>6. BlankFrom(mem, txData, off)
    BY <1>3 DEF Written
  <2>7. BlankFrom(mem', txData', off + 1)
    <3> SUFFICES ASSUME NEW o \in Offsets, o >= off + 1
                 PROVE  mem'[txData][o].type = "NONE"
      BY DEF BlankFrom
    <3>1. o # off /\ o >= off
      BY <1>3, OffsetsAre
    <3> QED BY <1>3, <1>5, <2>6, <3>1 DEF BlankFrom
  <2>8. mem'[txData'][off] = msg'[t]
    BY <1>3, <1>5, <2>1
  <2>9. ASSUME off = 0, txPos.slot = last - 1, Padded(mem, txPos)
        PROVE  Padded(mem, txPos)'
    <3>1. /\ txPos.off # 0 /\ txPos.slot \in Nat /\ txPos.off \in Offsets
          /\ rxPos.slot <= txPos.slot
      BY <1>1, <2>9, ReadyFacts DEF Padded, Positions
    <3>2. /\ QueueEntry(txPos.slot) \in Slots
          /\ QueueEntry(txPos.slot) # txData
      <4>1. txPos.slot < slotQueueRecycle /\ txPos.slot # last
        BY <1>3, <2>9, <3>1, ReadyFacts
      <4> QED BY <1>3, <3>1, <4>1, WindowEntry
    <3>3. \A o \in Offsets :
            mem'[QueueEntry(txPos.slot)][o] = mem[QueueEntry(txPos.slot)][o]
      BY <1>5, <3>2
    <3>4. slotQueue'[txPos'.slot % QueueLen] = QueueEntry(txPos.slot)
      <4>1. slotQueue' = slotQueue /\ txPos' = txPos
        BY DEF ReceiverSide
      <4> QED BY <4>1 DEF QueueEntry
    <3>5. mem'[QueueEntry(txPos.slot)][txPos.off] = Padding(SlotSize - txPos.off)
          /\ txPos' = txPos
      BY <2>9, <3>1, <3>3 DEF Padded, Header
    <3> QED BY <3>5, <2>9, <3>1, <3>3, <3>4
            DEF Padded, Header, BlankFrom, QueueEntry
  <2>10. txData' = slotQueue'[last % QueueLen]
    BY <1>3 DEF QueueEntry, ReceiverSide
  <2>11. Written(mem, t)'
    <3>1. \/ txPos' = [slot |-> last, off |-> off]
          \/ off = 0 /\ txPos'.slot = last - 1 /\ Padded(mem, txPos)'
      BY <1>7, <2>9
    <3> HIDE DEF last, off
    <3> QED BY <1>3, <2>2, <2>5, <2>7, <2>8, <2>10, <3>1
            DEF Written, QueueEntry
  <2>12. (localTxPos.off # 0 => txData = QueueEntry(localTxPos.slot))'
    BY <1>1 DEF Writer, QueueEntry, ReceiverSide
  <2> QED BY <2>3, <2>4, <2>11, <2>12 DEF Writer
<1> QED BY <1>6, <1>8, <1>9, <1>10 DEF ReceiverInv

(* Publish: tx_pos passes the message, and the padding before it.            *)
LEMMA PublishStep ==
  ASSUME SendReady, ReceiverSide' = ReceiverSide, NEW t \in Threads,
         pc[t] = "publish", txPos' = localTxPos, Return(t),
         UNCHANGED <<localTxPos, txData, mem>>
  PROVE  ReceiverInv'
<1> DEFINE last == LastTxIndex  off == MsgOffset(t)
           k == msg[t].stride   start == [slot |-> last, off |-> off]
<1>1. /\ ThreadsOK /\ SpaceOK /\ SlotAccounting /\ ReceiverInv /\ Writer
      /\ mem \in [Slots -> [Offsets -> Headers]]
      /\ txPos \in Positions /\ localTxPos \in Positions
      /\ rxPos \in Positions /\ rxLimit \in Positions
      /\ Precedes(rxPos, rxLimit) /\ Precedes(rxLimit, txPos)
      /\ TiledTo(mem, txPos)
  BY DEF SendReady, ReceiverInv, SlotsOK, SpaceOK, InOrder, Tiled
<1>2. Writing(t)
  BY DEF Writing
<1>3. /\ Written(mem, t) /\ msg[t] \in Messages
      /\ \A x \in Threads : Writing(x) => x = t
      /\ last \in Nat /\ off \in Offsets
      /\ txData = QueueEntry(last) /\ k \in 1..SlotSize
      /\ localTxPos = Advance(start, k)
      /\ off + k = (IF localTxPos.off = 0 THEN SlotSize ELSE localTxPos.off)
  BY <1>2, WriterFacts
<1>4. /\ BlankFrom(mem, txData, off + 1) /\ mem[txData][off] = msg[t]
      /\ \/ txPos = start
         \/ off = 0 /\ txPos.slot = last - 1 /\ Padded(mem, txPos)
  BY <1>3 DEF Written
<1>5. \A i \in Window, o \in Offsets : Header(mem, i, o).stride \in Nat
  BY <1>1, StridesAre
<1>6. slotQueueRecycle \in Nat /\ Precedes(rxPos, txPos)
  <2>1. /\ {rxPos.off, rxLimit.off, txPos.off} \subseteq Nat
        /\ {rxPos.slot, rxLimit.slot, txPos.slot} \subseteq Nat
    BY ReadyFacts
  <2>2. Precedes(rxPos, txPos)
    BY ONLY <1>1, <2>1 DEF Precedes
  <2> QED BY <2>2, ReadyFacts
<1>7. off + k <= SlotSize
  <2>1. localTxPos.off \in Nat /\ localTxPos.off < SlotSize
    BY <1>1, OffsetsAre DEF Positions
  <2> QED BY ONLY <1>3, <2>1, OffsetsAre
<1>8. /\ start \in Positions /\ TiledTo(mem, start)
      /\ Precedes(txPos, start) /\ Precedes(rxPos, start)
      /\ Precedes(rxLimit, start)
  <2>1. CASE txPos = start
    BY <1>1, <1>6, <2>1, OffsetsAre DEF Precedes, Positions
  <2>2. CASE off = 0 /\ txPos.slot = last - 1 /\ Padded(mem, txPos)
    <3> DEFINE space == SlotSize - txPos.off
    <3>1. /\ txPos.off \in Nat /\ txPos.off < SlotSize /\ txPos.off # 0
          /\ txPos.slot \in Nat /\ last = txPos.slot + 1
      BY <1>1, <1>3, <2>2, OffsetsAre DEF Padded, Positions
    <3>2. space \in 1..SlotSize /\ txPos.off + space = SlotSize
      BY ONLY <3>1, OffsetsAre
    <3>3. start = [slot |-> txPos.slot + 1, off |-> 0]
      BY <2>2, <3>1
    <3>4. Advance(txPos, space) = start
      BY <3>2, <3>3 DEF Advance
    <3>5. /\ Header(mem, txPos.slot, txPos.off).type # "NONE"
          /\ Header(mem, txPos.slot, txPos.off).stride = space
      BY <2>2 DEF Padded, Padding
    <3>6. \A o \in Offsets :
            o > txPos.off => Header(mem, txPos.slot, o).type = "NONE"
      <4> SUFFICES ASSUME NEW o \in Offsets, o > txPos.off
                   PROVE  Header(mem, txPos.slot, o).type = "NONE"
        OBVIOUS
      <4>1. o >= txPos.off + 1
        BY <3>1, OffsetsAre
      <4> QED BY <2>2, <4>1 DEF Padded, BlankFrom, Header
    <3>7. TiledTo(mem, Advance(txPos, space))
      <4> HIDE DEF space, start
      <4>1. txPos.off + space <= SlotSize
        BY ONLY <3>2, OffsetsAre
      <4> QED BY <1>1, <1>5, <1>6, <3>2, <3>5, <3>6, <4>1, TiledExtended
    <3>8. /\ {rxPos.off, rxLimit.off, txPos.off} \subseteq Nat
          /\ {rxPos.slot, rxLimit.slot, txPos.slot} \subseteq Nat
      BY ReadyFacts
    <3>9. /\ Precedes(txPos, start) /\ Precedes(rxPos, start)
          /\ Precedes(rxLimit, start)
      BY ONLY <1>1, <1>6, <3>1, <3>8 DEF Precedes
    <3> QED BY <1>3, <3>4, <3>7, <3>9 DEF Positions
  <2> QED BY <1>4, <2>1, <2>2
<1>9. TiledTo(mem, localTxPos)
  <2>1. Header(mem, start.slot, start.off) = msg[t]
    BY <1>3, <1>4 DEF Header
  <2>2. /\ Header(mem, start.slot, start.off).type # "NONE"
        /\ Header(mem, start.slot, start.off).stride = k
    BY <1>3, <2>1 DEF Messages
  <2>3. \A o \in Offsets :
          o > start.off => Header(mem, start.slot, o).type = "NONE"
    <3> SUFFICES ASSUME NEW o \in Offsets, o > off
                 PROVE  mem[txData][o].type = "NONE"
      BY <1>3 DEF Header
    <3>1. o >= off + 1
      BY <1>3, OffsetsAre
    <3> QED BY <1>4, <3>1 DEF BlankFrom
  <2>4. start.off + k <= SlotSize
    BY <1>7
  <2> HIDE DEF start, k
  <2>5. TiledTo(mem, Advance(start, k))
    BY <1>1, <1>3, <1>5, <1>6, <1>8, <2>2, <2>3, <2>4, TiledExtended
  <2> QED BY <1>3, <2>5
<1>10. InOrder' /\ Apart' /\ Counted' /\ Unclaimed' /\ Tiled'
  <2>1. UNCHANGED <<rxPos, rxLimit, rxData, useCount, releaseCount>>
        /\ UNCHANGED <<slotQueue, slotQueueRecycle>>
    BY DEF ReceiverSide
  <2>2. Precedes(txPos, txPos')
    <3>1. /\ txPos.slot \in Nat /\ txPos.off \in Nat /\ off \in Nat
      BY <1>3, ReadyFacts, OffsetsAre
    <3>2. \/ localTxPos.slot = last + 1
          \/ localTxPos.slot = last /\ localTxPos.off = off + k
      BY <1>3 DEF Advance
    <3>3. Precedes(txPos, localTxPos)
      BY ONLY <1>3, <1>8, <3>1, <3>2, OffsetsAre DEF Precedes
    <3> QED BY <3>3
  <2>3. TiledTo(mem', txPos') /\ txPos' \in Positions
    BY <1>1, <1>9
  <2>4. \A slot \in Slots : Claims(slot)' = Claims(slot)
    BY ClaimsKept
  <2> QED BY <1>1, <2>1, <2>2, <2>3, <2>4, SenderStep
<1>11. Writer'
  <2>1. pc' = [pc EXCEPT ![t] = "idle"]
    BY DEF Return
  <2>2. \A x \in Threads : ~ Writing(x)'
    BY <1>1, <1>3, <2>1 DEF Writing, ThreadsOK
  <2>3. localTxPos.off # 0 => BlankFrom(mem, txData, localTxPos.off)
    <3>1. localTxPos.off # 0 => localTxPos.off >= off + 1
      BY <1>3, OffsetsAre
    <3>2. ASSUME localTxPos.off # 0, NEW o \in Offsets, o >= localTxPos.off
          PROVE  mem[txData][o].type = "NONE"
      <4>1. o >= off + 1
        BY <1>1, <1>3, <3>1, <3>2, OffsetsAre DEF Positions
      <4> QED BY <1>4, <4>1 DEF BlankFrom
    <3> QED BY <3>2 DEF BlankFrom
  <2>4. (localTxPos.off # 0 => txData = QueueEntry(localTxPos.slot))'
    BY <1>1 DEF Writer, QueueEntry, ReceiverSide
  <2>5. (txPos = localTxPos)'
    OBVIOUS
  <2>6. (localTxPos.off # 0 => BlankFrom(mem, txData, localTxPos.off))'
    BY <2>3 DEF BlankFrom
  <2> QED BY <2>2, <2>4, <2>5, <2>6 DEF Writer
<1> QED BY <1>10, <1>11 DEF ReceiverInv

(* What the receiver leaves of the sender's view, in ParseMessage and in     *)
(* ReleaseMessage: it moves its position on, changes whether one header      *)
(* behind it is claimed, and may recycle that header's slot.                 *)
LEMMA ReceiverStep ==
  ASSUME SendReady, NEW slot \in Slots, NEW off \in Offsets,
         NEW freed \in BOOLEAN, Recycle(slot, freed),
         UNCHANGED <<localTxPos, txPos, txData, pc, msg, rxLimit>>,
         rxPos' \in Positions, Precedes(rxPos, rxPos'), Precedes(rxPos', rxLimit),
         \A x \in Slots, o \in Offsets :
           /\ mem'[x][o].type = mem[x][o].type
           /\ mem'[x][o].stride = mem[x][o].stride
           /\ x # slot \/ o # off => mem'[x][o] = mem[x][o],
         \A i \in Nat : rxPos'.slot <= i /\ i < slotQueueRecycle
                          /\ QueueEntry(i) = slot => Below(i, off, rxPos'),
         freed => \A i \in rxPos'.slot .. slotQueueRecycle - 1 :
                    QueueEntry(i) # slot,
         freed => \A o \in Offsets : ~ mem'[slot][o].claimed,
         Below(rxPos'.slot, rxPos'.off, txPos) =>
           Header(mem, rxPos'.slot, rxPos'.off).type # "NONE"
  PROVE  Apart' /\ Unclaimed' /\ Tiled' /\ Writer' /\ ReaderKeeps
<1>1. /\ SpaceOK /\ Apart /\ Unclaimed /\ Tiled /\ Writer
      /\ mem \in [Slots -> [Offsets -> Headers]]
      /\ rxPos \in Positions /\ txPos \in Positions /\ rxLimit \in Positions
      /\ Precedes(rxLimit, txPos)
  BY DEF SendReady, ReceiverInv, InOrder, SpaceOK, SlotsOK
<1>2. /\ rxPos.slot \in Nat /\ rxPos.off \in Nat /\ rxPos'.slot \in Nat
      /\ rxPos'.off \in Nat /\ rxPos.slot <= rxPos'.slot
      /\ rxLimit.slot \in Nat /\ rxLimit.off \in Nat
      /\ txPos.slot \in Nat /\ txPos.off \in Nat
      /\ slotQueueRecycle \in Nat /\ SlotsTaken \in Nat
      /\ SlotsTaken <= slotQueueRecycle /\ txPos.slot <= SlotsTaken
      /\ txPos.off # 0 => txPos.slot < SlotsTaken
      /\ LastTxIndex = SlotsTaken - 1
      /\ rxPos'.slot <= txPos.slot /\ rxPos'.slot <= rxLimit.slot
  <2>1. /\ rxPos.slot \in Nat /\ rxPos.off \in Nat
        /\ rxPos'.slot \in Nat /\ rxPos'.off \in Nat
        /\ rxLimit.slot \in Nat /\ rxLimit.off \in Nat
    BY <1>1, ReadyFacts, OffsetsAre DEF Positions
  <2>2. /\ rxPos.slot <= rxPos'.slot /\ rxPos'.slot <= rxLimit.slot
        /\ rxLimit.slot <= txPos.slot /\ txPos.slot \in Nat
    BY <2>1, ReadyFacts DEF Precedes
  <2>3. rxPos'.slot <= txPos.slot
    BY ONLY <2>1, <2>2
  <2> QED BY <2>1, <2>2, <2>3, ReadyFacts
<1>3. /\ slotQueueRecycle' = IF freed THEN slotQueueRecycle + 1
                                      ELSE slotQueueRecycle
      /\ \A i \in rxPos'.slot .. slotQueueRecycle - 1 :
           QueueEntry(i)' = QueueEntry(i)
      /\ freed => \A i \in Nat : i = slotQueueRecycle => QueueEntry(i)' = slot
      /\ Apart'
  <2>1. rxPos'.slot <= slotQueueRecycle
    BY ONLY <1>2
  <2> QED BY <1>1, <1>2, <2>1, RecycleStep
<1>4. ASSUME NEW i \in Nat, rxPos'.slot <= i, i < slotQueueRecycle
      PROVE  /\ slotQueue'[i % QueueLen] = QueueEntry(i)
             /\ QueueEntry(i) \in Slots /\ i \in Window
             /\ \A j \in Nat : rxPos'.slot <= j /\ j < slotQueueRecycle /\ j # i
                  => QueueEntry(j) # QueueEntry(i)
  <2>1. i \in rxPos'.slot .. slotQueueRecycle - 1
    BY ONLY <1>2, <1>4
  <2>2. QueueEntry(i)' = QueueEntry(i)
    BY <1>3, <2>1
  <2>3. rxPos.slot <= i
    BY ONLY <1>2, <1>4
  <2>4. \A j \in Nat : rxPos'.slot <= j => rxPos.slot <= j
    BY ONLY <1>2
  <2> QED BY <1>4, <2>2, <2>3, <2>4, WindowEntry DEF QueueEntry
<1>5. Unclaimed'
  <2> SUFFICES ASSUME NEW i \in Window', NEW o \in Offsets,
                      i = rxPos'.slot => o >= rxPos'.off
               PROVE  ~ mem'[slotQueue'[i % QueueLen]][o].claimed
    BY DEF Unclaimed, Header, QueueEntry
  <2>1. i \in Nat /\ rxPos'.slot <= i /\ i <= slotQueueRecycle' - 1
    BY <1>2, <1>3 DEF Window
  <2>2. i < slotQueueRecycle \/ (freed /\ i = slotQueueRecycle)
    BY <1>2, <1>3, <2>1
  <2>3. CASE i < slotQueueRecycle
    <3>1. /\ slotQueue'[i % QueueLen] = QueueEntry(i) /\ QueueEntry(i) \in Slots
          /\ i \in Window
      BY <1>4, <2>1, <2>3
    <3>2. ~ mem[QueueEntry(i)][o].claimed
      <4>1. i = rxPos.slot => o >= rxPos.off
        <5>1. o \in Nat
          BY ONLY OffsetsAre, o \in Offsets
        <5> QED BY ONLY <1>2, <2>1, <5>1, Precedes(rxPos, rxPos'),
                        i = rxPos'.slot => o >= rxPos'.off
                DEF Precedes
      <4> QED BY <1>1, <3>1, <4>1 DEF Unclaimed, Header
    <3>3. ~ (QueueEntry(i) = slot /\ o = off)
      <4>1. o \in Nat
        BY ONLY OffsetsAre, o \in Offsets
      <4> SUFFICES ASSUME QueueEntry(i) = slot, o = off PROVE FALSE
        OBVIOUS
      <4>2. Below(i, o, rxPos')
        BY <2>1, <2>3
      <4> QED BY ONLY <1>2, <2>1, <4>1, <4>2, i = rxPos'.slot => o >= rxPos'.off
              DEF Below
    <3>4. mem'[QueueEntry(i)][o] = mem[QueueEntry(i)][o]
      BY <3>1, <3>3
    <3> QED BY <3>1, <3>2, <3>4
  <2>4. CASE freed /\ i = slotQueueRecycle
    <3>1. slotQueue'[i % QueueLen] = slot
      BY <1>3, <2>1, <2>4 DEF QueueEntry
    <3> QED BY <2>4, <3>1
  <2> QED BY <2>2, <2>3, <2>4
<1>6. Tiled'
  <2>1. ASSUME NEW i \in Nat, rxPos'.slot <= i, NEW o \in Offsets,
               Below(i, o, txPos)
        PROVE  /\ i \in Window
               /\ mem'[slotQueue'[i % QueueLen]][o].type = Header(mem, i, o).type
               /\ mem'[slotQueue'[i % QueueLen]][o].stride =
                    Header(mem, i, o).stride
    <3>1. o \in Nat
      BY ONLY OffsetsAre, o \in Offsets
    <3>2. i < slotQueueRecycle
      BY ONLY <1>2, <2>1, <3>1 DEF Below
    <3> QED BY <1>4, <2>1, <3>2 DEF Header
  <2>2. \A i \in Window' : i \in Nat /\ rxPos'.slot <= i
    BY <1>2, <1>3 DEF Window
  <2>3. /\ TiledTo(mem, txPos) /\ 0 \in Offsets
        /\ txPos' = txPos /\ rxLimit' = rxLimit
    BY <1>1, OffsetsAre DEF Tiled
  <2>4. \A i \in Window' : Below(i, 0, txPos) =>
          mem'[slotQueue'[i % QueueLen]][0].type # "NONE"
    BY <2>1, <2>2, <2>3 DEF TiledTo
  <2>5. ASSUME NEW i \in Window', NEW o \in Offsets, Below(i, o, txPos),
               mem'[slotQueue'[i % QueueLen]][o].type # "NONE"
        PROVE  LET next == o + mem'[slotQueue'[i % QueueLen]][o].stride IN
                 /\ next <= SlotSize
                 /\ i = txPos.slot => next <= txPos.off
                 /\ i = rxLimit.slot /\ o < rxLimit.off => next <= rxLimit.off
                 /\ next < SlotSize /\ Below(i, next, txPos)
                      => mem'[slotQueue'[i % QueueLen]][next].type # "NONE"
    <3> DEFINE next == o + Header(mem, i, o).stride
    <3>1. /\ i \in Window /\ i \in Nat /\ rxPos'.slot <= i
          /\ mem'[slotQueue'[i % QueueLen]][o].type = Header(mem, i, o).type
          /\ mem'[slotQueue'[i % QueueLen]][o].stride = Header(mem, i, o).stride
      BY <2>1, <2>2, <2>5
    <3>2. /\ next <= SlotSize
          /\ i = txPos.slot => next <= txPos.off
          /\ i = rxLimit.slot /\ o < rxLimit.off => next <= rxLimit.off
          /\ next < SlotSize /\ Below(i, next, txPos)
               => Header(mem, i, next).type # "NONE"
      BY <2>3, <2>5, <3>1 DEF TiledTo
    <3>3. next \in Nat
      <4>1. Header(mem, i, o).stride \in Nat
        BY <1>1, <3>1, StridesAre
      <4> QED BY ONLY <4>1, OffsetsAre, o \in Offsets
    <3> HIDE DEF next
    <3>4. next < SlotSize /\ Below(i, next, txPos)
            => mem'[slotQueue'[i % QueueLen]][next].type # "NONE"
      <4>1. next < SlotSize => next \in Offsets
        BY ONLY <3>3, OffsetsAre
      <4> QED BY <2>1, <3>1, <3>2, <4>1
    <3>5. next = o + mem'[slotQueue'[i % QueueLen]][o].stride
      BY <3>1 DEF next
    <3> QED BY <3>2, <3>4, <3>5
  <2>6. Below(rxPos'.slot, rxPos'.off, txPos) =>
          mem'[slotQueue'[rxPos'.slot % QueueLen]][rxPos'.off].type # "NONE"
    <3>1. /\ rxPos'.off \in Offsets /\ rxPos'.slot \in Nat
          /\ rxPos'.slot <= rxPos'.slot
      BY <1>2 DEF Positions
    <3>2. Below(rxPos'.slot, rxPos'.off, txPos) =>
            mem'[slotQueue'[rxPos'.slot % QueueLen]][rxPos'.off].type
              = Header(mem, rxPos'.slot, rxPos'.off).type
      BY <2>1, <3>1
    <3> QED BY <3>2
  <2>7. Below(rxLimit.slot, rxLimit.off, txPos) =>
          mem'[slotQueue'[rxLimit.slot % QueueLen]][rxLimit.off].type # "NONE"
    <3>1. rxLimit.off \in Offsets
      BY <1>1 DEF Positions
    <3> QED BY <1>2, <2>1, <2>3, <3>1 DEF TiledTo
  <2>8. (\A i \in Window : Below(i, 0, txPos) => Header(mem, i, 0).type # "NONE")'
    BY <2>3, <2>4 DEF Header, QueueEntry
  <2>9. (\A i \in Window, o \in Offsets :
            Below(i, o, txPos) /\ Header(mem, i, o).type # "NONE" =>
              LET next == o + Header(mem, i, o).stride IN
                /\ next <= SlotSize
                /\ i = txPos.slot => next <= txPos.off
                /\ i = rxLimit.slot /\ o < rxLimit.off => next <= rxLimit.off
                /\ next < SlotSize /\ Below(i, next, txPos)
                     => Header(mem, i, next).type # "NONE")'
    BY <2>3, <2>5 DEF Header, QueueEntry
  <2>10. (\A q \in {rxPos, rxLimit} :
            Below(q.slot, q.off, txPos)
              => Header(mem, q.slot, q.off).type # "NONE")'
    BY <2>3, <2>6, <2>7 DEF Header, QueueEntry
  <2> QED BY <2>8, <2>9, <2>10 DEF Tiled, TiledTo
<1>7. ASSUME NEW i \in Nat, NEW o \in Offsets, i < slotQueueRecycle,
             txPos.slot < i \/ (txPos.slot = i /\ txPos.off <= o)
      PROVE  /\ slotQueue'[i % QueueLen] = QueueEntry(i)
             /\ QueueEntry(i) \in Slots
             /\ mem'[QueueEntry(i)][o] = mem[QueueEntry(i)][o]
  <2>1. o \in Nat /\ off \in Nat
    BY ONLY OffsetsAre, o \in Offsets, off \in Offsets
  <2>2. rxPos'.slot <= i
    BY ONLY <1>2, <1>7
  <2>3. ~ (QueueEntry(i) = slot /\ o = off)
    <3>1. ~ Below(i, o, rxPos')
      BY ONLY <1>1, <1>2, <1>7, <2>1, Precedes(rxPos', rxLimit)
      DEF Below, Precedes
    <3> QED BY <1>7, <2>2, <3>1
  <2> QED BY <1>4, <1>7, <2>2, <2>3
<1>8. \A x \in Slots, o \in Offsets : mem'[x][o].type = mem[x][o].type
  OBVIOUS
<1>9. Writer'
  <2>1. \A x : Writing(x)' <=> Writing(x)
    BY DEF Writing
  <2>2. (localTxPos.off # 0 => txData = QueueEntry(localTxPos.slot))'
    <3> SUFFICES ASSUME localTxPos.off # 0
                 PROVE  txData = slotQueue'[localTxPos.slot % QueueLen]
      BY DEF QueueEntry
    <3>1. txData = QueueEntry(localTxPos.slot)
      BY <1>1 DEF Writer
    <3>2. localTxPos.slot \in Nat /\ localTxPos.slot = SlotsTaken - 1
      BY <1>1 DEF SpaceOK, Positions, SlotsTaken
    <3>3. txPos.slot <= localTxPos.slot
      <4>1. CASE \A t \in Threads : ~ Writing(t)
        BY <1>1, <1>2, <4>1 DEF Writer
      <4>2. ASSUME NEW t \in Threads, Writing(t)
            PROVE  txPos.slot <= localTxPos.slot
        <5>1. txPos.slot \in {LastTxIndex, LastTxIndex - 1}
          BY <1>1, <4>2 DEF Writer, Written
        <5> QED BY <1>2, <3>2, <5>1
      <4> QED BY <4>1, <4>2
    <3>4. rxPos'.slot <= localTxPos.slot /\ localTxPos.slot < slotQueueRecycle
      BY ONLY <1>2, <3>2, <3>3
    <3> QED BY <1>4, <3>1, <3>2, <3>4
  <2>3. ASSUME \A t \in Threads : ~ Writing(t)
        PROVE  (/\ txPos = localTxPos
                /\ localTxPos.off # 0 => BlankFrom(mem, txData, localTxPos.off))'
    <3>1. /\ txPos = localTxPos
          /\ localTxPos.off # 0 => BlankFrom(mem, txData, localTxPos.off)
      BY <1>1, <2>3 DEF Writer
    <3>2. localTxPos.off # 0 => txData \in Slots
      BY <2>3, PaddedFacts
    <3> QED BY <1>8, <3>1, <3>2 DEF BlankFrom
  <2>4. ASSUME NEW t \in Threads, Writing(t)
        PROVE  Written(mem, t)'
    <3> DEFINE last == LastTxIndex  o0 == MsgOffset(t)
    <3>1. /\ Written(mem, t) /\ last \in Nat /\ o0 \in Offsets
          /\ last < slotQueueRecycle
          /\ txData = QueueEntry(last) /\ txData \in Slots
      BY <2>4, WriterFacts
    <3>2. LastTxIndex' = last /\ MsgOffset(t)' = o0 /\ pc'[t] = pc[t]
          /\ msg'[t] = msg[t] /\ txPos' = txPos /\ txData' = txData
      BY DEF LastTxIndex, MsgOffset
    <3>3. /\ \/ txPos = [slot |-> last, off |-> o0]
             \/ o0 = 0 /\ txPos.slot = last - 1 /\ Padded(mem, txPos)
          /\ BlankFrom(mem, txData, IF pc[t] = "write" THEN o0 ELSE o0 + 1)
          /\ pc[t] = "publish" => mem[txData][o0] = msg[t]
      BY <3>1 DEF Written
    <3>4. \/ txPos.slot < last
          \/ txPos.slot = last /\ txPos.off <= o0
      BY <1>2, <3>1, <3>3, OffsetsAre
    <3>5. /\ slotQueue'[last % QueueLen] = txData
          /\ mem'[txData][o0] = mem[txData][o0]
      BY <1>7, <3>1, <3>4
    <3>6. BlankFrom(mem', txData, IF pc[t] = "write" THEN o0 ELSE o0 + 1)
      BY <1>8, <3>1, <3>3 DEF BlankFrom
    <3>7. Padded(mem, txPos) => Padded(mem, txPos)'
      <4> SUFFICES ASSUME Padded(mem, txPos) PROVE Padded(mem, txPos)'
        OBVIOUS
      <4>1. txPos.off # 0 /\ txPos.off \in Offsets
        BY <1>1 DEF Padded, Positions
      <4>2. txPos.slot < slotQueueRecycle
        BY ONLY <1>2, <4>1
      <4>3. /\ slotQueue'[txPos.slot % QueueLen] = QueueEntry(txPos.slot)
            /\ QueueEntry(txPos.slot) \in Slots
            /\ mem'[QueueEntry(txPos.slot)][txPos.off]
                 = mem[QueueEntry(txPos.slot)][txPos.off]
        BY <1>2, <1>7, <4>1, <4>2
      <4>4. /\ mem[QueueEntry(txPos.slot)][txPos.off] =
                 Padding(SlotSize - txPos.off)
            /\ \A o \in Offsets : o >= txPos.off + 1 =>
                 mem[QueueEntry(txPos.slot)][o].type = "NONE"
        BY DEF Padded, Header, BlankFrom
      <4>5. \A o \in Offsets : o >= txPos.off + 1 =>
              mem'[QueueEntry(txPos.slot)][o].type = "NONE"
        BY <1>8, <4>3, <4>4
      <4>6. mem'[QueueEntry(txPos.slot)][txPos.off] =
              Padding(SlotSize - txPos.off)
        BY <4>3, <4>4
      <4> QED BY <3>2, <4>1, <4>3, <4>5, <4>6
              DEF Padded, Header, BlankFrom, QueueEntry
    <3>8. \/ txPos' = [slot |-> last, off |-> o0]
          \/ o0 = 0 /\ txPos'.slot = last - 1 /\ Padded(mem, txPos)'
      BY <3>2, <3>3, <3>7
    <3>9. pc'[t] = "publish" => mem'[txData][o0] = msg'[t]
      BY <3>2, <3>3, <3>5
    <3> HIDE DEF last, o0
    <3> QED BY <3>1, <3>2, <3>5, <3>6, <3>8, <3>9 DEF Written, QueueEntry
  <2> QED BY <2>1, <2>2, <2>3, <2>4 DEF Writer
<1>10. ReaderKeeps
  <2> SUFFICES ASSUME NEW p \in Unread, ~ Below(p.slot, p.off, rxPos')
               PROVE  mem'[slotQueue'[p.slot % QueueLen]][p.off]
                        = mem[QueueEntry(p.slot)][p.off]
    BY DEF ReaderKeeps, Content, Header, QueueEntry
  <2>1. /\ p.slot \in Nat /\ p.off \in Offsets
        /\ Below(p.slot, p.off, txPos)
    BY DEF Unread, Positions
  <2>2. p.off \in Nat
    BY <2>1, OffsetsAre
  <2>3. rxPos'.slot <= p.slot /\ p.slot < slotQueueRecycle
    BY ONLY <1>2, <2>1, <2>2, ~ Below(p.slot, p.off, rxPos') DEF Below
  <2>4. ~ (QueueEntry(p.slot) = slot /\ p.off = off)
    BY <2>1, <2>3
  <2> QED BY <1>4, <2>1, <2>3, <2>4
<1> QED BY <1>3, <1>5, <1>6, <1>9, <1>10

(* The headers after the claim of one was set or cleared, ...                *)
LEMMA ReadClaim ==
  ASSUME mem \in [Slots -> [Offsets -> Headers]], NEW slot \in Slots,
         NEW off \in Offsets, NEW b \in BOOLEAN,
         mem' = [mem EXCEPT ![slot][off].claimed = b]
  PROVE  \A x \in Slots, o \in Offsets :
           /\ mem'[x][o].type = mem[x][o].type
           /\ mem'[x][o].stride = mem[x][o].stride
           /\ mem'[x][o].svc = mem[x][o].svc
           /\ x # slot \/ o # off => mem'[x][o] = mem[x][o]
           /\ x = slot /\ o = off => mem'[x][o].claimed = b
<1> TAKE x \in Slots, o \in Offsets
<1> DEFINE h == [mem[slot][off] EXCEPT !.claimed = b]
<1>1. mem[slot] \in [Offsets -> Headers] /\ mem[slot][off] \in Headers
  OBVIOUS
<1>2. mem' = [mem EXCEPT ![slot] = [mem[slot] EXCEPT ![off] = h]]
  OBVIOUS
<1>3. /\ h.type = mem[slot][off].type /\ h.stride = mem[slot][off].stride
      /\ h.svc = mem[slot][off].svc /\ h.claimed = b
  BY <1>1 DEF Headers
<1> HIDE DEF h
<1>4. mem'[x] = IF x = slot THEN [mem[slot] EXCEPT ![off] = h] ELSE mem[x]
  BY <1>2
<1>5. mem'[x][o] = IF x = slot /\ o = off THEN h ELSE mem[x][o]
  BY <1>1, <1>4
<1> QED BY <1>3, <1>5

(* ... and how the number of claims in its slot changes.                     *)
LEMMA ClaimsFinite ==
  ASSUME NEW slot
  PROVE  IsFiniteSet(Claims(slot)) /\ Cardinality(Claims(slot)) \in Nat
<1>1. IsFiniteSet(Offsets)
  BY OffsetsAre, FS_Interval DEF Offsets
<1>2. IsFiniteSet(Claims(slot))
  BY <1>1, FS_Subset DEF Claims
<1> QED BY <1>2, FS_CardinalityType

LEMMA ClaimsStep ==
  ASSUME NEW slot \in Slots, NEW off \in Offsets, NEW b \in BOOLEAN,
         \A x \in Slots, o \in Offsets :
           /\ x # slot \/ o # off => mem'[x][o] = mem[x][o]
           /\ x = slot /\ o = off => mem'[x][o].claimed = b
  PROVE  /\ IsFiniteSet(Claims(slot)') /\ Cardinality(Claims(slot)') \in Nat
         /\ \A s \in Slots : s # slot => Claims(s)' = Claims(s)
         /\ mem[slot][off].claimed = b => Claims(slot)' = Claims(slot)
         /\ ~ mem[slot][off].claimed /\ b =>
              Cardinality(Claims(slot)') = Cardinality(Claims(slot)) + 1
         /\ mem[slot][off].claimed /\ ~ b =>
              Cardinality(Claims(slot)') = Cardinality(Claims(slot)) - 1
<1> DEFINE old == {o \in Offsets : mem[slot][o].claimed}
           new == {o \in Offsets : mem'[slot][o].claimed}
<1>1. Claims(slot) = old /\ Claims(slot)' = new
  BY DEF Claims
<1>2. IsFiniteSet(old)
  BY <1>1, ClaimsFinite
<1>3. new = IF b THEN old \union {off} ELSE old \ {off}
  OBVIOUS
<1>4. ~ mem[slot][off].claimed => off \notin old
  OBVIOUS
<1>5. mem[slot][off].claimed => off \in old
  OBVIOUS
<1>6. mem[slot][off].claimed = b => new = old
  BY <1>3, <1>4, <1>5
<1>7. \A s \in Slots : s # slot => Claims(s)' = Claims(s)
  BY DEF Claims
<1> HIDE DEF old, new
<1>8. b /\ off \notin old => Cardinality(new) = Cardinality(old) + 1
  BY <1>2, <1>3, FS_AddElement
<1>9. ~ b /\ off \in old => Cardinality(new) = Cardinality(old) - 1
  BY <1>2, <1>3, FS_RemoveElement
<1>10. IsFiniteSet(new)
  BY <1>2, <1>3, FS_AddElement, FS_RemoveElement
<1>11. Cardinality(new) \in Nat
  BY <1>10, FS_CardinalityType
<1> QED BY <1>1, <1>4, <1>5, <1>6, <1>7, <1>8, <1>9, <1>10, <1>11

(* What the parser finds at its position: a header of the sender's, wholly   *)
(* before its snapshot of tx_pos, that nobody has claimed.                   *)
LEMMA ParserFacts ==
  ASSUME SendReady, rxPos # rxLimit
  PROVE  /\ rxPos \in Positions /\ rxPos.slot \in Nat /\ rxPos.off \in Offsets
         /\ rxPos.slot \in Window /\ rxPos.slot < slotQueueRecycle
         /\ Below(rxPos.slot, rxPos.off, txPos)
         /\ rxPos.slot < rxLimit.slot
              \/ (rxPos.slot = rxLimit.slot /\ rxPos.off < rxLimit.off)
         /\ QueueEntry(rxPos.slot) \in Slots
         /\ QueueEntry(rxPos.slot) =
              IF rxData = NoSlot THEN slotQueue[rxPos.slot % QueueLen]
                                 ELSE rxData
         /\ rxData = NoSlot <=> rxPos.off = 0
         /\ LET h == mem[QueueEntry(rxPos.slot)][rxPos.off]
                next == rxPos.off + h.stride IN
            /\ h \in Headers /\ h.type # "NONE" /\ ~ h.claimed
            /\ next <= SlotSize
            /\ rxPos.slot = rxLimit.slot => next <= rxLimit.off
            /\ next < SlotSize /\ Below(rxPos.slot, next, txPos) =>
                 mem[QueueEntry(rxPos.slot)][next].type # "NONE"
<1>1. /\ rxPos \in Positions /\ rxLimit \in Positions /\ txPos \in Positions
      /\ mem \in [Slots -> [Offsets -> Headers]]
      /\ Precedes(rxPos, rxLimit) /\ Precedes(rxLimit, txPos)
      /\ TiledTo(mem, txPos) /\ Unclaimed
      /\ rxData = IF rxPos.off = 0 THEN NoSlot ELSE QueueEntry(rxPos.slot)
  BY DEF SendReady, ReceiverInv, InOrder, Tiled, SpaceOK, SlotsOK
<1>2. /\ rxPos.slot \in Nat /\ rxPos.off \in Nat /\ rxPos.off \in Offsets
      /\ rxLimit.slot \in Nat /\ rxLimit.off \in Nat
      /\ txPos.slot \in Nat /\ txPos.off \in Nat
      /\ txPos.slot <= SlotsTaken /\ SlotsTaken <= slotQueueRecycle
      /\ SlotsTaken \in Nat /\ slotQueueRecycle \in Nat
      /\ txPos.off # 0 => txPos.slot < SlotsTaken
  BY <1>1, ReadyFacts DEF Positions
<1>3. rxPos.slot # rxLimit.slot \/ rxPos.off # rxLimit.off
  BY <1>1 DEF Positions
<1>4. /\ Below(rxPos.slot, rxPos.off, txPos)
      /\ rxPos.slot < rxLimit.slot
           \/ (rxPos.slot = rxLimit.slot /\ rxPos.off < rxLimit.off)
  BY ONLY <1>1, <1>2, <1>3 DEF Below, Precedes
<1>5. rxPos.slot < slotQueueRecycle
  BY ONLY <1>2, <1>4 DEF Below
<1>6. rxPos.slot \in Window /\ QueueEntry(rxPos.slot) \in Slots
  BY <1>2, <1>5, WindowEntry
<1>7. \A s \in Slots : s # NoSlot
  <2>1. TotalSlots \in Nat
    BY SlotChannelAssumption DEF SlotChannelAssumption
  <2>2. SlotFirst >= 1 /\ SlotFirst \in Nat
    BY <2>1, SlotFacts DEF SlotFirst
  <2> QED BY ONLY <2>2, SlotFacts DEF Slots, NoSlot
<1>8. /\ QueueEntry(rxPos.slot) =
           IF rxData = NoSlot THEN slotQueue[rxPos.slot % QueueLen] ELSE rxData
      /\ rxData = NoSlot <=> rxPos.off = 0
  BY <1>1, <1>6, <1>7 DEF QueueEntry
<1> DEFINE h == mem[QueueEntry(rxPos.slot)][rxPos.off]
<1>9. h \in Headers
  BY <1>1, <1>2, <1>6
<1>10. h.type # "NONE"
  BY <1>1, <1>4 DEF TiledTo, Header
<1>11. ~ h.claimed
  BY <1>1, <1>2, <1>6 DEF Unclaimed, Header
<1>12. LET next == rxPos.off + h.stride IN
       /\ next <= SlotSize
       /\ rxPos.slot = rxLimit.slot => next <= rxLimit.off
       /\ next < SlotSize /\ Below(rxPos.slot, next, txPos) =>
            mem[QueueEntry(rxPos.slot)][next].type # "NONE"
  BY <1>1, <1>2, <1>4, <1>6, <1>10 DEF TiledTo, Header
<1> QED
  BY <1>1, <1>2, <1>4, <1>5, <1>6, <1>8, <1>9, <1>10, <1>11, <1>12

(* The recycled slot is queued behind the free slots, which stay in place.   *)
QueueKeeps ==
  \A i \in SlotsTaken .. slotQueueRecycle - 1 :
    slotQueue'[i % QueueLen] = QueueEntry(i)

(* parse_rx_slots: one message.                                              *)
LEMMA ParseStep ==
  ASSUME SendReady, ParseMessage
  PROVE  ReceiverInv' /\ ReaderKeeps /\ QueueKeeps
<1> SUFFICES ASSUME NEW slot, slot = QueueEntry(rxPos.slot)
             PROVE  ReceiverInv' /\ ReaderKeeps /\ QueueKeeps
  OBVIOUS
<1> DEFINE h     == mem[slot][rxPos.off]
           fresh == rxData = NoSlot
           claim == h.type = "DATA" /\ peerOpen[h.svc]
           use   == (IF fresh THEN 1 ELSE useCount[slot])
                    + (IF claim THEN 1 ELSE 0)
           next  == Advance(rxPos, h.stride)
           atEnd == next.off = 0
           rel   == (IF fresh THEN 0 ELSE releaseCount[slot])
                    + (IF atEnd THEN 1 ELSE 0)
           freed == atEnd /\ rel = use
<1>1. /\ SpaceOK /\ SlotAccounting /\ ReceiverInv /\ InOrder /\ Apart
      /\ Counted /\ Unclaimed /\ Tiled
      /\ mem \in [Slots -> [Offsets -> Headers]]
      /\ useCount \in [Slots -> Nat] /\ releaseCount \in [Slots -> Nat]
      /\ rxLimit \in Positions /\ TiledTo(mem, txPos)
  BY DEF SendReady, ReceiverInv, SpaceOK, SlotsOK, Tiled
<1>2. rxPos # rxLimit
  BY DEF ParseMessage
<1>3. /\ rxPos \in Positions /\ rxPos.slot \in Nat /\ rxPos.off \in Offsets
      /\ rxPos.slot \in Window /\ rxPos.slot < slotQueueRecycle
      /\ Below(rxPos.slot, rxPos.off, txPos)
      /\ rxPos.slot < rxLimit.slot
           \/ (rxPos.slot = rxLimit.slot /\ rxPos.off < rxLimit.off)
      /\ slot \in Slots
      /\ slot = IF fresh THEN slotQueue[rxPos.slot % QueueLen] ELSE rxData
      /\ fresh <=> rxPos.off = 0
      /\ h \in Headers /\ h.type # "NONE" /\ ~ h.claimed
      /\ rxPos.off + h.stride <= SlotSize
      /\ rxPos.slot = rxLimit.slot => rxPos.off + h.stride <= rxLimit.off
      /\ rxPos.off + h.stride < SlotSize
           /\ Below(rxPos.slot, rxPos.off + h.stride, txPos) =>
           mem[slot][rxPos.off + h.stride].type # "NONE"
  BY <1>2, ParserFacts
<1>4. /\ mem' = IF claim THEN [mem EXCEPT ![slot][rxPos.off].claimed = TRUE]
                         ELSE mem
      /\ useCount' = [useCount EXCEPT ![slot] = use]
      /\ releaseCount' = [releaseCount EXCEPT ![slot] = rel]
      /\ rxPos' = next
      /\ rxData' = IF atEnd THEN NoSlot ELSE slot
      /\ Recycle(slot, freed)
      /\ UNCHANGED <<localTxPos, txPos, txData, pc, msg, rxLimit>>
  <2>1. slot = IF fresh THEN slotQueue[rxPos.slot % QueueLen] ELSE rxData
    BY <1>3
  <2> QED BY <2>1 DEF ParseMessage
<1>5. /\ rxPos.off \in Nat /\ h.stride \in 1..SlotSize /\ SlotSize \in Nat
      /\ rxLimit.slot \in Nat /\ rxLimit.off \in Nat /\ rxLimit.off < SlotSize
      /\ slotQueueRecycle \in Nat /\ txPos.slot \in Nat /\ txPos.off \in Nat
      /\ txPos.slot <= SlotsTaken /\ SlotsTaken <= slotQueueRecycle
      /\ txPos.off # 0 => txPos.slot < SlotsTaken /\ SlotsTaken \in Nat
  BY <1>1, <1>3, ReadyFacts, OffsetsAre DEF Headers, Positions
<1> HIDE DEF h
<1>6. /\ next \in Positions
      /\ \/ /\ atEnd /\ rxPos.off + h.stride = SlotSize
            /\ next = [slot |-> rxPos.slot + 1, off |-> 0]
         \/ /\ ~ atEnd /\ rxPos.off + h.stride < SlotSize
            /\ next = [slot |-> rxPos.slot, off |-> rxPos.off + h.stride]
  <2>1. h.stride <= SlotSize - rxPos.off
    BY ONLY <1>3, <1>5
  <2>2. next \in Positions
    BY <1>3, <1>5, <2>1, AdvanceType
  <2>3. CASE rxPos.off + h.stride = SlotSize
    BY <2>2, <2>3 DEF Advance
  <2>4. CASE rxPos.off + h.stride # SlotSize
    <3>1. next = [slot |-> rxPos.slot, off |-> rxPos.off + h.stride]
      BY <2>4 DEF Advance
    <3>2. rxPos.off + h.stride < SlotSize /\ rxPos.off + h.stride # 0
      BY ONLY <1>3, <1>5, <2>4
    <3> QED BY <2>2, <3>1, <3>2
  <2> QED BY <2>3, <2>4
<1>7. /\ next.slot \in Nat /\ next.off \in Nat /\ next.off \in Offsets
      /\ rxPos.slot <= next.slot /\ next.slot <= slotQueueRecycle
      /\ Precedes(rxPos, next) /\ Precedes(next, rxLimit)
      /\ ~ atEnd => next.slot = rxPos.slot /\ rxPos.off < next.off
      /\ atEnd => next.slot = rxPos.slot + 1 /\ next.off = 0
  <2>1. next.slot \in Nat /\ next.off \in Offsets /\ next.off \in Nat
    BY <1>6, OffsetsAre DEF Positions
  <2>2. \/ /\ atEnd /\ rxPos.off + h.stride = SlotSize
           /\ next.slot = rxPos.slot + 1 /\ next.off = 0
        \/ /\ ~ atEnd /\ rxPos.off + h.stride < SlotSize
           /\ next.slot = rxPos.slot /\ next.off = rxPos.off + h.stride
    BY <1>6
  <2> HIDE DEF atEnd, next
  <2>3. Precedes(rxPos, next) /\ Precedes(next, rxLimit)
    BY ONLY <1>3, <1>5, <2>1, <2>2 DEF Precedes
  <2> QED BY ONLY <1>3, <1>5, <2>1, <2>2, <2>3
<1>8. \A i \in Nat : rxPos.slot <= i /\ i < slotQueueRecycle /\ i # rxPos.slot
        => QueueEntry(i) # slot
  <2>1. rxPos.slot <= rxPos.slot
    BY <1>3
  <2>2. \A j \in Nat : rxPos.slot <= j /\ j < slotQueueRecycle /\ j # rxPos.slot
          => QueueEntry(j) # QueueEntry(rxPos.slot)
    BY ONLY SendReady, <1>3, <2>1, WindowEntry
  <2> QED BY <2>2
<1>9. \A x \in Slots, o \in Offsets :
        /\ mem'[x][o].type = mem[x][o].type
        /\ mem'[x][o].stride = mem[x][o].stride
        /\ x # slot \/ o # rxPos.off => mem'[x][o] = mem[x][o]
        /\ x = slot /\ o = rxPos.off => mem'[x][o].claimed = claim
  <2>1. CASE claim
    <3>1. mem' = [mem EXCEPT ![slot][rxPos.off].claimed = TRUE]
      BY <1>4, <2>1
    <3>2. \A x \in Slots, o \in Offsets :
            /\ mem'[x][o].type = mem[x][o].type
            /\ mem'[x][o].stride = mem[x][o].stride
            /\ x # slot \/ o # rxPos.off => mem'[x][o] = mem[x][o]
            /\ x = slot /\ o = rxPos.off => mem'[x][o].claimed = TRUE
      <4>1. TRUE \in BOOLEAN
        OBVIOUS
      <4>2. slot \in Slots /\ rxPos.off \in Offsets
            /\ mem \in [Slots -> [Offsets -> Headers]]
        BY <1>1, <1>3
      <4> QED BY ONLY <3>1, <4>1, <4>2, ReadClaim
    <3> HIDE DEF claim
    <3> QED BY <2>1, <3>2
  <2>2. CASE ~ claim
    <3>1. mem' = mem
      BY <1>4, <2>2
    <3>2. h.claimed = FALSE
      BY <1>3 DEF Headers
    <3> QED BY <2>2, <3>1, <3>2 DEF h
  <2> QED BY <2>1, <2>2
<1>10. /\ Cardinality(Claims(slot)) \in Nat /\ IsFiniteSet(Claims(slot)')
       /\ Cardinality(Claims(slot)') = Cardinality(Claims(slot))
                                       + (IF claim THEN 1 ELSE 0)
       /\ Cardinality(Claims(slot)') \in Nat
       /\ \A s \in Slots : s # slot => Claims(s)' = Claims(s)
  <2>1. ~ mem[slot][rxPos.off].claimed
    BY <1>3 DEF h
  <2>2. Cardinality(Claims(slot)) \in Nat
    BY ClaimsFinite
  <2>3. slot \in Slots /\ rxPos.off \in Offsets /\ claim \in BOOLEAN
    BY <1>3
  <2> HIDE DEF claim
  <2>4. /\ IsFiniteSet(Claims(slot)') /\ Cardinality(Claims(slot)') \in Nat
        /\ \A s \in Slots : s # slot => Claims(s)' = Claims(s)
        /\ mem[slot][rxPos.off].claimed = claim => Claims(slot)' = Claims(slot)
        /\ ~ mem[slot][rxPos.off].claimed /\ claim =>
             Cardinality(Claims(slot)') = Cardinality(Claims(slot)) + 1
    BY ONLY <1>9, <2>3, ClaimsStep
  <2>5. ~ claim => mem[slot][rxPos.off].claimed = claim
    <3>1. h.claimed \in BOOLEAN
      BY <1>3 DEF Headers
    <3> QED BY <2>1, <2>3, <3>1 DEF h
  <2> QED BY <2>1, <2>2, <2>3, <2>4, <2>5
<1>11. /\ use \in Nat /\ rel \in Nat
       /\ use = rel + Cardinality(Claims(slot)') + (IF atEnd THEN 0 ELSE 1)
  <2>1. CASE fresh
    <3>1. Claims(slot) = {}
      <4>1. \A o \in Offsets : ~ mem[slot][o].claimed
        <5>1. \A o \in Offsets : o >= rxPos.off
          BY <1>3, <2>1, OffsetsAre
        <5> QED BY <1>1, <1>3, <5>1 DEF Unclaimed, Header
      <4> QED BY <4>1 DEF Claims
    <3>2. Cardinality(Claims(slot)) = 0
      BY <3>1, FS_EmptySet
    <3> HIDE DEF atEnd, claim
    <3> QED BY <1>10, <2>1, <3>2
  <2>2. CASE ~ fresh
    <3>1. useCount[slot] = releaseCount[slot] + Cardinality(Claims(slot)) + 1
      BY <1>1, <1>3, <2>2 DEF Counted
    <3>2. useCount[slot] \in Nat /\ releaseCount[slot] \in Nat
      BY <1>1, <1>3
    <3> HIDE DEF atEnd, claim
    <3> QED BY <1>10, <2>2, <3>1, <3>2
  <2> QED BY <2>1, <2>2
<1> HIDE DEF next, use, rel, claim, fresh
<1>12. /\ slotQueueRecycle' = IF freed THEN slotQueueRecycle + 1
                                       ELSE slotQueueRecycle
       /\ \A i \in next.slot .. slotQueueRecycle - 1 :
            QueueEntry(i)' = QueueEntry(i)
       /\ freed => \A i \in Nat : i = slotQueueRecycle => QueueEntry(i)' = slot
       /\ freed => \A i \in next.slot .. slotQueueRecycle - 1 :
                     QueueEntry(i) # slot
  <2>1. freed => \A i \in next.slot .. slotQueueRecycle - 1 : QueueEntry(i) # slot
    <3> SUFFICES ASSUME atEnd, NEW i \in next.slot .. slotQueueRecycle - 1
                 PROVE  QueueEntry(i) # slot
      OBVIOUS
    <3>1. next.slot = rxPos.slot + 1
      BY <1>7
    <3>2. i \in Nat /\ rxPos.slot <= i /\ i # rxPos.slot /\ i < slotQueueRecycle
      BY ONLY <1>3, <1>5, <3>1, i \in next.slot .. slotQueueRecycle - 1
    <3> QED BY <1>8, <3>2
  <2>2. freed \in BOOLEAN
    OBVIOUS
  <2> HIDE DEF freed
  <2> QED BY <1>1, <1>3, <1>4, <1>7, <2>1, <2>2, RecycleStep
<1>13. Apart' /\ Unclaimed' /\ Tiled' /\ Writer' /\ ReaderKeeps
  <2>1. \A i \in Nat : rxPos'.slot <= i /\ i < slotQueueRecycle
                         /\ QueueEntry(i) = slot => Below(i, rxPos.off, rxPos')
    <3> SUFFICES ASSUME NEW i \in Nat, next.slot <= i, i < slotQueueRecycle,
                        QueueEntry(i) = slot
                 PROVE  Below(i, rxPos.off, next)
      BY <1>4
    <3>1. rxPos.slot <= i
      BY ONLY <1>3, <1>7, next.slot <= i, i \in Nat
    <3>2. i = rxPos.slot
      BY <1>8, <3>1
    <3>3. ~ atEnd
      BY <1>3, <1>7, <3>2
    <3> QED BY <1>7, <3>2, <3>3 DEF Below
  <2>2. freed => \A o \in Offsets : ~ mem'[slot][o].claimed
    <3> SUFFICES ASSUME atEnd, rel = use
                 PROVE  \A o \in Offsets : ~ mem'[slot][o].claimed
      OBVIOUS
    <3>1. Cardinality(Claims(slot)') = 0
      BY <1>10, <1>11
    <3>2. Claims(slot)' = {}
      BY <1>10, <3>1, FS_EmptySet
    <3> QED BY <3>2 DEF Claims
  <2>3. Below(next.slot, next.off, txPos) =>
          Header(mem, next.slot, next.off).type # "NONE"
    <3> SUFFICES ASSUME Below(next.slot, next.off, txPos)
                 PROVE  Header(mem, next.slot, next.off).type # "NONE"
      OBVIOUS
    <3>1. CASE ~ atEnd
      <4>1. /\ next.slot = rxPos.slot /\ next.off = rxPos.off + h.stride
            /\ rxPos.off + h.stride < SlotSize
        BY <1>6, <3>1
      <4> QED BY <1>3, <4>1 DEF Header
    <3>2. CASE atEnd
      <4>1. next.slot = rxPos.slot + 1 /\ next.off = 0 /\ next.slot \in Nat
            /\ rxPos.slot <= next.slot
        BY <1>7, <3>2
      <4>2. next.slot < slotQueueRecycle
        BY <1>5, <4>1, ReadyFacts DEF Below
      <4>3. next.slot \in Window
        BY <4>1, <4>2, WindowEntry
      <4> QED BY <1>1, <4>1, <4>3 DEF TiledTo
    <3> QED BY <3>1, <3>2
  <2>4. /\ rxPos' \in Positions /\ Precedes(rxPos, rxPos')
        /\ Precedes(rxPos', rxLimit)
    BY <1>4, <1>6, <1>7
  <2>5. freed => \A i \in rxPos'.slot .. slotQueueRecycle - 1 :
                   QueueEntry(i) # slot
    BY <1>4, <1>12
  <2>6. Below(rxPos'.slot, rxPos'.off, txPos) =>
          Header(mem, rxPos'.slot, rxPos'.off).type # "NONE"
    BY <1>4, <2>3
  <2>7. freed \in BOOLEAN /\ slot \in Slots /\ rxPos.off \in Offsets
        /\ Recycle(slot, freed)
    BY <1>3, <1>4
  <2>8. \A x \in Slots, o \in Offsets :
          /\ mem'[x][o].type = mem[x][o].type
          /\ mem'[x][o].stride = mem[x][o].stride
          /\ x # slot \/ o # rxPos.off => mem'[x][o] = mem[x][o]
    BY <1>9
  <2>9. UNCHANGED <<localTxPos, txPos, txData, pc, msg, rxLimit>>
    BY <1>4
  <2> HIDE DEF freed, h
  <2> QED BY ONLY SendReady, <2>1, <2>2, <2>4, <2>5, <2>6, <2>7, <2>8, <2>9,
                  ReceiverStep
<1>14. InOrder'
  <2>1. /\ rxPos' \in Positions
        /\ Precedes(rxPos', rxLimit') /\ Precedes(rxLimit', txPos')
    BY <1>1, <1>4, <1>6, <1>7 DEF InOrder
  <2>2. rxData' = IF rxPos'.off = 0 THEN NoSlot
                                    ELSE slotQueue'[rxPos'.slot % QueueLen]
    <3>1. CASE atEnd
      BY <1>4, <3>1
    <3>2. CASE ~ atEnd
      <4>1. next.slot = rxPos.slot
        BY <1>7, <3>2
      <4>2. slotQueue' = slotQueue
        BY <1>4, <3>2 DEF Recycle
      <4> QED BY <1>4, <3>2, <4>1, <4>2 DEF QueueEntry
    <3> QED BY <3>1, <3>2
  <2> QED BY <2>1, <2>2 DEF InOrder, QueueEntry, Precedes
<1>15. Counted'
  <2>1. /\ useCount'[slot] = use /\ releaseCount'[slot] = rel
        /\ \A s \in Slots : s # slot => useCount'[s] = useCount[s]
                                        /\ releaseCount'[s] = releaseCount[s]
    BY <1>1, <1>3, <1>4
  <2>2. ASSUME NEW s \in Slots, \A i \in Window' : QueueEntry(i)' # s
        PROVE  /\ Claims(s)' # {}
               /\ useCount'[s] = releaseCount'[s] + Cardinality(Claims(s)')
    <3>1. \A i \in Nat : next.slot <= i /\ i < slotQueueRecycle =>
            i \in Window' /\ QueueEntry(i)' = QueueEntry(i)
      BY <1>4, <1>5, <1>7, <1>12 DEF Window
    <3>2. freed => s # slot
      <4> SUFFICES ASSUME freed PROVE s # slot
        OBVIOUS
      <4>1. slotQueueRecycle \in Window'
        BY <1>4, <1>5, <1>7, <1>12 DEF Window
      <4> QED BY <1>5, <1>12, <2>2, <4>1
    <3>3. CASE s = slot
      <4>1. atEnd
        <5> SUFFICES ASSUME ~ atEnd PROVE FALSE
          OBVIOUS
        <5>1. next.slot = rxPos.slot
          BY <1>7
        <5>2. rxPos.slot <= rxPos.slot
          BY <1>3
        <5> QED BY <1>3, <2>2, <3>1, <3>3, <5>1, <5>2
      <4>2. rel # use
        BY <3>2, <3>3, <4>1
      <4>3. Cardinality(Claims(s)') # 0 /\ use = rel + Cardinality(Claims(s)')
        BY <1>10, <1>11, <3>3, <4>1, <4>2
      <4>4. Claims(s)' # {}
        BY <4>3, FS_EmptySet
      <4> QED BY <2>1, <3>3, <4>3, <4>4
    <3>4. CASE s # slot
      <4>1. ASSUME NEW i \in Window PROVE QueueEntry(i) # s
        <5>1. i \in Nat /\ rxPos.slot <= i /\ i < slotQueueRecycle
          BY <1>3, <1>5, <4>1 DEF Window
        <5>2. CASE next.slot <= i
          BY <2>2, <3>1, <5>1, <5>2
        <5>3. CASE ~ next.slot <= i
          <6>1. i = rxPos.slot
            BY <1>3, <1>7, <5>1, <5>3
          <6> QED BY <3>4, <6>1
        <5> QED BY <5>2, <5>3
      <4>2. Claims(s)' = Claims(s)
        BY <1>10, <3>4
      <4> QED BY <1>1, <2>1, <3>4, <4>1, <4>2 DEF Counted
    <3> QED BY <3>3, <3>4
  <2>3. rxPos'.off # 0 =>
          useCount'[rxData'] =
            releaseCount'[rxData'] + Cardinality(Claims(rxData)') + 1
    <3> SUFFICES ASSUME ~ atEnd
                 PROVE  useCount'[rxData'] =
                          releaseCount'[rxData']
                            + Cardinality(Claims(rxData)') + 1
      BY <1>4
    <3>1. rxData' = slot
      BY <1>4
    <3>2. Claims(rxData)' = Claims(slot)'
      BY <3>1 DEF Claims
    <3> QED BY <1>11, <2>1, <3>1, <3>2
  <2> QED BY <2>2, <2>3 DEF Counted
<1>16. QueueKeeps
  <2> SUFFICES ASSUME NEW i \in SlotsTaken .. slotQueueRecycle - 1
               PROVE  slotQueue'[i % QueueLen] = QueueEntry(i)
    BY DEF QueueKeeps
  <2>1. /\ rxPos.slot \in Nat /\ rxPos.slot < SlotsTaken /\ SlotsTaken \in Nat
        /\ slotQueueRecycle \in Nat
    <3>1. SlotsTaken \in Nat
      BY ReadyFacts
    <3>2. rxPos.off \in Nat /\ Below(rxPos.slot, rxPos.off, txPos)
      BY <1>3, <1>5
    <3> QED BY ONLY <1>3, <1>5, <3>1, <3>2 DEF Below
  <2>2. next.slot \in Nat /\ next.slot <= SlotsTaken
    BY <1>7, <2>1
  <2>3. i \in next.slot .. slotQueueRecycle - 1
    BY ONLY <2>1, <2>2, i \in SlotsTaken .. slotQueueRecycle - 1
  <2>4. QueueEntry(i)' = QueueEntry(i)
    BY <1>12, <2>3
  <2> QED BY <2>4 DEF QueueEntry
<1> QED BY <1>13, <1>14, <1>15, <1>16 DEF ReceiverInv

(* parse_rx_slots takes its snapshot where it stopped.                       *)
LEMMA SnapshotStep ==
  ASSUME SendReady, ParseBegin
  PROVE  ReceiverInv'
<1>1. /\ rxPos = rxLimit /\ rxLimit' = txPos
      /\ UNCHANGED <<pc, msg, localTxPos, txData, txPos, mem, rxPos, rxData>>
      /\ UNCHANGED <<useCount, releaseCount, slotQueue, slotQueueRecycle>>
  BY DEF ParseBegin, spaceVars, queueVars
<1>2. /\ InOrder /\ Apart /\ Counted /\ Unclaimed /\ TiledTo(mem, txPos) /\ Writer
      /\ txPos \in Positions
  BY DEF SendReady, ReceiverInv, Tiled, SpaceOK
<1>3. /\ txPos.slot \in Nat /\ txPos.off \in Nat
  BY ReadyFacts
<1>4. /\ Window' = Window
      /\ \A i : QueueEntry(i)' = QueueEntry(i)
      /\ \A slot : Claims(slot)' = Claims(slot)
  BY <1>1 DEF Window, QueueEntry, Claims
<1>5. InOrder'
  <2>1. Precedes(rxPos, txPos) /\ Precedes(txPos, txPos)
    BY <1>1, <1>2, <1>3 DEF InOrder, Precedes
  <2> QED BY <1>1, <1>2, <1>4, <2>1 DEF InOrder, Precedes
<1>6. Apart' /\ Unclaimed'
  BY <1>1, <1>2, <1>4 DEF Apart, Unclaimed, Header
<1>7. Counted'
  BY <1>1, <1>2, <1>4 DEF Counted
<1>8. Tiled'
  <2>1. ~ Below(txPos.slot, txPos.off, txPos)
    BY ONLY <1>3 DEF Below
  <2>2. \A i, o : Header(mem, i, o)' = Header(mem, i, o)
    BY <1>1, <1>4 DEF Header
  <2>3. \A i, o : i = txPos.slot /\ o < txPos.off => Below(i, o, txPos)
    BY DEF Below
  <2> QED BY <1>1, <1>2, <1>4, <2>1, <2>2, <2>3 DEF Tiled, TiledTo, Header
<1>9. Writer'
  <2>1. \A t : Writing(t)' <=> Writing(t)
    BY <1>1 DEF Writing
  <2>2. LastTxIndex' = LastTxIndex /\ \A t : MsgOffset(t)' = MsgOffset(t)
    BY <1>1 DEF LastTxIndex, MsgOffset
  <2>3. ASSUME NEW t, Written(mem, t)
        PROVE  Written(mem, t)'
    BY <1>1, <1>4, <2>2, <2>3 DEF Written, Padded, BlankFrom, Header
  <2>4. (localTxPos.off # 0 => txData = QueueEntry(localTxPos.slot))'
    BY <1>1, <1>2, <1>4 DEF Writer
  <2>5. (\A t \in Threads : ~ Writing(t)) =>
          (/\ txPos = localTxPos
           /\ localTxPos.off # 0 => BlankFrom(mem, txData, localTxPos.off))'
    BY <1>1, <1>2 DEF Writer, BlankFrom
  <2> QED BY <1>2, <2>1, <2>3, <2>4, <2>5 DEF Writer
<1> QED BY <1>5, <1>6, <1>7, <1>8, <1>9 DEF ReceiverInv

(* release_slot: a client gives up one claim, perhaps the last of its slot.  *)
LEMMA ReleaseStep ==
  ASSUME SendReady, NEW slot \in Slots, NEW off \in Offsets,
         ReleaseMessage(slot, off)
  PROVE  ReceiverInv' /\ ReaderKeeps /\ QueueKeeps
<1> DEFINE rel   == releaseCount[slot] + 1
           freed == rel = useCount[slot]
<1>1. /\ SpaceOK /\ InOrder /\ Apart /\ Counted /\ Unclaimed /\ Tiled
      /\ mem \in [Slots -> [Offsets -> Headers]]
      /\ useCount \in [Slots -> Nat] /\ releaseCount \in [Slots -> Nat]
      /\ TiledTo(mem, txPos) /\ rxPos \in Positions
      /\ Precedes(rxPos, rxLimit)
      /\ rxData = IF rxPos.off = 0 THEN NoSlot ELSE QueueEntry(rxPos.slot)
  BY DEF SendReady, ReceiverInv, SlotsOK, Tiled, InOrder
<1>2. /\ mem[slot][off].claimed
      /\ mem' = [mem EXCEPT ![slot][off].claimed = FALSE]
      /\ releaseCount' = [releaseCount EXCEPT ![slot] = rel]
      /\ Recycle(slot, freed)
      /\ UNCHANGED <<localTxPos, txPos, txData, pc, msg, rxLimit>>
      /\ UNCHANGED <<rxPos, rxData, useCount>>
  BY DEF ReleaseMessage
<1>3. /\ rxPos.slot \in Nat /\ rxPos.off \in Nat /\ slotQueueRecycle \in Nat
      /\ rxPos.slot <= slotQueueRecycle /\ SlotsTaken \in Nat
      /\ rxPos.off # 0 => rxPos.slot < slotQueueRecycle
      /\ off \in Nat
  <2>1. /\ rxPos.slot <= rxLimit.slot /\ rxLimit.slot <= txPos.slot
        /\ txPos.slot <= SlotsTaken /\ SlotsTaken <= slotQueueRecycle
        /\ {rxPos.slot, rxLimit.slot, txPos.slot, SlotsTaken,
            slotQueueRecycle, rxPos.off} \subseteq Nat
        /\ rxPos.off # 0 => rxPos.slot < SlotsTaken
    BY ReadyFacts
  <2>2. off \in Nat
    BY ONLY OffsetsAre, off \in Offsets
  <2> QED BY ONLY <2>1, <2>2
<1>4. \A x \in Slots, o \in Offsets :
        /\ mem'[x][o].type = mem[x][o].type
        /\ mem'[x][o].stride = mem[x][o].stride
        /\ x # slot \/ o # off => mem'[x][o] = mem[x][o]
        /\ x = slot /\ o = off => mem'[x][o].claimed = FALSE
  <2>1. FALSE \in BOOLEAN
    OBVIOUS
  <2> QED BY ONLY <1>1, <1>2, <2>1, slot \in Slots, off \in Offsets, ReadClaim
<1>5. /\ IsFiniteSet(Claims(slot)) /\ Cardinality(Claims(slot)) \in Nat
      /\ IsFiniteSet(Claims(slot)') /\ Cardinality(Claims(slot)') \in Nat
      /\ Cardinality(Claims(slot)') = Cardinality(Claims(slot)) - 1
      /\ \A s \in Slots : s # slot => Claims(s)' = Claims(s)
  <2>1. IsFiniteSet(Claims(slot)) /\ Cardinality(Claims(slot)) \in Nat
    BY ClaimsFinite
  <2>2. FALSE \in BOOLEAN /\ slot \in Slots /\ off \in Offsets
    OBVIOUS
  <2>3. \A x \in Slots, o \in Offsets :
          /\ x # slot \/ o # off => mem'[x][o] = mem[x][o]
          /\ x = slot /\ o = off => mem'[x][o].claimed = FALSE
    BY ONLY <1>4
  <2>4. /\ IsFiniteSet(Claims(slot)') /\ Cardinality(Claims(slot)') \in Nat
        /\ \A s \in Slots : s # slot => Claims(s)' = Claims(s)
        /\ mem[slot][off].claimed /\ ~ FALSE =>
             Cardinality(Claims(slot)') = Cardinality(Claims(slot)) - 1
    BY ONLY <2>2, <2>3, ClaimsStep
  <2> QED BY <1>2, <2>1, <2>4
<1>6. Cardinality(Claims(slot)) # 0
  <2>1. off \in Claims(slot)
    BY <1>2 DEF Claims
  <2> QED BY <1>5, <2>1, FS_EmptySet
(* A claimed header is in the slot being parsed, or in none of the queue.    *)
<1>7. ASSUME NEW i \in Nat, rxPos.slot <= i, i < slotQueueRecycle,
             QueueEntry(i) = slot
      PROVE  i = rxPos.slot /\ off < rxPos.off /\ rxPos.off # 0
  <2>1. i \in Window
    BY <1>7, WindowEntry
  <2>2. Header(mem, i, off).claimed
    BY <1>2, <1>7 DEF Header
  <2>3. i = rxPos.slot /\ ~ off >= rxPos.off
    BY <1>1, <2>1, <2>2 DEF Unclaimed
  <2> QED BY ONLY <1>3, <2>3
<1>8. freed => \A i \in rxPos.slot .. slotQueueRecycle - 1 : QueueEntry(i) # slot
  <2> SUFFICES ASSUME freed, NEW i \in rxPos.slot .. slotQueueRecycle - 1,
                      QueueEntry(i) = slot
               PROVE  FALSE
    OBVIOUS
  <2>1. i \in Nat /\ rxPos.slot <= i /\ i < slotQueueRecycle
    BY ONLY <1>3, i \in rxPos.slot .. slotQueueRecycle - 1
  <2>2. i = rxPos.slot /\ rxPos.off # 0
    BY <1>7, <2>1
  <2>3. useCount[slot] = releaseCount[slot] + Cardinality(Claims(slot)) + 1
    BY <1>1, <2>2 DEF Counted
  <2>4. useCount[slot] \in Nat /\ releaseCount[slot] \in Nat
    BY <1>1
  <2> QED BY <1>5, <1>6, <2>3, <2>4
<1>9. ASSUME \A i \in Window : QueueEntry(i) # slot
      PROVE  useCount[slot] = rel + Cardinality(Claims(slot)')
  <2>1. useCount[slot] = releaseCount[slot] + Cardinality(Claims(slot))
    BY <1>1, <1>9 DEF Counted
  <2>2. useCount[slot] \in Nat /\ releaseCount[slot] \in Nat
    BY <1>1
  <2> QED BY <1>5, <2>1, <2>2
<1>10. freed => \A o \in Offsets : ~ mem'[slot][o].claimed
  <2> SUFFICES ASSUME freed PROVE \A o \in Offsets : ~ mem'[slot][o].claimed
    OBVIOUS
  <2>1. useCount[slot] = rel + Cardinality(Claims(slot)')
    BY <1>8, <1>9 DEF Window
  <2>2. releaseCount[slot] \in Nat
    BY <1>1
  <2>3. Cardinality(Claims(slot)') = 0
    BY <1>5, <2>1, <2>2
  <2>4. Claims(slot)' = {}
    BY <1>5, <2>3, FS_EmptySet
  <2> QED BY <2>4 DEF Claims
<1>11. freed \in BOOLEAN
  OBVIOUS
<1> HIDE DEF freed
<1>12. Apart' /\ Unclaimed' /\ Tiled' /\ Writer' /\ ReaderKeeps
  <2>1. \A i \in Nat : rxPos'.slot <= i /\ i < slotQueueRecycle
                         /\ QueueEntry(i) = slot => Below(i, off, rxPos')
    BY <1>2, <1>7 DEF Below
  <2>2. /\ rxPos' \in Positions
        /\ Precedes(rxPos, rxPos') /\ Precedes(rxPos', rxLimit)
    BY <1>1, <1>2, <1>3 DEF Precedes
  <2>3. freed => \A i \in rxPos'.slot .. slotQueueRecycle - 1 :
                   QueueEntry(i) # slot
    BY <1>2, <1>8
  <2>4. Below(rxPos'.slot, rxPos'.off, txPos) =>
          Header(mem, rxPos'.slot, rxPos'.off).type # "NONE"
    BY <1>1, <1>2 DEF TiledTo
  <2>5. \A x \in Slots, o \in Offsets :
          /\ mem'[x][o].type = mem[x][o].type
          /\ mem'[x][o].stride = mem[x][o].stride
          /\ x # slot \/ o # off => mem'[x][o] = mem[x][o]
    BY <1>4
  <2>6. Recycle(slot, freed) /\ slot \in Slots /\ off \in Offsets
        /\ UNCHANGED <<localTxPos, txPos, txData, pc, msg, rxLimit>>
    BY <1>2
  <2> QED BY ONLY SendReady, <1>10, <1>11, <2>1, <2>2, <2>3, <2>4, <2>5, <2>6,
                  ReceiverStep
<1>13. /\ slotQueueRecycle' = IF freed THEN slotQueueRecycle + 1
                                       ELSE slotQueueRecycle
       /\ \A i \in rxPos.slot .. slotQueueRecycle - 1 :
            QueueEntry(i)' = QueueEntry(i)
       /\ freed => \A i \in Nat : i = slotQueueRecycle => QueueEntry(i)' = slot
  BY <1>1, <1>2, <1>3, <1>8, <1>11, RecycleStep
<1>14. InOrder'
  <2>1. rxPos.off # 0 =>
          slotQueue'[rxPos.slot % QueueLen] = QueueEntry(rxPos.slot)
    <3> SUFFICES ASSUME rxPos.off # 0
                 PROVE  QueueEntry(rxPos.slot)' = QueueEntry(rxPos.slot)
      BY <1>2 DEF QueueEntry
    <3>1. rxPos.slot \in rxPos.slot .. slotQueueRecycle - 1
      BY ONLY <1>3, rxPos.off # 0
    <3>2. slotQueue'[rxPos'.slot % QueueLen] = QueueEntry(rxPos.slot)
      BY <1>2, <1>13, <3>1 DEF QueueEntry
    <3> QED BY <1>2, <3>2 DEF QueueEntry
  <2>2. /\ Precedes(rxPos', rxLimit') /\ Precedes(rxLimit', txPos')
        /\ rxPos' \in Positions
    BY <1>1, <1>2 DEF InOrder
  <2>3. rxData' = IF rxPos'.off = 0 THEN NoSlot
                                    ELSE slotQueue'[rxPos'.slot % QueueLen]
    BY <1>1, <1>2, <2>1
  <2> QED BY <2>2, <2>3 DEF InOrder, Precedes, QueueEntry
<1>15. Counted'
  <2>1. /\ useCount' = useCount /\ releaseCount'[slot] = rel
        /\ \A s \in Slots : s # slot => releaseCount'[s] = releaseCount[s]
    BY <1>1, <1>2
  <2>2. \A i \in Window :
          i \in Window' /\ slotQueue'[i % QueueLen] = QueueEntry(i)
    <3> TAKE i \in Window
    <3>1. i \in rxPos.slot .. slotQueueRecycle - 1
      BY DEF Window
    <3>2. i \in Window'
      BY <1>2, <1>3, <1>13, <3>1 DEF Window
    <3>3. QueueEntry(i)' = QueueEntry(i)
      BY <1>13, <3>1
    <3> QED BY <3>2, <3>3 DEF QueueEntry
  <2>3. ASSUME NEW s \in Slots, \A i \in Window' : QueueEntry(i)' # s
        PROVE  /\ Claims(s)' # {}
               /\ useCount'[s] = releaseCount'[s] + Cardinality(Claims(s)')
    <3>1. \A i \in Window : QueueEntry(i) # s
      BY <2>2, <2>3 DEF QueueEntry
    <3>2. CASE s # slot
      <4>1. Claims(s)' = Claims(s)
        BY <1>5, <3>2
      <4> QED BY <1>1, <2>1, <3>1, <3>2, <4>1 DEF Counted
    <3>3. CASE s = slot
      <4>1. ~ freed
        <5> SUFFICES ASSUME freed PROVE FALSE
          OBVIOUS
        <5>1. slotQueueRecycle \in Window'
          BY <1>2, <1>3, <1>13 DEF Window
        <5> QED BY <1>3, <1>13, <2>3, <3>3, <5>1
      <4>2. useCount[slot] = rel + Cardinality(Claims(slot)')
        BY <1>9, <3>1, <3>3
      <4>3. Cardinality(Claims(slot)') # 0
        <5>1. rel \in Nat
          BY <1>1
        <5> QED BY <1>5, <4>1, <4>2, <5>1 DEF freed
      <4>4. Claims(slot)' # {}
        BY <4>3, FS_EmptySet
      <4> QED BY <2>1, <3>3, <4>2, <4>4
    <3> QED BY <3>2, <3>3
  <2>4. rxPos'.off # 0 =>
          useCount'[rxData'] =
            releaseCount'[rxData'] + Cardinality(Claims(rxData)') + 1
    <3> SUFFICES ASSUME rxPos.off # 0
                 PROVE  useCount'[rxData'] =
                          releaseCount'[rxData']
                            + Cardinality(Claims(rxData)') + 1
      BY <1>2
    <3>1. /\ useCount[rxData] =
               releaseCount[rxData] + Cardinality(Claims(rxData)) + 1
          /\ rxData = QueueEntry(rxPos.slot)
      BY <1>1 DEF Counted
    <3>2. rxData \in Slots /\ rxData' = rxData
      <4>1. rxPos.slot < slotQueueRecycle /\ rxPos.slot <= rxPos.slot
        BY <1>3
      <4> QED BY <1>2, <1>3, <3>1, <4>1, WindowEntry
    <3>3. \A s : s = rxData => Claims(rxData)' = Claims(s)'
      BY <3>2 DEF Claims
    <3>4. CASE rxData # slot
      <4>1. Claims(rxData)' = Claims(rxData)
        BY <1>5, <3>2, <3>3, <3>4 DEF Claims
      <4> QED BY <2>1, <3>1, <3>2, <3>4, <4>1
    <3>5. CASE rxData = slot
      <4>1. Claims(rxData)' = Claims(slot)'
        BY <3>3, <3>5
      <4>2. releaseCount[slot] \in Nat /\ useCount[slot] \in Nat
        BY <1>1
      <4> QED BY <1>5, <2>1, <3>1, <3>2, <3>5, <4>1, <4>2
    <3> QED BY <3>4, <3>5
  <2> QED BY <2>3, <2>4 DEF Counted
<1>16. QueueKeeps
  <2> SUFFICES ASSUME NEW i \in SlotsTaken .. slotQueueRecycle - 1
               PROVE  slotQueue'[i % QueueLen] = QueueEntry(i)
    BY DEF QueueKeeps
  <2>1. rxPos.slot <= SlotsTaken
    BY ReadyFacts
  <2>2. i \in rxPos.slot .. slotQueueRecycle - 1
    BY ONLY <1>3, <2>1, i \in SlotsTaken .. slotQueueRecycle - 1
  <2>3. QueueEntry(i)' = QueueEntry(i)
    BY <1>13, <2>2
  <2> QED BY <2>3 DEF QueueEntry
<1> QED BY <1>12, <1>14, <1>15, <1>16 DEF ReceiverInv

(* A thread moves between two points of queue_message outside its writing.   *)
LEMMA ThreadMoves ==
  ASSUME ThreadsOK, ReceiverInv, NEW t \in Threads,
         pc[t] \notin {"write", "publish"},
         \/ Return(t)
         \/ \E next \in {"dataWait", "dataRelock", "quotaWait", "quotaRelock",
                         "reserve"} : Goto(t, next),
         UNCHANGED <<spaceVars, rxVars, queueVars>>
  PROVE  ReceiverInv'
<1>1. /\ \A x \in Threads : x # t => pc'[x] = pc[x] /\ msg'[x] = msg[x]
      /\ pc'[t] \notin {"write", "publish"}
  BY DEF ThreadsOK, Goto, Return
<1>2. \A x \in Threads :
        Writing(x)' \/ Writing(x) => pc'[x] = pc[x] /\ msg'[x] = msg[x]
  BY <1>1 DEF Writing
<1> QED BY <1>2, ReceiverUntouched DEF queueVars

(* A thread enters queue_message.                                            *)
LEMMA ThreadEnters ==
  ASSUME ThreadsOK, ReceiverInv, NEW t \in Threads, pc[t] = "idle",
         NEW m, msg' = [msg EXCEPT ![t] = m], pc' = [pc EXCEPT ![t] = "lock"],
         UNCHANGED <<spaceVars, rxVars, queueVars>>
  PROVE  ReceiverInv'
<1>1. /\ \A x \in Threads : x # t => pc'[x] = pc[x] /\ msg'[x] = msg[x]
      /\ pc'[t] \notin {"write", "publish"}
  BY DEF ThreadsOK
<1>2. \A x \in Threads :
        Writing(x)' \/ Writing(x) => pc'[x] = pc[x] /\ msg'[x] = msg[x]
  BY <1>1 DEF Writing
<1> QED BY <1>2, ReceiverUntouched DEF queueVars

(* reserve_space, with or without a free slot.                               *)
LEMMA ReserveStep ==
  ASSUME SendReady, NEW t \in Threads, ReserveSpace(t)
  PROVE  ReceiverInv' /\ Keeps /\ Held' = Held
<1> DEFINE k      == msg[t].stride
           space  == SlotSize - localTxPos.off
           pos    == IF k > space
                     THEN [slot |-> localTxPos.slot + 1, off |-> 0]
                     ELSE localTxPos
           padded == IF k > space
                     THEN [mem EXCEPT ![txData][localTxPos.off] = Padding(space)]
                     ELSE mem
<1>1. /\ ThreadsOK /\ localTxPos \in Positions /\ pc[t] = "reserve"
      /\ ReceiverSide' = ReceiverSide
  BY DEF SendReady, SpaceOK, ReserveSpace, ReceiverSide, rxVars, queueVars
<1>2. k \in 1..SlotSize
  BY <1>1, StrideOfMessage
<1>3. /\ pos \in Positions /\ k <= SlotSize - pos.off
      /\ k > space => localTxPos.off # 0
  BY <1>1, <1>2, ReservedPosition
<1>4. \/ /\ pos.off # 0 /\ localTxPos' = Advance(pos, k) /\ Goto(t, "write")
         /\ UNCHANGED <<txPos, mem, txData>>
      \/ pos.off = 0 /\ slotAvailable > 0 /\ TakeSlot(t, pos, padded)
      \/ pos.off = 0 /\ FlushAndWait(t, pos, padded)
  BY DEF ReserveSpace
<1>5. \/ padded = mem /\ pos = localTxPos
      \/ /\ localTxPos.off # 0
         /\ pos = [slot |-> localTxPos.slot + 1, off |-> 0]
         /\ padded = [mem EXCEPT ![txData][localTxPos.off] = Padding(space)]
  BY <1>3
<1>6. CASE /\ pos.off # 0 /\ localTxPos' = Advance(pos, k) /\ Goto(t, "write")
           /\ UNCHANGED <<txPos, mem, txData>>
  <2>1. ~ k > space /\ pos = localTxPos
    BY <1>6
  <2> QED BY <1>1, <1>3, <1>6, <2>1, ReserveHere
<1>7. pos.off = 0 => pos.slot = SlotsTaken
  BY <1>3 DEF SlotsTaken
<1>8. CASE pos.off = 0 /\ slotAvailable > 0 /\ TakeSlot(t, pos, padded)
  <2> HIDE DEF pos, padded
  <2>1. \/ padded = mem /\ pos = localTxPos
        \/ /\ localTxPos.off # 0
           /\ padded = [mem EXCEPT ![txData][localTxPos.off] = Padding(space)]
    BY ONLY <1>5
  <2> QED BY <1>1, <1>3, <1>7, <1>8, <2>1, TakeSlotStep
<1>9. CASE pos.off = 0 /\ FlushAndWait(t, pos, padded)
  <2> HIDE DEF pos, padded
  <2> QED BY <1>1, <1>3, <1>5, <1>9, FlushStep
<1> QED BY <1>4, <1>6, <1>8, <1>9

(* reserve_space after its wait for slot_available_event.                    *)
LEMMA SlotDownStep ==
  ASSUME SendReady, NEW t \in Threads, SlotDown(t)
  PROVE  ReceiverInv' /\ Keeps /\ Held' = Held
<1>1. /\ localTxPos \in Positions /\ pc[t] = "slotWait" /\ slotAvailable > 0
      /\ ReceiverSide' = ReceiverSide /\ TakeSlot(t, localTxPos, mem)
  BY DEF SendReady, SpaceOK, SlotDown, ReceiverSide, rxVars, queueVars
<1>2. localTxPos.off = 0 /\ localTxPos.slot = SlotsTaken
  BY <1>1 DEF SendReady, SlotAccounting, SlotsTaken
<1> QED BY <1>1, <1>2, TakeSlotStep

(* Every step of the transport preserves the receiver's invariant.           *)
LEMMA StepReceiver ==
  SenderInv /\ ReceiverInv /\ [Next]_vars => ReceiverInv'
<1> SUFFICES ASSUME SenderInv, ReceiverInv, [Next]_vars
             PROVE  ReceiverInv'
  OBVIOUS
<1>1. SendReady /\ ThreadsOK
  BY DEF SendReady, SenderInv, StateTypeOK
<1>2. ASSUME NEW t \in Senders, NEW k \in Strides, SendCall(t, k)
      PROVE  ReceiverInv'
  <2>1. t \in Threads
    BY DEF Threads
  <2>2. /\ pc[t] = "idle" /\ pc' = [pc EXCEPT ![t] = "lock"]
        /\ msg' = [msg EXCEPT ![t] = [type |-> "DATA", svc |-> Svc[t],
                                      id |-> issued + 1, stride |-> k,
                                      claimed |-> FALSE]]
        /\ UNCHANGED <<spaceVars, rxVars, queueVars>>
    BY <1>2 DEF SendCall
  <2> QED BY <1>1, <2>1, <2>2, ThreadEnters
<1>3. ASSUME NEW k \in ControlStrides, ControlCall(k) PROVE ReceiverInv'
  <2>1. Handler \in Threads
    BY DEF Threads
  <2>2. PICK m : msg' = [msg EXCEPT ![Handler] = m]
    BY <1>3 DEF ControlCall
  <2>3. /\ pc[Handler] = "idle" /\ pc' = [pc EXCEPT ![Handler] = "lock"]
        /\ UNCHANGED <<spaceVars, rxVars, queueVars>>
    BY <1>3 DEF ControlCall
  <2> QED BY <1>1, <2>1, <2>2, <2>3, ThreadEnters
<1>4. ASSUME NEW s \in Services, MarkClosing(s) \/ SyncClosing(s)
      PROVE  ReceiverInv'
  BY <1>4, ReceiverUntouched DEF MarkClosing, SyncClosing, queueVars
<1>5. ASSUME NEW s \in Services, CloseCall(s) PROVE ReceiverInv'
  <2>1. Handler \in Threads
    BY DEF Threads
  <2>2. PICK m : msg' = [msg EXCEPT ![Handler] = m]
    BY <1>5 DEF CloseCall
  <2>3. /\ pc[Handler] = "idle" /\ pc' = [pc EXCEPT ![Handler] = "lock"]
        /\ UNCHANGED <<spaceVars, rxVars, queueVars>>
    BY <1>5 DEF CloseCall
  <2> QED BY <1>1, <2>1, <2>2, <2>3, ThreadEnters
<1>6. ASSUME NEW t \in Threads, ThreadStep(t) PROVE ReceiverInv'
  <2>1. CASE LockForData(t)
    BY <1>1, <2>1, ThreadMoves DEF LockForData, ServiceQuota
  <2>2. CASE LockForControl(t)
    BY <1>1, <2>2, ThreadMoves DEF LockForControl
  <2>3. CASE DataQuotaDown(t)
    BY <1>1, <2>3, ThreadMoves DEF DataQuotaDown
  <2>4. CASE DataRelock(t)
    BY <1>1, <2>4, ThreadMoves DEF DataRelock, ServiceQuota
  <2>5. CASE QuotaDown(t)
    BY <1>1, <2>5, ThreadMoves DEF QuotaDown
  <2>6. CASE QuotaRelock(t)
    BY <1>1, <2>6, ThreadMoves DEF QuotaRelock, ServiceQuota
  <2>7. CASE ReserveSpace(t)
    BY <1>1, <2>7, ReserveStep
  <2>8. CASE SlotDown(t)
    BY <1>1, <2>8, SlotDownStep
  <2>9. CASE WriteHeader(t)
    <3>1. /\ pc[t] = "write" /\ Goto(t, "publish")
          /\ mem' = [mem EXCEPT ![txData][MsgOffset(t)] = msg[t]]
          /\ UNCHANGED <<localTxPos, txPos, txData>>
          /\ ReceiverSide' = ReceiverSide
      BY <2>9 DEF WriteHeader, MsgOffset, ReceiverSide, rxVars, queueVars
    <3> QED BY <1>1, <3>1, WriteStep
  <2>10. CASE Publish(t)
    <3>1. /\ pc[t] = "publish" /\ txPos' = localTxPos /\ Return(t)
          /\ UNCHANGED <<localTxPos, txData, mem>>
          /\ ReceiverSide' = ReceiverSide
      BY <2>10 DEF Publish, ReceiverSide, rxVars, queueVars
    <3> QED BY <1>1, <3>1, PublishStep
  <2> QED BY <1>6, <2>1, <2>2, <2>3, <2>4, <2>5, <2>6, <2>7, <2>8, <2>9, <2>10
          DEF ThreadStep
<1>7. CASE ProcessFreeSlot
  BY <1>7, ReceiverUntouched DEF ProcessFreeSlot, Writing
<1>8. CASE ParseBegin BY <1>1, <1>8, SnapshotStep
<1>9. CASE ParseMessage BY <1>1, <1>9, ParseStep
<1>10. CASE Release
  BY <1>1, <1>10, ReleaseStep DEF Release
<1>11. CASE UNCHANGED vars
  BY <1>11, ReceiverUntouched DEF vars, queueVars
<1> QED
  BY <1>2, <1>3, <1>4, <1>5, <1>6, <1>7, <1>8, <1>9, <1>10, <1>11
  DEF Next, Parse

(* The queue has not wrapped yet.                                            *)
LEMMA ModSmall ==
  ASSUME NEW i \in Nat, i < QueueLen
  PROVE  i % QueueLen = i
<1>1. QueueLen \in Nat \ {0}
  BY SlotFacts
<1> DEFINE a == i \div QueueLen
<1>2. a \in Nat /\ i % QueueLen \in Nat /\ i = QueueLen * a + (i % QueueLen)
  <2>1. /\ a \in Nat /\ i % QueueLen \in 0 .. QueueLen - 1
        /\ i = QueueLen * a + (i % QueueLen)
    BY ONLY <1>1, DivMod, i \in Nat
  <2> QED BY <1>1, <2>1
<1> HIDE DEF a
<1>3. a = 0
  <2>1. a >= 1 => QueueLen * a >= QueueLen
    BY <1>1, <1>2
  <2> QED BY <1>1, <1>2, <2>1
<1> QED BY <1>1, <1>2, <1>3

(* vchiq_init_state and vchiq_init_slots establish the receiver's invariant. *)
LEMMA InitReceiver == Init => ReceiverInv
<1> SUFFICES ASSUME Init PROVE ReceiverInv
  OBVIOUS
<1>1. /\ NSlots \in Nat \ {0} /\ QueueLen \in Nat /\ NSlots <= QueueLen
      /\ SlotFirst \in Nat /\ SlotLast \in Nat
      /\ \A i \in 0..(NSlots - 1) : SlotFirst + i \in Slots
  BY SlotFacts
<1>2. Window = 0 .. NSlots - 1
  BY <1>1 DEF Init, Window
<1>3. \A i \in 0 .. NSlots - 1 : QueueEntry(i) = SlotFirst + i
  <2> TAKE i \in 0 .. NSlots - 1
  <2>1. i \in Nat /\ i < QueueLen /\ i \in 0..(QueueLen - 1)
    BY <1>1
  <2>2. i % QueueLen = i
    BY <2>1, ModSmall
  <2>3. slotQueue[i] = SlotFirst + i
    <3>1. i < NSlots
      BY <1>1
    <3> QED BY <2>1, <3>1 DEF Init
  <2> QED BY <2>2, <2>3 DEF QueueEntry
<1>4. \A slot \in Slots, o \in Offsets : mem[slot][o] = NoHeader
  BY DEF Init, Blank
<1>5. 0 \in Offsets /\ \A o \in Offsets : o \in Nat
  BY OffsetsAre
<1>6. InOrder
  BY <1>5 DEF Init, InOrder, Positions, Precedes
<1>7. Apart
  BY <1>1, <1>2, <1>3 DEF Apart
<1>8. Counted
  <2>1. \A slot \in Slots : \E i \in Window : QueueEntry(i) = slot
    <3> TAKE slot \in Slots
    <3>1. slot - SlotFirst \in 0 .. NSlots - 1
      BY <1>1 DEF Slots, NSlots
    <3>2. QueueEntry(slot - SlotFirst) = slot
      BY <1>1, <1>3, <3>1 DEF Slots
    <3> QED BY <1>2, <3>1, <3>2
  <2>2. rxPos.off = 0
    BY DEF Init
  <2> QED BY <2>1, <2>2 DEF Counted
<1>9. Unclaimed
  BY <1>4, <1>7 DEF Unclaimed, Header, Apart, NoHeader
<1>10. Tiled
  <2>1. txPos.slot = 0 /\ txPos.off = 0
    BY DEF Init
  <2>2. rxPos = txPos /\ rxLimit = txPos
    BY DEF Init
  <2>3. \A i \in Window, o \in Offsets : i \in Nat /\ o \in Nat
    BY <1>1, <1>2, <1>5
  <2>4. \A i \in Nat, o \in Nat : ~ Below(i, o, txPos)
    BY ONLY <2>1 DEF Below
  <2>5. \A i \in Window, o \in Offsets : ~ Below(i, o, txPos)
    BY ONLY <2>3, <2>4
  <2>6. ~ Below(rxPos.slot, rxPos.off, txPos)
    BY <2>1, <2>2, <2>4
  <2> QED BY <1>5, <2>2, <2>5, <2>6 DEF Tiled, TiledTo
<1>11. Writer
  BY DEF Init, Writer, Writing
<1> QED BY <1>6, <1>7, <1>8, <1>9, <1>10, <1>11 DEF ReceiverInv

(* Both sides of the transport.                                              *)
TransportInv == SenderInv /\ ReceiverInv

(* The inductive invariant of the transport holds: tx_pos, rx_pos, the slot  *)
(* queue, the reference counts and the headers in the slots fit together.    *)
THEOREM TransportInvariant == Spec => []TransportInv
<1>1. Init => TransportInv
  BY InitSender, InitReceiver DEF TransportInv
<1>2. TransportInv /\ [Next]_vars => TransportInv'
  <2>1. SenderInv /\ [Next]_vars => SenderInv'
    BY StepThreads, StepSpace, StepQuotas, StepSlots, StepMutex,
       StepAccounting, StepQuotaInv DEF SenderInv, StateTypeOK
  <2> QED BY <2>1, StepReceiver DEF TransportInv
<1> QED BY <1>1, <1>2, PTL DEF Spec

(* What parse_rx_slots dispatched were messages.                             *)
Delivered == delivered \in Seq(Messages)

(* parse_rx_slots dispatches headers queue_message wrote.                    *)
LEMMA StepDelivered ==
  TransportInv /\ Delivered /\ [Next]_vars => Delivered'
<1> SUFFICES ASSUME TransportInv, Delivered, [Next]_vars
             PROVE  Delivered'
  OBVIOUS
<1>1. CASE ParseMessage
  <2>1. SendReady /\ rxPos # rxLimit
    BY <1>1 DEF TransportInv, SenderInv, StateTypeOK, SendReady, ParseMessage
  <2> DEFINE h == mem[QueueEntry(rxPos.slot)][rxPos.off]
  <2>2. /\ h \in Headers /\ h.type # "NONE" /\ ~ h.claimed
        /\ QueueEntry(rxPos.slot) =
             IF rxData = NoSlot THEN slotQueue[rxPos.slot % QueueLen]
                                ELSE rxData
    BY <2>1, ParserFacts
  <2>3. h.type # "PADDING" => h \in Messages
    BY <2>2 DEF Headers, Messages
  <2>4. delivered' = IF h.type = "PADDING" THEN delivered
                                           ELSE Append(delivered, h)
    BY <1>1, <2>2 DEF ParseMessage
  <2> QED BY <2>3, <2>4 DEF Delivered
<1>2. CASE ~ ParseMessage
  <2>1. delivered' = delivered
    BY <1>2
    DEF Next, SendCall, ControlCall, MarkClosing, SyncClosing, CloseCall,
        rxVars, ThreadStep, LockForData, LockForControl, DataQuotaDown,
        DataRelock, QuotaDown, QuotaRelock, ReserveSpace, SlotDown,
        WriteHeader, Publish, ProcessFreeSlot, Parse, ParseBegin, Release,
        ReleaseMessage, vars
  <2> QED BY <2>1 DEF Delivered
<1> QED BY <1>1, <1>2

(* Every variable has its type; rx_pos stays on a boundary of the sender's   *)
(* and what parse_rx_slots dispatches are messages.                          *)
THEOREM TypeCorrect == Spec => []TypeOK
<1>1. Init => Delivered
  BY DEF Init, Delivered
<1>2. TransportInv /\ Delivered => TypeOK
  BY DEF TransportInv, Delivered, SenderInv, ReceiverInv, InOrder, TypeOK
<1> QED BY TransportInvariant, StepDelivered, <1>1, <1>2, PTL DEF Spec

(* release_slot gives each slot back once and only when the parser and all   *)
(* clients are done with it: every slot is free, unread or held, and a free  *)
(* slot is nothing else.                                                     *)
THEOREM SlotsConservedCorrect == Spec => []SlotsConserved
<1>1. TransportInv => SlotsConserved
  <2> SUFFICES ASSUME TransportInv PROVE SlotsConserved
    OBVIOUS
  <2>1. SendReady /\ Apart /\ Counted /\ Unclaimed
    BY DEF TransportInv, SenderInv, StateTypeOK, SendReady, ReceiverInv
  <2>2. /\ rxPos.slot \in Nat /\ rxPos.off \in Nat
        /\ SlotsTaken \in Nat /\ slotQueueRecycle \in Nat
        /\ rxPos.slot <= SlotsTaken /\ SlotsTaken <= slotQueueRecycle
        /\ rxPos.off # 0 => rxPos.slot < SlotsTaken
    <3>1. /\ rxPos.slot <= rxLimit.slot /\ rxLimit.slot <= txPos.slot
          /\ txPos.slot <= SlotsTaken /\ SlotsTaken <= slotQueueRecycle
          /\ {rxPos.slot, rxLimit.slot, txPos.slot, SlotsTaken,
              slotQueueRecycle, rxPos.off} \subseteq Nat
          /\ rxPos.off # 0 => rxPos.slot < SlotsTaken
      BY <2>1, ReadyFacts
    <3> QED BY ONLY <3>1
  <2> DEFINE F == SlotsTaken .. slotQueueRecycle - 1
             U == rxPos.slot .. SlotsTaken - 1
  <2>3. FreeSlots = {QueueEntry(i) : i \in F}
        /\ UnreadSlots = {QueueEntry(i) : i \in U}
    BY DEF FreeSlots, UnreadSlots, QueuedSlots, QueueEntry
  <2>4. /\ \A i \in F : i \in Nat /\ i \in Window /\ SlotsTaken <= i
        /\ \A i \in U : i \in Nat /\ i \in Window /\ i < SlotsTaken
        /\ \A i \in Window : i \in F \/ i \in U
    BY ONLY <2>2 DEF Window
  <2>5. Cardinality(FreeSlots) = slotQueueRecycle - SlotsTaken
    <3>1. IsFiniteSet(F) /\ Cardinality(F) = slotQueueRecycle - SlotsTaken
      <4>1. SlotsTaken \in Int /\ slotQueueRecycle - 1 \in Int
        BY ONLY <2>2
      <4>2. /\ IsFiniteSet(F)
            /\ Cardinality(F) = IF SlotsTaken > slotQueueRecycle - 1 THEN 0
                                ELSE slotQueueRecycle - 1 - SlotsTaken + 1
        BY ONLY <4>1, FS_Interval
      <4> HIDE DEF F
      <4> QED BY ONLY <2>2, <4>2
    <3> DEFINE f == [i \in F |-> QueueEntry(i)]
    <3>2. f \in Bijection(F, FreeSlots)
      BY <2>1, <2>3, <2>4
      DEF Apart, Bijection, Injection, Surjection, IsInjective
    <3> QED BY <3>1, <3>2, FS_Bijection DEF ExistsBijection
  <2>6. FreeSlots \intersect (UnreadSlots \union HeldSlots) = {}
    <3>1. ASSUME NEW i \in F, NEW j \in U PROVE QueueEntry(i) # QueueEntry(j)
      <4>1. i # j
        BY <2>2, <2>4, <3>1
      <4> QED BY <2>1, <2>4, <4>1 DEF Apart
    <3>2. ASSUME NEW i \in F PROVE QueueEntry(i) \notin HeldSlots
      <4>1. \A o \in Offsets : i = rxPos.slot => o >= rxPos.off
        BY <2>2, <2>4, OffsetsAre
      <4> QED BY <2>1, <2>4, <4>1 DEF Unclaimed, Header, HeldSlots
    <3> QED BY <2>3, <3>1, <3>2
  <2>7. FreeSlots \union UnreadSlots \union HeldSlots = Slots
    <3>1. FreeSlots \union UnreadSlots \union HeldSlots \subseteq Slots
      BY <2>1, <2>3, <2>4 DEF Apart, HeldSlots
    <3>2. ASSUME NEW s \in Slots
          PROVE  s \in FreeSlots \union UnreadSlots \union HeldSlots
      <4>1. CASE \E i \in Window : QueueEntry(i) = s
        BY <2>3, <2>4, <4>1
      <4>2. CASE \A i \in Window : QueueEntry(i) # s
        BY <2>1, <4>2 DEF Counted, Claims, HeldSlots
      <4> QED BY <4>1, <4>2
    <3> QED BY <3>1, <3>2
  <2> QED BY <2>5, <2>6, <2>7 DEF SlotsConserved
<1> QED BY TransportInvariant, <1>1, PTL

-----------------------------------------------------------------------------
(* The transport implements MessageStream.                                   *)

(* The messages sent and not yet delivered.                                  *)
Indices == Len(delivered) + 1 .. Len(sent)

(* Nothing is written inside an unread message or padding.                   *)
Solid ==
  \A p, q \in Unread :
    /\ Content(p).type # "NONE" /\ q.slot = p.slot
    /\ p.off < q.off /\ q.off < p.off + Content(p).stride
    => Content(q).type = "NONE"

(* Where the messages sent and not yet delivered stand, in their order.      *)
Tracking(place) ==
  /\ \A n \in Indices : place[n] \in Unread /\ Content(place[n]) = sent[n]
  /\ \A n, k \in Indices :
       n < k => Below(place[n].slot, place[n].off, place[k])
  /\ \A p \in Unread : Content(p).type \notin {"NONE", "PADDING"} =>
       \E n \in Indices : place[n] = p

(* The unread part of the stream carries what was sent and not yet           *)
(* delivered, in order and complete.                                         *)
StreamInv ==
  /\ Len(delivered) <= Len(sent)
  /\ Solid
  /\ \E place \in [1 .. Len(sent) -> Positions] : Tracking(place)

(* What a step of the sender adds to the unread part of the stream.          *)
NewHeaders ==
  {p \in Positions : /\ ~ Below(p.slot, p.off, txPos)
                     /\ Below(p.slot, p.off, txPos')
                     /\ Header(mem', p.slot, p.off).type # "NONE"}

(* Nothing is written behind what a step publishes in its slot.              *)
Capped ==
  \A p \in NewHeaders, q \in Positions :
    q.slot = p.slot /\ q.off > p.off => Header(mem', q.slot, q.off).type = "NONE"

(* The span of an unread header stays below the transmit position.           *)
LEMMA SpanBelow ==
  ASSUME SendReady, NEW p \in Unread, NEW q \in Positions,
         Content(p).type # "NONE", q.slot = p.slot, p.off < q.off,
         q.off < p.off + Content(p).stride
  PROVE  q \in Unread
<1>1. /\ p.slot \in Nat /\ p.off \in Offsets /\ q.off \in Offsets
      /\ ~ Below(p.slot, p.off, rxPos) /\ Below(p.slot, p.off, txPos)
      /\ TiledTo(mem, txPos) /\ mem \in [Slots -> [Offsets -> Headers]]
  BY DEF Unread, Positions, SendReady, ReceiverInv, Tiled, SlotsOK
<1>2. p.off \in Nat /\ q.off \in Nat
  BY ONLY <1>1, OffsetsAre
<1>3. /\ {rxPos.slot, txPos.slot, SlotsTaken, slotQueueRecycle} \subseteq Nat
      /\ txPos.slot <= SlotsTaken /\ SlotsTaken <= slotQueueRecycle
      /\ txPos.off # 0 => txPos.slot < SlotsTaken
      /\ txPos.off \in Nat /\ rxPos.off \in Nat
  BY ReadyFacts
<1>4. rxPos.slot <= p.slot /\ p.slot < slotQueueRecycle
  BY ONLY <1>1, <1>2, <1>3 DEF Below
<1>5. p.slot \in Window
  BY <1>1, <1>4, WindowEntry
<1>6. Content(p).stride \in Nat
  BY <1>1, <1>5, StridesAre DEF Content
<1>7. p.slot = txPos.slot => p.off + Content(p).stride <= txPos.off
  BY <1>1, <1>5 DEF TiledTo, Content
<1>8. ~ Below(q.slot, q.off, rxPos) /\ Below(q.slot, q.off, txPos)
  BY ONLY <1>1, <1>2, <1>3, <1>6, <1>7, q.slot = p.slot, p.off < q.off,
          q.off < p.off + Content(p).stride DEF Below
<1> QED BY <1>8 DEF Unread

(* The sender keeps the unread messages, and adds at most one.               *)
LEMMA SenderStream ==
  ASSUME SendReady, StreamInv, ReceiverSide' = ReceiverSide, Keeps, Capped,
         txPos' \in Positions, Precedes(txPos, txPos'),
         delivered' = delivered,
         sent \in Seq(Messages), delivered \in Seq(Messages),
         \/ /\ sent' = sent
            /\ \A p \in NewHeaders : Header(mem', p.slot, p.off).type = "PADDING"
         \/ \E m \in Messages, start \in NewHeaders :
              /\ sent' = Append(sent, m)
              /\ Header(mem', start.slot, start.off) = m
              /\ \A p \in NewHeaders :
                   p = start \/ Header(mem', p.slot, p.off).type = "PADDING"
  PROVE  StreamInv'
<1>1. PICK place \in [1 .. Len(sent) -> Positions] : Tracking(place)
  BY DEF StreamInv
<1>2. rxPos' = rxPos /\ \A p : Content(p)' = Header(mem', p.slot, p.off)
  BY DEF ReceiverSide, Content, Header, QueueEntry
<1>3. \A p \in Unread : p \in Unread' /\ Content(p)' = Content(p)
  <2> TAKE p \in Unread
  <2>1. /\ p \in Positions /\ p.slot \in Nat /\ p.off \in Offsets
        /\ ~ Below(p.slot, p.off, rxPos) /\ Below(p.slot, p.off, txPos)
    BY DEF Unread, Positions
  <2>2. /\ p.off \in Nat /\ txPos.slot \in Nat /\ txPos.off \in Nat
        /\ txPos'.slot \in Nat /\ txPos'.off \in Nat
    BY <2>1, OffsetsAre, ReadyFacts DEF Positions
  <2>3. Below(p.slot, p.off, txPos')
    BY ONLY <2>1, <2>2, Precedes(txPos, txPos') DEF Below, Precedes
  <2>4. Content(p)' = Content(p)
    BY <1>2 DEF Keeps, Content
  <2> QED BY <1>2, <2>1, <2>3, <2>4 DEF Unread
<1>4. \A p \in Unread' : /\ p \in Positions
                         /\ p \in Unread \/ Content(p)'.type = "NONE"
                              \/ p \in NewHeaders
  BY <1>2 DEF Unread, NewHeaders
<1>5. Solid'
  <2> SUFFICES ASSUME NEW p \in Unread', NEW q \in Unread',
                      Content(p)'.type # "NONE", q.slot = p.slot,
                      p.off < q.off, q.off < p.off + Content(p)'.stride
               PROVE  Content(q)'.type = "NONE"
    BY DEF Solid
  <2>1. CASE p \in Unread
    <3>1. Content(p)' = Content(p)
      BY <1>3, <2>1
    <3>2. q \in Positions
      BY <1>4
    <3>3. q \in Unread
      BY <2>1, <3>1, <3>2, SpanBelow
    <3>4. Content(q).type = "NONE"
      BY <2>1, <3>1, <3>3 DEF StreamInv, Solid
    <3> QED BY <1>3, <3>3, <3>4
  <2>2. CASE p \in NewHeaders
    <3>1. q \in Positions /\ p.off \in Offsets /\ q.off \in Offsets
      BY <1>4 DEF Positions
    <3>2. q.off > p.off
      BY <3>1, OffsetsAre
    <3> QED BY <1>2, <2>2, <3>1, <3>2 DEF Capped
  <2> QED BY <1>4, <2>1, <2>2
<1>6. CASE /\ sent' = sent
           /\ \A p \in NewHeaders : Header(mem', p.slot, p.off).type = "PADDING"
  <2>1. Indices' = Indices
    BY <1>6 DEF Indices
  <2>2. \A n \in Indices : place[n] \in Unread' /\ Content(place[n])' = sent[n]
    BY <1>1, <1>3 DEF Tracking
  <2>3. \A p \in Unread' : Content(p)'.type \notin {"NONE", "PADDING"} =>
          \E n \in Indices : place[n] = p
    BY <1>1, <1>2, <1>3, <1>4, <1>6 DEF Tracking
  <2>4. \A n, k \in Indices :
          n < k => Below(place[n].slot, place[n].off, place[k])
    BY <1>1 DEF Tracking
  <2>5. Tracking(place)'
    BY <1>6, <2>1, <2>2, <2>3, <2>4 DEF Tracking, Below
  <2> QED BY <1>1, <1>5, <1>6, <2>5 DEF StreamInv
<1>7. CASE \E m \in Messages, start \in NewHeaders :
             /\ sent' = Append(sent, m)
             /\ Header(mem', start.slot, start.off) = m
             /\ \A p \in NewHeaders :
                  p = start \/ Header(mem', p.slot, p.off).type = "PADDING"
  <2>1. PICK m \in Messages, start \in NewHeaders :
             /\ sent' = Append(sent, m)
             /\ Header(mem', start.slot, start.off) = m
             /\ \A p \in NewHeaders :
                  p = start \/ Header(mem', p.slot, p.off).type = "PADDING"
    BY <1>7
  <2> DEFINE N == Len(sent) + 1
  <2>2. /\ Len(sent) \in Nat /\ Len(delivered) \in Nat /\ Len(sent') = N
        /\ sent'[N] = m /\ \A n \in 1 .. Len(sent) : sent'[n] = sent[n]
        /\ Len(delivered) <= Len(sent) /\ Len(delivered') <= N
    BY <2>1 DEF StreamInv
  <2>3. /\ Indices' = Len(delivered) + 1 .. N
        /\ N \in Indices' /\ \A n \in Indices' : n \in Indices \/ n = N
        /\ \A n \in Indices : n \in 1 .. Len(sent) /\ n # N /\ n \in Indices'
                              /\ n \in Nat /\ n < N
    BY <2>2 DEF Indices
  <2>4. /\ start \in Positions /\ start \in Unread'
        /\ ~ Below(start.slot, start.off, txPos)
    <3>1. /\ start \in Positions /\ start.slot \in Nat /\ start.off \in Nat
          /\ ~ Below(start.slot, start.off, txPos)
          /\ Below(start.slot, start.off, txPos')
      BY OffsetsAre DEF NewHeaders, Positions
    <3>2. /\ rxPos.slot \in Nat /\ rxPos.off \in Nat
          /\ rxLimit.slot \in Nat /\ rxLimit.off \in Nat
          /\ txPos.slot \in Nat /\ txPos.off \in Nat
          /\ Precedes(rxPos, rxLimit) /\ Precedes(rxLimit, txPos)
      BY ReadyFacts DEF SendReady, ReceiverInv, InOrder
    <3>3. ~ Below(start.slot, start.off, rxPos)
      BY ONLY <3>1, <3>2 DEF Below, Precedes
    <3> QED BY <1>2, <3>1, <3>3 DEF Unread
  <2>5. PICK new \in [1 .. N -> Positions] :
               new[N] = start /\ \A n \in Indices : new[n] = place[n]
    <3> DEFINE f == [n \in 1 .. N |-> IF n = N THEN start ELSE place[n]]
    <3>1. f \in [1 .. N -> Positions]
      BY <1>1, <2>2, <2>4
    <3>2. f[N] = start /\ \A n \in Indices : f[n] = place[n]
      BY <2>2, <2>3
    <3> HIDE DEF f
    <3> QED BY <3>1, <3>2
  <2>6. new[N] = start /\ \A n \in Indices : new[n] = place[n]
    BY <2>5
  <2> HIDE DEF N
  <2>7. \A n \in Indices' : new[n] \in Unread' /\ Content(new[n])' = sent'[n]
    BY <1>1, <1>2, <1>3, <2>1, <2>2, <2>3, <2>4, <2>6 DEF Tracking
  <2>8. \A n, k \in Indices' :
          n < k => Below(new[n].slot, new[n].off, new[k])
    <3> SUFFICES ASSUME NEW n \in Indices', NEW k \in Indices', n < k
                 PROVE  Below(new[n].slot, new[n].off, new[k])
      OBVIOUS
    <3>1. CASE k \in Indices /\ n \in Indices
      BY <1>1, <2>6, <3>1 DEF Tracking
    <3>2. CASE k = N /\ n \in Indices
      <4>1. place[n] \in Unread /\ new[n] = place[n]
        BY <1>1, <2>6, <3>2 DEF Tracking
      <4>2. /\ place[n].slot \in Nat /\ place[n].off \in Nat
            /\ Below(place[n].slot, place[n].off, txPos)
            /\ start.slot \in Nat /\ start.off \in Nat
            /\ txPos.slot \in Nat /\ txPos.off \in Nat
        BY <2>4, <4>1, OffsetsAre, ReadyFacts DEF Unread, Positions
      <4>3. Below(place[n].slot, place[n].off, start)
        BY ONLY <2>4, <4>2 DEF Below
      <4> QED BY <2>6, <3>2, <4>1, <4>3
    <3>3. (k = N /\ n \in Indices) \/ (k \in Indices /\ n \in Indices)
      <4>1. n \in Nat /\ k \in Nat /\ N \in Nat /\ n <= N /\ k <= N
        BY <2>2, <2>3 DEF N
      <4>2. n # N
        BY ONLY <4>1, n < k
      <4> QED BY <2>3, <4>2
    <3> QED BY <3>1, <3>2, <3>3
  <2>9. \A p \in Unread' : Content(p)'.type \notin {"NONE", "PADDING"} =>
          \E n \in Indices' : new[n] = p
    <3> SUFFICES ASSUME NEW p \in Unread',
                        Content(p)'.type \notin {"NONE", "PADDING"}
                 PROVE  \E n \in Indices' : new[n] = p
      OBVIOUS
    <3>1. CASE p \in Unread
      BY <1>1, <1>3, <2>3, <2>6, <3>1 DEF Tracking
    <3>2. CASE p \in NewHeaders
      BY <1>2, <2>1, <2>3, <2>6, <3>2
    <3> QED BY <1>4, <3>1, <3>2
  <2>10. Tracking(new)'
    BY <2>7, <2>8, <2>9 DEF Tracking, Below
  <2>11. Len(delivered') <= Len(sent')
    BY <2>2
  <2> QED BY <1>5, <2>2, <2>5, <2>10, <2>11 DEF StreamInv
<1> QED BY <1>6, <1>7

(* A step of the sender that leaves tx_pos alone publishes nothing.          *)
LEMMA NothingPublished ==
  ASSUME SendReady, txPos' = txPos
  PROVE  NewHeaders = {} /\ Capped /\ txPos' \in Positions
         /\ Precedes(txPos, txPos')
<1>1. txPos \in Positions /\ txPos.slot \in Nat /\ txPos.off \in Nat
  BY ReadyFacts DEF SendReady, SpaceOK
<1>2. Precedes(txPos, txPos')
  BY <1>1 DEF Precedes
<1> QED BY <1>1, <1>2 DEF NewHeaders, Capped

(* The padding at the end of a slot is no message.                           *)
LEMMA FlushPublishes ==
  ASSUME SendReady, NEW t \in Threads, pc[t] = "reserve",
         NEW pos \in Positions, pos.off = 0, NEW padded,
         \/ padded = mem /\ pos = localTxPos
         \/ /\ localTxPos.off # 0
            /\ pos = [slot |-> localTxPos.slot + 1, off |-> 0]
            /\ padded = [mem EXCEPT ![txData][localTxPos.off] =
                                       Padding(SlotSize - localTxPos.off)],
         FlushAndWait(t, pos, padded)
  PROVE  /\ Capped /\ txPos' \in Positions /\ Precedes(txPos, txPos')
         /\ \A p \in NewHeaders : Header(mem', p.slot, p.off).type = "PADDING"
<1>1. \A x \in Threads : ~ Writing(x)
  BY AloneInside DEF Writing
<1>2. txPos' = pos /\ mem' = padded
  BY DEF FlushAndWait
<1>3. CASE padded = mem /\ pos = localTxPos
  <2>1. txPos' = txPos
    BY <1>1, <1>2, <1>3 DEF SendReady, ReceiverInv, Writer
  <2> QED BY <2>1, NothingPublished
<1>4. CASE /\ localTxPos.off # 0
           /\ pos = [slot |-> localTxPos.slot + 1, off |-> 0]
           /\ padded = [mem EXCEPT ![txData][localTxPos.off] =
                                      Padding(SlotSize - localTxPos.off)]
  <2> DEFINE k == SlotSize - txPos.off
  <2>1. /\ txPos = localTxPos /\ txPos.off \in Offsets /\ txPos.slot \in Nat
        /\ txData = QueueEntry(txPos.slot) /\ txData \in Slots
        /\ BlankFrom(mem, txData, txPos.off)
        /\ mem \in [Slots -> [Offsets -> Headers]]
    BY <1>1, <1>4, PaddedFacts DEF SendReady, SlotsOK
  <2>2. \A o \in Offsets :
          mem'[txData][o] = IF o = txPos.off THEN Padding(k) ELSE mem[txData][o]
    <3>1. mem' = [mem EXCEPT ![txData][txPos.off] = Padding(k)]
      BY <1>2, <1>4, <2>1
    <3> QED BY <2>1, <3>1, ReadHeader
  <2>3. \A o \in Offsets : o > txPos.off => mem'[txData][o].type = "NONE"
    <3> TAKE o \in Offsets
    <3>1. o > txPos.off => o # txPos.off /\ o >= txPos.off
      BY <2>1, OffsetsAre
    <3> QED BY <2>1, <2>2, <3>1 DEF BlankFrom
  <2>4. txPos' \in Positions /\ Precedes(txPos, txPos')
    BY <1>2, <1>4, <2>1 DEF Precedes
  <2>5. ASSUME NEW p \in Positions, ~ Below(p.slot, p.off, txPos),
               Below(p.slot, p.off, txPos')
        PROVE  p.slot = txPos.slot /\ p.off >= txPos.off
    <3>1. /\ p.slot \in Nat /\ p.off \in Nat /\ txPos.off \in Nat
          /\ txPos'.slot = txPos.slot + 1 /\ txPos'.off = 0
      BY <1>2, <1>4, <2>1, OffsetsAre DEF Positions
    <3> QED BY ONLY <2>1, <2>5, <3>1 DEF Below
  <2>6. ASSUME NEW p \in NewHeaders
        PROVE  p.slot = txPos.slot /\ p.off = txPos.off
    <3>1. /\ p \in Positions /\ p.slot = txPos.slot /\ p.off >= txPos.off
          /\ p.off \in Offsets /\ mem'[txData][p.off].type # "NONE"
      BY <2>1, <2>5 DEF NewHeaders, Header, Positions
    <3>2. ~ p.off > txPos.off
      BY <2>3, <3>1
    <3> QED BY <2>1, <3>1, <3>2, OffsetsAre
  <2>7. Capped
    <3> SUFFICES ASSUME NEW p \in NewHeaders, NEW q \in Positions,
                        q.slot = p.slot, q.off > p.off
                 PROVE  Header(mem', q.slot, q.off).type = "NONE"
      BY DEF Capped
    <3>1. q.slot = txPos.slot /\ q.off > txPos.off /\ q.off \in Offsets
      BY <2>6 DEF Positions
    <3> QED BY <2>1, <2>3, <3>1 DEF Header
  <2>8. \A p \in NewHeaders : Header(mem', p.slot, p.off).type = "PADDING"
    BY <2>1, <2>2, <2>6 DEF Header, Padding
  <2> QED BY <2>4, <2>7, <2>8
<1> QED BY <1>3, <1>4

(* Publish makes one message readable, and the padding before it.            *)
LEMMA PublishPublishes ==
  ASSUME SendReady, NEW t \in Threads, pc[t] = "publish", txPos' = localTxPos,
         mem' = mem
  PROVE  /\ Capped /\ txPos' \in Positions /\ Precedes(txPos, txPos')
         /\ msg[t] \in Messages
         /\ \E start \in NewHeaders :
              /\ Header(mem', start.slot, start.off) = msg[t]
              /\ \A p \in NewHeaders :
                   p = start \/ Header(mem', p.slot, p.off).type = "PADDING"
<1> DEFINE last == LastTxIndex  off == MsgOffset(t)
           k == msg[t].stride   start == [slot |-> last, off |-> off]
<1>1. Writing(t) /\ txPos \in Positions /\ localTxPos \in Positions
  BY DEF Writing, SendReady, SpaceOK
<1>2. /\ Written(mem, t) /\ msg[t] \in Messages
      /\ last \in Nat /\ off \in Offsets
      /\ txData = QueueEntry(last) /\ k \in 1..SlotSize
      /\ localTxPos = Advance(start, k)
      /\ off + k = (IF localTxPos.off = 0 THEN SlotSize ELSE localTxPos.off)
  BY <1>1, WriterFacts
<1>3. /\ BlankFrom(mem, txData, off + 1) /\ mem[txData][off] = msg[t]
      /\ \/ txPos = start
         \/ off = 0 /\ txPos.slot = last - 1 /\ Padded(mem, txPos)
  BY <1>2 DEF Written
<1>4. /\ start \in Positions /\ off \in Nat /\ off + k <= SlotSize
      /\ txPos.slot \in Nat /\ txPos.off \in Nat
      /\ Header(mem', start.slot, start.off) = msg[t]
      /\ msg[t].type # "NONE"
  <2>1. localTxPos.off \in Nat /\ localTxPos.off < SlotSize
    BY <1>1, OffsetsAre DEF Positions
  <2>2. off + k <= SlotSize
    BY ONLY <1>2, <2>1, OffsetsAre
  <2> QED BY <1>2, <1>3, <2>2, OffsetsAre, ReadyFacts
          DEF Header, Positions, Messages
<1>5. \A p \in Positions : p.slot \in Nat /\ p.off \in Nat /\ p.off \in Offsets
  BY OffsetsAre DEF Positions
<1>6. /\ ~ Below(last, off, txPos) /\ Precedes(txPos, start)
      /\ Below(last, off, txPos') /\ Precedes(start, txPos')
  <2>1. \/ txPos'.slot = last + 1 /\ txPos'.off = 0
        \/ txPos'.slot = last /\ txPos'.off = off + k
    BY <1>2 DEF Advance
  <2>2. /\ start.slot = last /\ start.off = off
        /\ \/ txPos.slot = last /\ txPos.off = off
           \/ txPos.slot = last - 1
    BY <1>3
  <2> HIDE DEF last, off, k, start
  <2> QED BY ONLY <1>2, <1>4, <2>1, <2>2 DEF Below, Precedes
<1>7. txPos' \in Positions /\ Precedes(txPos, txPos')
  <2>1. /\ txPos'.slot \in Nat /\ txPos'.off \in Nat
        /\ start.slot \in Nat /\ start.off \in Nat
    BY <1>1, <1>2, <1>4, OffsetsAre DEF Positions
  <2>2. Precedes(txPos, txPos')
    BY ONLY <1>4, <1>6, <2>1 DEF Precedes
  <2> QED BY <1>1, <2>2
<1>8. start \in NewHeaders
  BY <1>4, <1>6, <1>2 DEF NewHeaders
<1>9. \A q \in Positions : q.slot = last /\ q.off > off =>
        Header(mem', q.slot, q.off).type = "NONE"
  <2> SUFFICES ASSUME NEW q \in Positions, q.slot = last, q.off > off
               PROVE  mem[txData][q.off].type = "NONE"
    BY <1>2 DEF Header
  <2>1. q.off \in Offsets /\ q.off >= off + 1
    BY <1>4, <1>5
  <2> QED BY <1>3, <2>1 DEF BlankFrom
<1>10. ASSUME NEW p \in NewHeaders
       PROVE  \/ p = start
              \/ /\ p.slot = txPos.slot /\ p.off = txPos.off
                 /\ Padded(mem, txPos)
  <2>1. /\ p \in Positions /\ ~ Below(p.slot, p.off, txPos)
        /\ Below(p.slot, p.off, txPos')
        /\ Header(mem', p.slot, p.off).type # "NONE"
        /\ p.slot \in Nat /\ p.off \in Nat /\ p.off \in Offsets
    BY <1>5 DEF NewHeaders
  <2>2. Below(p.slot, p.off, start) \/ (p.slot = last /\ off <= p.off)
    <3>1. Below(p.slot, p.off, Advance(start, k))
      BY <1>2, <2>1
    <3>2. start.slot = last /\ start.off = off
      OBVIOUS
    <3> HIDE DEF start
    <3> QED BY <1>2, <1>4, <2>1, <3>1, <3>2, BelowAdvance
  <2>3. CASE p.slot = last /\ off <= p.off
    <3>1. ~ p.off > off
      BY <1>9, <2>1, <2>3
    <3>2. p.off = off
      BY <1>4, <2>1, <2>3, <3>1
    <3>3. p = [slot |-> p.slot, off |-> p.off]
      BY <2>1 DEF Positions
    <3> QED BY <2>3, <3>2, <3>3
  <2>4. CASE Below(p.slot, p.off, start) /\ txPos = start
    BY <2>1, <2>4
  <2>5. CASE /\ Below(p.slot, p.off, start) /\ off = 0
             /\ txPos.slot = last - 1 /\ Padded(mem, txPos)
    <3>1. start.slot = last /\ start.off = off
      OBVIOUS
    <3> HIDE DEF start, last, off
    <3>2. p.slot = txPos.slot /\ p.off >= txPos.off
      BY ONLY <1>2, <1>4, <2>1, <2>5, <3>1 DEF Below
    <3>3. ~ p.off >= txPos.off + 1
      BY <2>1, <2>5, <3>2 DEF Padded, BlankFrom, Header
    <3>4. p.off = txPos.off
      BY <1>4, <2>1, <3>2, <3>3
    <3> QED BY <2>5, <3>2, <3>4
  <2> QED BY <1>3, <2>2, <2>3, <2>4, <2>5
<1>11. Padded(mem, txPos) =>
         /\ \A q \in Positions : q.slot = txPos.slot /\ q.off > txPos.off =>
              Header(mem', q.slot, q.off).type = "NONE"
         /\ Header(mem', txPos.slot, txPos.off).type = "PADDING"
  <2>1. ASSUME Padded(mem, txPos), NEW q \in Positions,
               q.slot = txPos.slot, q.off > txPos.off
        PROVE  Header(mem', q.slot, q.off).type = "NONE"
    <3>1. q.off \in Offsets /\ q.off >= txPos.off + 1
      BY <1>4, <1>5, <2>1
    <3> QED BY <2>1, <3>1 DEF Padded, BlankFrom, Header
  <2>2. Padded(mem, txPos) => Header(mem', txPos.slot, txPos.off).type = "PADDING"
    BY DEF Padded, Padding
  <2> QED BY <2>1, <2>2
<1>12. Capped
  <2> SUFFICES ASSUME NEW p \in NewHeaders, NEW q \in Positions,
                      q.slot = p.slot, q.off > p.off
               PROVE  Header(mem', q.slot, q.off).type = "NONE"
    BY DEF Capped
  <2> QED BY <1>9, <1>10, <1>11
<1>13. \A p \in NewHeaders :
         p = start \/ Header(mem', p.slot, p.off).type = "PADDING"
  BY <1>10, <1>11
<1> QED BY <1>2, <1>4, <1>7, <1>8, <1>12, <1>13

(* Histories of messages.                                                    *)
Histories == sent \in Seq(Messages) /\ delivered \in Seq(Messages)

(* reserve_space publishes at most padding.                                  *)
LEMMA ReserveStream ==
  ASSUME SendReady, StreamInv, Histories, NEW t \in Threads, ReserveSpace(t)
  PROVE  StreamInv'
<1> DEFINE k      == msg[t].stride
           space  == SlotSize - localTxPos.off
           pos    == IF k > space
                     THEN [slot |-> localTxPos.slot + 1, off |-> 0]
                     ELSE localTxPos
           padded == IF k > space
                     THEN [mem EXCEPT ![txData][localTxPos.off] = Padding(space)]
                     ELSE mem
<1>1. /\ ThreadsOK /\ localTxPos \in Positions /\ pc[t] = "reserve"
      /\ ReceiverSide' = ReceiverSide /\ sent' = sent /\ delivered' = delivered
  BY DEF SendReady, SpaceOK, ReserveSpace, ReceiverSide, rxVars, queueVars
<1>2. k \in 1..SlotSize
  BY <1>1, StrideOfMessage
<1>3. /\ pos \in Positions
      /\ k > space => localTxPos.off # 0
  BY <1>1, <1>2, ReservedPosition
<1>4. Keeps
  BY ReserveStep
<1>5. \/ txPos' = txPos
      \/ pos.off = 0 /\ FlushAndWait(t, pos, padded)
  BY DEF ReserveSpace, TakeSlot
<1>6. \/ padded = mem /\ pos = localTxPos
      \/ /\ localTxPos.off # 0
         /\ pos = [slot |-> localTxPos.slot + 1, off |-> 0]
         /\ padded = [mem EXCEPT ![txData][localTxPos.off] = Padding(space)]
  BY <1>3
<1>7. /\ Capped /\ txPos' \in Positions /\ Precedes(txPos, txPos')
      /\ \A p \in NewHeaders : Header(mem', p.slot, p.off).type = "PADDING"
  <2> HIDE DEF pos, padded
  <2>1. CASE txPos' = txPos
    BY <2>1, NothingPublished
  <2>2. CASE pos.off = 0 /\ FlushAndWait(t, pos, padded)
    BY <1>1, <1>3, <1>6, <2>2, FlushPublishes
  <2> QED BY <1>5, <2>1, <2>2
<1> HIDE DEF k, space, pos, padded
<1> QED BY <1>1, <1>4, <1>7, SenderStream DEF Histories

(* A step of the sender that leaves tx_pos where it is.                      *)
LEMMA QuietStream ==
  ASSUME SendReady, StreamInv, Histories, ReceiverSide' = ReceiverSide, Keeps,
         txPos' = txPos, sent' = sent, delivered' = delivered
  PROVE  StreamInv'
<1>1. NewHeaders = {} /\ Capped /\ txPos' \in Positions /\ Precedes(txPos, txPos')
  BY NothingPublished
<1> QED BY <1>1, SenderStream DEF Histories

(* The update of tx_pos in queue_message publishes its message.              *)
LEMMA PublishStream ==
  ASSUME SendReady, StreamInv, Histories, NEW t \in Threads, Publish(t)
  PROVE  StreamInv' /\ msg[t] \in Messages
<1>1. /\ pc[t] = "publish" /\ txPos' = localTxPos /\ mem' = mem
      /\ ReceiverSide' = ReceiverSide /\ delivered' = delivered
      /\ sent' = Append(sent, msg[t])
  BY DEF Publish, ReceiverSide, rxVars, queueVars
<1>2. Keeps
  BY <1>1 DEF Keeps, Header, QueueEntry, ReceiverSide
<1>3. /\ Capped /\ txPos' \in Positions /\ Precedes(txPos, txPos')
      /\ msg[t] \in Messages
      /\ \E start \in NewHeaders :
           /\ Header(mem', start.slot, start.off) = msg[t]
           /\ \A p \in NewHeaders :
                p = start \/ Header(mem', p.slot, p.off).type = "PADDING"
  BY <1>1, PublishPublishes
<1>4. \E m \in Messages, start \in NewHeaders :
        /\ sent' = Append(sent, m)
        /\ Header(mem', start.slot, start.off) = m
        /\ \A p \in NewHeaders :
             p = start \/ Header(mem', p.slot, p.off).type = "PADDING"
  BY <1>1, <1>3
<1>5. StreamInv'
  BY <1>1, <1>2, <1>3, <1>4, SenderStream DEF Histories
<1> QED BY <1>3, <1>5

(* Steps that leave the unread part of the stream alone.                     *)
LEMMA StreamUntouched ==
  ASSUME StreamInv, sent' = sent, delivered' = delivered,
         rxPos' = rxPos, txPos' = txPos, ReaderKeeps
  PROVE  StreamInv'
<1>1. Unread' = Unread /\ Indices' = Indices
  BY DEF Unread, Indices
<1>2. \A p \in Unread : Content(p)' = Content(p)
  BY DEF Unread, ReaderKeeps
<1>3. Solid'
  BY <1>1, <1>2 DEF StreamInv, Solid
<1>4. PICK place \in [1 .. Len(sent) -> Positions] : Tracking(place)
  BY DEF StreamInv
<1>5. Tracking(place)'
  <2>1. \A n \in Indices : place[n] \in Unread' /\ Content(place[n])' = sent'[n]
    BY <1>1, <1>2, <1>4 DEF Tracking
  <2>2. \A p \in Unread' : Content(p)'.type \notin {"NONE", "PADDING"} =>
          \E n \in Indices : place[n] = p
    BY <1>1, <1>2, <1>4 DEF Tracking
  <2> QED BY <1>1, <1>4, <2>1, <2>2 DEF Tracking, Below
<1> QED BY <1>3, <1>4, <1>5 DEF StreamInv

(* What the parser finds is the next message of the stream, or padding.      *)
LEMMA NextMessage ==
  ASSUME SendReady, Histories, rxPos # rxLimit,
         NEW place \in [1 .. Len(sent) -> Positions], Tracking(place)
  PROVE  /\ rxPos \in Unread
         /\ Content(rxPos) \in Headers /\ ~ Content(rxPos).claimed
         /\ Content(rxPos).type # "NONE"
         /\ Content(rxPos).type # "PADDING" =>
              /\ Len(delivered) + 1 \in Indices
              /\ Content(rxPos) = sent[Len(delivered) + 1]
              /\ place[Len(delivered) + 1] = rxPos
<1>1. /\ rxPos \in Positions /\ rxPos.slot \in Nat /\ rxPos.off \in Offsets
      /\ Below(rxPos.slot, rxPos.off, txPos)
      /\ Content(rxPos) \in Headers /\ ~ Content(rxPos).claimed
      /\ Content(rxPos).type # "NONE"
  BY ParserFacts DEF Content, Header
<1>2. ~ Below(rxPos.slot, rxPos.off, rxPos)
  BY <1>1, OffsetsAre DEF Below
<1>3. rxPos \in Unread
  BY <1>1, <1>2 DEF Unread
<1>4. ASSUME Content(rxPos).type # "PADDING"
      PROVE  /\ Len(delivered) + 1 \in Indices
             /\ Content(rxPos) = sent[Len(delivered) + 1]
             /\ place[Len(delivered) + 1] = rxPos
  <2>1. PICK n \in Indices : place[n] = rxPos
    BY <1>1, <1>3, <1>4 DEF Tracking
  <2> DEFINE k == Len(delivered) + 1
  <2>2. k \in Indices /\ k \in Nat /\ n \in Nat /\ k <= n
    BY DEF Histories, Indices
  <2> HIDE DEF k
  <2>3. ~ k < n
    <3> SUFFICES ASSUME k < n PROVE FALSE
      OBVIOUS
    <3>1. Below(place[k].slot, place[k].off, rxPos)
      BY <2>1, <2>2 DEF Tracking
    <3>2. place[k] \in Unread
      BY <2>2 DEF Tracking
    <3> QED BY <3>1, <3>2 DEF Unread
  <2>4. k = n
    BY ONLY <2>2, <2>3
  <2> QED BY <2>1, <2>2, <2>4 DEF Tracking, k
<1> QED BY <1>1, <1>3, <1>4

(* A message or padding read, the parser stands at the next one.             *)
LEMMA ParseStream ==
  ASSUME SendReady, StreamInv, Histories, ParseMessage
  PROVE  StreamInv'
<1>1. PICK place \in [1 .. Len(sent) -> Positions] : Tracking(place)
  BY DEF StreamInv
<1>2. rxPos # rxLimit
  BY DEF ParseMessage
<1> SUFFICES ASSUME NEW h, h = Content(rxPos),
                    NEW next, next = Advance(rxPos, h.stride)
             PROVE  StreamInv'
  OBVIOUS
<1>3. /\ rxPos \in Unread /\ h \in Headers /\ h.type # "NONE"
      /\ h.type # "PADDING" =>
           /\ Len(delivered) + 1 \in Indices
           /\ h = sent[Len(delivered) + 1]
           /\ place[Len(delivered) + 1] = rxPos
  BY <1>1, <1>2, NextMessage
<1>4. /\ rxPos' = next /\ txPos' = txPos /\ sent' = sent
      /\ delivered' = IF h.type = "PADDING" THEN delivered
                                            ELSE Append(delivered, h)
  <2>1. QueueEntry(rxPos.slot) = IF rxData = NoSlot
                                 THEN slotQueue[rxPos.slot % QueueLen]
                                 ELSE rxData
    BY <1>2, ParserFacts
  <2>2. h = mem[QueueEntry(rxPos.slot)][rxPos.off]
    BY DEF Content, Header
  <2> QED BY <2>1, <2>2 DEF ParseMessage
<1>5. ReaderKeeps
  BY ParseStep
<1>6. /\ rxPos \in Positions /\ rxPos.slot \in Nat /\ rxPos.off \in Nat
      /\ h.stride \in 1..SlotSize /\ rxPos.off + h.stride <= SlotSize
      /\ SlotSize \in Nat
  <2>1. rxPos.off + h.stride <= SlotSize /\ rxPos \in Positions
    BY <1>2, ParserFacts DEF Content, Header
  <2> QED BY <1>3, <2>1, OffsetsAre DEF Headers, Positions
<1>7. \A p \in Unread' : p \in Unread /\ Content(p)' = Content(p)
  <2> TAKE p \in Unread'
  <2>1. /\ p \in Positions /\ p.slot \in Nat /\ p.off \in Nat
        /\ ~ Below(p.slot, p.off, next) /\ Below(p.slot, p.off, txPos)
    BY <1>4, OffsetsAre DEF Unread, Positions
  <2>2. \/ next.slot = rxPos.slot + 1 /\ next.off = 0
        \/ next.slot = rxPos.slot /\ next.off = rxPos.off + h.stride
    BY DEF Advance
  <2>3. ~ Below(p.slot, p.off, rxPos)
    BY ONLY <1>6, <2>1, <2>2 DEF Below
  <2>4. p \in Unread
    BY <2>1, <2>3 DEF Unread
  <2> QED BY <1>4, <1>5, <2>1, <2>4 DEF ReaderKeeps
<1>8. \A p \in Unread : Content(p).type # "NONE" => p = rxPos \/ p \in Unread'
  <2> SUFFICES ASSUME NEW p \in Unread, Content(p).type # "NONE", p # rxPos,
                      Below(p.slot, p.off, next)
               PROVE  FALSE
    BY <1>4 DEF Unread
  <2>1. /\ p \in Positions /\ p.slot \in Nat /\ p.off \in Offsets
        /\ p.off \in Nat /\ ~ Below(p.slot, p.off, rxPos)
    BY OffsetsAre DEF Unread, Positions
  <2>2. p.slot = rxPos.slot /\ rxPos.off <= p.off /\ p.off < rxPos.off + h.stride
    BY <1>6, <2>1, BelowAdvance
  <2>3. p.off # rxPos.off
    BY <1>6, <2>1, <2>2 DEF Positions
  <2>4. rxPos.off < p.off
    BY ONLY <1>6, <2>1, <2>2, <2>3
  <2> QED BY <1>3, <2>2, <2>4 DEF StreamInv, Solid
<1>9. Solid'
  <2> SUFFICES ASSUME NEW p \in Unread', NEW q \in Unread',
                      Content(p)'.type # "NONE", q.slot = p.slot,
                      p.off < q.off, q.off < p.off + Content(p)'.stride
               PROVE  Content(q)'.type = "NONE"
    BY DEF Solid
  <2> QED BY <1>7 DEF StreamInv, Solid
<1>10. ASSUME NEW n \in Indices, place[n] # rxPos
       PROVE  place[n] \in Unread' /\ Content(place[n])' = sent[n]
  <2>1. sent[n] \in Messages
    BY DEF Histories, Indices
  <2>2. /\ place[n] \in Unread /\ Content(place[n]) = sent[n]
        /\ Content(place[n]).type # "NONE"
    BY <1>1, <2>1 DEF Tracking, Messages
  <2>3. place[n] \in Unread'
    BY <1>8, <1>10, <2>2
  <2> QED BY <1>7, <2>2, <2>3
<1>11. CASE h.type = "PADDING"
  <2>1. Indices' = Indices /\ delivered' = delivered
    BY <1>4, <1>11 DEF Indices
  <2>2. \A n \in Indices : place[n] # rxPos
    <3> TAKE n \in Indices
    <3>1. sent[n] \in Messages
      BY DEF Histories, Indices
    <3>2. sent[n].type # "PADDING" /\ Content(place[n]) = sent[n]
      BY <1>1, <3>1 DEF Messages, Tracking
    <3> QED BY <1>11, <3>2
  <2>3. \A p \in Unread' : Content(p)'.type \notin {"NONE", "PADDING"} =>
          \E n \in Indices : place[n] = p
    BY <1>1, <1>7 DEF Tracking
  <2>4. Tracking(place)'
    BY <1>1, <1>4, <1>10, <2>1, <2>2, <2>3 DEF Tracking, Below
  <2> QED BY <1>1, <1>4, <1>9, <2>1, <2>4 DEF StreamInv
<1>12. CASE h.type # "PADDING"
  <2> DEFINE k == Len(delivered) + 1
  <2>1. /\ k \in Indices /\ k \in Nat /\ place[k] = rxPos
        /\ delivered' = Append(delivered, h) /\ Len(delivered') = k
        /\ k <= Len(sent)
        /\ \A n \in Indices' : n \in Indices /\ n \in Nat /\ k < n
        /\ \A n \in Indices : n = k \/ n \in Indices'
    BY <1>3, <1>4, <1>12 DEF Indices, Histories
  <2> HIDE DEF k
  <2>2. \A n \in Indices' : place[n] # rxPos
    <3> TAKE n \in Indices'
    <3>1. Below(rxPos.slot, rxPos.off, place[n])
      BY <1>1, <2>1 DEF Tracking
    <3>2. ~ Below(rxPos.slot, rxPos.off, rxPos)
      BY ONLY <1>6 DEF Below
    <3> QED BY <3>1, <3>2
  <2>3. \A p \in Unread' : Content(p)'.type \notin {"NONE", "PADDING"} =>
          \E n \in Indices' : place[n] = p
    <3> SUFFICES ASSUME NEW p \in Unread',
                        Content(p)'.type \notin {"NONE", "PADDING"}
                 PROVE  \E n \in Indices' : place[n] = p
      OBVIOUS
    <3>1. PICK n \in Indices : place[n] = p
      BY <1>1, <1>7 DEF Tracking
    <3>2. p # rxPos
      <4>1. Below(rxPos.slot, rxPos.off, next)
        BY ONLY <1>6, next = Advance(rxPos, h.stride) DEF Below, Advance
      <4> QED BY <1>4, <4>1 DEF Unread
    <3> QED BY <2>1, <3>1, <3>2
  <2>4. Tracking(place)'
    <3>1. \A n \in Indices' :
            place[n] \in Unread' /\ Content(place[n])' = sent'[n]
      BY <1>4, <1>10, <2>1, <2>2
    <3>2. \A n, j \in Indices' :
            n < j => Below(place[n].slot, place[n].off, place[j])
      BY <1>1, <2>1 DEF Tracking
    <3> QED BY <2>3, <3>1, <3>2 DEF Tracking, Below
  <2>5. Len(delivered') <= Len(sent')
    BY <1>4, <2>1
  <2> QED BY <1>1, <1>4, <1>9, <2>4, <2>5 DEF StreamInv
<1> QED BY <1>11, <1>12

(* A step of the transport as the services see it.                           *)
StreamStep == StreamInv' /\ [Stream!Next]_(Stream!streamVars)

(* A step that changes nothing the services see.                             *)
LEMMA StreamIdle ==
  ASSUME StreamInv, UNCHANGED <<mem, rxPos, txPos, slotQueue, sent, delivered>>
  PROVE  StreamStep
<1>1. ReaderKeeps
  BY DEF ReaderKeeps, Content, Header, QueueEntry
<1>2. StreamInv'
  BY <1>1, StreamUntouched
<1>3. Held' = Held
  BY DEF Held
<1> QED BY <1>2, <1>3 DEF StreamStep, Stream!streamVars

(* A claim or a release changes the set of held messages by that message.    *)
LEMMA HeldStep ==
  ASSUME mem \in [Slots -> [Offsets -> Headers]], NEW slot \in Slots,
         NEW off \in Offsets, NEW b \in BOOLEAN,
         mem' = [mem EXCEPT ![slot][off].claimed = b],
         NEW m, m = [mem[slot][off] EXCEPT !.claimed = FALSE]
  PROVE  /\ b => Held' = Held \union {m}
         /\ ~ b => Held' = Held \/ Held' = Held \ {m}
         /\ mem[slot][off].claimed => m \in Held
<1> DEFINE All == Slots \X Offsets
           old == {q \in All : mem[q[1]][q[2]].claimed}
           new == {q \in All : mem'[q[1]][q[2]].claimed}
           Plain(q) == [mem[q[1]][q[2]] EXCEPT !.claimed = FALSE]
           at == <<slot, off>>
<1>1. \A x \in Slots, o \in Offsets :
        /\ x # slot \/ o # off => mem'[x][o] = mem[x][o]
        /\ x = slot /\ o = off => mem'[x][o].claimed = b
  BY ReadClaim
<1>2. mem'[slot][off] = [mem[slot][off] EXCEPT !.claimed = b]
  <2> DEFINE h == [mem[slot][off] EXCEPT !.claimed = b]
  <2>1. mem[slot] \in [Offsets -> Headers]
    OBVIOUS
  <2>2. mem' = [mem EXCEPT ![slot] = [mem[slot] EXCEPT ![off] = h]]
    OBVIOUS
  <2> HIDE DEF h
  <2>3. mem'[slot] = [mem[slot] EXCEPT ![off] = h]
    BY <2>2
  <2> QED BY <2>1, <2>3 DEF h
<1>3. [mem'[slot][off] EXCEPT !.claimed = FALSE] = m
  BY <1>2 DEF Headers
<1>4. \A q \in All : [mem'[q[1]][q[2]] EXCEPT !.claimed = FALSE] = Plain(q)
  <2> TAKE q \in All
  <2>1. q[1] \in Slots /\ q[2] \in Offsets
    OBVIOUS
  <2>2. CASE q[1] = slot /\ q[2] = off
    BY <1>3, <2>2
  <2>3. CASE q[1] # slot \/ q[2] # off
    BY <1>1, <2>1, <2>3
  <2> QED BY <2>2, <2>3
<1>5. /\ at \in All /\ Plain(at) = m
      /\ new = IF b THEN old \union {at} ELSE old \ {at}
      /\ mem[slot][off].claimed <=> at \in old
      /\ old \subseteq All /\ new \subseteq All
  <2>1. at \in All /\ Plain(at) = m /\ (mem[slot][off].claimed <=> at \in old)
    OBVIOUS
  <2>2. \A q \in All : q \in new <=> IF q = at THEN b ELSE q \in old
    BY <1>1
  <2>3. new = IF b THEN old \union {at} ELSE old \ {at}
    BY <2>1, <2>2
  <2> QED BY <2>1, <2>3
<1>6. Held = {Plain(q) : q \in old} /\ Held' = {Plain(q) : q \in new}
  <2>1. Held' = {[mem'[q[1]][q[2]] EXCEPT !.claimed = FALSE] : q \in new}
    BY DEF Held
  <2>2. {[mem'[q[1]][q[2]] EXCEPT !.claimed = FALSE] : q \in new}
          = {Plain(q) : q \in new}
    BY <1>4, <1>5
  <2> QED BY <2>1, <2>2 DEF Held
<1> HIDE DEF Plain, at, old, new, All
<1>7. b => Held' = Held \union {m}
  BY <1>5, <1>6
<1>8. mem[slot][off].claimed => m \in Held
  BY <1>5, <1>6
<1>9. ~ b => Held' = Held \/ Held' = Held \ {m}
  BY <1>5, <1>6
<1> QED BY <1>7, <1>8, <1>9

(* parse_rx_slots dispatches the next message, and claims it if it is the    *)
(* data of an open service.                                                  *)
LEMMA DeliverStep ==
  ASSUME SendReady, StreamInv, Histories, ParseMessage
  PROVE  StreamStep
<1>1. StreamInv'
  BY ParseStream
<1>2. PICK place \in [1 .. Len(sent) -> Positions] : Tracking(place)
  BY DEF StreamInv
<1>3. rxPos # rxLimit
  BY DEF ParseMessage
<1> SUFFICES ASSUME NEW slot, slot = QueueEntry(rxPos.slot),
                    NEW h, h = mem[slot][rxPos.off],
                    NEW claim, claim = (h.type = "DATA" /\ peerOpen[h.svc])
             PROVE  StreamStep
  OBVIOUS
<1>4. /\ h \in Headers /\ h.type # "NONE" /\ ~ h.claimed
      /\ h.type # "PADDING" =>
           /\ Len(delivered) + 1 \in Indices
           /\ h = sent[Len(delivered) + 1]
  BY <1>2, <1>3, NextMessage DEF Content, Header
<1>5. /\ sent' = sent
      /\ delivered' = IF h.type = "PADDING" THEN delivered
                                            ELSE Append(delivered, h)
      /\ mem' = IF claim THEN [mem EXCEPT ![slot][rxPos.off].claimed = TRUE]
                         ELSE mem
  <2>1. slot = IF rxData = NoSlot THEN slotQueue[rxPos.slot % QueueLen]
                                  ELSE rxData
    BY <1>3, ParserFacts
  <2> QED BY <2>1 DEF ParseMessage
<1>6. [h EXCEPT !.claimed = FALSE] = h
  <2>1. h.claimed = FALSE
    BY <1>4 DEF Headers
  <2> QED BY <1>4, <2>1 DEF Headers
<1>7. Held' = IF claim THEN Held \union {h} ELSE Held
  <2>1. CASE claim
    <3>1. slot \in Slots /\ rxPos.off \in Offsets /\ TRUE \in BOOLEAN
          /\ mem \in [Slots -> [Offsets -> Headers]]
      BY <1>3, ParserFacts DEF SendReady, SlotsOK
    <3>2. mem' = [mem EXCEPT ![slot][rxPos.off].claimed = TRUE]
          /\ h = [mem[slot][rxPos.off] EXCEPT !.claimed = FALSE]
      BY <1>5, <1>6, <2>1
    <3>3. Held' = Held \union {h}
      BY ONLY <3>1, <3>2, HeldStep
    <3> QED BY <2>1, <3>3
  <2>2. CASE ~ claim
    BY <1>5, <2>2 DEF Held
  <2> QED BY <2>1, <2>2
<1>8. CASE h.type = "PADDING"
  <2>1. Held' = Held /\ delivered' = delivered
    BY <1>5, <1>7, <1>8
  <2> QED BY <1>1, <1>5, <2>1 DEF StreamStep, Stream!streamVars
<1>9. CASE h.type # "PADDING"
  <2>1. /\ Len(delivered) < Len(sent) /\ h = sent[Len(delivered) + 1]
        /\ delivered' = Append(delivered, h)
    BY <1>4, <1>5, <1>9 DEF Indices, Histories
  <2>2. (h.type = "DATA" /\ Held' = Held \union {h}) \/ Held' = Held
    BY <1>7
  <2>3. Stream!Deliver
    BY <1>5, <2>1, <2>2 DEF Stream!Deliver
  <2> QED BY <1>1, <2>3 DEF StreamStep, Stream!Next
<1> QED BY <1>8, <1>9

(* vchiq_release_message takes away one message that was held.               *)
LEMMA ReleaseHeld ==
  ASSUME SendReady, StreamInv, NEW slot \in Slots, NEW off \in Offsets,
         ReleaseMessage(slot, off)
  PROVE  StreamStep
<1>1. /\ mem \in [Slots -> [Offsets -> Headers]] /\ FALSE \in BOOLEAN
      /\ mem[slot][off].claimed
      /\ mem' = [mem EXCEPT ![slot][off].claimed = FALSE]
      /\ sent' = sent /\ delivered' = delivered
      /\ rxPos' = rxPos /\ txPos' = txPos
  BY DEF ReleaseMessage, SendReady, SlotsOK
<1>2. StreamInv'
  BY <1>1, ReleaseStep, StreamUntouched
<1> DEFINE m == [mem[slot][off] EXCEPT !.claimed = FALSE]
<1>3. m \in Held /\ (Held' = Held \/ Held' = Held \ {m})
  <2>1. \A x : x = m => x \in Held /\ (Held' = Held \/ Held' = Held \ {x})
    <3> TAKE x
    <3> HAVE x = m
    <3> QED BY ONLY <1>1, HeldStep, x = m, slot \in Slots, off \in Offsets
  <2> QED BY <2>1
<1> HIDE DEF m
<1>4. CASE Held' = Held
  BY <1>1, <1>2, <1>4 DEF StreamStep, Stream!streamVars
<1>5. CASE Held' = Held \ {m}
  BY <1>1, <1>2, <1>3, <1>5 DEF StreamStep, Stream!Next, Stream!Release
<1> QED BY <1>3, <1>4, <1>5

(* Every step of the transport is a step of MessageStream, or changes        *)
(* nothing its services see.                                                 *)
LEMMA StepStream ==
  TransportInv /\ StreamInv /\ Histories /\ [Next]_vars => StreamStep
<1> SUFFICES ASSUME TransportInv, StreamInv, Histories, [Next]_vars
             PROVE  StreamStep
  OBVIOUS
<1>1. SendReady
  BY DEF TransportInv, SendReady, SenderInv, StateTypeOK
<1>2. ASSUME NEW t \in Senders, NEW k \in Strides, SendCall(t, k)
      PROVE  StreamStep
  BY <1>2, StreamIdle DEF SendCall, spaceVars, rxVars, queueVars
<1>3. ASSUME NEW k \in ControlStrides, ControlCall(k) PROVE StreamStep
  BY <1>3, StreamIdle DEF ControlCall, spaceVars, rxVars, queueVars
<1>4. ASSUME NEW s \in Services, MarkClosing(s) \/ SyncClosing(s) \/ CloseCall(s)
      PROVE  StreamStep
  BY <1>4, StreamIdle
  DEF MarkClosing, SyncClosing, CloseCall, spaceVars, rxVars, queueVars
<1>5. ASSUME NEW t \in Threads, ThreadStep(t) PROVE StreamStep
  <2>1. CASE LockForData(t) \/ LockForControl(t)
             \/ DataQuotaDown(t) \/ DataRelock(t)
             \/ QuotaDown(t) \/ QuotaRelock(t)
    BY <2>1, StreamIdle
    DEF LockForData, LockForControl, DataQuotaDown, DataRelock, QuotaDown,
        QuotaRelock, spaceVars, rxVars, queueVars
  <2>2. CASE ReserveSpace(t)
    <3>1. StreamInv' /\ Held' = Held
      BY <1>1, <2>2, ReserveStream, ReserveStep
    <3>2. sent' = sent /\ delivered' = delivered
      BY <2>2 DEF ReserveSpace, rxVars
    <3> QED BY <3>1, <3>2 DEF StreamStep, Stream!streamVars
  <2>3. CASE SlotDown(t)
    <3>1. /\ sent' = sent /\ delivered' = delivered /\ txPos' = txPos
          /\ ReceiverSide' = ReceiverSide
      BY <2>3 DEF SlotDown, TakeSlot, rxVars, queueVars, ReceiverSide
    <3>2. Keeps /\ Held' = Held
      BY <1>1, <2>3, SlotDownStep
    <3>3. StreamInv'
      BY <1>1, <3>1, <3>2, QuietStream
    <3> QED BY <3>1, <3>2, <3>3 DEF StreamStep, Stream!streamVars
  <2>4. CASE WriteHeader(t)
    <3>1. /\ sent' = sent /\ delivered' = delivered /\ txPos' = txPos
          /\ ReceiverSide' = ReceiverSide /\ pc[t] = "write"
          /\ mem' = [mem EXCEPT ![txData][MsgOffset(t)] = msg[t]]
          /\ Goto(t, "publish") /\ UNCHANGED <<localTxPos, txPos, txData>>
      BY <2>4 DEF WriteHeader, MsgOffset, rxVars, queueVars, ReceiverSide
    <3>2. Keeps /\ Held' = Held
      BY <1>1, <3>1, WriteStep
    <3>3. StreamInv'
      BY <1>1, <3>1, <3>2, QuietStream
    <3> QED BY <3>1, <3>2, <3>3 DEF StreamStep, Stream!streamVars
  <2>5. CASE Publish(t)
    <3>1. /\ sent' = Append(sent, msg[t]) /\ delivered' = delivered /\ mem' = mem
      BY <2>5 DEF Publish, rxVars
    <3>2. StreamInv' /\ msg[t] \in Messages
      BY <1>1, <2>5, PublishStream
    <3>3. Held' = Held
      BY <3>1 DEF Held
    <3>4. Stream!Send(msg[t])
      BY <3>1, <3>3 DEF Stream!Send
    <3> QED BY <3>2, <3>4 DEF StreamStep, Stream!Next
  <2> QED BY <1>5, <2>1, <2>2, <2>3, <2>4, <2>5 DEF ThreadStep
<1>6. CASE ProcessFreeSlot \/ ParseBegin
  BY <1>6, StreamIdle
  DEF ProcessFreeSlot, ParseBegin, rxVars, spaceVars, queueVars
<1>7. CASE ParseMessage
  BY <1>1, <1>7, DeliverStep
<1>8. CASE Release
  BY <1>1, <1>8, ReleaseHeld DEF Release
<1>9. CASE UNCHANGED vars
  BY <1>9, StreamIdle DEF vars, spaceVars, rxVars, queueVars
<1> QED BY <1>2, <1>3, <1>4, <1>5, <1>6, <1>7, <1>8, <1>9 DEF Next, Parse

(* Nothing was sent yet.                                                     *)
LEMMA InitStream == Init => StreamInv /\ Stream!Init
<1> SUFFICES ASSUME Init PROVE StreamInv /\ Stream!Init
  OBVIOUS
<1>1. Unread = {}
  <2> SUFFICES ASSUME NEW p \in Unread PROVE FALSE
    OBVIOUS
  <2>1. p.slot \in Nat /\ p.off \in Nat /\ Below(p.slot, p.off, txPos)
    BY OffsetsAre DEF Unread, Positions
  <2>2. txPos.slot = 0 /\ txPos.off = 0
    BY DEF Init
  <2> QED BY ONLY <2>1, <2>2 DEF Below
<1>2. sent = <<>> /\ delivered = <<>> /\ Indices = {}
  BY DEF Init, Indices
<1>3. Solid
  BY <1>1 DEF Solid
<1>4. PICK place \in [1 .. Len(sent) -> Positions] : TRUE
  <2>1. 1 .. Len(sent) = {}
    BY <1>2
  <2>2. [n \in {} |-> rxPos] \in [{} -> Positions]
    OBVIOUS
  <2> QED BY <2>1, <2>2
<1>5. Tracking(place)
  BY <1>1, <1>2 DEF Tracking
<1>6. Len(delivered) <= Len(sent)
  BY <1>2
<1>7. Held = {}
  <2>1. \A q \in Slots \X Offsets : ~ mem[q[1]][q[2]].claimed
    BY DEF Init, Blank, NoHeader
  <2> QED BY <2>1 DEF Held
<1> QED BY <1>2, <1>3, <1>5, <1>6, <1>7 DEF StreamInv, Stream!Init

(* The transport implements MessageStream: what queue_message publishes,     *)
(* parse_rx_slots dispatches in the same order, once, unaltered, and a       *)
(* claimed message stays as it was sent until vchiq_release_message.         *)
THEOREM StreamCorrect == Spec => StreamSpec
<1>1. Init => StreamInv /\ Delivered /\ Stream!Init
  BY InitStream DEF Init, Delivered
<1>2. TransportInv /\ Delivered => Histories
  BY DEF TransportInv, SenderInv, StateTypeOK, ThreadsOK, Delivered, Histories
<1>3. TransportInv /\ Delivered /\ StreamInv /\ [Next]_vars =>
        StreamInv' /\ [Stream!Next]_(Stream!streamVars)
  BY <1>2, StepStream DEF StreamStep
<1>4. TransportInv /\ Delivered /\ [Next]_vars => Delivered'
  BY StepDelivered
<1>5. Spec => Stream!Init /\ [][Stream!Next]_(Stream!streamVars)
  BY <1>1, <1>3, <1>4, TransportInvariant, PTL DEF Spec
<1> QED BY <1>5 DEF StreamSpec, Stream!Spec

-----------------------------------------------------------------------------
(* The quotas count the messages in the slots.                               *)

(* The messages of one service in the charged slots, the charged slots with  *)
(* such a message, and those with a message of any service.                  *)
DataPlaces(s) == {p \in ChargedSlots \X Offsets : p[2] \in DataIn(p[1], s)}
DataSlots(s)  == {x \in ChargedSlots : DataIn(x, s) # {}}
AllDataSlots  == {x \in ChargedSlots : \E s \in Services : DataIn(x, s) # {}}

(* The sender's slot has room left, or a message is being written in it.     *)
Open == localTxPos.off # 0 \/ \E t \in Threads : Writing(t)

(* The slot index remembered for a service, or for all, is that of the last  *)
(* slot charged to it: while a slot is open the index tells whether it       *)
(* already holds such a message.                                             *)
Recent ==
  /\ prevData <= LastTxIndex
  /\ \A s \in Services : prevTx[s] <= LastTxIndex
  /\ Open =>
       /\ \A s \in Services : prevTx[s] = LastTxIndex <=> DataIn(txData, s) # {}
       /\ prevData = LastTxIndex
            <=> \E s \in Services : DataIn(txData, s) # {}

(* Why the counters agree with the slots.                                    *)
CountsInv == QuotaAccounting /\ Recent

(* The data being sent is of a service.                                      *)
DataService == \A t \in Threads : msg[t].type = "DATA" => msg[t].svc \in Services

(* What the counters count is finite.                                        *)
LEMMA CountsFinite ==
  /\ IsFiniteSet(ChargedSlots)
  /\ IsFiniteSet(AllDataSlots) /\ Cardinality(AllDataSlots) \in Nat
  /\ \A s \in Services :
       /\ IsFiniteSet(DataPlaces(s)) /\ Cardinality(DataPlaces(s)) \in Nat
       /\ IsFiniteSet(DataSlots(s)) /\ Cardinality(DataSlots(s)) \in Nat
<1>1. IsFiniteSet(Slots) /\ IsFiniteSet(Offsets)
  <2>1. SlotFirst \in Int /\ SlotLast \in Int
    BY SlotFacts
  <2> QED BY <2>1, OffsetsAre, FS_Interval DEF Slots, Offsets
<1>2. IsFiniteSet(ChargedSlots)
  BY <1>1, FS_Subset DEF ChargedSlots
<1>3. IsFiniteSet(ChargedSlots \X Offsets)
  BY <1>1, <1>2, FS_Product
<1>4. IsFiniteSet(AllDataSlots)
  BY <1>2, FS_Subset DEF AllDataSlots
<1>5. \A s \in Services : IsFiniteSet(DataPlaces(s)) /\ IsFiniteSet(DataSlots(s))
  BY <1>2, <1>3, FS_Subset DEF DataPlaces, DataSlots
<1> QED BY <1>2, <1>4, <1>5, FS_CardinalityType

(* The same data is in a slot of the memory n.                               *)
SameData(n, x) ==
  \A o \in Offsets :
    n[x][o].type = "DATA" \/ mem[x][o].type = "DATA" =>
      n[x][o].type = mem[x][o].type /\ n[x][o].svc = mem[x][o].svc

LEMMA SameDataIn ==
  ASSUME NEW x, SameData(mem', x)
  PROVE  \A s \in Services : DataIn(x, s)' = DataIn(x, s)
<1> SUFFICES ASSUME NEW s \in Services PROVE DataIn(x, s)' = DataIn(x, s)
  OBVIOUS
<1>1. \A o \in Offsets : (mem'[x][o].type = "DATA" /\ mem'[x][o].svc = s)
                           <=> (mem[x][o].type = "DATA" /\ mem[x][o].svc = s)
  BY DEF SameData
<1> QED BY <1>1 DEF DataIn

(* The counters stay right when nothing they count changes.                  *)
LEMMA SameCounts ==
  ASSUME \A x \in ChargedSlots : \A s \in Services : DataIn(x, s)' = DataIn(x, s),
         ChargedSlots' = ChargedSlots,
         QuotaAccounting, UNCHANGED <<msgUse, slotUse, dataUse>>
  PROVE  QuotaAccounting'
<1>1. AllDataSlots' = AllDataSlots
  BY DEF AllDataSlots
<1>2. \A s \in Services : DataSlots(s)' = DataSlots(s)
  BY DEF DataSlots
<1>3. \A s \in Services : DataPlaces(s)' = DataPlaces(s)
  BY DEF DataPlaces
<1> QED BY <1>1, <1>2, <1>3 DEF QuotaAccounting, AllDataSlots, DataSlots, DataPlaces

(* The charged slots change only when one is taken or freed.                 *)
LEMMA SameCharge ==
  ASSUME SendReady, SlotsTaken' = SlotsTaken,
         slotQueueAvailable' = slotQueueAvailable,
         \A i \in SlotsTaken .. slotQueueAvailable - 1 :
           slotQueue'[i % QueueLen] = QueueEntry(i)
  PROVE  ChargedSlots' = ChargedSlots
<1>1. QueuedSlots(SlotsTaken, slotQueueAvailable)'
        = QueuedSlots(SlotsTaken, slotQueueAvailable)
  BY DEF QueuedSlots, QueueEntry
<1> QED BY <1>1 DEF ChargedSlots

(* A step that neither takes a slot, nor writes data, nor frees a slot.      *)
LEMMA CountsKept ==
  ASSUME SendReady, CountsInv,
         UNCHANGED <<msgUse, slotUse, prevTx, dataUse, prevData,
                     slotQueueAvailable>>,
         SlotsTaken' = SlotsTaken, LastTxIndex' = LastTxIndex,
         Open' => Open /\ txData' = txData /\ txData \in Slots,
         \A x \in Slots : SameData(mem', x),
         \A i \in SlotsTaken .. slotQueueAvailable - 1 :
           slotQueue'[i % QueueLen] = QueueEntry(i)
  PROVE  CountsInv'
<1>1. ChargedSlots' = ChargedSlots /\ ChargedSlots \subseteq Slots
  BY SameCharge DEF ChargedSlots
<1>2. \A x \in Slots : \A s \in Services : DataIn(x, s)' = DataIn(x, s)
  BY SameDataIn
<1>3. QuotaAccounting'
  BY <1>1, <1>2, SameCounts DEF CountsInv
<1>4. Recent'
  <2>1. ASSUME Open' PROVE \A s \in Services : DataIn(txData, s)' = DataIn(txData, s)
    <3>1. txData' = txData /\ txData \in Slots
      BY <2>1
    <3>2. SameData(mem', txData)
      BY <3>1
    <3>3. \A o \in Offsets : \A s \in Services :
            (mem'[txData][o].type = "DATA" /\ mem'[txData][o].svc = s)
              <=> (mem[txData][o].type = "DATA" /\ mem[txData][o].svc = s)
      BY <3>2 DEF SameData
    <3> QED BY <3>1, <3>3 DEF DataIn
  <2>2. \/ ~ Open'
        \/ Open /\ \A s \in Services : DataIn(txData, s)' = DataIn(txData, s)
    BY <2>1
  <2> QED BY <2>2 DEF CountsInv, Recent
<1> QED BY <1>3, <1>4 DEF CountsInv

(* reserve_space takes a slot: it is charged, and holds nothing yet.         *)
LEMMA TakeSlotCounts ==
  ASSUME SendReady, QuotasOK, CountsInv, NEW t \in Threads,
         pc[t] \in {"reserve", "slotWait"}, slotAvailable > 0,
         NEW pos \in Positions, pos.off = 0, pos.slot = SlotsTaken, NEW padded,
         \/ padded = mem /\ pos = localTxPos
         \/ /\ localTxPos.off # 0
            /\ padded = [mem EXCEPT ![txData][localTxPos.off] =
                                       Padding(SlotSize - localTxPos.off)],
         NEW new, new = QueueEntry(pos.slot), TakeSlot(t, pos, padded),
         UNCHANGED <<quotaVars, slotQueue, slotQueueAvailable>>
  PROVE  CountsInv'
<1>1. /\ SlotsTaken \in Nat /\ slotQueueRecycle \in Nat
      /\ SlotsTaken < slotQueueRecycle /\ rxPos.slot \in Nat
      /\ rxPos.slot <= SlotsTaken /\ LastTxIndex = SlotsTaken - 1
      /\ slotQueueAvailable \in Nat /\ SlotsTaken < slotQueueAvailable
      /\ slotQueueAvailable <= slotQueueRecycle
  <2>1. /\ slotQueueAvailable \in Nat /\ slotAvailable \in Nat
        /\ SlotsTaken + slotAvailable = slotQueueAvailable
        /\ slotQueueAvailable <= slotQueueRecycle
    BY DEF SendReady, SpaceOK, SlotAccounting
  <2>2. /\ SlotsTaken \in Nat /\ slotQueueRecycle \in Nat
        /\ rxPos.slot \in Nat /\ rxPos.slot <= rxLimit.slot
        /\ rxLimit.slot <= txPos.slot /\ txPos.slot <= SlotsTaken
        /\ rxLimit.slot \in Nat /\ txPos.slot \in Nat
        /\ LastTxIndex = SlotsTaken - 1
    BY ReadyFacts
  <2> QED BY ONLY <2>1, <2>2, slotAvailable > 0
<1>2. /\ new \in Slots
      /\ \A j \in Nat : SlotsTaken < j /\ j < slotQueueRecycle
           => QueueEntry(j) # new
  BY <1>1, WindowEntry
<1>3. \A x \in Threads : ~ Writing(x)
  BY AloneInside DEF Writing
<1>4. /\ mem \in Contents /\ padded \in Contents
      /\ \A x \in Slots, o \in Offsets :
           padded[x][o] # mem[x][o] =>
             mem[x][o].type = "NONE" /\ padded[x][o].type = "PADDING"
  <2>1. mem \in Contents
    BY DEF SendReady, SlotsOK, Contents
  <2>2. CASE padded = mem
    BY <2>1, <2>2
  <2>3. CASE /\ localTxPos.off # 0
             /\ padded = [mem EXCEPT ![txData][localTxPos.off] =
                                        Padding(SlotSize - localTxPos.off)]
    <3>1. /\ txPos = localTxPos /\ txPos.off \in Offsets /\ txData \in Slots
          /\ BlankFrom(mem, txData, txPos.off)
          /\ Padding(SlotSize - txPos.off) \in Headers
      BY <1>3, <2>3, PaddedFacts
    <3>2. padded \in Contents
      BY <2>1, <2>3, <3>1, PutHeader
    <3>3. mem[txData][txPos.off].type = "NONE"
      BY <3>1, OffsetsAre DEF BlankFrom
    <3>4. \A x \in Slots, o \in Offsets :
            padded[x][o] = IF x = txData /\ o = txPos.off
                           THEN Padding(SlotSize - txPos.off) ELSE mem[x][o]
      BY <2>1, <2>3, <3>1, ReadHeader DEF Contents
    <3>5. Padding(SlotSize - txPos.off).type = "PADDING"
      BY DEF Padding
    <3> QED BY <2>1, <3>2, <3>3, <3>4, <3>5
  <2> QED BY <2>2, <2>3
<1>5. \A x \in Slots, o \in Offsets :
        mem'[x][o] = IF x = new THEN NoHeader ELSE padded[x][o]
  <2>1. mem' = [padded EXCEPT ![new] = Blank]
    BY DEF TakeSlot, QueueEntry
  <2> QED BY <1>2, <1>4, <2>1, ReadCleared DEF Contents
<1>6. \A x \in Slots : x # new => SameData(mem', x)
  BY <1>4, <1>5 DEF SameData
<1>7. \A x \in Slots : x # new => \A s \in Services : DataIn(x, s)' = DataIn(x, s)
  BY <1>6, SameDataIn
<1>8. \A s \in Services : DataIn(new, s)' = {}
  <2> SUFFICES ASSUME NEW s \in Services, NEW o \in Offsets,
                      mem'[new][o].type = "DATA"
               PROVE  FALSE
    BY DEF DataIn
  <2>1. mem'[new][o].type = "NONE"
    BY <1>2, <1>5 DEF NoHeader
  <2> QED BY <2>1
<1>9. LastTxIndex' = SlotsTaken /\ SlotsTaken' = SlotsTaken + 1
  <2>1. msg[t].stride \in 1..SlotSize
    BY StrideOfMessage DEF SendReady
  <2>2. /\ localTxPos' \in Positions
        /\ localTxPos'.off = 0 => localTxPos'.slot = SlotsTaken + 1
        /\ localTxPos'.off # 0 => localTxPos'.slot = SlotsTaken
    BY <2>1, AdvanceFromBoundary DEF TakeSlot
  <2> QED BY <1>1, <2>2 DEF LastTxIndex, SlotsTaken, Positions
<1>10. ChargedSlots' = ChargedSlots \union {new} /\ new \notin ChargedSlots
  <2> DEFINE rest == {QueueEntry(i) : i \in SlotsTaken + 1 .. slotQueueAvailable - 1}
  <2>1. QueuedSlots(SlotsTaken, slotQueueAvailable) = rest \union {new}
    <3>1. \A i \in SlotsTaken .. slotQueueAvailable - 1 :
            i = SlotsTaken \/ i \in SlotsTaken + 1 .. slotQueueAvailable - 1
      BY ONLY <1>1
    <3>2. SlotsTaken \in SlotsTaken .. slotQueueAvailable - 1
      BY ONLY <1>1
    <3>3. \A i \in SlotsTaken + 1 .. slotQueueAvailable - 1 :
            i \in SlotsTaken .. slotQueueAvailable - 1
      BY ONLY <1>1
    <3> QED BY <3>1, <3>2, <3>3 DEF QueuedSlots, QueueEntry
  <2>2. QueuedSlots(SlotsTaken, slotQueueAvailable)' = rest
    <3>1. QueuedSlots(SlotsTaken, slotQueueAvailable)' =
            {slotQueue'[i % QueueLen] :
               i \in SlotsTaken' .. slotQueueAvailable' - 1}
      BY DEF QueuedSlots
    <3> QED BY <1>9, <3>1 DEF QueueEntry
  <2>3. new \notin rest
    <3> SUFFICES ASSUME NEW i \in SlotsTaken + 1 .. slotQueueAvailable - 1
                 PROVE  QueueEntry(i) # new
      OBVIOUS
    <3>1. i \in Nat /\ SlotsTaken < i /\ i < slotQueueRecycle
      BY <1>1
    <3> QED BY <1>2, <3>1
  <2> HIDE DEF rest
  <2> QED BY <1>2, <2>1, <2>2, <2>3 DEF ChargedSlots
<1>11. ChargedSlots \subseteq Slots
  BY DEF ChargedSlots
<1>12. AllDataSlots' = AllDataSlots
  BY <1>7, <1>8, <1>10, <1>11 DEF AllDataSlots
<1>13. \A s \in Services : DataSlots(s)' = DataSlots(s)
  BY <1>7, <1>8, <1>10, <1>11 DEF DataSlots
<1>14. \A s \in Services : DataPlaces(s)' = DataPlaces(s)
  <2> SUFFICES ASSUME NEW s \in Services
               PROVE  DataPlaces(s)' = DataPlaces(s)
    OBVIOUS
  <2>1. \A x \in ChargedSlots' :
          \/ x \in ChargedSlots /\ DataIn(x, s)' = DataIn(x, s)
          \/ x = new /\ DataIn(x, s)' = {}
    BY <1>7, <1>8, <1>10, <1>11
  <2>2. \A x \in ChargedSlots : x \in ChargedSlots' /\ DataIn(x, s)' = DataIn(x, s)
    BY <1>7, <1>10, <1>11
  <2> QED BY <2>1, <2>2 DEF DataPlaces
<1>15. QuotaAccounting'
  BY <1>12, <1>13, <1>14
  DEF CountsInv, QuotaAccounting, quotaVars, AllDataSlots, DataSlots, DataPlaces
<1>16. Recent'
  <2>1. txData' = new
    BY DEF TakeSlot, QueueEntry
  <2>2. \A s \in Services : DataIn(txData, s)' = {}
    BY <1>8, <2>1 DEF DataIn
  <2>3. /\ prevData' \in Int /\ prevData' <= SlotsTaken - 1
        /\ \A s \in Services : prevTx'[s] \in Int /\ prevTx'[s] <= SlotsTaken - 1
    BY <1>1 DEF CountsInv, Recent, QuotasOK, quotaVars
  <2>4. /\ prevData' < LastTxIndex' /\ prevData' # LastTxIndex'
        /\ prevData' <= LastTxIndex'
    BY <1>1, <1>9, <2>3
  <2>5. \A s \in Services : prevTx'[s] # LastTxIndex' /\ prevTx'[s] <= LastTxIndex'
    BY <1>1, <1>9, <2>3
  <2> QED BY <2>2, <2>4, <2>5 DEF Recent
<1> QED BY <1>15, <1>16 DEF CountsInv

(* queue_message charges the quotas with the message it writes.              *)
LEMMA WriteCounts ==
  ASSUME SendReady, QuotasOK, CountsInv, DataService, NEW t \in Threads,
         WriteHeader(t)
  PROVE  CountsInv'
<1> SUFFICES ASSUME NEW off, off = MsgOffset(t), NEW here, here = txData,
                    NEW last, last = LastTxIndex
             PROVE  CountsInv'
  OBVIOUS
<1>1. /\ pc[t] = "write" /\ Writing(t) /\ Goto(t, "publish")
      /\ mem' = [mem EXCEPT ![here][off] = msg[t]]
      /\ UNCHANGED <<localTxPos, txData, slotQueue, slotQueueAvailable>>
  BY DEF WriteHeader, MsgOffset, Writing, queueVars
<1>2. /\ Written(mem, t) /\ msg[t] \in Messages /\ off \in Offsets
      /\ last \in Nat /\ last = SlotsTaken - 1 /\ last < slotQueueRecycle
      /\ rxPos.slot <= last /\ here = QueueEntry(last) /\ here \in Slots
  BY <1>1, WriterFacts
<1>3. mem[here][off].type = "NONE"
  <2>1. BlankFrom(mem, here, off)
    BY <1>1, <1>2 DEF Written
  <2> QED BY <1>2, <2>1, OffsetsAre DEF BlankFrom
<1>4. \A x \in Slots, o \in Offsets :
        mem'[x][o] = IF x = here /\ o = off THEN msg[t] ELSE mem[x][o]
  BY <1>1, <1>2, ReadHeader DEF SendReady, SlotsOK
<1>5. LastTxIndex' = last /\ SlotsTaken' = SlotsTaken /\ Open /\ Open'
  <2>1. Writing(t)'
    BY <1>1 DEF Goto, Writing, SendReady, ThreadsOK
  <2> QED BY <1>1, <2>1 DEF LastTxIndex, SlotsTaken, Open
<1>6. ChargedSlots' = ChargedSlots /\ ChargedSlots \subseteq Slots
  BY <1>1, <1>5, SameCharge DEF ChargedSlots, QueueEntry
<1>7. here \in ChargedSlots
  <2>1. ASSUME NEW i \in SlotsTaken .. slotQueueAvailable - 1
        PROVE  QueueEntry(i) # here
    <3>1. /\ SlotsTaken \in Nat /\ slotQueueRecycle \in Nat /\ rxPos.slot \in Nat
          /\ slotQueueAvailable \in Nat /\ slotQueueAvailable <= slotQueueRecycle
      BY ReadyFacts DEF SendReady, SpaceOK, SlotAccounting
    <3>2. i \in Nat /\ rxPos.slot <= i /\ i < slotQueueRecycle /\ i # last
      BY ONLY <1>2, <3>1, i \in SlotsTaken .. slotQueueAvailable - 1
    <3> QED BY <1>2, <3>2, WindowEntry
  <2> QED BY <1>2, <2>1 DEF ChargedSlots, QueuedSlots, QueueEntry
<1>8. CASE msg[t].type # "DATA"
  <2>1. UNCHANGED <<msgUse, slotUse, prevTx, dataUse, prevData>>
    BY <1>8 DEF WriteHeader
  <2>2. \A x \in Slots : SameData(mem', x)
    BY <1>3, <1>4, <1>8 DEF SameData
  <2>3. \A i \in SlotsTaken .. slotQueueAvailable - 1 :
          slotQueue'[i % QueueLen] = QueueEntry(i)
    BY <1>1 DEF QueueEntry
  <2> QED BY <1>1, <1>2, <1>5, <2>1, <2>2, <2>3, CountsKept
<1>9. CASE msg[t].type = "DATA"
  <2> SUFFICES ASSUME NEW s \in Services, s = msg[t].svc PROVE CountsInv'
    BY <1>9 DEF DataService
  <2>1. /\ msgUse' = [msgUse EXCEPT ![s] = @ + 1]
        /\ dataUse' = IF last # prevData THEN dataUse + 1 ELSE dataUse
        /\ prevData' = last
        /\ slotUse' = [slotUse EXCEPT ![s] =
                         IF last # prevTx[s] THEN @ + 1 ELSE @]
        /\ prevTx' = [prevTx EXCEPT ![s] = last]
    BY <1>9 DEF WriteHeader
  <2>2. /\ DataIn(here, s)' = DataIn(here, s) \union {off}
        /\ off \notin DataIn(here, s)
        /\ \A x \in Slots, u \in Services :
             x # here \/ u # s => DataIn(x, u)' = DataIn(x, u)
    <3>1. DataIn(here, s)' = DataIn(here, s) \union {off}
      BY <1>2, <1>4, <1>9 DEF DataIn
    <3>2. off \notin DataIn(here, s)
      BY <1>3 DEF DataIn
    <3>3. ASSUME NEW x \in Slots, NEW u \in Services, x # here \/ u # s
          PROVE  DataIn(x, u)' = DataIn(x, u)
      <4>1. \A o \in Offsets : (mem'[x][o].type = "DATA" /\ mem'[x][o].svc = u)
                             <=> (mem[x][o].type = "DATA" /\ mem[x][o].svc = u)
        BY <1>3, <1>4, <3>3
      <4> QED BY <4>1 DEF DataIn
    <3> QED BY <3>1, <3>2, <3>3
  <2>3. /\ msgUse[s] \in Nat /\ slotUse[s] \in Nat /\ dataUse \in Nat
        /\ \A u \in Services : prevTx[u] \in Int
    BY DEF QuotasOK
  <2>4. /\ prevTx[s] = last <=> DataIn(here, s) # {}
        /\ prevData = last <=> \E u \in Services : DataIn(here, u) # {}
    BY <1>5 DEF CountsInv, Recent
  <2>5. \A u \in Services : u # s => DataPlaces(u)' = DataPlaces(u)
                                     /\ DataSlots(u)' = DataSlots(u)
    BY <1>6, <2>2 DEF DataPlaces, DataSlots
  <2>6. DataPlaces(s)' = DataPlaces(s) \union {<<here, off>>}
        /\ <<here, off>> \notin DataPlaces(s)
    <3>1. \A x \in ChargedSlots : x # here => DataIn(x, s)' = DataIn(x, s)
      BY <1>6, <2>2
    <3>2. DataPlaces(s)' \subseteq DataPlaces(s) \union {<<here, off>>}
      BY <1>6, <2>2, <3>1 DEF DataPlaces
    <3>3. DataPlaces(s) \subseteq DataPlaces(s)'
      BY <1>6, <2>2, <3>1 DEF DataPlaces
    <3>4. <<here, off>> \in DataPlaces(s)'
      BY <1>2, <1>6, <1>7, <2>2 DEF DataPlaces
    <3>5. <<here, off>> \notin DataPlaces(s)
      BY <2>2 DEF DataPlaces
    <3> QED BY <3>2, <3>3, <3>4, <3>5
  <2>7. DataSlots(s)' = DataSlots(s) \union {here}
        /\ (here \in DataSlots(s) <=> DataIn(here, s) # {})
    <3>1. \A x \in ChargedSlots : x # here => DataIn(x, s)' = DataIn(x, s)
      BY <1>6, <2>2
    <3> QED BY <1>6, <1>7, <2>2, <3>1 DEF DataSlots
  <2>8. AllDataSlots' = AllDataSlots \union {here}
        /\ (here \in AllDataSlots <=> \E u \in Services : DataIn(here, u) # {})
    <3>1. \A x \in ChargedSlots : x # here =>
            \A u \in Services : DataIn(x, u)' = DataIn(x, u)
      BY <1>6, <2>2
    <3>2. DataIn(here, s)' # {}
      BY <2>2
    <3> QED BY <1>6, <1>7, <3>1, <3>2 DEF AllDataSlots
  <2>9. /\ Cardinality(DataPlaces(s)') = Cardinality(DataPlaces(s)) + 1
        /\ Cardinality(DataSlots(s)') =
             IF prevTx[s] = last THEN Cardinality(DataSlots(s))
                                 ELSE Cardinality(DataSlots(s)) + 1
        /\ Cardinality(AllDataSlots') =
             IF prevData = last THEN Cardinality(AllDataSlots)
                                ELSE Cardinality(AllDataSlots) + 1
    <3>1. /\ IsFiniteSet(DataPlaces(s)) /\ IsFiniteSet(DataSlots(s))
          /\ IsFiniteSet(AllDataSlots)
      BY CountsFinite
    <3>2. Cardinality(DataPlaces(s)') = Cardinality(DataPlaces(s)) + 1
      BY <2>6, <3>1, FS_AddElement
    <3>3. Cardinality(DataSlots(s)') =
            IF here \in DataSlots(s) THEN Cardinality(DataSlots(s))
                                     ELSE Cardinality(DataSlots(s)) + 1
      BY <2>7, <3>1, FS_AddElement
    <3>4. Cardinality(AllDataSlots') =
            IF here \in AllDataSlots THEN Cardinality(AllDataSlots)
                                     ELSE Cardinality(AllDataSlots) + 1
      BY <2>8, <3>1, FS_AddElement
    <3> QED BY <2>4, <2>7, <2>8, <3>2, <3>3, <3>4
  <2>10. /\ msgUse[s] = Cardinality(DataPlaces(s))
         /\ slotUse[s] = Cardinality(DataSlots(s))
         /\ dataUse = Cardinality(AllDataSlots)
         /\ \A u \in Services : msgUse[u] = Cardinality(DataPlaces(u))
                                /\ slotUse[u] = Cardinality(DataSlots(u))
    BY DEF CountsInv, QuotaAccounting, DataPlaces, DataSlots, AllDataSlots
  <2>11. QuotaAccounting'
    <3>1. dataUse' = Cardinality(AllDataSlots')
      BY <2>1, <2>9, <2>10
    <3>2. ASSUME NEW u \in Services
          PROVE  msgUse'[u] = Cardinality(DataPlaces(u)')
                 /\ slotUse'[u] = Cardinality(DataSlots(u)')
      <4>1. CASE u = s
        BY <2>1, <2>9, <2>10, <4>1 DEF QuotasOK
      <4>2. CASE u # s
        BY <2>1, <2>5, <2>10, <4>2 DEF QuotasOK
      <4> QED BY <4>1, <4>2
    <3> QED BY <3>1, <3>2 DEF QuotaAccounting, DataPlaces, DataSlots, AllDataSlots
  <2>12. Recent'
    <3>1. \A u \in Services : prevTx'[u] = IF u = s THEN last ELSE prevTx[u]
      BY <2>1 DEF QuotasOK
    <3>2. \A u \in Services : DataIn(txData, u)' = DataIn(here, u)'
      BY <1>1 DEF DataIn
    <3>3. \A u \in Services : prevTx[u] <= last
      BY DEF CountsInv, Recent
    <3>4. DataIn(here, s)' # {}
      BY <2>2
    <3>5. \A u \in Services : prevTx'[u] = last <=> DataIn(here, u)' # {}
      <4> SUFFICES ASSUME NEW u \in Services
                   PROVE  prevTx'[u] = last <=> DataIn(here, u)' # {}
        OBVIOUS
      <4>1. CASE u = s
        BY <3>1, <3>4, <4>1
      <4>2. CASE u # s
        <5>1. DataIn(here, u)' = DataIn(here, u)
          BY <1>2, <2>2, <4>2
        <5>2. prevTx[u] = last <=> DataIn(here, u) # {}
          BY <1>5 DEF CountsInv, Recent
        <5> QED BY <3>1, <4>2, <5>1, <5>2
      <4> QED BY <4>1, <4>2
    <3>6. prevData' <= last /\ \A u \in Services : prevTx'[u] <= last
      BY <1>2, <2>1, <3>1, <3>3
    <3>7. prevData' = last <=> \E u \in Services : DataIn(here, u)' # {}
      BY <2>1, <3>4
    <3> QED BY <1>5, <3>2, <3>5, <3>6, <3>7 DEF Recent
  <2> QED BY <2>11, <2>12 DEF CountsInv
<1> QED BY <1>8, <1>9

(* process_free_queue gives back what one freed slot was charged.            *)
LEMMA FreeCounts ==
  ASSUME SendReady, QuotasOK, CountsInv, ProcessFreeSlot
  PROVE  CountsInv'
<1> SUFFICES ASSUME NEW slot, slot = QueueEntry(slotQueueAvailable)
             PROVE  CountsInv'
  OBVIOUS
<1>1. /\ UNCHANGED <<mem, localTxPos, txData, slotQueue, prevTx, prevData, pc>>
      /\ slotQueueAvailable # slotQueueRecycle
      /\ slotQueueAvailable' = slotQueueAvailable + 1
      /\ msgUse' = [s \in Services |->
                      Monus(msgUse[s], Cardinality(DataIn(slot, s)))]
      /\ slotUse' = [s \in Services |->
                       IF Cardinality(DataIn(slot, s)) > 0
                       THEN Monus(slotUse[s], 1) ELSE slotUse[s]]
      /\ dataUse' = IF \E s \in Services : Cardinality(DataIn(slot, s)) > 0
                    THEN Monus(dataUse, 1) ELSE dataUse
  BY DEF ProcessFreeSlot, QueueEntry
<1>2. /\ SlotsTaken \in Nat /\ slotQueueRecycle \in Nat /\ rxPos.slot \in Nat
      /\ slotQueueAvailable \in Nat /\ slotQueueAvailable < slotQueueRecycle
      /\ SlotsTaken <= slotQueueAvailable /\ rxPos.slot <= slotQueueAvailable
      /\ rxPos.slot <= SlotsTaken
  <2>1. /\ slotQueueAvailable \in Nat /\ slotAvailable \in Nat
        /\ SlotsTaken + slotAvailable = slotQueueAvailable
        /\ slotQueueAvailable <= slotQueueRecycle
    BY DEF SendReady, SpaceOK, SlotAccounting
  <2>2. /\ SlotsTaken \in Nat /\ slotQueueRecycle \in Nat
        /\ rxPos.slot \in Nat /\ rxPos.slot <= rxLimit.slot
        /\ rxLimit.slot <= txPos.slot /\ txPos.slot <= SlotsTaken
        /\ rxLimit.slot \in Nat /\ txPos.slot \in Nat
    BY ReadyFacts
  <2> QED BY ONLY <1>1, <2>1, <2>2
<1>3. /\ slot \in Slots
      /\ \A j \in Nat : SlotsTaken <= j /\ j < slotQueueAvailable
           => QueueEntry(j) # slot
  BY <1>2, WindowEntry
<1>4. ChargedSlots' = ChargedSlots \ {slot} /\ slot \in ChargedSlots
  <2> DEFINE taken == {QueueEntry(i) : i \in SlotsTaken .. slotQueueAvailable - 1}
  <2>1. QueuedSlots(SlotsTaken, slotQueueAvailable) = taken
    BY DEF QueuedSlots, QueueEntry
  <2>2. QueuedSlots(SlotsTaken, slotQueueAvailable)' = taken \union {slot}
    <3>1. QueuedSlots(SlotsTaken, slotQueueAvailable)' =
            {QueueEntry(i) : i \in SlotsTaken .. slotQueueAvailable}
      <4>1. SlotsTaken' = SlotsTaken
        BY <1>1 DEF SlotsTaken
      <4>2. slotQueueAvailable' - 1 = slotQueueAvailable
        BY <1>1, <1>2
      <4>3. QueuedSlots(SlotsTaken, slotQueueAvailable)' =
              {slotQueue'[i % QueueLen] :
                 i \in SlotsTaken' .. slotQueueAvailable' - 1}
        BY DEF QueuedSlots
      <4> QED BY <1>1, <4>1, <4>2, <4>3 DEF QueueEntry
    <3>2. \A i \in SlotsTaken .. slotQueueAvailable :
            i = slotQueueAvailable \/ i \in SlotsTaken .. slotQueueAvailable - 1
      BY ONLY <1>2
    <3>3. slotQueueAvailable \in SlotsTaken .. slotQueueAvailable
      BY ONLY <1>2
    <3>4. \A i \in SlotsTaken .. slotQueueAvailable - 1 :
            i \in SlotsTaken .. slotQueueAvailable
      BY ONLY <1>2
    <3> QED BY <3>1, <3>2, <3>3, <3>4
  <2>3. slot \notin taken
    <3> SUFFICES ASSUME NEW i \in SlotsTaken .. slotQueueAvailable - 1
                 PROVE  QueueEntry(i) # slot
      OBVIOUS
    <3>1. i \in Nat /\ SlotsTaken <= i /\ i < slotQueueAvailable
      BY <1>2
    <3> QED BY <1>3, <3>1
  <2> HIDE DEF taken
  <2> QED BY <1>3, <2>1, <2>2, <2>3 DEF ChargedSlots
<1>5. \A x, s : DataIn(x, s)' = DataIn(x, s)
  BY <1>1 DEF DataIn
<1>6. /\ dataUse \in Nat /\ dataUse = Cardinality(AllDataSlots)
      /\ IsFiniteSet(AllDataSlots)
      /\ \A s \in Services :
           /\ msgUse[s] \in Nat /\ msgUse[s] = Cardinality(DataPlaces(s))
           /\ slotUse[s] \in Nat /\ slotUse[s] = Cardinality(DataSlots(s))
           /\ IsFiniteSet(DataPlaces(s)) /\ IsFiniteSet(DataSlots(s))
  BY CountsFinite
  DEF QuotasOK, CountsInv, QuotaAccounting, DataPlaces, DataSlots, AllDataSlots
<1>7. \A s \in Services : /\ IsFiniteSet(DataIn(slot, s))
                          /\ Cardinality(DataIn(slot, s)) \in Nat
                          /\ Cardinality(DataIn(slot, s)) > 0
                               <=> DataIn(slot, s) # {}
  <2> SUFFICES ASSUME NEW s \in Services
               PROVE  /\ IsFiniteSet(DataIn(slot, s))
                      /\ Cardinality(DataIn(slot, s)) \in Nat
                      /\ Cardinality(DataIn(slot, s)) > 0
                           <=> DataIn(slot, s) # {}
    OBVIOUS
  <2>1. IsFiniteSet(DataIn(slot, s)) /\ Cardinality(DataIn(slot, s)) \in Nat
    BY DataInFinite
  <2>2. Cardinality(DataIn(slot, s)) = 0 <=> DataIn(slot, s) = {}
    BY <2>1, FS_EmptySet
  <2> QED BY <2>1, <2>2
<1>8. ASSUME NEW s \in Services
      PROVE  msgUse'[s] = Cardinality(DataPlaces(s)')
  <2> DEFINE here == {slot} \X DataIn(slot, s)
  <2>1. IsFiniteSet(here) /\ Cardinality(here) = Cardinality(DataIn(slot, s))
    <3>1. IsFiniteSet({slot}) /\ Cardinality({slot}) = 1
      BY FS_Singleton
    <3>2. IsFiniteSet(here)
          /\ Cardinality(here) = 1 * Cardinality(DataIn(slot, s))
      BY <1>7, <3>1, FS_Product
    <3> QED BY <1>7, <3>2
  <2>2. here \subseteq DataPlaces(s)
    BY <1>4 DEF DataPlaces, DataIn
  <2>3. DataPlaces(s)' = DataPlaces(s) \ here
    <3>1. DataPlaces(s)' = {p \in ChargedSlots' \X Offsets : p[2] \in DataIn(p[1], s)}
      BY <1>5 DEF DataPlaces
    <3> QED BY <1>4, <3>1 DEF DataPlaces
  <2> HIDE DEF here
  <2>4. Cardinality(DataPlaces(s) \intersect here) = Cardinality(here)
    <3>1. DataPlaces(s) \intersect here = here
      BY <2>2
    <3> QED BY <3>1
  <2>5. Cardinality(DataPlaces(s)') =
          Cardinality(DataPlaces(s)) - Cardinality(DataIn(slot, s))
    <3>1. IsFiniteSet(DataPlaces(s))
      BY <1>6
    <3>2. Cardinality(DataPlaces(s) \ here) =
            Cardinality(DataPlaces(s)) - Cardinality(DataPlaces(s) \intersect here)
      BY ONLY <3>1, FS_Difference
    <3> QED BY <2>1, <2>3, <2>4, <3>2
  <2>6. Cardinality(here) <= Cardinality(DataPlaces(s))
    BY <1>6, <2>2, FS_Subset
  <2>7. msgUse'[s] = Monus(msgUse[s], Cardinality(DataIn(slot, s)))
    BY <1>1
  <2> QED BY <1>6, <1>7, <2>1, <2>5, <2>6, <2>7 DEF Monus
<1>9. ASSUME NEW s \in Services
      PROVE  slotUse'[s] = Cardinality(DataSlots(s)')
  <2>1. DataSlots(s)' = DataSlots(s) \ {slot}
        /\ (slot \in DataSlots(s) <=> DataIn(slot, s) # {})
    BY <1>4, <1>5 DEF DataSlots
  <2>2. Cardinality(DataSlots(s)') =
          IF slot \in DataSlots(s) THEN Cardinality(DataSlots(s)) - 1
                                   ELSE Cardinality(DataSlots(s))
    <3>1. IsFiniteSet(DataSlots(s))
      BY <1>6
    <3>2. Cardinality(DataSlots(s) \ {slot}) =
            IF slot \in DataSlots(s) THEN Cardinality(DataSlots(s)) - 1
                                     ELSE Cardinality(DataSlots(s))
      BY ONLY <3>1, FS_RemoveElement
    <3> QED BY <2>1, <3>2
  <2>3. slot \in DataSlots(s) => Cardinality(DataSlots(s)) # 0
    BY <1>6, FS_EmptySet
  <2>4. slotUse'[s] = IF DataIn(slot, s) # {} THEN Monus(slotUse[s], 1)
                                              ELSE slotUse[s]
    BY <1>1, <1>7
  <2> QED BY <1>6, <2>1, <2>2, <2>3, <2>4 DEF Monus
<1>10. dataUse' = Cardinality(AllDataSlots')
  <2>1. AllDataSlots' = AllDataSlots \ {slot}
        /\ (slot \in AllDataSlots <=> \E s \in Services : DataIn(slot, s) # {})
    BY <1>4, <1>5 DEF AllDataSlots
  <2>2. Cardinality(AllDataSlots') =
          IF slot \in AllDataSlots THEN Cardinality(AllDataSlots) - 1
                                   ELSE Cardinality(AllDataSlots)
    BY <1>6, <2>1, FS_RemoveElement
  <2>3. slot \in AllDataSlots => Cardinality(AllDataSlots) # 0
    BY <1>6, FS_EmptySet
  <2>4. dataUse' = IF \E s \in Services : DataIn(slot, s) # {}
                   THEN Monus(dataUse, 1) ELSE dataUse
    BY <1>1, <1>7
  <2> QED BY <1>6, <2>1, <2>2, <2>3, <2>4 DEF Monus
<1>11. QuotaAccounting'
  BY <1>8, <1>9, <1>10 DEF QuotaAccounting, DataPlaces, DataSlots, AllDataSlots
<1>12. Recent'
  <2>1. LastTxIndex' = LastTxIndex /\ (Open' <=> Open)
    BY <1>1 DEF LastTxIndex, Open, Writing
  <2>2. \A s \in Services : DataIn(txData, s)' = DataIn(txData, s)
    BY <1>1 DEF DataIn
  <2> QED BY <1>1, <2>1, <2>2 DEF CountsInv, Recent
<1> QED BY <1>11, <1>12 DEF CountsInv

(* While a slot is open, tx_data points into it.                             *)
LEMMA OpenSlot ==
  ASSUME SendReady, Open
  PROVE  txData \in Slots
<1>1. CASE \E t \in Threads : Writing(t)
  BY <1>1, WriterFacts
<1>2. CASE \A t \in Threads : ~ Writing(t)
  <2>1. localTxPos.off # 0
    BY <1>2 DEF Open
  <2> QED BY <1>2, <2>1, PaddedFacts
<1> QED BY <1>1, <1>2

(* A step that leaves the slots, the positions and the counters alone.       *)
LEMMA CountsIdle ==
  ASSUME SendReady, CountsInv,
         UNCHANGED <<mem, localTxPos, txData, slotQueue, slotQueueAvailable>>,
         UNCHANGED <<msgUse, slotUse, prevTx, dataUse, prevData>>,
         \A x \in Threads : Writing(x)' => Writing(x)
  PROVE  CountsInv'
<1>1. SlotsTaken' = SlotsTaken /\ LastTxIndex' = LastTxIndex
  BY DEF SlotsTaken, LastTxIndex
<1>2. Open' => Open
  BY DEF Open
<1>3. \A x \in Slots : SameData(mem', x)
  BY DEF SameData
<1>4. \A i \in SlotsTaken .. slotQueueAvailable - 1 :
        slotQueue'[i % QueueLen] = QueueEntry(i)
  BY DEF QueueEntry
<1> QED BY <1>1, <1>2, <1>3, <1>4, OpenSlot, CountsKept

(* The receiver changes which headers are claimed, and recycles.             *)
LEMMA CountsReceive ==
  ASSUME SendReady, CountsInv, QueueKeeps,
         \/ mem' = mem
         \/ \E slot \in Slots, off \in Offsets, b \in BOOLEAN :
              mem' = [mem EXCEPT ![slot][off].claimed = b],
         UNCHANGED <<pc, localTxPos, txData, slotQueueAvailable>>,
         UNCHANGED <<msgUse, slotUse, prevTx, dataUse, prevData>>
  PROVE  CountsInv'
<1>1. SlotsTaken' = SlotsTaken /\ LastTxIndex' = LastTxIndex
  BY DEF SlotsTaken, LastTxIndex
<1>2. Open' => Open
  BY DEF Open, Writing
<1>3. \A x \in Slots : SameData(mem', x)
  <2>1. CASE mem' = mem
    BY <2>1 DEF SameData
  <2>2. ASSUME NEW slot \in Slots, NEW off \in Offsets, NEW b \in BOOLEAN,
               mem' = [mem EXCEPT ![slot][off].claimed = b]
        PROVE  \A x \in Slots : SameData(mem', x)
    <3>1. mem \in [Slots -> [Offsets -> Headers]]
      BY DEF SendReady, SlotsOK
    <3>2. \A x \in Slots, o \in Offsets :
            mem'[x][o].type = mem[x][o].type /\ mem'[x][o].svc = mem[x][o].svc
      BY ONLY <2>2, <3>1, ReadClaim
    <3> QED BY <3>2 DEF SameData
  <2> QED BY <2>1, <2>2
<1>4. \A i \in SlotsTaken .. slotQueueAvailable - 1 :
        slotQueue'[i % QueueLen] = QueueEntry(i)
  <2> SUFFICES ASSUME NEW i \in SlotsTaken .. slotQueueAvailable - 1
               PROVE  slotQueue'[i % QueueLen] = QueueEntry(i)
    OBVIOUS
  <2>1. /\ SlotsTaken \in Nat /\ slotQueueAvailable \in Nat
        /\ slotQueueRecycle \in Nat /\ slotQueueAvailable <= slotQueueRecycle
    BY ReadyFacts DEF SendReady, SpaceOK, SlotAccounting
  <2>2. i \in SlotsTaken .. slotQueueRecycle - 1
    BY ONLY <2>1, i \in SlotsTaken .. slotQueueAvailable - 1
  <2> QED BY <2>2 DEF QueueKeeps
<1> QED BY <1>1, <1>2, <1>3, <1>4, OpenSlot, CountsKept

(* reserve_space: in the open slot, in a new one, or waiting for one.        *)
LEMMA ReserveCounts ==
  ASSUME SendReady, QuotasOK, CountsInv, NEW t \in Threads, ReserveSpace(t)
  PROVE  CountsInv'
<1> DEFINE k      == msg[t].stride
           space  == SlotSize - localTxPos.off
           pos    == IF k > space
                     THEN [slot |-> localTxPos.slot + 1, off |-> 0]
                     ELSE localTxPos
           padded == IF k > space
                     THEN [mem EXCEPT ![txData][localTxPos.off] = Padding(space)]
                     ELSE mem
<1>1. /\ ThreadsOK /\ localTxPos \in Positions /\ pc[t] = "reserve"
      /\ UNCHANGED <<slotQueue, slotQueueAvailable, quotaVars>>
  BY DEF SendReady, SpaceOK, ReserveSpace, queueVars
<1>2. k \in 1..SlotSize
  BY <1>1, StrideOfMessage
<1>3. /\ pos \in Positions /\ k <= SlotSize - pos.off
      /\ k > space => localTxPos.off # 0
  BY <1>1, <1>2, ReservedPosition
<1>4. \/ /\ pos.off # 0 /\ localTxPos' = Advance(pos, k)
         /\ UNCHANGED <<txPos, mem, txData>>
      \/ pos.off = 0 /\ slotAvailable > 0 /\ TakeSlot(t, pos, padded)
      \/ pos.off = 0 /\ FlushAndWait(t, pos, padded)
  BY DEF ReserveSpace
<1>5. pos.off = 0 => pos.slot = SlotsTaken
  BY <1>3 DEF SlotsTaken
<1>6. UNCHANGED <<msgUse, slotUse, prevTx, dataUse, prevData>>
  BY <1>1 DEF quotaVars
<1>7. \A i \in SlotsTaken .. slotQueueAvailable - 1 :
        slotQueue'[i % QueueLen] = QueueEntry(i)
  BY <1>1 DEF QueueEntry
<1>8. CASE /\ pos.off # 0 /\ localTxPos' = Advance(pos, k)
           /\ UNCHANGED <<txPos, mem, txData>>
  <2>1. ~ k > space /\ pos = localTxPos
    BY <1>8
  <2>2. SlotsTaken' = SlotsTaken /\ LastTxIndex' = LastTxIndex
    <3>1. /\ localTxPos.slot \in Nat /\ localTxPos.off \in Nat
          /\ SlotSize \in Nat /\ localTxPos.off # 0 /\ k \in 1..SlotSize
      BY <1>1, <1>2, <1>8, <2>1, OffsetsAre DEF Positions
    <3>2. \/ localTxPos' = [slot |-> localTxPos.slot + 1, off |-> 0]
          \/ localTxPos' = [slot |-> localTxPos.slot, off |-> localTxPos.off + k]
      BY <1>8, <2>1 DEF Advance
    <3>3. CASE localTxPos' = [slot |-> localTxPos.slot + 1, off |-> 0]
      BY <3>1, <3>3 DEF SlotsTaken, LastTxIndex
    <3>4. CASE localTxPos' = [slot |-> localTxPos.slot,
                              off |-> localTxPos.off + k]
      <4>1. localTxPos'.slot = localTxPos.slot /\ localTxPos'.off # 0
        BY <3>1, <3>4
      <4> QED BY <3>1, <4>1 DEF SlotsTaken, LastTxIndex
    <3> QED BY <3>2, <3>3, <3>4
  <2>3. Open
    BY <1>8, <2>1 DEF Open
  <2>4. \A x \in Slots : SameData(mem', x)
    BY <1>8 DEF SameData
  <2> QED BY <1>1, <1>6, <1>7, <1>8, <2>2, <2>3, <2>4, OpenSlot, CountsKept
<1>9. \/ padded = mem /\ pos = localTxPos
      \/ /\ localTxPos.off # 0
         /\ padded = [mem EXCEPT ![txData][localTxPos.off] = Padding(space)]
         /\ pos = [slot |-> localTxPos.slot + 1, off |-> 0]
  BY <1>3
<1>10. CASE pos.off = 0 /\ slotAvailable > 0 /\ TakeSlot(t, pos, padded)
  <2> HIDE DEF pos, padded
  <2>1. \/ padded = mem /\ pos = localTxPos
        \/ /\ localTxPos.off # 0
           /\ padded = [mem EXCEPT ![txData][localTxPos.off] = Padding(space)]
    BY ONLY <1>9
  <2> QED BY <1>1, <1>3, <1>5, <1>10, <2>1, TakeSlotCounts
<1>11. CASE pos.off = 0 /\ FlushAndWait(t, pos, padded)
  <2> HIDE DEF pos, padded
  <2>1. /\ localTxPos' = pos /\ mem' = padded /\ txData' = txData
        /\ pc' \in {[pc EXCEPT ![t] = "slotWait"], [pc EXCEPT ![t] = "idle"]}
    BY <1>11 DEF FlushAndWait, Goto, Return
  <2>2. /\ \A x \in Threads : ~ Writing(x)
        /\ \A x \in Threads : ~ Writing(x)'
    <3>1. \A x \in Threads : ~ Writing(x)
      BY <1>1, AloneInside DEF Writing
    <3>2. pc \in [Threads -> {"idle", "lock", "dataWait", "dataRelock",
                              "quotaWait", "quotaRelock", "reserve", "slotWait",
                              "write", "publish"}]
      BY <1>1 DEF ThreadsOK
    <3>3. \A x \in Threads : pc'[x] \in {pc[x], "slotWait", "idle"}
      BY <2>1, <3>2
    <3> QED BY <3>1, <3>3 DEF Writing
  <2>3. ~ Open'
    BY <1>11, <2>1, <2>2 DEF Open
  <2>4. SlotsTaken' = SlotsTaken /\ LastTxIndex' = LastTxIndex
    <3>1. SlotsTaken \in Nat /\ LastTxIndex = SlotsTaken - 1
      BY ReadyFacts
    <3>2. SlotsTaken' = localTxPos'.slot /\ LastTxIndex' = localTxPos'.slot - 1
      BY <1>11, <2>1 DEF SlotsTaken, LastTxIndex
    <3> QED BY <1>5, <1>11, <2>1, <3>1, <3>2
  <2>5. \A x \in Slots : SameData(mem', x)
    <3>1. CASE padded = mem
      BY <2>1, <3>1 DEF SameData
    <3>2. CASE /\ localTxPos.off # 0
               /\ padded = [mem EXCEPT ![txData][localTxPos.off] = Padding(space)]
      <4>1. /\ txPos = localTxPos /\ txPos.off \in Offsets /\ txData \in Slots
            /\ BlankFrom(mem, txData, txPos.off)
        BY <2>2, <3>2, PaddedFacts
      <4>2. mem[txData][txPos.off].type = "NONE"
        BY <4>1, OffsetsAre DEF BlankFrom
      <4>3. \A x \in Slots, o \in Offsets :
              mem'[x][o] = IF x = txData /\ o = txPos.off
                           THEN Padding(space) ELSE mem[x][o]
        BY <2>1, <3>2, <4>1, ReadHeader DEF SendReady, SlotsOK
      <4>4. Padding(space).type = "PADDING"
        BY DEF Padding
      <4> QED BY <4>2, <4>3, <4>4 DEF SameData
    <3> QED BY <1>9, <3>1, <3>2
  <2> QED BY <1>1, <1>6, <1>7, <2>3, <2>4, <2>5, CountsKept
<1> QED BY <1>4, <1>8, <1>10, <1>11

(* Every step of the transport keeps the counters right.                     *)
LEMMA StepCounts ==
  TransportInv /\ CountsInv /\ DataService /\ [Next]_vars => CountsInv'
<1> SUFFICES ASSUME TransportInv, CountsInv, DataService, [Next]_vars
             PROVE  CountsInv'
  OBVIOUS
<1>1. SendReady /\ QuotasOK /\ ThreadsOK
  BY DEF TransportInv, SendReady, SenderInv, StateTypeOK
<1> DEFINE Idle == /\ UNCHANGED <<mem, localTxPos, txData, slotQueue>>
                   /\ UNCHANGED <<slotQueueAvailable, msgUse, slotUse, prevTx>>
                   /\ UNCHANGED <<dataUse, prevData>>
                   /\ \A x \in Threads : Writing(x)' => Writing(x)
<1>2. Idle => CountsInv'
  BY <1>1, CountsIdle
<1>3. ASSUME NEW t \in Threads, NEW next \in {"lock", "dataWait", "dataRelock",
                                              "quotaWait", "quotaRelock",
                                              "reserve", "idle"},
             pc' = [pc EXCEPT ![t] = next]
      PROVE  \A x \in Threads : Writing(x)' => Writing(x)
  BY <1>1, <1>3 DEF ThreadsOK, Writing
<1>4. ASSUME NEW t \in Senders, NEW k \in Strides, SendCall(t, k) PROVE Idle
  <2>1. t \in Threads /\ pc' = [pc EXCEPT ![t] = "lock"]
    BY <1>4 DEF SendCall, Threads
  <2> QED BY <1>3, <1>4, <2>1 DEF SendCall, quotaVars, spaceVars, queueVars
<1>5. ASSUME NEW k \in ControlStrides, ControlCall(k) PROVE Idle
  <2>1. Handler \in Threads /\ pc' = [pc EXCEPT ![Handler] = "lock"]
    BY <1>5 DEF ControlCall, Threads
  <2> QED BY <1>3, <1>5, <2>1 DEF ControlCall, quotaVars, spaceVars, queueVars
<1>6. ASSUME NEW s \in Services, MarkClosing(s) \/ SyncClosing(s) PROVE Idle
  BY <1>6
  DEF MarkClosing, SyncClosing, quotaVars, spaceVars, queueVars, Writing
<1>7. ASSUME NEW s \in Services, CloseCall(s) PROVE Idle
  <2>1. Handler \in Threads /\ pc' = [pc EXCEPT ![Handler] = "lock"]
    BY <1>7 DEF CloseCall, Threads
  <2> QED BY <1>3, <1>7, <2>1 DEF CloseCall, quotaVars, spaceVars, queueVars
<1>8. ASSUME NEW t \in Threads, ThreadStep(t) PROVE CountsInv'
  <2>1. CASE \/ LockForData(t) \/ LockForControl(t) \/ DataQuotaDown(t)
             \/ DataRelock(t) \/ QuotaDown(t) \/ QuotaRelock(t) \/ Publish(t)
    <3>1. \E next \in {"dataWait", "dataRelock", "quotaWait", "quotaRelock",
                       "reserve", "idle"} : pc' = [pc EXCEPT ![t] = next]
      BY <2>1
      DEF LockForData, LockForControl, DataQuotaDown, DataRelock, QuotaDown,
          QuotaRelock, Publish, ServiceQuota, Goto, Return
    <3>2. /\ UNCHANGED <<mem, localTxPos, txData, slotQueue>>
          /\ UNCHANGED <<slotQueueAvailable, msgUse, slotUse, prevTx>>
          /\ UNCHANGED <<dataUse, prevData>>
      BY <2>1
      DEF LockForData, LockForControl, DataQuotaDown, DataRelock, QuotaDown,
          QuotaRelock, Publish, quotaVars, spaceVars, queueVars
    <3> QED BY <1>2, <1>3, <3>1, <3>2
  <2>2. CASE ReserveSpace(t)
    BY <1>1, <2>2, ReserveCounts
  <2>3. CASE SlotDown(t)
    <3>1. /\ localTxPos \in Positions /\ pc[t] = "slotWait" /\ slotAvailable > 0
          /\ TakeSlot(t, localTxPos, mem)
          /\ UNCHANGED <<quotaVars, slotQueue, slotQueueAvailable>>
      BY <1>1, <2>3 DEF SendReady, SpaceOK, SlotDown, queueVars
    <3>2. localTxPos.off = 0 /\ localTxPos.slot = SlotsTaken
      BY <1>1, <3>1 DEF SendReady, SlotAccounting, SlotsTaken
    <3> QED BY <1>1, <3>1, <3>2, TakeSlotCounts
  <2>4. CASE WriteHeader(t)
    BY <1>1, <2>4, WriteCounts
  <2> QED BY <1>8, <2>1, <2>2, <2>3, <2>4 DEF ThreadStep
<1>9. CASE ProcessFreeSlot
  BY <1>1, <1>9, FreeCounts
<1>10. CASE ParseBegin
  <2>1. Idle
    BY <1>10 DEF ParseBegin, quotaVars, spaceVars, queueVars, Writing
  <2> QED BY <1>2, <2>1
<1>11. CASE ParseMessage
  <2>1. QueueKeeps
    BY <1>1, <1>11, ParseStep
  <2>2. \/ mem' = mem
        \/ \E slot \in Slots, off \in Offsets, b \in BOOLEAN :
             mem' = [mem EXCEPT ![slot][off].claimed = b]
    <3> SUFFICES ASSUME mem' # mem
                 PROVE  \E slot \in Slots, off \in Offsets, b \in BOOLEAN :
                          mem' = [mem EXCEPT ![slot][off].claimed = b]
      OBVIOUS
    <3>1. /\ QueueEntry(rxPos.slot) \in Slots /\ rxPos.off \in Offsets
          /\ QueueEntry(rxPos.slot) =
               IF rxData = NoSlot THEN slotQueue[rxPos.slot % QueueLen]
                                  ELSE rxData
      BY <1>1, <1>11, ParserFacts DEF ParseMessage
    <3>2. mem' = [mem EXCEPT ![QueueEntry(rxPos.slot)][rxPos.off].claimed = TRUE]
      BY <1>11, <3>1 DEF ParseMessage
    <3>3. TRUE \in BOOLEAN
      OBVIOUS
    <3> QED BY ONLY <3>1, <3>2, <3>3
  <2>3. UNCHANGED <<pc, localTxPos, txData, slotQueueAvailable>>
        /\ UNCHANGED <<msgUse, slotUse, prevTx, dataUse, prevData>>
    BY <1>11 DEF ParseMessage, quotaVars
  <2> QED BY <1>1, <2>1, <2>2, <2>3, CountsReceive
<1>12. ASSUME NEW slot \in Slots, NEW off \in Offsets, ReleaseMessage(slot, off)
       PROVE  CountsInv'
  <2>1. QueueKeeps
    BY <1>1, <1>12, ReleaseStep
  <2>2. \E x \in Slots, o \in Offsets, b \in BOOLEAN :
          mem' = [mem EXCEPT ![x][o].claimed = b]
    <3>1. mem' = [mem EXCEPT ![slot][off].claimed = FALSE]
      BY <1>12 DEF ReleaseMessage
    <3>2. FALSE \in BOOLEAN /\ slot \in Slots /\ off \in Offsets
      OBVIOUS
    <3> QED BY ONLY <3>1, <3>2
  <2>3. UNCHANGED <<pc, localTxPos, txData, slotQueueAvailable>>
        /\ UNCHANGED <<msgUse, slotUse, prevTx, dataUse, prevData>>
    BY <1>12 DEF ReleaseMessage, quotaVars
  <2> QED BY <1>1, <2>1, <2>2, <2>3, CountsReceive
<1>13. CASE UNCHANGED vars
  <2>1. Idle
    BY <1>13 DEF vars, quotaVars, spaceVars, queueVars, Writing
  <2> QED BY <1>2, <2>1
<1> HIDE DEF Idle
<1> QED
  BY <1>2, <1>4, <1>5, <1>6, <1>7, <1>8, <1>9, <1>10, <1>11, <1>12, <1>13
  DEF Next, Parse, Release

(* Only vchiq_queue_message sends data.                                      *)
LEMMA StepDataService ==
  ThreadsOK /\ DataService /\ [Next]_vars => DataService'
<1> SUFFICES ASSUME ThreadsOK, DataService, [Next]_vars PROVE DataService'
  OBVIOUS
<1>1. msg \in [Threads -> Headers]
  BY DEF ThreadsOK
<1>2. ASSUME NEW t \in Threads, NEW m, msg' = [msg EXCEPT ![t] = m],
             m.type = "DATA" => m.svc \in Services
      PROVE  DataService'
  BY <1>1, <1>2 DEF DataService
<1>3. ASSUME msg' = msg PROVE DataService'
  BY <1>3 DEF DataService
<1>4. ASSUME NEW t \in Senders, NEW k \in Strides, SendCall(t, k)
      PROVE  DataService'
  <2>1. t \in Threads /\ Svc[t] \in Services
    BY SlotChannelAssumption DEF SlotChannelAssumption, Threads
  <2> QED BY <1>2, <1>4, <2>1 DEF SendCall
<1>5. ASSUME NEW k \in ControlStrides, ControlCall(k) PROVE DataService'
  <2>1. Handler \in Threads
    BY DEF Threads
  <2> QED BY <1>2, <1>5, <2>1 DEF ControlCall
<1>6. ASSUME NEW s \in Services, MarkClosing(s) \/ SyncClosing(s) \/ CloseCall(s)
      PROVE  DataService'
  <2>1. Handler \in Threads
    BY DEF Threads
  <2> QED BY <1>2, <1>3, <1>6, <2>1 DEF MarkClosing, SyncClosing, CloseCall
<1>7. ASSUME NEW t \in Threads, ThreadStep(t) PROVE DataService'
  <2>1. msg' = msg \/ msg' = [msg EXCEPT ![t] = NoHeader]
    BY <1>7
    DEF ThreadStep, LockForData, LockForControl, DataQuotaDown, DataRelock,
        QuotaDown, QuotaRelock, ReserveSpace, SlotDown, WriteHeader, Publish,
        ServiceQuota, TakeSlot, FlushAndWait, Goto, Return
  <2>2. NoHeader.type # "DATA"
    BY DEF NoHeader
  <2> QED BY <1>2, <1>3, <2>1, <2>2
<1>8. CASE ProcessFreeSlot \/ Parse \/ Release \/ UNCHANGED vars
  <2>1. msg' = msg
    BY <1>8
    DEF ProcessFreeSlot, Parse, ParseBegin, ParseMessage, Release,
        ReleaseMessage, vars
  <2> QED BY <1>3, <2>1
<1> QED BY <1>4, <1>5, <1>6, <1>7, <1>8 DEF Next

(* All slots are free, and nothing is charged.                               *)
LEMMA InitCounts == Init => CountsInv /\ DataService
<1> SUFFICES ASSUME Init PROVE CountsInv /\ DataService
  OBVIOUS
<1>1. /\ NSlots \in Nat \ {0} /\ QueueLen \in Nat /\ NSlots <= QueueLen
      /\ SlotFirst \in Nat /\ SlotLast \in Nat
  BY SlotFacts
<1>2. SlotsTaken = 0 /\ LastTxIndex = -1 /\ slotQueueAvailable = NSlots
  BY DEF Init, SlotsTaken, LastTxIndex
<1>3. ChargedSlots = {}
  <2> SUFFICES ASSUME NEW slot \in Slots
               PROVE  slot \in QueuedSlots(SlotsTaken, slotQueueAvailable)
    BY DEF ChargedSlots
  <2>1. slot - SlotFirst \in 0 .. NSlots - 1
    BY <1>1 DEF Slots, NSlots
  <2>2. slot - SlotFirst \in Nat /\ slot - SlotFirst < QueueLen
        /\ slot - SlotFirst < NSlots
        /\ slot - SlotFirst \in 0..(QueueLen - 1)
    BY <1>1, <2>1
  <2>3. (slot - SlotFirst) % QueueLen = slot - SlotFirst
    BY <2>2, ModSmall
  <2>4. slotQueue[slot - SlotFirst] = slot
    <3>1. slotQueue[slot - SlotFirst] = SlotFirst + (slot - SlotFirst)
      BY <2>2 DEF Init
    <3> QED BY <1>1, <3>1 DEF Slots
  <2> QED BY <1>2, <2>1, <2>3, <2>4 DEF QueuedSlots
<1>4. QuotaAccounting
  <2>1. Cardinality({}) = 0
    BY FS_EmptySet
  <2>2. \A s \in Services : msgUse[s] = 0 /\ slotUse[s] = 0
    BY DEF Init
  <2>3. dataUse = 0
    BY DEF Init
  <2>4. AllDataSlots = {}
    BY <1>3 DEF AllDataSlots
  <2>5. \A s \in Services : DataPlaces(s) = {} /\ DataSlots(s) = {}
    BY <1>3 DEF DataPlaces, DataSlots
  <2> QED BY <2>1, <2>2, <2>3, <2>4, <2>5
          DEF QuotaAccounting, DataPlaces, DataSlots, AllDataSlots
<1>5. Recent
  <2>1. ~ Open
    BY DEF Init, Open, Writing
  <2>2. prevData = -1 /\ \A s \in Services : prevTx[s] = -1
    BY DEF Init
  <2> QED BY <1>2, <2>1, <2>2 DEF Recent
<1>6. DataService
  BY DEF Init, DataService, NoHeader
<1> QED BY <1>4, <1>5, <1>6 DEF CountsInv

(* The counters queue_message charges and process_free_queue gives back are  *)
(* the messages and the slots that a service, or all, really occupy; the     *)
(* recycle thread never finds a counter too small.                           *)
THEOREM QuotaAccountingCorrect == Spec => []QuotaAccounting
<1>1. TransportInv => ThreadsOK
  BY DEF TransportInv, SenderInv, StateTypeOK
<1>2. CountsInv => QuotaAccounting
  BY DEF CountsInv
<1> QED BY <1>1, <1>2, InitCounts, StepCounts, StepDataService,
           TransportInvariant, PTL DEF Spec

=============================================================================
