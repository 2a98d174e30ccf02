------------------------------ MODULE SyncSlot ------------------------------
(***************************************************************************)
(* Synchronous messages: one slot in each direction, outside of the slot   *)
(* queue.  Sender threads fill it in queue_message_sync, the sync thread   *)
(* of the other side parses it, the slot is free again when the message    *)
(* has been released: by the sync thread, by the client that got it, or by *)
(* the slot handler that closes the service.  One direction is modelled.   *)
(*                                                                         *)
(* A remote event is a BOOLEAN: its waiter is never lost (RemoteEvent).    *)
(***************************************************************************)
EXTENDS Integers, FiniteSets

CONSTANTS
  SyncSenders,      (* threads that call vchiq_queue_message                 *)
  MaxSyncMessages   (* bound: messages sent                                  *)

ASSUME SyncAssumption == IsFiniteSet(SyncSenders) /\ MaxSyncMessages \in Nat

VARIABLES
  syncMutex,    (* a thread holds the sender's state->sync_mutex             *)
  syncHeader,   (* the header: type, and the number of the message           *)
  syncRelease,  (* the sender's local->sync_release is fired                 *)
  syncTrigger,  (* the receiver's local->sync_trigger is fired               *)
  senderAt,     (* where each sender is                                      *)
  syncThread,   (* what the sync thread works on, or "wait"                  *)
  rxState,      (* srvstate of the receiving service                         *)
  rxHeld,       (* messages its client has not released                      *)
  syncLog       (* history: messages sent, times the slot was left unowned   *)

syncVars == <<syncMutex, syncHeader, syncRelease, syncTrigger, senderAt,
              syncThread, rxState, rxHeld, syncLog>>

Padding == [type |-> "PADDING", n |-> 0]

SyncInit ==
  /\ syncMutex = FALSE
  /\ syncHeader = Padding
  /\ syncRelease = TRUE /\ syncTrigger = FALSE
  /\ senderAt = [t \in SyncSenders |-> "idle"]
  /\ syncThread = [type |-> "wait", n |-> 0]
  /\ rxState = "OPENING"
  /\ rxHeld = {}
  /\ syncLog = [sent |-> 0, lost |-> 0]

SenderGoto(t, here, next) ==
  /\ senderAt[t] = here
  /\ senderAt' = [senderAt EXCEPT ![t] = next]
  /\ UNCHANGED <<syncThread, rxState, rxHeld>>

-----------------------------------------------------------------------------
(* queue_message_sync: OPENACK by the slot handler that opens the service,   *)
(* then DATA.                                                                *)

SyncLock(t) ==
  /\ SenderGoto(t, "idle", "waitRelease")
  /\ ~syncMutex /\ syncMutex' = TRUE
  /\ syncLog.sent < MaxSyncMessages
  /\ UNCHANGED <<syncHeader, syncRelease, syncTrigger, syncLog>>

(* Variant for mutation: the slot is filled without waiting for it.          *)
SyncAwaitSlotNot(t) ==
  /\ SenderGoto(t, "waitRelease", "fill")
  /\ syncRelease' = FALSE
  /\ UNCHANGED <<syncMutex, syncHeader, syncTrigger, syncLog>>

SyncAwaitSlot(t) ==
  /\ SenderGoto(t, "waitRelease", "fill")
  /\ syncRelease
  /\ syncRelease' = FALSE
  /\ UNCHANGED <<syncMutex, syncHeader, syncTrigger, syncLog>>

SyncSend(t) ==
  /\ SenderGoto(t, "fill", "idle")
  /\ syncHeader' = [type |-> IF syncLog.sent = 0 THEN "OPENACK" ELSE "DATA",
                    n |-> syncLog.sent + 1]
  /\ syncTrigger' = TRUE
  /\ syncMutex' = FALSE
  /\ syncLog' = [syncLog EXCEPT !.sent = @ + 1]
  /\ UNCHANGED syncRelease

(* The elements cannot be copied: an error, and the slot is not given back.  *)
SyncCopyFails(t) ==
  /\ SenderGoto(t, "fill", "idle")
  /\ syncLog.sent > 0
  /\ syncMutex' = FALSE
  /\ syncLog' = [syncLog EXCEPT !.lost = @ + 1]
  /\ UNCHANGED <<syncHeader, syncRelease, syncTrigger>>

SyncSenderStep(t) ==
  SyncLock(t) \/ SyncAwaitSlot(t) \/ SyncSend(t) \/ SyncCopyFails(t)

-----------------------------------------------------------------------------
(* release_message_sync.                                                     *)
ReleaseMessageSync ==
  /\ syncHeader' = Padding
  /\ syncRelease' = TRUE

(* sync_func, woken: the header is read once.                                *)
SyncFuncWake ==
  /\ syncThread.type = "wait" /\ syncTrigger
  /\ syncTrigger' = FALSE
  /\ syncThread' = syncHeader
  /\ UNCHANGED <<syncMutex, syncHeader, syncRelease, senderAt, rxState, rxHeld,
                 syncLog>>

SyncFuncDone == syncThread' = [type |-> "wait", n |-> 0]

(* Variant for mutation: an OPENACK is not released.                         *)
SyncOpenAckKept ==
  /\ syncThread.type = "OPENACK"
  /\ SyncFuncDone
  /\ rxState' = IF rxState = "OPENING" THEN "OPENSYNC" ELSE rxState
  /\ UNCHANGED <<syncHeader, syncRelease, syncLog, syncMutex, syncTrigger,
                 senderAt, rxHeld>>

SyncOpenAck ==
  /\ syncThread.type = "OPENACK"
  /\ SyncFuncDone
  /\ rxState' = IF rxState = "OPENING" THEN "OPENSYNC" ELSE rxState
  /\ ReleaseMessageSync
  /\ UNCHANGED <<syncLog, syncMutex, syncTrigger, senderAt, rxHeld>>

(* Data for an open service go to its client; otherwise nobody releases them.*)
SyncData ==
  /\ syncThread.type = "DATA"
  /\ rxState # "FREE"
  /\ SyncFuncDone
  /\ IF rxState = "OPENSYNC"
     THEN rxHeld' = rxHeld \union {syncThread.n} /\ UNCHANGED syncLog
     ELSE syncLog' = [syncLog EXCEPT !.lost = @ + 1] /\ UNCHANGED rxHeld
  /\ UNCHANGED <<syncHeader, syncRelease, syncMutex, syncTrigger, senderAt,
                 rxState>>

(* No such service any more, or a message that was released behind the back  *)
(* of this thread: the slot is released.                                     *)
SyncUnexpected ==
  /\ \/ syncThread.type = "DATA" /\ rxState = "FREE"
     \/ syncThread.type = "PADDING"
  /\ SyncFuncDone
  /\ ReleaseMessageSync
  /\ UNCHANGED <<syncMutex, syncTrigger, senderAt, rxState, rxHeld, syncLog>>

(* vchiq_release_message by the client, while its handle is valid.           *)
SyncClientRelease(n) ==
  /\ n \in rxHeld
  /\ rxHeld' = rxHeld \ {n}
  /\ IF rxState = "FREE" THEN UNCHANGED <<syncHeader, syncRelease>>
                         ELSE ReleaseMessageSync
  /\ UNCHANGED <<syncMutex, syncTrigger, senderAt, syncThread, rxState, syncLog>>

(* release_service_messages, called by the slot handler that closes the      *)
(* service: whatever is in the slot for it is released, read or not.         *)
SyncClose ==
  /\ rxState = "OPENSYNC"
  /\ rxState' = "CLOSED"
  /\ IF syncHeader.type = "PADDING"
     THEN UNCHANGED <<syncHeader, syncRelease>>
     ELSE ReleaseMessageSync
  /\ UNCHANGED <<syncMutex, syncTrigger, senderAt, syncThread, rxHeld, syncLog>>

SyncFree ==
  /\ rxState = "CLOSED"
  /\ rxState' = "FREE"
  /\ UNCHANGED <<syncMutex, syncHeader, syncRelease, syncTrigger, senderAt,
                 syncThread, rxHeld, syncLog>>

SyncFuncStep == SyncFuncWake \/ SyncOpenAck \/ SyncData \/ SyncUnexpected

SyncNext ==
  \/ \E t \in SyncSenders : SyncSenderStep(t)
  \/ SyncFuncStep
  \/ \E n \in rxHeld : SyncClientRelease(n)
  \/ SyncClose \/ SyncFree

SyncSpec == SyncInit /\ [][SyncNext]_syncVars

(* The threads run, and clients release what they get.                       *)
SyncFairness ==
  /\ \A t \in SyncSenders : WF_syncVars(SyncAwaitSlot(t) \/ SyncSend(t))
  /\ WF_syncVars(SyncFuncStep)
  /\ WF_syncVars(\E n \in rxHeld : SyncClientRelease(n))

-----------------------------------------------------------------------------
SyncTypeOK ==
  /\ syncMutex \in BOOLEAN /\ syncRelease \in BOOLEAN /\ syncTrigger \in BOOLEAN
  /\ syncHeader \in [type : {"PADDING", "OPENACK", "DATA"}, n : Nat]
  /\ senderAt \in [SyncSenders -> {"idle", "waitRelease", "fill"}]
  /\ syncThread \in [type : {"wait", "PADDING", "OPENACK", "DATA"}, n : Nat]
  /\ rxState \in {"OPENING", "OPENSYNC", "CLOSED", "FREE"}
  /\ rxHeld \in SUBSET (1..MaxSyncMessages)
  /\ syncLog \in [sent : Nat, lost : Nat]

(* Everyone who may touch the slot: the sender it is free for, the one that  *)
(* fills it, the sync thread it waits for, the one that parses it, clients   *)
(* that read it.                                                             *)
SyncOwners ==
  (IF syncRelease THEN {<<"free", 0>>} ELSE {})
    \union {<<"filling", t>> : t \in {u \in SyncSenders : senderAt[u] = "fill"}}
    \union (IF syncTrigger THEN {<<"unread", 0>>} ELSE {})
    \union (IF syncThread.type # "wait" THEN {<<"parsed", 0>>} ELSE {})
    \union {<<"held", n>> : n \in rxHeld}

SyncRxOpen == rxState \in {"OPENING", "OPENSYNC"}

(* As long as the service is not closed, the slot has one owner, unless a    *)
(* sender failed while it was its owner; what is read is the last message    *)
(* sent, and nobody overwrites it.                                           *)
SyncOneOwner ==
  SyncRxOpen =>
    /\ Cardinality(SyncOwners) + syncLog.lost = 1
    /\ \A n \in rxHeld : n = syncLog.sent /\ syncHeader = [type |-> "DATA", n |-> n]
    /\ syncThread.type # "wait" => syncThread = syncHeader
    /\ syncTrigger => syncHeader.n = syncLog.sent

(* A thread that sends a synchronous message gets the slot, unless the slot  *)
(* was left unowned or the service closed meanwhile.                         *)
SyncSendReturns ==
  \A t \in SyncSenders :
    senderAt[t] = "waitRelease" ~>
      senderAt[t] # "waitRelease" \/ syncLog.lost > 0 \/ ~SyncRxOpen
=============================================================================
