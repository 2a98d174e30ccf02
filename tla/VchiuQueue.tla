----------------------------- MODULE VchiuQueue -----------------------------
(***************************************************************************)
(* The header queue of a VCHI service (vchiq_util.c) between the slot      *)
(* handler, which pushes in shim_callback, and the client, which takes     *)
(* headers with the message calls of vchiq_shim.c.  Every access to an     *)
(* index or an entry is a step of its own: the barriers of the code order  *)
(* them, and nothing else is promised between the two sides.               *)
(*                                                                         *)
(* Headers are numbered in the order in which parse_message claims them,   *)
(* so the k-th push stores header k.                                       *)
(***************************************************************************)
EXTENDS Integers, FiniteSets

CONSTANTS
  QueueSize,     (* the size given to vchiu_queue_init, 64 in service_alloc *)
  QueueMessages  (* bound: messages that arrive                             *)

ASSUME QueueAssumption == QueueSize \in Nat \ {0} /\ QueueMessages \in Nat

VARIABLES
  queue,       (* VCHIU_QUEUE_T: read, write, storage, counts of push, pop  *)
  pusher,      (* where the slot handler is in shim_callback                *)
  arrived,     (* messages given to shim_callback                           *)
  claimed,     (* headers claimed in their slots and not released yet       *)
  client,      (* where the client is                                       *)
  call,        (* the client's call: "dequeue", "hold", "peek" or "remove"  *)
  inHand,      (* the header the client's call is about, 0 if none          *)
  held         (* headers got by vchi_msg_hold and not released yet         *)

queueVars == <<queue, pusher, arrived, claimed, client, call, inHand, held>>

QIndex(i) == i % QueueSize
QueueEmpty == queue.write = queue.read
QueueFull  == queue.write = queue.read + QueueSize

QueueInit ==
  /\ queue = [read |-> 0, write |-> 0, push |-> 0, pop |-> 0,
              storage |-> [i \in 0..(QueueSize - 1) |-> 0]]
  /\ pusher = "idle" /\ client = "idle" /\ call = "dequeue"
  /\ arrived = 0 /\ inHand = 0
  /\ claimed = {} /\ held = {}

PusherAt(here, next) == pusher = here /\ pusher' = next
ClientAt(here, next) == client = here /\ client' = next

(***************************************************************************)
(* vchiu_queue_push, called for VCHIQ_MESSAGE_AVAILABLE.                   *)
(***************************************************************************)
MessageAvailable ==
  /\ arrived < QueueMessages
  /\ PusherAt("idle", "test")
  /\ arrived' = arrived + 1
  /\ claimed' = claimed \union {arrived + 1}
  /\ UNCHANGED <<queue, client, call, inHand, held>>

PushTest ==
  /\ PusherAt("test", IF QueueFull THEN "wait" ELSE "store")
  /\ UNCHANGED <<queue, arrived, claimed, client, call, inHand, held>>

PushWait ==
  /\ queue.pop > 0
  /\ PusherAt("wait", "test")
  /\ queue' = [queue EXCEPT !.pop = @ - 1]
  /\ UNCHANGED <<arrived, claimed, client, call, inHand, held>>

PushStore ==
  /\ PusherAt("store", "publish")
  /\ queue' = [queue EXCEPT !.storage[QIndex(queue.write)] = arrived]
  /\ UNCHANGED <<arrived, claimed, client, call, inHand, held>>

PushPublish ==
  /\ PusherAt("publish", "up")
  /\ queue' = [queue EXCEPT !.write = @ + 1]
  /\ UNCHANGED <<arrived, claimed, client, call, inHand, held>>

PushUp ==
  /\ PusherAt("up", "idle")
  /\ queue' = [queue EXCEPT !.push = @ + 1]
  /\ UNCHANGED <<arrived, claimed, client, call, inHand, held>>

(***************************************************************************)
(* vchi_msg_dequeue, vchi_msg_hold, vchi_msg_peek and vchi_msg_remove.     *)
(* Without a flag they return at once from an empty queue, with            *)
(* VCHI_FLAGS_BLOCK_UNTIL_OP_COMPLETE they wait; vchi_msg_remove follows a *)
(* peek.                                                                   *)
(***************************************************************************)
ClientCall(c, blocking) ==
  /\ c \in {"dequeue", "hold", "peek"}
  /\ blocking \/ ~QueueEmpty
  /\ ClientAt("idle", "test")
  /\ call' = c
  /\ UNCHANGED <<queue, pusher, arrived, claimed, inHand, held>>

PopTest ==
  /\ ClientAt("test", IF QueueEmpty THEN "wait"
                      ELSE IF call = "peek" THEN "restore" ELSE "load")
  /\ UNCHANGED <<queue, pusher, arrived, claimed, call, inHand, held>>

PopWait ==
  /\ queue.push > 0
  /\ ClientAt("wait", "test")
  /\ queue' = [queue EXCEPT !.push = @ - 1]
  /\ UNCHANGED <<pusher, arrived, claimed, call, inHand, held>>

(* vchiu_queue_peek takes nothing out: it gives the semaphore back.         *)
PeekUp ==
  /\ ClientAt("restore", "load")
  /\ queue' = [queue EXCEPT !.push = @ + 1]
  /\ UNCHANGED <<pusher, arrived, claimed, call, inHand, held>>

PopLoad ==
  /\ ClientAt("load", IF call = "peek" THEN "reading" ELSE "advance")
  /\ inHand' = queue.storage[QIndex(queue.read)]
  /\ UNCHANGED <<queue, pusher, arrived, claimed, call, held>>

PopAdvance ==
  /\ ClientAt("advance", "up")
  /\ queue' = [queue EXCEPT !.read = @ + 1]
  /\ UNCHANGED <<pusher, arrived, claimed, call, inHand, held>>

(* Variant for mutation: nobody wakes the pusher.                           *)
PopNoUp ==
  /\ ClientAt("up", "return")
  /\ UNCHANGED <<queue, pusher, arrived, claimed, call, inHand, held>>

PopUp ==
  /\ ClientAt("up", "return")
  /\ queue' = [queue EXCEPT !.pop = @ + 1]
  /\ UNCHANGED <<pusher, arrived, claimed, call, inHand, held>>

(* vchi_msg_remove: pops, and releases what it popped.                      *)
RemovePeeked ==
  /\ ClientAt("reading", "test")
  /\ call' = "remove"
  /\ inHand' = 0
  /\ UNCHANGED <<queue, pusher, arrived, claimed, held>>

(* Dequeue and remove release the message, hold hands it to the client.     *)
MessageReturn ==
  /\ ClientAt("return", "idle")
  /\ inHand' = 0
  /\ IF call = "hold"
     THEN held' = held \union {inHand} /\ UNCHANGED claimed
     ELSE claimed' = claimed \ {inHand} /\ UNCHANGED held
  /\ UNCHANGED <<queue, pusher, arrived, call>>

(* vchi_held_msg_release                                                     *)
HeldRelease(h) ==
  /\ client = "idle"
  /\ h \in held
  /\ held' = held \ {h}
  /\ claimed' = claimed \ {h}
  /\ UNCHANGED <<queue, pusher, arrived, client, call, inHand>>

PusherStep ==
  \/ PushTest \/ PushWait \/ PushStore \/ PushPublish \/ PushUp

ClientStep ==
  \/ PopTest \/ PopWait \/ PeekUp \/ PopLoad \/ PopAdvance \/ PopUp
  \/ RemovePeeked \/ MessageReturn

QueueNext ==
  \/ MessageAvailable
  \/ PusherStep
  \/ \E c \in {"dequeue", "hold", "peek"}, blocking \in BOOLEAN :
       ClientCall(c, blocking)
  \/ ClientStep
  \/ \E h \in held : HeldRelease(h)

QueueSpec == QueueInit /\ [][QueueNext]_queueVars

-----------------------------------------------------------------------------
HeaderQueues == [read : Nat, write : Nat, push : Nat, pop : Nat,
                 storage : [0..(QueueSize - 1) -> Nat]]

QueueTypeOK ==
  /\ queue \in HeaderQueues
  /\ pusher \in {"idle", "test", "wait", "store", "publish", "up"}
  /\ client \in {"idle", "test", "wait", "restore", "load", "advance", "up",
                 "return", "reading"}
  /\ call \in {"dequeue", "hold", "peek", "remove"}
  /\ arrived \in Nat /\ inHand \in Nat
  /\ claimed \in SUBSET (1..arrived) /\ held \in SUBSET (1..arrived)

(* Headers pushed and not popped.                                           *)
Queued == (queue.read + 1)..queue.write

(* The header being pushed, not visible to the client yet.                  *)
BeingPushed == IF pusher \in {"test", "wait", "store", "publish"}
               THEN {arrived} ELSE {}

(* The header the client holds in its call once it has left the queue.      *)
Popped == IF client \in {"up", "return"} THEN {inHand} ELSE {}

(* The ring never holds more than its size, and what a call has in hand is   *)
(* the oldest header in it, or the one that it has just taken out.          *)
QueueOrder ==
  /\ queue.read <= queue.write /\ queue.write <= queue.read + QueueSize
  /\ client \in {"advance", "reading"} => inHand = queue.read + 1
  /\ client \in {"up", "return"} => inHand = queue.read

(* No entry is overwritten before it is popped.                             *)
QueueEntries == \A h \in Queued : queue.storage[QIndex(h - 1)] = h

(* The claims on the slots are exactly the headers being pushed, queued, in *)
(* the client's hand or held.                                               *)
QueueClaims == claimed = BeingPushed \union Queued \union Popped \union held

(* No thread sleeps through a change it waits for.                          *)
QueueAwake ==
  /\ pusher = "wait" /\ ~QueueFull => queue.pop > 0 \/ client = "up"
  /\ client = "wait" /\ ~QueueEmpty => queue.push > 0 \/ pusher = "up"

(* Headers come out in the order of their arrival, whichever call takes     *)
(* them: what a peek shows is what remove then takes.  A header is neither  *)
(* released while someone can still read it, nor forgotten; and neither     *)
(* thread sleeps for nothing (vchiq_util.c, vchiq_shim.c).                  *)
QueueExact == QueueOrder /\ QueueEntries /\ QueueClaims /\ QueueAwake
=============================================================================
