------------------------------ MODULE UserPort ------------------------------
(***************************************************************************)
(* The character device through which a process uses VCHIQ (vchiq_arm.c),  *)
(* which the Circle build leaves out: one VCHI service of an instance.     *)
(* The slot handler's callback puts messages into the service's queue and  *)
(* completions into the instance's ring; threads of the process get them   *)
(* with AWAIT_COMPLETION and DEQUEUE_MESSAGE, close the service, confirm   *)
(* that they know, and at last the file is closed.                         *)
(*                                                                         *)
(* The client library is external: one thread awaits completions, and on   *)
(* MESSAGE_AVAILABLE dequeues until the queue is empty; another dequeues   *)
(* and waits.  A call that was interrupted is made again.                  *)
(***************************************************************************)
EXTENDS Integers, Sequences, FiniteSets

CONSTANTS
  RingSize,        (* MAX_COMPLETIONS                                        *)
  InboxSize,       (* MSG_QUEUE_SIZE                                         *)
  MaxInbox         (* bound: messages of the peer                            *)

ASSUME UserPortAssumption ==
  {RingSize, InboxSize} \subseteq Nat \ {0} /\ MaxInbox \in Nat

VARIABLES
  ring,       (* completions from completion_remove on                       *)
  removed,    (* completion_remove                                           *)
  inbox,      (* msg_queue from msg_remove on                                *)
  port,       (* of the service: message_available_pos, dequeue_pending,     *)
              (* close_pending, whether it is there, references for CLOSED   *)
  sems,       (* insert_event, remove_event and close_event                  *)
  shutting,   (* instance->closing                                           *)
  telling,    (* where the slot handler is in service_callback               *)
  awaiter,    (* the completion thread and what it was given                 *)
  dequeuer,   (* where the thread in DEQUEUE_MESSAGE is                      *)
  portCloser, (* where the thread in CLOSE_SERVICE is                        *)
  file,       (* "open", in vchiq_release, or "released"                     *)
  delivering, (* use_close_delivered                                         *)
  received     (* history: messages so far                                    *)

portVars == <<ring, removed, inbox, port, sems, shutting, telling, awaiter,
              dequeuer, portCloser, file, delivering, received>>

Filled == removed + Len(ring)

(* CREATE_SERVICE: the user service, no message of which is in the ring yet. *)
UserService == [available |-> removed - 1, pending |-> FALSE, closePending |-> FALSE,
                there |-> TRUE, refs |-> 0]

PortInit ==
  /\ ring = <<>> /\ removed = 0 /\ inbox = <<>>
  /\ port = UserService
  /\ sems = [insert |-> 0, remove |-> 0, msgInsert |-> 0, msgRemove |-> 0,
             close |-> 0]
  /\ shutting = FALSE
  /\ telling = [at |-> "idle", reason |-> "none"]
  /\ awaiter = [at |-> "idle", got |-> <<>>]
  /\ dequeuer = "idle" /\ portCloser = "idle"
  /\ file = "open" /\ delivering \in BOOLEAN
  /\ received = 0

UpSem(e) == [sems EXCEPT ![e] = @ + 1]
DownSem(e) == [sems EXCEPT ![e] = @ - 1]

(* What the calls of the process leave alone, and what the callback does.    *)
processVars == <<awaiter, dequeuer, portCloser, file, delivering>>
otherVars == <<shutting, file, delivering, received>>

-----------------------------------------------------------------------------
(* service_callback, in the slot handler.                                    *)

TellingIs(at, reason) == telling' = [at |-> at, reason |-> reason]

(* Variant for mutation: a waiting thread is taken to be told already.       *)
KnownForLong == port.available >= removed \/ dequeuer = "blocked"

(* A MESSAGE_AVAILABLE is in the ring, or a thread waits to dequeue.         *)
Known == port.available >= removed \/ port.pending

(* A message: the completion is bypassed when the process will look anyway.  *)
InsertMessage ==
  /\ inbox' = Append(inbox, received)
  /\ received' = received + 1
  /\ sems' = UpSem("msgInsert")
  /\ IF Known
     THEN port' = [port EXCEPT !.pending = FALSE] /\ TellingIs("idle", "none")
     ELSE UNCHANGED port /\ TellingIs("add", "MESSAGE_AVAILABLE")
  /\ UNCHANGED <<ring, removed, shutting, processVars>>

(* The queue is full: make sure that the process knows, and wait.            *)
WaitForRoom ==
  /\ IF port.available < removed THEN TellingIs("extra", "MESSAGE_AVAILABLE")
     ELSE TellingIs("full", "none")
  /\ UNCHANGED <<ring, removed, inbox, port, shutting, received, processVars>>

TellMessage ==
  /\ telling.at = "idle" /\ port.there /\ ~shutting /\ received < MaxInbox
  /\ \/ Len(inbox) < InboxSize /\ InsertMessage
     \/ Len(inbox) = InboxSize /\ WaitForRoom /\ UNCHANGED sems

(* Woken in front of the queue; it gives up when the file is being closed.   *)
RoomWoken ==
  /\ telling.at = "full" /\ sems.msgRemove > 0
  /\ sems' = DownSem("msgRemove")
  /\ IF shutting THEN TellingIs("idle", "none")
     ELSE IF Len(inbox) < InboxSize THEN TellingIs("insert", "none")
     ELSE telling' = [telling EXCEPT
                        !.at = IF port.available < removed THEN "extra" ELSE "full",
                        !.reason = "MESSAGE_AVAILABLE"]
  /\ UNCHANGED <<ring, removed, inbox, port, shutting, received, processVars>>

RoomInsert == telling.at = "insert" /\ InsertMessage

(* add_completion: CLOSED has a reference to the service until the process   *)
(* knows.                                                                    *)
AddCompletion ==
  /\ telling.at \in {"add", "extra"} /\ Len(ring) < RingSize
  /\ ring' = Append(ring, telling.reason)
  /\ port' = CASE telling.reason = "MESSAGE_AVAILABLE" ->
                    [port EXCEPT !.available = Filled]
               [] OTHER ->
                    [port EXCEPT !.refs = @ + 1, !.there = FALSE,
                                 !.closePending = delivering]
  /\ sems' = UpSem("insert")
  /\ IF telling.at = "extra" THEN TellingIs("full", "none")
     ELSE TellingIs("idle", "none")
  /\ UNCHANGED <<removed, inbox, shutting, received, processVars>>

(* The ring is full: the slot handler sleeps.                                *)
AddFull ==
  /\ telling.at \in {"add", "extra"} /\ Len(ring) = RingSize
  /\ telling' = [telling EXCEPT !.at = IF @ = "add" THEN "addDown" ELSE "extraDown"]
  /\ UNCHANGED <<ring, removed, inbox, port, sems, shutting, received, processVars>>

(* Variant for mutation: woken once, it takes the room for granted.          *)
AddWokenOnce ==
  /\ telling.at \in {"addDown", "extraDown"} /\ sems.remove > 0
  /\ ring' = Append(ring, telling.reason)
  /\ sems' = [DownSem("remove") EXCEPT !.insert = @ + 1]
  /\ TellingIs(IF telling.at = "addDown" THEN "idle" ELSE "full", "none")
  /\ UNCHANGED <<removed, inbox, port, shutting, received, processVars>>

(* Woken it looks again; when the file is being closed nothing is added, and *)
(* for lack of a message the callback goes on as if it were.                 *)
AddWoken ==
  /\ telling.at \in {"addDown", "extraDown"} /\ sems.remove > 0
  /\ sems' = DownSem("remove")
  /\ IF ~shutting
     THEN /\ telling' = [telling EXCEPT !.at = IF @ = "addDown" THEN "add" ELSE "extra"]
          /\ UNCHANGED port
     ELSE /\ IF telling.at = "extraDown" THEN TellingIs("full", "none")
             ELSE TellingIs("idle", "none")
          /\ port' = [port EXCEPT !.there = @ /\ telling.reason # "SERVICE_CLOSED"]
  /\ UNCHANGED <<ring, removed, inbox, shutting, received, processVars>>

(* The service closes, for the peer or for a call of the process.            *)
TellClosed ==
  /\ telling.at = "idle" /\ port.there
  /\ IF shutting
     THEN port' = [port EXCEPT !.there = FALSE] /\ UNCHANGED telling
     ELSE TellingIs("add", "SERVICE_CLOSED") /\ UNCHANGED port
  /\ UNCHANGED <<ring, removed, inbox, sems, shutting, received, processVars>>

-----------------------------------------------------------------------------
(* AWAIT_COMPLETION, and what the library does with what it gets.            *)

AwaitAt(at) == awaiter' = [awaiter EXCEPT !.at = at]

AwaitCall ==
  /\ awaiter.at = "idle" /\ file = "open"
  /\ AwaitAt(IF ring = <<>> /\ ~shutting THEN "down" ELSE "copy")
  /\ UNCHANGED <<ring, removed, inbox, port, sems, telling, dequeuer,
                 portCloser, otherVars>>

AwaitDown ==
  /\ awaiter.at = "down" /\ sems.insert > 0
  /\ sems' = DownSem("insert")
  /\ AwaitAt(IF ring = <<>> /\ ~shutting THEN "down" ELSE "copy")
  /\ UNCHANGED <<ring, removed, inbox, port, telling, dequeuer, portCloser,
                 otherVars>>

(* One completion is copied, then taken out of the ring.                     *)
AwaitCopy ==
  /\ awaiter.at = "copy" /\ ring # <<>> /\ Len(awaiter.got) < RingSize
  /\ awaiter' = [at |-> "advance", got |-> Append(awaiter.got, Head(ring))]
  /\ port' = [port EXCEPT
       !.refs = IF Head(ring) = "SERVICE_CLOSED" /\ ~delivering THEN @ - 1 ELSE @]
  /\ UNCHANGED <<ring, removed, inbox, sems, telling, dequeuer, portCloser,
                 otherVars>>

AwaitAdvance ==
  /\ awaiter.at = "advance" /\ AwaitAt("copy")
  /\ ring' = Tail(ring) /\ removed' = removed + 1
  /\ UNCHANGED <<inbox, port, sems, telling, dequeuer, portCloser, otherVars>>

AwaitReturn ==
  /\ awaiter.at = "copy" /\ (ring = <<>> \/ Len(awaiter.got) = RingSize)
  /\ sems' = IF awaiter.got = <<>> THEN sems ELSE UpSem("remove")
  /\ AwaitAt("handle")
  /\ UNCHANGED <<ring, removed, inbox, port, telling, dequeuer, portCloser,
                 otherVars>>

TakeMessage == inbox' = Tail(inbox)

HandleMessage ==
  /\ awaiter.at = "handle" /\ awaiter.got # <<>>
  /\ Head(awaiter.got) = "MESSAGE_AVAILABLE"
  /\ IF inbox # <<>> /\ port.there
     THEN TakeMessage /\ sems' = UpSem("msgRemove") /\ UNCHANGED awaiter
     ELSE awaiter' = [awaiter EXCEPT !.got = Tail(@)] /\ UNCHANGED <<inbox, sems>>
  /\ UNCHANGED <<ring, removed, port, telling, dequeuer, portCloser, otherVars>>

(* CLOSE_DELIVERED, when it is used: close_delivered.                        *)
HandleClosed ==
  /\ awaiter.at = "handle" /\ awaiter.got # <<>>
  /\ Head(awaiter.got) = "SERVICE_CLOSED"
  /\ awaiter' = [awaiter EXCEPT !.got = Tail(@)]
  /\ IF delivering /\ port.closePending
     THEN /\ port' = [port EXCEPT !.refs = @ - 1, !.closePending = FALSE]
          /\ sems' = UpSem("close")
     ELSE UNCHANGED <<port, sems>>
  /\ UNCHANGED <<ring, removed, inbox, telling, dequeuer, portCloser, otherVars>>

HandleEnds ==
  /\ awaiter = [at |-> "handle", got |-> <<>>]
  /\ AwaitAt("idle")
  /\ UNCHANGED <<ring, removed, inbox, port, sems, telling, dequeuer,
                 portCloser, otherVars>>

-----------------------------------------------------------------------------
(* DEQUEUE_MESSAGE by a thread that is ready to wait.                        *)

DequeueCall ==
  /\ dequeuer \in {"idle", "interrupted"} /\ file = "open" /\ port.there
  /\ IF inbox # <<>>
     THEN /\ TakeMessage /\ sems' = UpSem("msgRemove")
          /\ dequeuer' = "idle" /\ UNCHANGED port
     ELSE /\ port' = [port EXCEPT !.pending = TRUE]
          /\ dequeuer' = "blocked" /\ UNCHANGED <<inbox, sems>>
  /\ UNCHANGED <<ring, removed, telling, awaiter, portCloser, otherVars>>

DequeueWoken ==
  /\ dequeuer = "blocked" /\ sems.msgInsert > 0
  /\ IF inbox # <<>>
     THEN /\ TakeMessage /\ dequeuer' = "idle"
          /\ sems' = [DownSem("msgInsert") EXCEPT !.msgRemove = @ + 1]
     ELSE sems' = DownSem("msgInsert") /\ UNCHANGED <<inbox, dequeuer>>
  /\ UNCHANGED <<ring, removed, port, telling, awaiter, portCloser, otherVars>>

(* A signal; the library calls again, unless the service is gone.            *)
DequeueInterrupted ==
  /\ dequeuer = "blocked"
  /\ dequeuer' = IF port.there THEN "interrupted" ELSE "idle"
  /\ UNCHANGED <<ring, removed, inbox, port, sems, telling, awaiter, portCloser,
                 otherVars>>

DequeueGone ==
  /\ dequeuer = "interrupted" /\ ~port.there
  /\ dequeuer' = "idle"
  /\ UNCHANGED <<ring, removed, inbox, port, sems, telling, awaiter, portCloser,
                 otherVars>>

-----------------------------------------------------------------------------
(* CLOSE_SERVICE: it waits until the process knows of the end.               *)

PortCloseCall ==
  /\ portCloser = "idle" /\ file = "open" /\ port.there
  /\ portCloser' = "closing"
  /\ UNCHANGED <<ring, removed, inbox, port, sems, telling, awaiter, dequeuer,
                 otherVars>>

PortClosed ==
  /\ portCloser = "closing" /\ ~port.there
  /\ portCloser' = IF port.closePending THEN "down" ELSE "idle"
  /\ UNCHANGED <<ring, removed, inbox, port, sems, telling, awaiter, dequeuer,
                 otherVars>>

PortCloseDown ==
  /\ portCloser = "down" /\ sems.close > 0
  /\ sems' = DownSem("close") /\ portCloser' = "idle"
  /\ UNCHANGED <<ring, removed, inbox, port, telling, awaiter, dequeuer,
                 otherVars>>

(* vchiq_release, when no other call is going on (the process may have died  *)
(* with completions it never looked at): the slot handler is told not to     *)
(* wait any more, the service dies, its messages are released.               *)
Release ==
  /\ file = "open" /\ dequeuer = "idle" /\ portCloser = "idle"
  /\ awaiter.at \in {"idle", "handle"}
  /\ awaiter' = [at |-> "idle", got |-> <<>>]
  /\ shutting' = TRUE /\ file' = "releasing"
  /\ sems' = [sems EXCEPT !.insert = @ + 1, !.remove = @ + 1, !.msgRemove = @ + 1]
  /\ UNCHANGED <<ring, removed, inbox, port, telling, dequeuer, portCloser,
                 delivering, received>>

(* ... and the references of CLOSED that the process will not get.           *)
Released ==
  /\ file = "releasing" /\ ~port.there /\ telling.at = "idle"
  /\ file' = "released" /\ inbox' = <<>>
  /\ removed' = removed + Len(ring) /\ ring' = <<>>
  /\ port' = [port EXCEPT
       !.refs = @ - Cardinality({i \in DOMAIN ring : ring[i] = "SERVICE_CLOSED"})]
  /\ UNCHANGED <<sems, shutting, telling, awaiter, dequeuer, portCloser,
                 delivering, received>>

PortNext ==
  \/ TellMessage \/ RoomWoken \/ RoomInsert
  \/ AddCompletion \/ AddFull \/ AddWoken \/ TellClosed
  \/ AwaitCall \/ AwaitDown \/ AwaitCopy \/ AwaitAdvance \/ AwaitReturn
  \/ HandleMessage \/ HandleClosed \/ HandleEnds
  \/ DequeueCall \/ DequeueWoken \/ DequeueInterrupted \/ DequeueGone
  \/ PortCloseCall \/ PortClosed \/ PortCloseDown
  \/ Release \/ Released

PortSpec == PortInit /\ [][PortNext]_portVars

-----------------------------------------------------------------------------
PortTypeOK ==
  /\ ring \in Seq({"MESSAGE_AVAILABLE", "SERVICE_CLOSED"})
  /\ Len(ring) <= RingSize /\ Len(inbox) <= InboxSize
  /\ port.available \in -1 .. removed + RingSize /\ port.refs \in 0 .. 1
  /\ \A e \in DOMAIN sems : sems[e] \in Nat
  /\ telling.at \in {"idle", "full", "insert", "add", "extra",
                      "addDown", "extraDown"}

Has(s, reason) == \E i \in DOMAIN s : s[i] = reason

(* Somebody in the process looks at the queue from here, without being told  *)
(* anything more.                                                            *)
WillLook ==
  \/ Has(ring, "MESSAGE_AVAILABLE") \/ Has(awaiter.got, "MESSAGE_AVAILABLE")
  \/ dequeuer = "blocked" /\ sems.msgInsert > 0
  \/ dequeuer = "interrupted"

(* A message is never left in the queue with nobody in the process about to  *)
(* look, though most are put there without a completion; the slot handler    *)
(* never waits for room that nobody will make; and CLOSED keeps the service  *)
(* exactly until the process knows (service_callback, add_completion,        *)
(* AWAIT_COMPLETION, DEQUEUE_MESSAGE, close_delivered, vchiq_release).       *)
ProcessTold ==
  /\ inbox # <<>> /\ port.there /\ ~shutting /\ telling.at \in {"idle", "full"} =>
       WillLook
  /\ telling.at = "full" /\ ~shutting /\ Len(inbox) < InboxSize =>
       sems.msgRemove > 0
  /\ telling.at \in {"addDown", "extraDown"} /\ Len(ring) < RingSize =>
       sems.remove > 0 \/ awaiter.at \in {"copy", "advance"}
  /\ file # "released" =>
       port.refs = IF delivering THEN IF port.closePending THEN 1 ELSE 0
                   ELSE Cardinality({i \in DOMAIN ring :
                          ring[i] = "SERVICE_CLOSED"
                          /\ ~(i = 1 /\ awaiter.at = "advance")})
=============================================================================
