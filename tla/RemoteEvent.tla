----------------------------- MODULE RemoteEvent -----------------------------
(***************************************************************************)
(* The wake-up protocol of VCHIQ (REMOTE_EVENT_T in vchiq_core.c and       *)
(* vchiq_2835_arm.c).  The VideoCore publishes work in shared memory and   *)
(* signals an event; the ARM thread that owns the event sleeps on a        *)
(* semaphore, and is woken by the one doorbell interrupt all events share, *)
(* or locally, when an ARM thread requests a poll of the slot handler.     *)
(*                                                                         *)
(* Every read and write of a shared word is a step of its own: the dsb     *)
(* between "armed" and "fired" on both sides makes them sequentially       *)
(* consistent.  The semaphore of the port is a plain counter, so taking it *)
(* and raising it are a read and a write between which an interrupt or     *)
(* another thread may raise it too, and one of the two may be lost.        *)
(***************************************************************************)
EXTENDS Integers, FiniteSets

CONSTANTS
  NEvents,      (* the events, numbered as remote_event_pollall polls them   *)
  Trigger,      (* state->local->trigger, the slot handler's                 *)
  Requesters,   (* ARM threads that call request_poll                        *)
  MaxCount      (* bound on the semaphores: above it nobody begins to signal *)

Events == 1..NEvents

ASSUME RemoteEventAssumption ==
  /\ NEvents \in Nat /\ Trigger \in Events
  /\ MaxCount \in Nat

VARIABLES
  armed, fired,     (* REMOTE_EVENT_T, in shared memory                      *)
  count,            (* the event's semaphore                                 *)
  work,             (* published by the peer, not yet seen by the waiter     *)
  pollNeeded,       (* state->poll_needed                                    *)
  waiter, taken,    (* each waiting thread, and the count its down() read    *)
  peer,             (* the peer's remote_event_signal, per event             *)
  bell,             (* BELL0 is rung                                         *)
  irqAt, irqStep,   (* the doorbell handler: the event, and what it does next *)
  req, raised       (* each requester, and the count its up() read           *)

eventVars == <<armed, fired>>
irqVars   == <<bell, irqAt, irqStep>>
vars == <<eventVars, count, work, pollNeeded, waiter, taken, peer, irqVars,
          req, raised>>

(* remote_event_create keeps "fired": the other side may already have set it. *)
Init ==
  /\ armed = [e \in Events |-> FALSE]
  /\ fired \in [Events -> BOOLEAN]
  /\ work = fired
  /\ count = [e \in Events |-> 0]
  /\ pollNeeded = FALSE
  /\ waiter = [e \in Events |-> "check"]
  /\ taken = [e \in Events |-> 0]
  /\ peer = [e \in Events |-> "idle"]
  /\ bell = FALSE
  /\ irqAt = 0
  /\ irqStep = "test"
  /\ req = [r \in Requesters |-> "idle"]
  /\ raised = [r \in Requesters |-> 0]

-----------------------------------------------------------------------------
(* remote_event_wait, then the thread's loop body; no thread of the ARM runs *)
(* while its doorbell handler does.                                          *)

WaiterAt(e, here, next) ==
  /\ irqAt = 0
  /\ waiter[e] = here
  /\ waiter' = [waiter EXCEPT ![e] = next]
  /\ UNCHANGED <<peer, irqVars, req, raised>>

CheckFired(e) ==
  /\ WaiterAt(e, "check", IF fired[e] THEN "clear" ELSE "arm")
  /\ UNCHANGED <<eventVars, count, work, pollNeeded, taken>>

Arm(e) ==
  /\ WaiterAt(e, "arm", "recheck")
  /\ armed' = [armed EXCEPT ![e] = TRUE]
  /\ UNCHANGED <<fired, count, work, pollNeeded, taken>>

(* Variant for mutation: sleep without looking at "fired" again.             *)
ArmedSleep(e) ==
  /\ WaiterAt(e, "recheck", "sleep")
  /\ UNCHANGED <<eventVars, count, work, pollNeeded, taken>>

RecheckFired(e) ==
  /\ WaiterAt(e, "recheck", IF fired[e] THEN "disarm" ELSE "sleep")
  /\ UNCHANGED <<eventVars, count, work, pollNeeded, taken>>

(* Variant for mutation: down() returns without waiting for the count.       *)
DownAtOnce(e) ==
  /\ WaiterAt(e, "sleep", "take")
  /\ taken' = [taken EXCEPT ![e] = count[e]]
  /\ UNCHANGED <<eventVars, count, work, pollNeeded>>

(* down(): wait for a positive count, ...                                    *)
DownRead(e) ==
  /\ count[e] > 0
  /\ WaiterAt(e, "sleep", "take")
  /\ taken' = [taken EXCEPT ![e] = count[e]]
  /\ UNCHANGED <<eventVars, count, work, pollNeeded>>

(* ... and store it decremented.                                             *)
DownWrite(e) ==
  /\ WaiterAt(e, "take", "disarm")
  /\ count' = [count EXCEPT ![e] = taken[e] - 1]
  /\ taken' = [taken EXCEPT ![e] = 0]
  /\ UNCHANGED <<eventVars, work, pollNeeded>>

Disarm(e) ==
  /\ WaiterAt(e, "disarm", "clear")
  /\ armed' = [armed EXCEPT ![e] = FALSE]
  /\ UNCHANGED <<fired, count, work, pollNeeded, taken>>

ClearFired(e) ==
  /\ WaiterAt(e, "clear", IF e = Trigger THEN "poll" ELSE "process")
  /\ fired' = [fired EXCEPT ![e] = FALSE]
  /\ UNCHANGED <<armed, count, work, pollNeeded, taken>>

(* The slot handler attends to poll_needed before it parses.                 *)
Poll(e) ==
  /\ WaiterAt(e, "poll", "process")
  /\ pollNeeded' = FALSE
  /\ UNCHANGED <<eventVars, count, work, taken>>

(* parse_rx_slots, process_free_queue, sync_func or queue_message_sync: all  *)
(* that is published by now is attended to.                                  *)
Process(e) ==
  /\ WaiterAt(e, "process", "check")
  /\ work' = [work EXCEPT ![e] = FALSE]
  /\ UNCHANGED <<eventVars, count, pollNeeded, taken>>

-----------------------------------------------------------------------------
(* The peer: publish, then remote_event_signal.  It runs at any time.        *)

PeerAt(e, here, next) ==
  /\ peer[e] = here
  /\ peer' = [peer EXCEPT ![e] = next]
  /\ UNCHANGED <<armed, count, pollNeeded, waiter, taken, irqAt, irqStep, req,
                 raised>>

Publish(e) ==
  /\ count[e] < MaxCount
  /\ PeerAt(e, "idle", "fire")
  /\ work' = [work EXCEPT ![e] = TRUE]
  /\ UNCHANGED <<fired, bell>>

SignalFire(e) ==
  /\ PeerAt(e, "fire", "test")
  /\ fired' = [fired EXCEPT ![e] = TRUE]
  /\ UNCHANGED <<work, bell>>

SignalRing(e) ==
  /\ PeerAt(e, "test", "idle")
  /\ bell' = (bell \/ armed[e])
  /\ UNCHANGED <<fired, work>>

-----------------------------------------------------------------------------
(* vchiq_doorbell_irq: reading BELL0 clears it, then every event is polled.  *)

(* Variant for mutation: the last event of remote_event_pollall is left out. *)
NextPolledButLast(e) == IF e + 1 >= NEvents THEN 0 ELSE e + 1

NextPolled(e) == IF e = NEvents THEN 0 ELSE e + 1

Doorbell ==
  /\ bell /\ irqAt = 0
  /\ bell' = FALSE
  /\ irqAt' = 1
  /\ UNCHANGED <<eventVars, count, work, pollNeeded, waiter, taken, peer,
                 irqStep, req, raised>>

(* remote_event_poll                                                         *)
PollEvent ==
  LET hit == fired[irqAt] /\ armed[irqAt] IN
  /\ irqAt # 0 /\ irqStep = "test"
  /\ armed' = IF hit THEN [armed EXCEPT ![irqAt] = FALSE] ELSE armed
  /\ irqStep' = IF hit THEN "up" ELSE "test"
  /\ irqAt' = IF hit THEN irqAt ELSE NextPolled(irqAt)
  /\ UNCHANGED <<fired, count, work, pollNeeded, waiter, taken, peer, bell,
                 req, raised>>

(* the up() of remote_event_signal_local, which nothing on the ARM interrupts *)
PollUp ==
  /\ irqStep = "up"
  /\ count' = [count EXCEPT ![irqAt] = @ + 1]
  /\ irqStep' = "test"
  /\ irqAt' = NextPolled(irqAt)
  /\ UNCHANGED <<eventVars, work, pollNeeded, waiter, taken, peer, bell, req,
                 raised>>

-----------------------------------------------------------------------------
(* request_poll, from any thread of the ARM.                                 *)

RequesterAt(r, here, next) ==
  /\ irqAt = 0
  /\ req[r] = here
  /\ req' = [req EXCEPT ![r] = next]
  /\ UNCHANGED <<fired, work, waiter, taken, peer, irqVars>>

RequestPoll(r) ==
  /\ count[Trigger] < MaxCount
  /\ RequesterAt(r, "idle", "disarm")
  /\ pollNeeded' = TRUE
  /\ UNCHANGED <<armed, count, raised>>

(* Variant for mutation: signal the slot handler only if it has armed, as    *)
(* remote_event_poll does.                                                   *)
RequestIfArmed(r) ==
  /\ RequesterAt(r, "disarm", IF armed[Trigger] THEN "up" ELSE "idle")
  /\ armed' = [armed EXCEPT ![Trigger] = FALSE]
  /\ UNCHANGED <<count, pollNeeded, raised>>

RequestDisarm(r) ==
  /\ RequesterAt(r, "disarm", "up")
  /\ armed' = [armed EXCEPT ![Trigger] = FALSE]
  /\ UNCHANGED <<count, pollNeeded, raised>>

RequestUpRead(r) ==
  /\ RequesterAt(r, "up", "raise")
  /\ raised' = [raised EXCEPT ![r] = count[Trigger]]
  /\ UNCHANGED <<armed, count, pollNeeded>>

RequestUpWrite(r) ==
  /\ RequesterAt(r, "raise", "idle")
  /\ count' = [count EXCEPT ![Trigger] = raised[r] + 1]
  /\ raised' = [raised EXCEPT ![r] = 0]
  /\ UNCHANGED <<armed, pollNeeded>>

-----------------------------------------------------------------------------
Waiter(e) ==
  \/ CheckFired(e) \/ Arm(e) \/ RecheckFired(e)
  \/ DownRead(e) \/ DownWrite(e)
  \/ Disarm(e) \/ ClearFired(e) \/ Poll(e) \/ Process(e)

Signal(e) == SignalFire(e) \/ SignalRing(e)

Interrupt == Doorbell \/ PollEvent \/ PollUp

Signalling(r) == RequestDisarm(r) \/ RequestUpRead(r) \/ RequestUpWrite(r)

Next ==
  \/ \E e \in Events : Waiter(e) \/ Publish(e) \/ Signal(e)
  \/ Interrupt
  \/ \E r \in Requesters : RequestPoll(r) \/ Signalling(r)

Spec == Init /\ [][Next]_vars

(* Every coroutine is resumed again and again, a pending interrupt is taken, *)
(* and whoever has begun to signal goes on; nobody need publish or request.  *)
(* A ringing bell may keep interrupting, so what the threads of the ARM get  *)
(* is strong fairness: they run between two interrupts.                      *)
Fairness ==
  /\ \A e \in Events : SF_vars(Waiter(e)) /\ WF_vars(Signal(e))
  /\ WF_vars(Interrupt)
  /\ \A r \in Requesters : SF_vars(Signalling(r))

FairSpec == Spec /\ Fairness

-----------------------------------------------------------------------------
(* Properties.                                                               *)

(* The types of the events, the semaphores and everybody's place in the      *)
(* protocol; a semaphore never goes below zero, though down and up are not   *)
(* atomic.                                                                   *)
FlagsOK ==
  /\ armed \in [Events -> BOOLEAN] /\ fired \in [Events -> BOOLEAN]
  /\ work \in [Events -> BOOLEAN]
  /\ pollNeeded \in BOOLEAN /\ bell \in BOOLEAN

PlacesOK ==
  /\ waiter \in [Events -> {"check", "arm", "recheck", "sleep", "take",
                            "disarm", "clear", "poll", "process"}]
  /\ \A e \in Events : waiter[e] = "poll" => e = Trigger
  /\ peer \in [Events -> {"idle", "fire", "test"}]
  /\ req \in [Requesters -> {"idle", "disarm", "up", "raise"}]
  /\ irqStep \in {"test", "up"}

CountsOK ==
  /\ count \in [Events -> Nat] /\ taken \in [Events -> Nat]
  /\ \A e \in Events : waiter[e] = "take" => taken[e] > 0
  /\ raised \in [Requesters -> Nat]
  /\ irqAt \in 0..NEvents
  /\ irqStep = "up" => irqAt # 0

TypeOK == FlagsOK /\ PlacesOK /\ CountsOK

Asleep(e) == waiter[e] = "sleep" /\ count[e] = 0

(* Somebody is about to raise the event's semaphore.                         *)
Raising(e) ==
  \/ irqStep = "up" /\ irqAt = e
  \/ e = Trigger /\ \E r \in Requesters : req[r] \in {"up", "raise"}

(* The doorbell is about to find the event.                                  *)
Ringing(e) ==
  \/ bell \/ peer[e] = "test"
  \/ irqAt \in 1..e /\ (irqAt = e => irqStep = "test")

(* remote_event_wait against remote_event_signal: a thread never sleeps on   *)
(* work the peer has finished signalling, unless its wake-up is on the way.  *)
NoLostWakeup ==
  \A e \in Events :
    work[e] /\ Asleep(e)
      => peer[e] = "fire" \/ Raising(e) \/ (fired[e] /\ armed[e] /\ Ringing(e))

(* request_poll against remote_event_wait: the slot handler never sleeps on  *)
(* a requested poll, unless the requester has still to raise the semaphore.  *)
NoLostPoll ==
  pollNeeded /\ Asleep(Trigger)
    => \E r \in Requesters : req[r] # "idle"

(* Why, inductively: published work stays signalled until the waiter is about *)
(* to look for it; a waiter past arming can still be found or is being woken; *)
(* an event fired under a sleeper is on its way; so is a requested poll.     *)
WorkSignalled ==
  \A e \in Events :
    work[e] => peer[e] = "fire" \/ fired[e] \/ waiter[e] \in {"poll", "process"}

SleeperArmed ==
  \A e \in Events :
    waiter[e] \in {"recheck", "sleep"} => armed[e] \/ count[e] > 0 \/ Raising(e)

SleeperRung ==
  \A e \in Events :
    waiter[e] = "sleep" /\ fired[e] => count[e] > 0 \/ Raising(e) \/ Ringing(e)

PollOnItsWay ==
  pollNeeded => \/ waiter[Trigger] \in {"take", "disarm", "clear", "poll"}
                \/ count[Trigger] > 0
                \/ \E r \in Requesters : req[r] # "idle"

WakeupInv ==
  TypeOK /\ WorkSignalled /\ SleeperArmed /\ SleeperRung /\ PollOnItsWay

(* What the peer publishes is attended to.                                   *)
WorkSeen == \A e \in Events : work[e] ~> ~work[e]

(* What a thread asks of the slot handler is attended to.                    *)
PollHandled == pollNeeded ~> ~pollNeeded
=============================================================================
