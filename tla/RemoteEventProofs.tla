-------------------------- MODULE RemoteEventProofs --------------------------
(***************************************************************************)
(* The wake-up protocol of RemoteEvent loses no wake-up, for any number of *)
(* events and of threads that request polls, and for any bound on the      *)
(* semaphores.  WakeupInv is the inductive invariant.                      *)
(***************************************************************************)
EXTENDS RemoteEvent, TLAPS

USE RemoteEventAssumption DEF Events, RemoteEventAssumption

(* The initial states satisfy the invariant.                                 *)
LEMMA InitWakeup == Init => WakeupInv
<1> SUFFICES ASSUME Init PROVE WakeupInv
  OBVIOUS
<1> USE DEF Init
<1>1. FlagsOK /\ PlacesOK BY DEF FlagsOK, PlacesOK
<1>2. CountsOK BY DEF CountsOK
<1>3. WorkSignalled BY DEF WorkSignalled
<1>4. SleeperArmed /\ SleeperRung BY DEF SleeperArmed, SleeperRung
<1>5. PollOnItsWay BY DEF PollOnItsWay
<1> QED BY <1>1, <1>2, <1>3, <1>4, <1>5 DEF WakeupInv, TypeOK

(* Flags and places keep their types.                                        *)
LEMMA StepPlaces == FlagsOK /\ PlacesOK /\ [Next]_vars => (FlagsOK /\ PlacesOK)'
<1> SUFFICES ASSUME FlagsOK, PlacesOK, [Next]_vars PROVE (FlagsOK /\ PlacesOK)'
  OBVIOUS
<1> USE DEF WaiterAt, PeerAt, RequesterAt, eventVars, irqVars
<1>1. ASSUME NEW e \in Events, Waiter(e) PROVE (FlagsOK /\ PlacesOK)'
  <2> USE <1>1 DEF Waiter, CheckFired, Arm, RecheckFired, DownRead, DownWrite,
          Disarm, ClearFired, Poll, Process
  <2>1. FlagsOK' BY DEF FlagsOK
  <2>2. PlacesOK' BY DEF PlacesOK
  <2> QED BY <2>1, <2>2
<1>2. ASSUME NEW e \in Events, Publish(e) \/ Signal(e)
      PROVE  (FlagsOK /\ PlacesOK)'
  <2> USE <1>2 DEF Publish, Signal, SignalFire, SignalRing
  <2>1. FlagsOK' BY DEF FlagsOK
  <2>2. PlacesOK' BY DEF PlacesOK
  <2> QED BY <2>1, <2>2
<1>3. CASE Interrupt
  <2> USE <1>3 DEF Interrupt, Doorbell, PollEvent, PollUp
  <2>1. FlagsOK' BY DEF FlagsOK
  <2>2. PlacesOK' BY DEF PlacesOK
  <2> QED BY <2>1, <2>2
<1>4. ASSUME NEW r \in Requesters, RequestPoll(r) \/ Signalling(r)
      PROVE  (FlagsOK /\ PlacesOK)'
  <2> USE <1>4 DEF RequestPoll, Signalling, RequestDisarm, RequestUpRead,
          RequestUpWrite
  <2>1. FlagsOK' BY DEF FlagsOK
  <2>2. PlacesOK' BY DEF PlacesOK
  <2> QED BY <2>1, <2>2
<1>5. CASE UNCHANGED vars
  BY <1>5 DEF vars, FlagsOK, PlacesOK
<1> QED BY <1>1, <1>2, <1>3, <1>4, <1>5 DEF Next

(* No semaphore goes below zero, and the doorbell polls only real events.    *)
LEMMA StepCounts == PlacesOK /\ CountsOK /\ [Next]_vars => CountsOK'
<1> SUFFICES ASSUME PlacesOK, CountsOK, [Next]_vars PROVE CountsOK'
  OBVIOUS
<1> USE DEF CountsOK, PlacesOK, WaiterAt, PeerAt, RequesterAt, eventVars,
        irqVars
<1>1. ASSUME NEW e \in Events, Waiter(e) PROVE CountsOK'
  <2>1. CASE CheckFired(e) BY <2>1 DEF CheckFired
  <2>2. CASE Arm(e) BY <2>2 DEF Arm
  <2>3. CASE RecheckFired(e) BY <2>3 DEF RecheckFired
  <2>4. CASE DownRead(e) BY <2>4 DEF DownRead
  <2>5. CASE DownWrite(e) BY <2>5 DEF DownWrite
  <2>6. CASE Disarm(e) BY <2>6 DEF Disarm
  <2>7. CASE ClearFired(e) BY <2>7 DEF ClearFired
  <2>8. CASE Poll(e) BY <2>8 DEF Poll
  <2>9. CASE Process(e) BY <2>9 DEF Process
  <2> QED BY <1>1, <2>1, <2>2, <2>3, <2>4, <2>5, <2>6, <2>7, <2>8, <2>9
          DEF Waiter
<1>2. ASSUME NEW e \in Events, Publish(e) \/ Signal(e) PROVE CountsOK'
  <2>1. CASE Publish(e) BY <2>1 DEF Publish
  <2>2. CASE SignalFire(e) BY <2>2 DEF SignalFire
  <2>3. CASE SignalRing(e) BY <2>3 DEF SignalRing
  <2> QED BY <1>2, <2>1, <2>2, <2>3 DEF Signal
<1>3. CASE Interrupt
  <2>1. CASE Doorbell BY <2>1 DEF Doorbell
  <2>2. CASE PollEvent BY <2>2 DEF PollEvent, NextPolled
  <2>3. CASE PollUp BY <2>3 DEF PollUp, NextPolled
  <2> QED BY <1>3, <2>1, <2>2, <2>3 DEF Interrupt
<1>4. ASSUME NEW r \in Requesters, RequestPoll(r) \/ Signalling(r)
      PROVE  CountsOK'
  <2>1. CASE RequestPoll(r) BY <2>1 DEF RequestPoll
  <2>2. CASE RequestDisarm(r) BY <2>2 DEF RequestDisarm
  <2>3. CASE RequestUpRead(r) BY <2>3 DEF RequestUpRead
  <2>4. CASE RequestUpWrite(r) BY <2>4 DEF RequestUpWrite
  <2> QED BY <1>4, <2>1, <2>2, <2>3, <2>4 DEF Signalling
<1>5. CASE UNCHANGED vars
  BY <1>5 DEF vars
<1> QED BY <1>1, <1>2, <1>3, <1>4, <1>5 DEF Next

LEMMA StepTypeOK == TypeOK /\ [Next]_vars => TypeOK'
  BY StepPlaces, StepCounts DEF TypeOK

(* Published work stays signalled until the waiter is about to look for it:  *)
(* "fired" is cleared before, never after, the shared state is read.         *)
LEMMA StepWorkSignalled ==
  TypeOK /\ WorkSignalled /\ [Next]_vars => WorkSignalled'
<1> SUFFICES ASSUME TypeOK, WorkSignalled, [Next]_vars PROVE WorkSignalled'
  OBVIOUS
<1> USE DEF TypeOK, FlagsOK, PlacesOK, WorkSignalled, WaiterAt, PeerAt,
        RequesterAt, eventVars, irqVars
<1>1. ASSUME NEW e \in Events, Waiter(e) PROVE WorkSignalled'
  BY <1>1 DEF Waiter, CheckFired, Arm, RecheckFired, DownRead, DownWrite,
              Disarm, ClearFired, Poll, Process
<1>2. ASSUME NEW e \in Events, Publish(e) \/ Signal(e) PROVE WorkSignalled'
  BY <1>2 DEF Publish, Signal, SignalFire, SignalRing
<1>3. CASE Interrupt
  BY <1>3 DEF Interrupt, Doorbell, PollEvent, PollUp
<1>4. ASSUME NEW r \in Requesters, RequestPoll(r) \/ Signalling(r)
      PROVE  WorkSignalled'
  BY <1>4 DEF RequestPoll, Signalling, RequestDisarm, RequestUpRead,
              RequestUpWrite
<1>5. CASE UNCHANGED vars
  BY <1>5 DEF vars
<1> QED BY <1>1, <1>2, <1>3, <1>4, <1>5 DEF Next

(* A waiter that has armed stays armed, unless its semaphore is up or is     *)
(* about to be: whoever disarms it raises the semaphore next.                *)
LEMMA StepSleeperArmed ==
  TypeOK /\ SleeperArmed /\ [Next]_vars => SleeperArmed'
<1> SUFFICES ASSUME TypeOK, SleeperArmed, [Next]_vars,
                    NEW f \in Events, waiter'[f] \in {"recheck", "sleep"}
             PROVE  (armed[f] \/ count[f] > 0 \/ Raising(f))'
  BY DEF SleeperArmed
<1> USE DEF TypeOK, PlacesOK, CountsOK, SleeperArmed, Raising, WaiterAt,
        PeerAt, RequesterAt, eventVars, irqVars
<1>1. ASSUME NEW e \in Events, Waiter(e)
      PROVE  (armed[f] \/ count[f] > 0 \/ Raising(f))'
  <2>1. CASE CheckFired(e) BY <2>1 DEF CheckFired
  <2>2. CASE Arm(e) BY <2>2 DEF Arm, FlagsOK
  <2>3. CASE RecheckFired(e) BY <2>3 DEF RecheckFired
  <2>4. CASE DownRead(e) BY <2>4 DEF DownRead
  <2>5. CASE DownWrite(e) BY <2>5 DEF DownWrite
  <2>6. CASE Disarm(e) BY <2>6 DEF Disarm
  <2>7. CASE ClearFired(e) BY <2>7 DEF ClearFired
  <2>8. CASE Poll(e) BY <2>8 DEF Poll
  <2>9. CASE Process(e) BY <2>9 DEF Process
  <2> QED BY <1>1, <2>1, <2>2, <2>3, <2>4, <2>5, <2>6, <2>7, <2>8, <2>9
          DEF Waiter
<1>2. ASSUME NEW e \in Events, Publish(e) \/ Signal(e)
      PROVE  (armed[f] \/ count[f] > 0 \/ Raising(f))'
  <2>1. CASE Publish(e) BY <2>1 DEF Publish
  <2>2. CASE SignalFire(e) BY <2>2 DEF SignalFire
  <2>3. CASE SignalRing(e) BY <2>3 DEF SignalRing
  <2> QED BY <1>2, <2>1, <2>2, <2>3 DEF Signal
<1>3. CASE Interrupt
  <2>1. CASE Doorbell BY <2>1 DEF Doorbell
  <2>2. CASE PollEvent BY <2>2 DEF PollEvent
  <2>3. CASE PollUp BY <2>3 DEF PollUp
  <2> QED BY <1>3, <2>1, <2>2, <2>3 DEF Interrupt
<1>4. ASSUME NEW r \in Requesters, RequestPoll(r) \/ Signalling(r)
      PROVE  (armed[f] \/ count[f] > 0 \/ Raising(f))'
  <2>1. CASE RequestPoll(r) BY <2>1 DEF RequestPoll
  <2>2. CASE RequestDisarm(r) BY <2>2 DEF RequestDisarm
  <2>3. CASE RequestUpRead(r) BY <2>3 DEF RequestUpRead
  <2>4. CASE RequestUpWrite(r) BY <2>4 DEF RequestUpWrite
  <2> QED BY <1>4, <2>1, <2>2, <2>3, <2>4 DEF Signalling
<1>5. CASE UNCHANGED vars
  BY <1>5 DEF vars
<1> QED BY <1>1, <1>2, <1>3, <1>4, <1>5 DEF Next

(* An event fired under a sleeper will be found: the peer has still to ring, *)
(* the bell is rung, or the doorbell handler has not passed the event yet.   *)
LEMMA StepSleeperRung ==
  TypeOK /\ SleeperArmed /\ SleeperRung /\ [Next]_vars => SleeperRung'
<1> SUFFICES ASSUME TypeOK, SleeperArmed, SleeperRung, [Next]_vars,
                    NEW f \in Events, waiter'[f] = "sleep", fired'[f]
             PROVE  (count[f] > 0 \/ Raising(f) \/ Ringing(f))'
  BY DEF SleeperRung
<1> USE DEF TypeOK, PlacesOK, CountsOK, SleeperRung, Raising, Ringing,
        WaiterAt, PeerAt, RequesterAt, eventVars, irqVars
<1>1. ASSUME NEW e \in Events, Waiter(e)
      PROVE  (count[f] > 0 \/ Raising(f) \/ Ringing(f))'
  <2>1. CASE CheckFired(e) BY <2>1 DEF CheckFired
  <2>2. CASE Arm(e) BY <2>2 DEF Arm
  <2>3. CASE RecheckFired(e) BY <2>3 DEF RecheckFired
  <2>4. CASE DownRead(e) BY <2>4 DEF DownRead
  <2>5. CASE DownWrite(e) BY <2>5 DEF DownWrite
  <2>6. CASE Disarm(e) BY <2>6 DEF Disarm
  <2>7. CASE ClearFired(e) BY <2>7 DEF ClearFired, FlagsOK
  <2>8. CASE Poll(e) BY <2>8 DEF Poll
  <2>9. CASE Process(e) BY <2>9 DEF Process
  <2> QED BY <1>1, <2>1, <2>2, <2>3, <2>4, <2>5, <2>6, <2>7, <2>8, <2>9
          DEF Waiter
<1>2. ASSUME NEW e \in Events, Publish(e) \/ Signal(e)
      PROVE  (count[f] > 0 \/ Raising(f) \/ Ringing(f))'
  <2>1. CASE Publish(e) BY <2>1 DEF Publish
  <2>2. CASE SignalFire(e) BY <2>2 DEF SignalFire, FlagsOK
  <2>3. CASE SignalRing(e) BY <2>3 DEF SignalRing, SleeperArmed
  <2> QED BY <1>2, <2>1, <2>2, <2>3 DEF Signal
<1>3. CASE Interrupt
  <2>1. CASE Doorbell BY <2>1 DEF Doorbell
  <2>2. CASE PollEvent BY <2>2 DEF PollEvent, NextPolled, SleeperArmed
  <2>3. CASE PollUp BY <2>3 DEF PollUp, NextPolled
  <2> QED BY <1>3, <2>1, <2>2, <2>3 DEF Interrupt
<1>4. ASSUME NEW r \in Requesters, RequestPoll(r) \/ Signalling(r)
      PROVE  (count[f] > 0 \/ Raising(f) \/ Ringing(f))'
  <2>1. CASE RequestPoll(r) BY <2>1 DEF RequestPoll
  <2>2. CASE RequestDisarm(r) BY <2>2 DEF RequestDisarm
  <2>3. CASE RequestUpRead(r) BY <2>3 DEF RequestUpRead
  <2>4. CASE RequestUpWrite(r) BY <2>4 DEF RequestUpWrite
  <2> QED BY <1>4, <2>1, <2>2, <2>3, <2>4 DEF Signalling
<1>5. CASE UNCHANGED vars
  BY <1>5 DEF vars
<1> QED BY <1>1, <1>2, <1>3, <1>4, <1>5 DEF Next

(* A requested poll is ahead of the slot handler, or its wake-up is.         *)
LEMMA StepPollOnItsWay ==
  TypeOK /\ PollOnItsWay /\ [Next]_vars => PollOnItsWay'
<1> SUFFICES ASSUME TypeOK, PollOnItsWay, [Next]_vars PROVE PollOnItsWay'
  OBVIOUS
<1> USE DEF TypeOK, PlacesOK, CountsOK, PollOnItsWay, WaiterAt, PeerAt,
        RequesterAt, eventVars, irqVars
<1>1. ASSUME NEW e \in Events, Waiter(e) PROVE PollOnItsWay'
  <2>1. CASE CheckFired(e) BY <2>1 DEF CheckFired
  <2>2. CASE Arm(e) BY <2>2 DEF Arm
  <2>3. CASE RecheckFired(e) BY <2>3 DEF RecheckFired
  <2>4. CASE DownRead(e) BY <2>4 DEF DownRead
  <2>5. CASE DownWrite(e) BY <2>5 DEF DownWrite
  <2>6. CASE Disarm(e) BY <2>6 DEF Disarm
  <2>7. CASE ClearFired(e) BY <2>7 DEF ClearFired
  <2>8. CASE Poll(e) BY <2>8 DEF Poll
  <2>9. CASE Process(e) BY <2>9 DEF Process
  <2> QED BY <1>1, <2>1, <2>2, <2>3, <2>4, <2>5, <2>6, <2>7, <2>8, <2>9
          DEF Waiter
<1>2. ASSUME NEW e \in Events, Publish(e) \/ Signal(e) PROVE PollOnItsWay'
  BY <1>2 DEF Publish, Signal, SignalFire, SignalRing
<1>3. CASE Interrupt
  <2>1. CASE Doorbell BY <2>1 DEF Doorbell
  <2>2. CASE PollEvent BY <2>2 DEF PollEvent
  <2>3. CASE PollUp BY <2>3 DEF PollUp
  <2> QED BY <1>3, <2>1, <2>2, <2>3 DEF Interrupt
<1>4. ASSUME NEW r \in Requesters, RequestPoll(r) \/ Signalling(r)
      PROVE  PollOnItsWay'
  <2>1. CASE RequestPoll(r) BY <2>1 DEF RequestPoll
  <2>2. CASE RequestDisarm(r) BY <2>2 DEF RequestDisarm
  <2>3. CASE RequestUpRead(r) BY <2>3 DEF RequestUpRead
  <2>4. CASE RequestUpWrite(r) BY <2>4 DEF RequestUpWrite
  <2> QED BY <1>4, <2>1, <2>2, <2>3, <2>4 DEF Signalling
<1>5. CASE UNCHANGED vars
  BY <1>5 DEF vars
<1> QED BY <1>1, <1>2, <1>3, <1>4, <1>5 DEF Next

(* WakeupInv is an inductive invariant of the protocol.                      *)
THEOREM WakeupInvariant == Spec => []WakeupInv
<1>1. WakeupInv /\ [Next]_vars => WakeupInv'
  BY StepTypeOK, StepWorkSignalled, StepSleeperArmed, StepSleeperRung,
     StepPollOnItsWay DEF WakeupInv
<1> QED BY InitWakeup, <1>1, PTL DEF Spec

(* Every shared word, semaphore and place in the protocol keeps its type; in *)
(* particular down() never takes a semaphore below zero.                     *)
THEOREM TypeCorrect == Spec => []TypeOK
<1>1. WakeupInv => TypeOK BY DEF WakeupInv
<1> QED BY WakeupInvariant, <1>1, PTL

(* remote_event_wait never sleeps on work whose signal is complete, unless   *)
(* the doorbell or an up() is on its way.                                    *)
THEOREM WakeupNotLost == Spec => []NoLostWakeup
<1>1. WakeupInv => NoLostWakeup
  <2> SUFFICES ASSUME WakeupInv, NEW e \in Events, work[e], Asleep(e)
               PROVE  \/ peer[e] = "fire" \/ Raising(e)
                      \/ fired[e] /\ armed[e] /\ Ringing(e)
    BY DEF NoLostWakeup
  <2>1. waiter[e] = "sleep" /\ ~(count[e] > 0)
    BY DEF Asleep
  <2>2. peer[e] = "fire" \/ fired[e]
    BY <2>1 DEF WakeupInv, WorkSignalled
  <2>3. armed[e] \/ Raising(e)
    BY <2>1 DEF WakeupInv, SleeperArmed
  <2>4. fired[e] => Raising(e) \/ Ringing(e)
    BY <2>1 DEF WakeupInv, SleeperRung
  <2> QED BY <2>2, <2>3, <2>4
<1> QED BY WakeupInvariant, <1>1, PTL

(* The slot handler never sleeps on a poll that request_poll has completed.  *)
THEOREM PollNotLost == Spec => []NoLostPoll
<1>1. WakeupInv => NoLostPoll
  BY DEF WakeupInv, TypeOK, CountsOK, PollOnItsWay, NoLostPoll, Asleep
<1> QED BY WakeupInvariant, <1>1, PTL
=============================================================================
