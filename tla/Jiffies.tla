------------------------------ MODULE Jiffies ------------------------------
(***************************************************************************)
(* What depends on the tick counter "jiffies", which wraps around: the     *)
(* list of timers that the periodic handler fires (timer.c), and waiting   *)
(* for a completion with a timeout (completion.c).                         *)
(*                                                                         *)
(* The periodic handler runs in an interrupt and is not interrupted, but a *)
(* timer's function runs without the lock and may add timers.              *)
(***************************************************************************)
EXTENDS Integers, Sequences

CONSTANTS
  TimerIds,    (* the timers                                                 *)
  Wrap,        (* 2^32 or 2^64: jiffies are counted modulo this              *)
  MaxDelay,    (* bound: the longest delay and timeout, less than Wrap \div 2*)
  MaxCompletes,(* bound: calls of complete                                   *)
  MaxTicks     (* bound: ticks of a behaviour; more than Wrap                *)

ASSUME JiffiesAssumption ==
  /\ {Wrap, MaxDelay, MaxCompletes, MaxTicks} \subseteq Nat
  /\ 0 < MaxDelay /\ 2 * MaxDelay < Wrap

VARIABLES
  ticks,     (* history: ticks so far; jiffies is this modulo Wrap           *)
  timerList, (* timer_list                                                   *)
  expires,   (* of each timer that is set; in the code, modulo Wrap          *)
  handler,   (* the periodic handler: "idle", it "scans" or runs a function  *)
  done,      (* of the completion                                            *)
  sleeper,   (* a thread in wait_for_completion_interruptible_timeout        *)
  tickLog    (* history: three timers were set at once, something ended      *)
             (* early, completions given and used                            *)

jiffyVars == <<ticks, timerList, expires, handler, done, sleeper, tickLog>>

Wrapped(n) == n % Wrap
Now == Wrapped(ticks)

(* (long) (a - b): the difference as a signed number.                        *)
SignedDiff(a, b) ==
  LET d == (a - b) % Wrap IN IF 2 * d >= Wrap THEN d - Wrap ELSE d

(* Variant for mutation: as if jiffies never wrapped.                        *)
NotExpiredPlain(a, b) == a > b
NotExpired(a, b) == SignedDiff(a, b) > 0

Awake == [asleep |-> FALSE, start |-> 0, timeout |-> 0]

JiffiesInit ==
  /\ ticks = 0 /\ timerList = <<>>
  /\ expires = [t \in TimerIds |-> 0]
  /\ handler = "idle"
  /\ done = 0
  /\ sleeper = Awake
  /\ tickLog = [crowded |-> FALSE, early |-> FALSE, completes |-> 0, woken |-> 0]

Linked == {timerList[i] : i \in DOMAIN timerList}

-----------------------------------------------------------------------------
(* add_timer goes in behind the first timer that expires earlier, or when    *)
(* there is none in front of all: three timers may well be out of order.     *)
PlaceFor(e) ==
  LET earlier == {i \in DOMAIN timerList :
                    SignedDiff(Wrapped(expires[timerList[i]]), Wrapped(e)) < 0}
  IN IF earlier = {} THEN 0
     ELSE CHOOSE i \in earlier : \A j \in earlier : i <= j

Inserted(t, place) ==
  SubSeq(timerList, 1, place) \o <<t>>
    \o SubSeq(timerList, place + 1, Len(timerList))

AddTimer(t, delay) ==
  /\ t \notin Linked
  /\ expires' = [expires EXCEPT ![t] = ticks + delay]
  /\ timerList' = Inserted(t, PlaceFor(ticks + delay))
  /\ tickLog' = [tickLog EXCEPT !.crowded = @ \/ Len(timerList) >= 2]

(* A thread sets a timer, or stops one (set_suspend_timer).                  *)
ThreadAdds(t) ==
  /\ handler = "idle"
  /\ \E delay \in 1 .. MaxDelay : AddTimer(t, delay)
  /\ UNCHANGED <<ticks, handler, done, sleeper>>

Unlinked(i) ==
  SubSeq(timerList, 1, i - 1) \o SubSeq(timerList, i + 1, Len(timerList))

(* del_timer: a timer that is not linked is left alone.                      *)
ThreadDeletes(t) ==
  /\ handler = "idle"
  /\ \E i \in DOMAIN timerList : timerList[i] = t /\ timerList' = Unlinked(i)
  /\ expires' = [expires EXCEPT ![t] = 0]
  /\ UNCHANGED <<ticks, handler, done, sleeper, tickLog>>

(* periodic_handler: one tick, then every timer at the head that is due.     *)
Tick ==
  /\ handler = "idle" /\ ticks < MaxTicks
  /\ ticks' = ticks + 1
  /\ handler' = "scans"
  /\ UNCHANGED <<timerList, expires, done, sleeper, tickLog>>

HeadDue == timerList # <<>> /\ ~NotExpired(Wrapped(expires[Head(timerList)]), Now)

Fire ==
  /\ handler = "scans" /\ HeadDue
  /\ timerList' = Tail(timerList)
  /\ handler' = "calls"
  /\ tickLog' = [tickLog EXCEPT
                   !.early = @ \/ expires[Head(timerList)] > ticks]
  /\ expires' = [expires EXCEPT ![Head(timerList)] = 0]
  /\ UNCHANGED <<ticks, done, sleeper>>

(* The function: it may set a timer again.                                   *)
Function ==
  /\ handler = "calls" /\ handler' = "scans"
  /\ \/ \E t \in TimerIds, delay \in 1 .. MaxDelay : AddTimer(t, delay)
     \/ UNCHANGED <<timerList, expires, tickLog>>
  /\ UNCHANGED <<ticks, done, sleeper>>

TickEnds ==
  /\ handler = "scans" /\ ~HeadDue
  /\ handler' = "idle"
  /\ UNCHANGED <<ticks, timerList, expires, done, sleeper, tickLog>>

-----------------------------------------------------------------------------
(* The completion.                                                           *)

Complete ==
  /\ handler = "idle" /\ tickLog.completes < MaxCompletes
  /\ done' = done + 1
  /\ tickLog' = [tickLog EXCEPT !.completes = @ + 1]
  /\ UNCHANGED <<ticks, timerList, expires, handler, sleeper>>

WaitCall ==
  /\ handler = "idle" /\ ~sleeper.asleep
  /\ \E timeout \in 1 .. MaxDelay :
       sleeper' = [asleep |-> TRUE, start |-> ticks, timeout |-> timeout]
  /\ UNCHANGED <<ticks, timerList, expires, handler, done, tickLog>>

WaitDone ==
  /\ handler = "idle" /\ sleeper.asleep /\ done > 0
  /\ done' = done - 1
  /\ sleeper' = Awake
  /\ tickLog' = [tickLog EXCEPT !.woken = @ + 1]
  /\ UNCHANGED <<ticks, timerList, expires, handler>>

(* now - start >= timeout, as unsigned numbers.                              *)
WaitTimesOut ==
  /\ handler = "idle" /\ sleeper.asleep /\ done = 0
  /\ Wrapped(Now - Wrapped(sleeper.start)) >= sleeper.timeout
  /\ sleeper' = Awake
  /\ tickLog' = [tickLog EXCEPT
                   !.early = @ \/ ticks - sleeper.start < sleeper.timeout]
  /\ UNCHANGED <<ticks, timerList, expires, handler, done>>

JiffiesNext ==
  \/ \E t \in TimerIds : ThreadAdds(t) \/ ThreadDeletes(t)
  \/ Tick \/ Fire \/ Function \/ TickEnds
  \/ Complete \/ WaitCall \/ WaitDone \/ WaitTimesOut

JiffiesSpec == JiffiesInit /\ [][JiffiesNext]_jiffyVars

-----------------------------------------------------------------------------
JiffiesTypeOK ==
  /\ ticks \in 0 .. MaxTicks /\ done \in Nat
  /\ timerList \in Seq(TimerIds)
  /\ expires \in [TimerIds -> 0 .. MaxTicks + MaxDelay]
  /\ handler \in {"idle", "scans", "calls"}
  /\ sleeper \in [asleep : BOOLEAN, start : 0 .. MaxTicks, timeout : 0 .. MaxDelay]
  /\ tickLog \in [crowded : BOOLEAN, early : BOOLEAN, completes : Nat, woken : Nat]

(* Neither a timer nor a timeout ends before its time, whether jiffies has   *)
(* wrapped meanwhile or not.  No timer is late while there are at most two:  *)
(* add_timer puts a third behind one that is due later.  A completion that   *)
(* was given is used or still there (add_timer, periodic_handler,            *)
(* wait_for_completion_interruptible_timeout).                               *)
JiffiesOnTime ==
  /\ ~tickLog.early
  /\ handler = "idle" /\ ~tickLog.crowded => \A t \in Linked : expires[t] > ticks
  /\ done + tickLog.woken = tickLog.completes
=============================================================================
