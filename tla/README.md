# A TLA+ model of AMPi

AMPi is a bare-metal driver for HDMI audio on the Raspberry Pi. It plays sound
by exchanging messages with the VideoCore over VCHIQ, a transport in shared
memory with two doorbells, ported from Linux on top of a small cooperative
scheduler. This directory holds TLA+ modules of its core, the TLC
configurations that check them, and proofs that TLAPS checks.

Paths below are relative to the repository root; `core` is
`ampi/vc4/vchiq/vchiq_core.c` and `sound` is
`ampi/vc4/sound/vchiqsoundbasedevice.c`.

## 1. Inventory

| Component | State | Operations | What makes it correct |
|---|---|---|---|
| **AMPi API** `ampi/ampi.c` | two static devices | Initialize, SetChunkCallback, Start, Stop, IsActive, Poke | each call returns; the documented contract of `ampi.h` |
| **Sound device** `sound` | `m_State`, `m_Event`, `m_nResult`, `m_nWritePos`, `m_nCompletePos` | Start, Cancel, SetControl, IsActive, WriteChunk, Callback | WRITE messages keep their frame; the backlog is right; playback never starves; a reply answers its own request |
| **VCHI shim** `vchiq_shim.c`, **kernel library** `vchiq_kern_lib.c` | service and instance records, bulk waiters | initialise, connect, open, queue, dequeue, use, release | one-to-one translation |
| **VCHIU queue** `vchiq_util.c` | ring of headers, two semaphores | push, pop, peek | a FIFO that neither overflows nor loses a wake-up |
| **Slot transport** `core` | slots, `slot_queue`, `tx_pos`, `local_tx_pos`, `rx_pos`, use and release counts, quotas | queue_message, reserve_space, process_free_queue, parse_rx_slots, release_slot | an ordered lossless stream; slots never lost or used twice; quotas respected; senders return |
| **Remote events** `core`, `vchiq_2835_arm.c` | `armed`, `fired`, a semaphore, `poll_needed` | wait, signal, poll, pollall, request_poll | no lost wake-up |
| **Service lifecycle** `core` | service table, `srvstate`, reference and use counts | add, open, OPENACK, close (local, remote, crossing), free, remove | every state legal, references given back once, senders and bulks released |
| **Bulk transfers** `core` | two rings of 4 per service, six indexes | transfer, RX/TX parsing, resolve, notify, abort, pause, resume | order; every bulk notified once; none in flight after close |
| **Connection** `core` | `conn_state` | connect, pause, resume, shutdown | CONNECT answered; nothing sent while paused |
| **Synchronous messages** `core` | two sync slots | queue_message_sync, sync_func, release | one message at a time in the slot |
| **Suspend and resume** `vchiq_arm.c` | suspend and resume states, three use counts, blocked count, timer | use, release, check_suspend, force_suspend, allow_resume, keepalive | the VideoCore is awake while it is used; blocked users released |
| **Coroutines** `coroutine.c`, `kthread.c` | register files, `current`, `used` | create, yield, next | control returns to whoever resumed |
| **Locks** `semaphore.c`, `mutex.c`, `rwlock.c`, `completion.c`, `spinlock.c` | counters | down/up, lock/unlock, wait/complete | exclusion, progress |
| **Timers** `timer.c` | sorted list, `jiffies` | add, delete, periodic handler | each timer fires once, in time |
| **Connected callbacks** `vchiq_connected.c` | a list of ten | add, call all | each called once |
| **Bulk data** `vchiq_2835_arm.c` | page lists, the fragment list and its semaphore | create_pagelist, free_pagelist | the list names the buffer and nothing else; every partial cache line is kept; no fragment is lost |
| **Character device** `vchiq_arm.c` | message queue of 32, completion ring of 128, pending flags | callback, AWAIT_COMPLETION, DEQUEUE_MESSAGE, close, release | no message is left unseen; references of CLOSED given back once |
| Platform start-up, mailbox, DMA, printk, sample, `stb_vorbis.c` | - | - | not modelled, see section 6 |

**Who runs.** One core. The main thread (the application) and four coroutines
(slot handler, recycle, sync, keepalive). A coroutine runs until it would wait;
every wait is a loop around `ampi_co_yield`. Yielding from a coroutine goes
back to the main thread, yielding from the main thread resumes each coroutine
once, and so does `AMPiPoke`. The doorbell interrupt calls
`remote_event_pollall`. On the other side of the memory runs the VideoCore.

**How they interact.** `AMPiStart` and `AMPiStop` send through the shim and
`queue_message`; an answer is put into a slot by the VideoCore, which fires a
remote event and rings the doorbell; the slot handler parses the slot and calls
the shim, which calls the sound device's callback, which may itself queue the
next chunk. Main thread and slot handler thus share the device, the service's
quota and `slot_mutex`. Slots travel in a circle: taken in `reserve_space`, published
by `tx_pos`, parsed, claimed and released by the peer, put back into
`slot_queue`, credited by the recycle thread.

**What is hard.** Locks released inside a loop that waits for quota; indexes
computed before the wait and used after it; a service closed meanwhile; a
semaphore whose count is not atomic against the interrupt; a wake-up protocol
over two flags without a lock; replies awaited by one boolean; positions that
wrap and are reset while completions are still coming.
PROJECT.json lists these hazards at their lines with the properties that would
catch them.

## 2. Modules

| Module | Models | Extends |
|---|---|---|
| `SlotChannel` | one direction of the slot transport, with senders, slot handler, recycle thread, receiver and its clients | - |
| `MessageStream` | what that direction promises: an ordered stream, claims kept intact | - |
| `RemoteEvent` | the remote events, the doorbell, semaphores, polls | - |
| `SoundDevice` | the sound device as main thread and callback, against the audio service | - |
| `ServiceLife` | a client's service and a server: open, close from either side, remove, references | - |
| `ShimService` | VCHI services over VCHIQ ones, their header queues and claimed messages | ServiceLife |
| `BulkQueue` | the bulk transfers of a service | - |
| `VchiuQueue` | the header queue, access by access, and the calls that take headers from it | - |
| `SuspendResume` | use counts, suspend, resume, force, keepalive | - |
| `SyncSlot` | the slot for synchronous messages, one direction | - |
| `Connection` | connecting, pausing, resuming, both sides | - |
| `Deferred` | callbacks deferred until VCHIQ is connected | - |
| `Jiffies` | the timer list and completions with timeout | - |
| `PageList` | page lists and fragments | - |
| `UserPort` | the character device for one VCHI service | - |
| `MCSlotChannel` | instances of SlotChannel | SlotChannel |
| `MCMachine` | composes the eight parts from VchiuQueue on (with SuspendResume, SyncSlot, Connection, Deferred, Jiffies, PageList, UserPort) for TLC | these |
| `MCServices` | composes ServiceLife, ShimService and BulkQueue for TLC | these |
| `SlotChannelProofs`, `RemoteEventProofs`, `MachineProofs` (VchiuQueue, Jiffies, UserPort, PageList), `ConnectionProofs` (Connection, SyncSlot, Deferred), `SuspendProofs`, `ServiceProofs` (ServiceLife, ShimService), `BulkProofs`, `SoundProofs` | proofs, section 5 | their modules |

The modules `MCMachine` and `MCServices` do not claim that their parts interact. A constant of the
behaviour, `under`, says which part moves; the others keep their initial state.
What the parts know of each other is in the modules: ShimService runs on the
services of ServiceLife, BulkQueue closes its service as ServiceLife does, SyncSlot and
Connection take a remote event for a BOOLEAN because RemoteEvent shows that no
wake-up is lost, VchiuQueue is a sequence in ShimService because `QueueExact` says it is a FIFO.

### SlotChannel

`queue_message` is cut where it takes or gives up `slot_mutex`, where it sleeps,
and where it publishes; between two such points a thread of the ARM cannot be
disturbed by another in a way that matters, since the data are under `slot_mutex` or
`quota_spinlock`. `pc` names the point: `lock`, `dataWait`, `dataRelock`,
`quotaWait`, `quotaRelock`, `reserve`, `slotWait`, `write`, `publish`.

* A position of the code, a byte counter, is a record of a slot number and an
  offset in headers; `Advance` is the addition. The slot number is unbounded;
  `slot_queue` is indexed with it modulo `QueueLen`, as in the code.
* Message sizes are strides in headers. The contents of a message are its `id`.
  Recycled slots are cleared when taken (`Blank`): the code's stale bytes are
  always overwritten by a header or padding before `tx_pos` passes them, which
  the refinement of MessageStream checks.
* `quotaEvent`, `dataEvent`, `slotAvailable` are the semaphores.
  A down that would wait is an action that is not enabled.
* The slot handler sends its own messages without waiting for quota and retries
  a CLOSE that finds no slot (`VCHIQ_RETRY`).
* Closing is `mark_service_closing` (flag, then `slot_mutex` passed through and
  one sender woken) followed by the poll that queues CLOSE. `peerOpen` is what
  the receiver makes of it.
* The recycle event and the trigger are not repeated here: `ProcessFreeSlot`
  and `ParseBegin` are enabled when there is work. RemoteEvent shows that the
  wake-up comes.
* The options SLOT_QUOTA and MESSAGE_QUOTA are set, if at all, before the first
  message (constants, 0 for the default) and signal `quota_event`, as
  `vchiq_set_service_option` does.

The interleaving is finer than that of the coroutines, which switch only when
they wait. What holds here holds for the program; a violation has to be
looked at again, which was done for those below.

### RemoteEvent

`remote_event_wait` one shared access at a time, with `down` and `up` split into
the read and the write of `count`; the peer's `remote_event_signal`; the doorbell
interrupt that polls event after event in the order of `remote_event_pollall`;
`request_poll` with its store, the disarming and the up(). The interrupt runs to
its end before any code of the ARM continues. The barriers of the code order the
accesses of both sides, so the memory is sequentially consistent.

### SoundDevice

`cpu` says which of the two contexts runs. `Start`, `Cancel` and `SetControl`
are cut at every message and every assignment of `m_State`; the callback at
every message it queues. The main thread gives way where it waits, or anywhere
with `TimerPoke`. Sound is counted in packets. The chunk callback, set before
Start, returns any number of packets up to `ChunkSize`. The audio service
(external) answers CONFIG and CONTROL, takes packets, and completes any number
of them in one COMPLETE. With `Faults`, each VCHI call may fail, a result may be
an error, and a COMPLETE may carry the wrong cookies.

### ServiceLife

Two ends, `client` and `server`, of one port each, with `svc[s]` for the record of the service
(`srvstate`, `remoteport`, closing flag, `auto_close`, reference and use
counts, `remove_event`, poll flags) and `lifeMsgs[s]` for OPEN,
OPENACK and CLOSE on their way to a side. `LifeHandler(s)` is
the slot handler: it serves the poll flags, then parses. `close_service_complete`,
`vchiq_close_service_internal` and `parse_open` are operators of the service as it is, so that
the closing of one side can meet any state of the other's. A thread holds a
reference between `find_service_by_handle` and `unlock_service`; what
waits for `remove_event` is an action of its own. Ports are not 0. `lifeLog`
records the three departures that section 4 lists: `gone`, `shared`, `missed`.

`Closed(v, received)` is what `vchiq_close_service_internal` makes of a service. An opening one that closes is
CLOSESENT, because `queue_message` is given the service (`core:985`), also when its opener has not sent the OPEN
yet; a later OPENACK is dropped. A poll for REMOVE makes a server look like a client at once, with or without room for the
CLOSE. An OPEN is refused when no service listens, or when the one that does is of another version (`ParseOpenRejects`).

A slot handler that finds no room for an answer leaves the message and is in `bailed`: it sleeps in `remote_event_wait`,
and parses again only after a message of the other side, after a poll of its own service, or after whatever fires
its trigger for another service (`LifeHandlerWoken`). Room that comes later is not among them. A poll that finds no room is not
lost that way: `request_poll` fires the trigger itself. Other services use the transport too, so a handler may find no room at any time.

### ShimService

The threads of the clients call open, create, close, destroy and
disconnect; the slot handler of the side calls `shim_callback` with the shim
service as user data, or what is left of it. Messages lie in `Places` of the receive slots; a place
released is written again by the other side. The header queue is bounded, so
that the handler may have to wait in `vchiu_queue_push`. Readers dequeue
(copy, then release), holders keep the header and release it whenever they like,
also after the close.

### BulkQueue

`bulkQ[d]` has the indexes `local_insert`, `remote_insert`, `process`,
`remote_notify` and `remove` of the ARM's queue of direction `d`, and its ring.
`BulkTransfer` is cut at both mutexes, at the wait for a free entry and at the
wait of a blocking call; the caller's mode comes from the VCHI flags as
`vchi_bulk_queue_transmit` and `_receive` compute it. The slot handler takes
BULK_RX_DONE and BULK_TX_DONE, notifies bulk by bulk without the mutex, and
closes with the abort of what is left. The VideoCore queues its own transfers,
joins and answers them, or aborts them. `bulkLog` keeps what was asked and what
was told. The answer to a CLOSE that finds no room leaves the slot handler asleep (`notifier.next` is `bailed`). `HandlerWoken`
is a message for another service or a poll, after which the CLOSE is parsed again from the abort on; what was
queued in between is then aborted as well.

### SuspendResume

A step of a user is what `vchiq_use_internal` or `vchiq_release_internal` does between two
waits; both run under `susp_res_lock` in between. `arm` has the fields of
`VCHIQ_ARM_STATE_T`. The forcing thread goes through `vchiq_arm_force_suspend` (block resume,
wait for idle, suspend, retries up to `FORCE_SUSPEND_FAIL_MAX`) and `vchiq_arm_allow_resume`. A timeout may
strike at any wait that has one. `suspends` distinguishes a platform that can suspend from
BCM2835, whose hooks refuse. A user is in use (`InUse`) from the moment `vchiq_use_internal` lets it go on, the keepalive thread
as long as it has used more than it released. The keepalive thread uses and releases on behalf of the peer, and
acknowledges; either may fail.

### SyncSlot, Connection, Deferred

`SyncSlot`: senders with `sync_mutex` in `queue_message_sync`, the sync thread
in `sync_func`, the client's release, a CLOSE that comes while a message is
held. The slot's owner is never a variable: `SyncOwners` derives it from where
the threads are.

`Connection`: both sides run `vchiq_connect_internal`, the PAUSING and
RESUMING cases of `slot_handler_func`, and the CONNECT, PAUSE and RESUME of `parse_rx_slots`. The slot handler is `asleep`, waits
for the mutex to send PAUSE (`pausing`), works through the messages that were there when it
looked (`parse`, `connAhead` of them left), or sleeps on a PAUSE it found no room to answer (`bailed`). It wakes up when its trigger is
fired (`connTrigger`), by a message, a poll, or a sender of the other side that has no room; never because there is room.
A PAUSE of its own that finds no room is left to that next wake-up too ("Retry later", `core:2083`). `slotLock[s]`
is the slot mutex, which a PAUSE that was sent keeps. Only `Resumers` resume.

`Deferred`: the mutex with its waiting callbacks, the table and its limit.

### VchiuQueue, Jiffies, PageList, UserPort

`VchiuQueue` stores a header, publishes the index and raises the semaphore in
three steps; so does the client the other way round. The semaphores count past events.

`Jiffies`: ticks modulo `Wrap`; expiries are compared through the signed
difference, as the code does. The handler runs in the interrupt; a timer may
set timers. The thread that waits for a completion reads `done`, `jiffies` and gives way.

`PageList`: `create_pagelist` merges pages into runs and cleans the cache lines
of the buffer, takes a fragment when an end is inside a line (Linux build), and
`free_pagelist` copies what the fragment has. The VideoCore may have transferred
all or nothing.

`UserPort`: one VCHI service of a process; the Circle build leaves this code out. It is modelled
because the repository has it and because of its bypass of the completion ring, which is hard to test.

## 3. Runs

| Run | Bounds | Shows |
|---|---|---|
| `slots_two` | 3 data slots of 2 headers, messages of 1 and 2, 2 services with a thread each, 4 messages, quotas of 2 | `TypeOK`, `SlotMutexHeld`, `SlotAccounting`, `SlotsConserved`, `QuotaAccounting`, `ServiceQuotaRespected`, and `StreamSpec`, the refinement of MessageStream |
| `slots_live` | 3 data slots, each message a slot, slot quota 1, data quota 2, 4 messages, one service that may close | `SendReturns`: every call of `queue_message` ends |
| `slots_overrun` | 4 data slots, default quotas, 5 messages | finding 1 |
| `slots_dataclose` | 4 data slots, 4 messages, one service closes | finding 2 |
| `event_safety` | 2 events, 1 requester, counts up to 2 | `TypeOK`, `NoLostWakeup`, `NoLostPoll`, no deadlock |
| `event_live` | 1 event, 1 requester | `WorkSeen`, `PollHandled` |
| `sound_play` | chunks of 2 packets, positions modulo 7, faults | `TypeOK`, `WritesFramed`, `BacklogExact`, `StreamAlive`, `RepliesMatched`, `MainReturns`, `PlaybackGoesOn`, no deadlock |
| `sound_timer` | the same, AMPiPoke anywhere, no faults | finding 3 |
| `sound_restart` | the same, restart with up to 2 packets outstanding | finding 4 |
| `sound_cancel` | the same | finding 5 |
| `machine` | below | `TypeOK`, `QueueExact`, `SuspendSound`, `SyncOneOwner`, `PauseQuiet`, `CalledOnce`, `JiffiesOnTime`, `PageListExact`, `ProcessTold`, `UseReturns`, `SyncSendReturns`, `PauseAnswered`: 527451 states |
| `services` | below | `TypeOK`, `BulkRing`, `BulkOutcomes`, `ServiceRefs`, `EndsAgree`, `ShimSound`, `BulkReturns`, `LifeCallsReturn`: 391734 states |

`QueueExact`: headers come out in order, whichever call takes them, claims are
released once, nobody sleeps through a change. `SuspendSound`: the VideoCore is on for every thread that has been let in to use it, as long as fewer than
`FORCE_SUSPEND_FAIL_MAX` forces have failed (`AwakeForUsers`), and off from a force that succeeded to
the call that allows it to resume (`SuspendInStep`); uses of the keepalive service are acknowledged exactly (`KaBalanced`).
`UseReturns`: a blocked user gets on, until then. `SyncOneOwner`, `SyncSendReturns`: the slot has one owner, and is given to
the next sender. `PauseQuiet`, `PauseAnswered`: a PAUSE is followed by nothing but its
RESUME, both sides know, and it is answered, unless the other side sleeps for want of room. `CalledOnce`: no deferred callback
is lost or repeated. `JiffiesOnTime`: neither early nor late, over the wrap.
`PageListExact`: pages, bytes cleaned, fragments. `ProcessTold`: no message with
nobody about to look, no slot handler waiting for room that nobody makes, the references of CLOSED.
`BulkRing`, `BulkOutcomes`, `BulkReturns`: order and reuse of the entries, each bulk
told once, as done exactly if the VideoCore joined it, calls end, whether the slot handler is woken again or not.
`ServiceRefs`, `EndsAgree`, `LifeCallsReturn`: references, both sides open or
neither once all messages have arrived, calls end if the slot handlers find room in the end. `ShimSound`: a callback finds its shim service,
a message is read and released as long as it is the one that was claimed, and a
closing thread waits only for something that can come.

**Why the bounds are enough.** With three slots and four messages both quotas,
the slot semaphore and the slot queue wrap and run dry, and every slot is reused;
two services are needed for one to move the slot another was promised; the
third data slot keeps the two quotas apart. Two header offsets make padding,
exact fit and partly filled slots occur. Two events make the interrupt's walk
and a doorbell that belongs to another event occur; a count of two is the most
that one waiter, one peer and one requester can accumulate in a run, beyond
which the guards stop the requester (`MaxCount`); the proofs need no such bound.
Chunks of two packets are the least with a middle; the modulus is above twice
the chunk, as 2^32 is, and small enough to wrap. `TxRoom` is large enough for
the main thread's two chunks, as the 15 slots of the default quota are for
chunks up to about 14000 words; with less room Start itself waits between two
packets, and the callback can then write into its chunk: `WritesFramed` holds
under this assumption only. `RxRoom` bounds the answers under way.

In `machine`: a header ring of two with four messages is full, empty and wraps.
A user, the keepalive thread and three forces with two failures allowed cover blocked,
resumed and overridden uses: one force may fail and the next must still spare the user, and a third suspends under it; each user uses once (`MaxUses`), the peer once (`MaxRemoteUses`).
Two synchronous senders and four messages make the slot change hands between them and close while it is held.
Two pauses and two data messages per side (`MaxPauses`, `MaxData`, room for `ConnRoom` messages) let pauses cross and
messages wait for one. Three adders compete for a table of two. Two timers with
delays of up to two on a counter that wraps at five, over seven ticks, wrap with
a timer pending; deltas stay below half of `Wrap`. Buffers of three pages and of one in a memory of three pages
have contiguous runs and gaps, and every offset and length; cache
lines are as long as pages, which two bytes per page permit, and one fragment has two claimants. A completion ring of
one entry and a message queue of two are full at the same time, with three messages.

In `services`: rings of two bulks with four transfers in two threads stall, wrap
and serve both directions and every way of being told; `MessageRoom` 1 makes the answers wait. One client
port opened twice (`MaxOpens`) by one of two threads and a server added once
(`MaxAdds`), with `remove_event` counted up to two (`MaxUps`, more than the waits that are left), let the OPEN of one connection meet the CLOSE of another. An
opened and a created VCHI service, header queues of one, two places and two
connections served (`MaxServes`) make headers outlive their connection.

`slots_*`, `machine` and `services` say `CHECK_DEADLOCK FALSE`: after the calls
and messages they allow nothing is left to do.

**Fairness.** The scheduler resumes every coroutine in turn, so each thread
that can take a step takes one (WF per thread). The clients of the receiver
release what they hold (WF). In RemoteEvent a waiter may be interrupted between
any two accesses, and a bell may go on ringing, so waiters and requesters get
SF: they run between interrupts. In SoundDevice the coroutine works through the
messages it finds and gives way; the four SF conditions say that each context is
scheduled again and again and moves when it is, the two WF that the service
reads and plays. Nobody is obliged to send, publish, request, start or stop.

`SuspendFairness`, `SyncFairness`, `ConnFairness`, `BulkFairness` and `LifeFairness` are WF for every thread
inside a call, for each slot handler, and for the peer's answers to what it has received: the
scheduler resumes each of them in turn, and the VideoCore is taken to work
through its messages. Clients are obliged to release the synchronous messages they hold, and never to begin
a call. A timeout need not strike.

A slot handler that found no room for an answer is a matter of its own. It is woken by its trigger event,
which room does not fire, so nothing obliges it to try again: in Connection it must run when its trigger
was fired (`ConnHandler`), in ServiceLife and BulkQueue the wake-ups from elsewhere (`LifeHandlerWoken`,
`HandlerWoken`) have no fairness. `PauseAnswered` therefore excepts a side that sleeps so; `LifeCallsReturn` is about
the behaviours in which the handlers find room in the end (`<>[](bailed = {})`); `BulkReturns` has no such premise and
excepts only what the code leaves behind (`LeftBehind`): a bulk queued after the abort, and who stalls for its
entry. The CLOSE of a poll is retried under fairness, since `request_poll` fires the trigger again;
the VideoCore's answer to a CLOSE is not.

A part that rests in a behaviour of `machine` or
`services` has all these steps disabled. ShimService has no fairness: two
services with their threads are too many for TLC's liveness, and `ShimWaiters`, an invariant, says what a waiting thread waits for.

`SendReturns` needs a quota of at least two slots when a slot can be left partly
filled, which every memory of more than eight slots gives by default: with a
quota of one the service waits for its own unfinished slot. (The run has a
quota of one with messages that fill a slot.)

## 4. Findings

Each is a violation that TLC finds.

1. `slots_overrun` A sender that waited for its service quota does not
   look at the data quota again (`core:826-856`), so data messages take
   the slot kept for control messages ("Ensure data messages don't use more than
   their quota of slots", `core:802`).
2. `slots_dataclose` A sender that waited for the data quota does not look at
   `closing` and `srvstate` again (`core:814`) and queues DATA behind the CLOSE of its own
   service ("The service has been closed", `core:788`).
3. `sound_timer` With AMPiPoke in a timer interrupt, which `ampi.h:31` allows, the callback
   can queue a WRITE between the packets of the one Start is writing.
4. `sound_restart` Start resets the positions (`sound:367`) while completions of the
   playback before are on their way; the callback then refills with more than
   one chunk queued (comment at `sound:163`).
5. `sound_cancel` After the callback has answered Cancel, a second
   completion of the same batch still writes a chunk, or finds none and sets
   Idle, against the assertion at `sound:406`.

Seen while modelling, without a run. The models contain them as the code has
them; where one would falsify a property, the property names the exception or a
log variable records it.

*Sound.* A chunk shorter than asked for does not
stop playback, as `ampi.h:17` says, only an empty one does; without a callback
Cancel waits for ever; `IsActive` answers TRUE in the error state; a Cancel that
overtakes an error sets Idle again.

*Slots.* `vchiq_init_slots` accepts four slots, which
gives quotas of zero.

*Suspend.* `vchiq_release_internal` never gives a use count back
(`vchiq_arm.c:2519`, commented out), against `vchiq_arm.h`, where the
count "equals the sum" of the others. A use that cancels a force sets FORCE_CANCELED, and the IDLE
that follows initialises the completion again: the forcing thread sleeps until its timeout. After `FORCE_SUSPEND_FAIL_MAX` failures the
VideoCore may be suspended again before a user that was just resumed has run (exception in `UseReturns`). On BCM2835 a forced suspend
before the first use stays IN_PROGRESS.

*Timers.* `add_timer` does not keep three timers in order: the third fires late, never early (`tickLog.crowded`).

*Bulks.* The client library clears `bulk->userdata` of a ring entry that may
belong to another transfer by then (`bulkLog.taken`). A bulk queued between the abort and
the answer to CLOSE is never aborted (`bulkLog.late`) unless the CLOSE is parsed again; with no room for that answer the slot handler
sleeps (`core:1779`), and this may be any number of bulks. One `bulk_remove_event`
serves both directions, and more stalled threads than entries sleep for ever when the service closes.

*Connection.* When both sides resume, each gives back a slot mutex it does not hold (`core:1987`). A
`vchiq_connect_internal` that has been woken may overwrite PAUSED with CONNECTED (`connLog.overtaken`). Without
room for RESUME, `core:2103` is a BUG. A slot handler without room to answer PAUSE sleeps (`core:1977`), and the side that paused
sends nothing that would wake it; so does one without room for its own PAUSE (`core:2083`), which has set `poll_needed` and fires no trigger.

*Synchronous messages.* A copy that fails has used up `sync_release` (`syncLog.lost`); DATA for a
service that is not open is never released; a slot may be released twice around a close (`core:2745`, `3523`), which is why `SyncOneOwner` ends with the close. Closing takes `sync_mutex` in the slot handler.

*Character device.* AWAIT_COMPLETION overwrites `service_userdata` before it may break off;
two callers of `add_completion` would race on `completion_insert`; the reference of CLOSED stays if the file is released first with a close pending;
a blocked DEQUEUE_MESSAGE is not woken by a close; `dequeue_pending` stays set after an interrupt.

*Connected callbacks.* They run with the mutex held; one that adds another waits for itself.

*Service life.* A slot handler that finds no room for an OPENACK or a CLOSE (`core:1570`, `1608`, `1779`) sleeps until something else
fires its trigger, and whoever waits for the answer with it. A client that closes while it is opening
may leave the server behind (`core:2928`, `lifeLog.missed`): its CLOSE overtakes its own OPEN, so that the server opens for a client that is
CLOSESENT and drops the OPENACK; or the CLOSE carries no port, and a server that has sent a CLOSE of its own passes it over, and waits for ever. The thread in `vchiq_open_service_internal` has no reference (use after free, `lifeLog.gone`). Two
waiters on one `remove_event` get one up (`lifeLog.shared`). A server without
`auto_close` goes to CLOSEWAIT without an up. A server that the peer closed before TERMINATE is polled fails and is polled again for ever. Ups that are
left over make the next close return an error at once. A CLOSE for a LISTENING server leaves
`closing` set (`core:1775`), so that the next connection's messages cannot be released. CLOSE is not compared with
`remoteport`. `vchiq_shutdown` waits with `state->mutex` held.

*Shim.* `vchi_service_close` of a server frees the shim service that VCHIQ keeps as its user data; after a close by the
peer that already freed the service, `vchi_service_close` leaks it, as does `vchi_disconnect`. A close waits for the slot handler, which may wait in `vchiu_queue_push` for
the thread that closes. A header queued or held over a close may be read after its place
was written again, and a server that listens again has `closing` cleared (`core:2873`), so that an old header can release a message of
another service. `vchiq_add_service` gives the handle to the shim only after the service is listening.

*Page lists.* `vchiq_complete_bulk` does not free the list of a transfer of which nothing arrived (`actual` 0).

## 5. Proofs

From `SlotChannelAssumption` alone (at least one data slot per side, a queue
that has room for all, strides that fit a slot), for any number of slots,
services and threads:

* `SenderInvariant`: `SenderInv` is inductive. It joins the types of the state,
  `SlotMutexHeld`, `SlotAccounting` and `QuotaInv`. The argument for the
  quotas is `QuotaRoom`: the mutex is held from the check of the quotas until
  they are charged, nobody else charges meanwhile, and the slot that the check
  foresaw (`TxEndIndex`) is the slot in which the message ends (`LastTxIndex`),
  also when `reserve_space` pads.
* From it `StateTypeCorrect`, `MutexCorrect`, `AccountingCorrect` (the BUG_ON of
  `reserve_space` is unreachable) and `QuotaCorrect` (`ServiceQuotaRespected`).
* `TransportInvariant`: `TransportInv` adds the receiving side (`ReceiverInv`) and is inductive. It has six parts.
  The positions are in order (`InOrder`). No slot is queued twice (`Apart`). A slot that is not queued has
  as many uses left as claimed messages, and at least one, and the slot being parsed has one more (`Counted`).
  Nothing the parser has not reached is claimed (`Unclaimed`). Up to `tx_pos` the headers follow each other without a gap
  and none reaches over the parser's snapshot (`Tiled`): this is why the parser, which walks by the sizes in the headers, is
  always on a header. What a sending thread has reserved is the place behind `tx_pos`, or the start of the next slot
  behind padding (`Writer`).
* From it `TypeCorrect`, and `SlotsConservedCorrect`: the slots in the window of the queue are pairwise different, so
  their number is that of their indexes (`WindowSize`), and `QueueLen` keeps the indexes from meeting (`ModApart`).
* `StreamCorrect`: `Spec => StreamSpec`, the refinement of MessageStream. `StreamInv` says where the messages sent and not
  yet delivered stand (`Tracking`): in order, each at a position between `rx_pos` and `tx_pos`, with nothing but padding
  beside them, and nothing written inside one of them (`Solid`). A step of the sender adds to this at most one message and the
  padding before it (`SenderStream`); the parser takes the first away (`NextMessage`); a claim and a release change
  `Held` by that message (`HeldStep`); every other step is a stutter.

* `QuotaAccountingCorrect`: the counters of the quotas are the messages and slots in use. `queue_message` counts a slot when its index differs
  from the one remembered (`previous_tx_index`), so `Recent` is needed: while a slot is open, the index remembered for a service is
  this slot's exactly when the slot already holds a message of the service. `process_free_queue` counts what the slot holds when it
  comes back; nobody rewrites it in between, because a charged slot is not among those still to be taken (`Apart`), and the receiver
  changes nothing in a header but its claim.

From `RemoteEventAssumption`, for any number of events and requesters and
without the bound on counts that TLC needs:

* `WakeupInvariant`: `WakeupInv` is inductive. Published work stays signalled until
  the waiter is about to look; a waiter past arming can still be found or is being
  woken; an event fired under a sleeper is on its way; so is a requested poll.
* From it `TypeCorrect` (a semaphore never goes below zero although its steps
  interleave with the interrupt's), `WakeupNotLost` and `PollNotLost`.

From `QueueAssumption` (a ring of at least one entry), for any size and number of messages:

* `QueueExactAlways`: `QueueSpec => [](QueueTypeOK /\ QueueExact)`. The invariant
  adds to `QueueExact` what each place of the two threads says about the indexes (`PusherInv`, `ClientInv`);
  that an entry is not overwritten rests on `QIndexApart`: two indexes less than the
  size apart have different entries.

From `DeferredAssumption`, for any set of threads and size of the table:

* `CalledOnceAlways`: whoever is in the mutex is alone (`InsideInv`), the table has no callback twice and those before
  `calling` have been called (`TableInv`), and each callback is in the table, dropped, or called by its own thread (`FateInv`).

From `SyncAssumption`, for any set of senders and number of messages:

* `SyncOneOwnerAlways`: the slot is free, being filled, unread, parsed, held by
  the client or left without an owner by a failed copy, one of these at a time (`OwnerInv`); each step takes it from
  one owner to one other.

From `ServiceLifeAssumption` (finitely many threads, each on one side, room for at least one message, and at least one up that a semaphore can hold):

* `ServiceRefsAlways`: `LifeSpec => [](LifeTypeOK /\ ServiceRefs)`, whatever state a close finds the service in. The invariant counts for each side the references
  beside the service's own (`Spare`) and the threads that hold one (`HoldersAt`). Every operator that changes a service in
  the slot handler, `Closed` with all its cases included, keeps `Spare` (`ClosedKeeps`), every step of a
  thread changes it by the reference it takes or gives back (`ThreadStepKeeps`), and a service whose last
  reference goes has no holder who could miss it.
* `EndsAgreeAlways`: `LifeSpec => []EndsAgree`. A port is reused, so messages of an earlier life can still be under way
  when the next one opens. The inductive invariant (`AgreeOrMissed`) says that a CLOSE has missed, or `AgreeInv` and `PortInv`. `Agreed` has
  eleven phases: for each state of the client's service, what the server's may be, and what is on its way. Because messages stay in
  order, all that earlier lives leave to the server are CLOSEs with their port (`AllClose`), and they come before the OPEN of the
  next, behind which there may be the CLOSE of a client that gave up (`Opens`, `OpensCloses`). The CLOSE for which a server
  waits is among those in front (`Apart`, `ClosesFirst`), so it is never taken for an answer to a later life, and no OPEN is parsed
  before it. `PortInv`: an open service knows the port of the other side and an opening one does not, which is what decides whether a CLOSE finds
  its service. Two exceptions are recorded in `missed`, at the step that makes them (`Overtakes`, `SkipClose`). A reference that is given back never frees a service that is connected (`ClassUnlocked`).

From `ServiceLifeAssumption` and `ShimAssumption`, for any number of services and places and any size of header queue:

* `ShimIsSound`: `ShimSpec => []ShimSound`. The invariant `ShimInv` says of each service beneath what its thread's
  place allows (`Fit`): its references (`RefsFit`), the state an opener finds (`OpenerFit`), that a thread which waits for
  `remove_event` has an up, a poll or a CLOSE coming (`EnderFit`), and that nothing is coming to a freed shim service but
  to a server left listening (`OwnerFit`). `vchiq_close_service_internal` with all its cases keeps that whether a poll or
  a CLOSE runs it (`PollFits`, `ReceivedFits`).
  Of the messages it says (`MsgFit`) that only an open service has claims (`OpenOnly`) and, until a server listens
  again, that a service which is ending has its closing flag (`ClosingKnown`), each header is in one place
  (`Sorted`), and the claims are exactly the headers its thread can reach (`FirstLife`). So a release never gives
  back the message of another service (`ReleasedFits`). A server that listens again clears the flag with old
  headers in its queue, and there the code gives no such guarantee. `ShimTypesKept` gives the types.

From `BulkAssumption` (rings of at least one entry, transports that take a message, finitely many threads, none of them the value that stands for no waiter):

* `BulkRingAlways`: `BulkSpec => []BulkRing`. That an entry keeps its owner while its bulk is pending needs three
  more facts. A thread that fills an entry holds the mutex until the bulk is inserted (`FillInv`). An entry that reports
  to a waiter reports to a thread that waits, for this very bulk (`WakeInv`). A thread that waits has asked for
  nothing since (`WaitInv`). From them, a thread that was woken and clears `userdata` finds another's waiter
  there or none, never one of its own bulks (`ForgetKeeps`); the slot handler changes only indexes and outcomes
  (`HandlerKeeps`).
* `BulkOutcomesAlways`: `BulkSpec => []BulkOutcomes`. A done message names no bulk, so that both sides agree on
  what became of one only because messages stay in order. `OutcomeInv`, inductive with the invariant above, gives the
  messages under way the numbers of the bulks they are about (`Numbered`): requests follow what the master has counted
  (`RequestInv`), answers are all those it gave beyond `process`, and true (`AnswerInv`). Hence the
  answer that is parsed is the oldest one missing (`DoneIsNext`). The CLOSE of the master is its last message (`CloseInv`)
  and it answers everything first (`Ended`), so that what the slave aborts the master never
  joined (`CloseAllAnswered`). `AbortInv` says which bulks an abort leaves in the ring, `EntryInv` what the entries will
  report, and `ToldInv` what they have.
* `BulkTypesKept`: `BulkSpec => []BulkTypeOK`, from the two invariants above, from who holds the two mutexes
  and that `bulk_remove_event` is taken only when it is there (`HolderInv`), and from the room a transport leaves its
  sender (`RoomInv`).

From `SoundDeviceAssumption` (positions whose type is wider than two chunks) and `PlaybackSetting`, for any
chunk size, any width, any room for answers, with or without faults:

* `SoundInvariant`: `SoundInv` is inductive. Beside the types it says whose turn it is (`Turns`), what `m_State` may be at each
  step (`Phases`), which messages can be on the way (`Unopened`, `Requests`, `Packets`, `Heads`), and how
  many, and how many packets they stand for, at each step of Start and of a refill (`Loads`, `Refills`). The last is what
  makes it work: the queue never fills while a chunk is written (`RoomLeft`), so neither context gives way inside a chunk.
  `Positions` then relates the two positions to what is in the queues; that their difference survives the
  wrap is `BacklogAdd` and `BacklogTake`. A queue stands for the packets of `PacketsOf`, a set, so that
  appending and taking (`CountAppend`, `CountTail`) are facts about cardinalities.
* From it `SoundTypeOK`, `ChunksFramed` (`WritesFramed`), `BacklogCounts` (`BacklogExact`), `PlaybackAlive` (`StreamAlive`),
  `ResultsMatched` (`RepliesMatched`), and the action property `RefillsWhenLow`: a refill is asked for
  with one chunk at most left at the service.

`PlaybackSetting` has three parts. `TimerPoke` is FALSE: the callback runs at the yields of the main thread, also
from an AMPiPoke in a main loop; with AMPiPoke in a timer interrupt `WritesFramed` is false (`sound_timer`). `RestartBacklog` is
0: Start is called again when all that was sent has been played; otherwise the callback refills too early (`sound_restart`), and
`RefillsWhenLow` shows that nothing else makes it. `TxRoom` takes the messages of Start (two, and two chunks with
their WRITEs), or a refill behind one chunk, without the sender waiting; `sound_play` satisfies this with equality (2, 7, 8).

From `ConnectionAssumption` and `OneResumes` (one side at most calls `vchiq_resume_internal`), for any room in the
transport and any number of pauses and messages:

* `PauseQuietAlways`: the invariant is `ConnInv(r)`, r being the side that may resume. A side that is paused has its slot
  mutex (`PausedInv`). These facts are about messages, states and mutex alone; where a slot handler is, asleep or parsing, matters to
  the type only. A PAUSE on its way is the last message, and its sender has the mutex, or the RESUME is right behind it (`FollowInv`).
  The two sides may pause each other at the same time, so `ResumeInv` has to say what r knows when it is paused: the other
  side has its mutex too, and no PAUSE to r is left unparsed, so that no PAUSE of
  the pause that its RESUME ends arrives behind it. Without `OneResumes` it is false, and TLC finds it so: two RESUMEs cross and the second gives back a mutex that
  its receiver has not got.

From `SuspendAssumption` (finitely many users, the keepalive thread among them), for any number of users, uses, forces and
messages of the peer, on a platform that can suspend and on one that cannot:

* `SuspendSoundAlways`: `SuspendSpec => [](SuspendTypeOK /\ SuspendSound)`. The code computes several states of `arm` in one critical
  section, so the invariant is stated of any such state and each operator is shown to keep it. `PowerInv` relates
  the suspend and resume states to the power of the VideoCore, for a report of the platform may be on its way while a user
  drops the request behind it. `AwakeInv` is what keeps a user awake: a thread is counted before it is let in, and while fewer than `FORCE_SUSPEND_FAIL_MAX`
  forces have failed, nobody requests suspend with a count above zero (`NeededInv`); a request made before is dropped by the user that
  finds it, and one already in progress is what the user waits for. `ForceInv` says that no resume is asked for while a force has resume blocked and the suspend is under way
  or done: a user that comes then joins `Blocked`, and one that is woken finds resume no longer
  blocked (`UseUnblockedKeeps`). For the keepalive thread `KaInv` follows each use and release from the message
  (`remote`) to the shared counter, to the thread's own, to what it did; it takes the releases before the uses, so that what it will
  release it has used or is about to. The acknowledgements are counted as a set of pairs (`Acking`), of which a thread changes only
  its own (`RowChanges`).

From `JiffiesAssumption` (the counter is wider than twice the longest delay), for any width, number of timers and ticks:

* `TimersOnTime`: `JiffiesSpec => []JiffiesOnTime`. The code compares times by the sign of a difference modulo `Wrap`; that is
  the comparison of the times themselves as long as every pending time is within `MaxDelay` of the present
  (`WithinReach`, `SignedDiffIs`). From there the list is in the order of the times while it has at most two
  timers (`SoonestFirst`): where `add_timer` puts a timer (`PlaceForIs`) needs the first place that
  qualifies, which exists because the natural numbers are well-founded (`Least`). With three timers it
  is false, as the hazards say. `JiffiesTypes` gives the types.

From `UserPortAssumption` (rings of at least one entry), for any size of them and any number of messages:

* `ProcessIsTold`: `PortSpec => []ProcessTold`. The slot handler, AWAIT_COMPLETION, DEQUEUE_MESSAGE, a close and a release go
  step by step against each other, so the invariant `PortInv` says of each place what holds there. `message_available_pos`
  points at a completion of a message, or has been passed (`Position`): this is what makes it right to leave out
  a completion. Of two messages in the queue the second has a completion (`SecondTold`), which is why
  DEQUEUE_MESSAGE may take one without looking further. CLOSED is the last completion and
  there is one (`ClosedLast`), and `ClosedCounts` follows its reference through ring, thread and release. `PortTypesKept` gives the types.

From `PageListAssumption` (pages that whole cache lines fill, finitely many transfers), for any size of page and line, and any number
of pages, fragments and transfers:

* `PageListsExact`: `PageSpec => []PageListExact`. What the words of a list name is computed by recursion over the pages, on
  the side of the code (`RunsOf`) as on that of the VideoCore (`PagesUpTo`). That the functions defined so exist, and what
  holds of them, is shown by induction in the form of a set that holds 0 and, with a number, the next (`UpTo`).
  `JoinedNames` is the step: a page more in the last run or in another is a page more named. `CleanedIs` and `FragmentIs`
  are about quotients and remainders by numbers that are not known, hence the lemmas on multiples before
  them. For the fragments, `FragmentInv` says that each is in the list once or with one transfer, and `SemaInv` that the semaphore and the
  list differ by the transfers in between, so that a transfer the semaphore let in finds a fragment (`PromisedThere`).
  `PageTypesKept` gives the types.

So every invariant that a run checks is proved for its module; `TypeOK` of MCMachine and MCServices only puts the
type invariants of their parts together (`LifeTypeOK`, `BulkTypeOK` and the like).
Model-checked only: liveness (`UseReturns` and `PauseAnswered` among it), since neither fairness nor ENABLED is within the
prover's reach, and what the actions of the MC modules add for TLC. Nor are RECURSIVE operators, which no module has.

## 6. Not modelled

* `pause_bulks` and `resume_bulks` (`core:1439-1496`): only the master pauses bulks, and on this platform nothing pauses the connection.
* The ioctls that queue bulks, their retry after a signal, compatibility layers and queries: compiled out here, and
  waits are not interruptible in this port.
* `vchiq_use_service_no_resume` (the `USE_TYPE_SERVICE_NO_RESUME` case of `vchiq_arm.c:2438`): nothing in the repository calls it.
* A copy that fails in `queue_message` (`core:893-901`): in the Circle build `vchiq_copy_from_user` is a `memcpy`, which cannot fail (`vchiq_2835_arm.c:263`). In SyncSlot, where a
  failure would leave the slot without an owner, it is modelled all the same.
* Options, peer version and byte order helpers of the shim; the layout of `vchiq_init_slots`; statistics and dumps: they
  change nothing that the properties are about.
* `rwlock.c`: the two holders in `vchiq_arm.c` do not give way with the lock, so that it is never contended; as written it would not exclude two writers (`rwlock.c:36`).
* The register files of `coroutine.c` and its re-entry from a timer interrupt: SoundDevice shows what the interrupt does to the sound device, not what it does to the switch.
* Interrupt masking, mailbox, DMA mapping, device stubs: stubs or single register writes.
* printk and sprintf: formatting. The sample, and `stb_vorbis.c` (vendored, a quarter of the repository's lines).

## 7. Plan

All components that carry the program's own logic have a module. What could follow, by what it would add:

1. The coroutine switch with re-entry, and the read-write lock if a holder ever waits.
2. `pause_bulks` and `resume_bulks` with Connection, should a platform pause.
3. ShimService with BulkQueue on one service, and its liveness.
