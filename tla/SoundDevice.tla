----------------------------- MODULE SoundDevice -----------------------------
(***************************************************************************)
(* The audio device of ampi/vc4/sound/vchiqsoundbasedevice.c, the part of  *)
(* the program that AMPiStart, AMPiStop and AMPiIsActive call, against the *)
(* VideoCore's audio service.                                              *)
(*                                                                         *)
(* Two contexts of the ARM share the device without a lock: the main       *)
(* thread, in Start, Cancel or SetControl, and the slot handler coroutine, *)
(* in the callback that a message of the service causes.  "cpu" says which *)
(* of them runs.  The main thread gives way where it calls                 *)
(* ampi_co_yield, or anywhere when AMPiPoke is called by a timer interrupt *)
(* (TimerPoke); the coroutine gives way only where it would wait.          *)
(*                                                                         *)
(* Sound data are counted in packets of Msg.u.write.max_packet bytes.  The *)
(* positions m_nWritePos and m_nCompletePos are unsigned and wrap, here at *)
(* Modulus.  The pairs vchi_service_use / vchi_service_release are left    *)
(* out: they touch no state of the device.                                 *)
(***************************************************************************)
EXTENDS Integers, Sequences, FiniteSets

CONSTANTS
  ChunkSize,       \* m_nChunkSize, in packets
  Modulus,         \* where the unsigned positions wrap
  TxRoom,          \* messages the transport takes before the sender waits
  RxRoom,          \* bound: answers of the service under way
  RestartBacklog,  \* bound: messages and packets not done with at a Start
  TimerPoke,       \* AMPiPoke comes from an interrupt, not from a main loop
  Faults           \* calls of VCHI, and the service itself, may fail

ASSUME SoundDeviceAssumption ==
  /\ ChunkSize \in Nat \ {0} /\ TxRoom \in Nat \ {0} /\ RxRoom \in Nat \ {0}
  /\ Modulus \in Nat /\ Modulus > 2 * ChunkSize
  /\ RestartBacklog \in Nat
  /\ {TimerPoke, Faults} \subseteq BOOLEAN

VARIABLES
  cpu,          \* the context that runs
  mpc, hpc,     \* where the main thread and the callback are
  state,        \* m_State
  event,        \* m_Event
  result,       \* m_nResult
  writePos,     \* m_nWritePos
  completePos,  \* m_nCompletePos
  round,        \* which of its two chunks Start is writing
  left,         \* per context, nBytes of WriteChunk
  toPeer,       \* messages queued to the audio service, not yet read by it
  fromPeer,     \* its answers, not yet delivered to the callback
  unplayed,     \* packets the service holds and has not completed
  frame,        \* packets still to be queued of the last WRITE message
  framed        \* no message was queued that breaks a WRITE and its packets

mainVars == <<mpc, round>>
wireVars == <<toPeer, frame, framed>>
peerVars == <<fromPeer, unplayed>>
posVars  == <<writePos, completePos>>
callVars == <<event, result>>
vars == <<cpu, mainVars, hpc, state, callVars, posVars, left, wireVars,
          peerVars>>

Contexts == {"main", "handler"}

States == {"Created", "Idle", "Running", "Cancelled", "Terminating", "Error"}

MainPCs == {"idle", "config", "configWait", "control", "controlWait", "open",
            "start", "running", "reset", "chunk", "write", "bump", "data",
            "cancel", "cancelWait", "stop", "stopped",
            "setControl", "setControlWait"}

\* The program counters at which a context queues a message to the service.
Sending == {"config", "control", "open", "start", "write", "data", "stop",
            "setControl"}

Message(type, packets) == [type |-> type, packets |-> packets]

TxTypes == {"config", "control", "open", "start", "stop", "write", "packet"}

\* TVCHIQSoundState is an ordered enumeration.
IsActive == state \notin {"Created", "Idle"}

Init ==
  /\ cpu = "main" /\ mpc = "idle" /\ hpc = "idle"
  /\ state = "Created"
  /\ event = FALSE /\ result = 0
  /\ writePos = 0 /\ completePos = 0
  /\ round = 1
  /\ left = [c \in Contexts |-> 0]
  /\ toPeer = <<>> /\ fromPeer = <<>> /\ unplayed = 0
  /\ frame = 0 /\ framed = TRUE

------------------------------------------------------------------------------
(* What is under way                                                         *)

\* The packets that the messages of a type stand for, and how many they are.
PacketsOf(msgs, type) ==
  UNION {{i} \X (1 .. msgs[i].packets) :
           i \in {j \in DOMAIN msgs : msgs[j].type = type}}

CountOf(msgs, type) == Cardinality(PacketsOf(msgs, type))

\* Packets announced to the service that it has not completed.
Pending == frame + CountOf(toPeer, "packet") + unplayed

\* ... or has completed in a message the callback has not seen.
Unacknowledged == Pending + CountOf(fromPeer, "complete")

Backlog == (writePos - completePos) % Modulus

------------------------------------------------------------------------------
(* vchi_msg_queue with VCHI_FLAGS_BLOCK_UNTIL_QUEUED                         *)

Room == Len(toPeer) < TxRoom

Queue(m) ==
  /\ Room
  /\ toPeer' = Append(toPeer, m)
  /\ frame' = CASE m.type = "write"  -> m.packets
                [] m.type = "packet" -> IF frame = 0 THEN 0 ELSE frame - 1
                [] OTHER             -> frame
  /\ framed' = (framed /\ (frame > 0 <=> m.type = "packet"))

\* A packet, and whether it was the last of the chunk the context writes.
QueuePacket(c) ==
  /\ Queue(Message("packet", 1))
  /\ left' = [left EXCEPT ![c] = @ - 1]

------------------------------------------------------------------------------
(* The application's ChunkCallback, set before Start: it fills any part of a *)
(* chunk                                                                     *)

CallbackResults == 0..ChunkSize

\* The head of WriteChunk: an empty chunk ends the playback.
Chunk(c, n) ==
  /\ left' = [left EXCEPT ![c] = n]
  /\ state' = IF n = 0 THEN "Idle" ELSE state

------------------------------------------------------------------------------
(* The main thread                                                           *)

Goto(label) == mpc' = label /\ UNCHANGED round

\* Queue a message from "from" and go to "to", or fail into the error state.
MainSend(from, m, to) ==
  /\ mpc = from
  /\ \/ Queue(m) /\ Goto(to) /\ UNCHANGED state
     \/ Faults /\ Goto("idle") /\ state' = "Error" /\ UNCHANGED wireVars

\* AMPiStart.  The application restarts when little enough is left to play;
\* vchi_initialise, vchi_connect and vchi_service_open precede the first one.
StartCall ==
  /\ mpc = "idle"
  /\ Unacknowledged + Len(toPeer) <= RestartBacklog
  /\ \/ state = "Created" /\ Goto("config") /\ UNCHANGED state
     \/ state = "Created" /\ Faults /\ Goto("idle") /\ state' = "Error"
     \/ state = "Idle" /\ Goto("start") /\ UNCHANGED state
  /\ UNCHANGED <<hpc, callVars, posVars, left, wireVars, peerVars>>

\* Variant for mutation: m_Event is not cleared before the request.
SendRequestUncleared(from, type, to) ==
  /\ mpc = from
  /\ \/ Queue(Message(type, 0)) /\ Goto(to) /\ UNCHANGED <<state, callVars>>
     \/ /\ Faults /\ Goto("idle") /\ result' = -1 /\ UNCHANGED <<event, wireVars>>
        /\ state' = IF from = "setControl" THEN state ELSE "Error"
  /\ UNCHANGED <<hpc, posVars, left, peerVars>>

\* CallMessage, up to its wait: the reply is awaited by a flag.
SendRequest(from, type, to) ==
  /\ mpc = from
  /\ event' = FALSE
  /\ \/ Queue(Message(type, 0)) /\ Goto(to) /\ UNCHANGED <<state, result>>
     \/ /\ Faults /\ Goto("idle") /\ result' = -1 /\ UNCHANGED wireVars
        /\ state' = IF from = "setControl" THEN state ELSE "Error"
  /\ UNCHANGED <<hpc, posVars, left, peerVars>>

\* CallMessage, its wait, and what Start and SetControl make of the result.
AwaitResult(from, to) ==
  /\ mpc = from
  /\ event
  /\ \/ result = 0 /\ Goto(to) /\ UNCHANGED state
     \/ /\ result # 0 /\ Goto("idle")
        /\ state' = IF from = "setControlWait" THEN state ELSE "Error"
  /\ UNCHANGED <<hpc, callVars, posVars, left, wireVars, peerVars>>

SendOpen ==
  /\ mpc = "open"
  /\ \/ Queue(Message("open", 0)) /\ Goto("start") /\ state' = "Idle"
     \/ Faults /\ Goto("idle") /\ state' = "Error" /\ UNCHANGED wireVars
  /\ UNCHANGED <<hpc, callVars, posVars, left, peerVars>>

SendStart ==
  /\ MainSend("start", Message("start", 0), "running")
  /\ UNCHANGED <<hpc, callVars, posVars, left, peerVars>>

SetRunning ==
  /\ mpc = "running"
  /\ \/ state' = "Running" /\ Goto("reset")
     \/ Faults /\ state' = "Error" /\ Goto("idle")
  /\ UNCHANGED <<hpc, callVars, posVars, left, wireVars, peerVars>>

\* Variant for mutation: the second start keeps the positions of the first.
KeepPositions ==
  /\ mpc = "reset"
  /\ mpc' = "chunk" /\ round' = 1
  /\ UNCHANGED posVars
  /\ UNCHANGED <<hpc, state, callVars, left, wireVars, peerVars>>

ResetPositions ==
  /\ mpc = "reset"
  /\ writePos' = 0 /\ completePos' = 0
  /\ mpc' = "chunk" /\ round' = 1
  /\ UNCHANGED <<hpc, state, callVars, left, wireVars, peerVars>>

\* WriteChunk is called twice, whatever the first call finds.
ChunkWritten ==
  IF round = 1 THEN mpc' = "chunk" /\ round' = 2 ELSE Goto("idle")

MainChunk ==
  /\ mpc = "chunk"
  /\ \E n \in CallbackResults :
       /\ Chunk("main", n)
       /\ IF n = 0 THEN ChunkWritten ELSE Goto("write")
  /\ UNCHANGED <<hpc, callVars, posVars, wireVars, peerVars>>

MainWrite ==
  /\ MainSend("write", Message("write", left["main"]), "bump")
  /\ UNCHANGED <<hpc, callVars, posVars, left, peerVars>>

MainBump ==
  /\ mpc = "bump"
  /\ writePos' = (writePos + left["main"]) % Modulus
  /\ Goto("data")
  /\ UNCHANGED <<hpc, state, callVars, completePos, left, wireVars, peerVars>>

MainData ==
  /\ mpc = "data"
  /\ \/ /\ QueuePacket("main")
        /\ IF left["main"] = 1 THEN ChunkWritten ELSE Goto("data")
        /\ UNCHANGED state
     \/ /\ Faults /\ Goto("idle") /\ state' = "Error"
        /\ frame' = 0 /\ UNCHANGED <<left, toPeer, framed>>
  /\ UNCHANGED <<hpc, callVars, posVars, peerVars>>

\* AMPiStop: the state is tested, then set, then awaited.
CancelCall ==
  /\ mpc = "idle" /\ state = "Running"
  /\ Goto("cancel")
  /\ UNCHANGED <<hpc, state, callVars, posVars, left, wireVars, peerVars>>

SetCancelled ==
  /\ mpc = "cancel"
  /\ state' = "Cancelled" /\ Goto("cancelWait")
  /\ UNCHANGED <<hpc, callVars, posVars, left, wireVars, peerVars>>

CancelTaken ==
  /\ mpc = "cancelWait" /\ state # "Cancelled"
  /\ Goto("stop")
  /\ UNCHANGED <<hpc, state, callVars, posVars, left, wireVars, peerVars>>

\* A failure to queue STOP leaves the state as it is.
SendStop ==
  /\ mpc = "stop"
  /\ \/ Queue(Message("stop", 0)) /\ Goto("stopped")
     \/ Faults /\ Goto("idle") /\ UNCHANGED wireVars
  /\ UNCHANGED <<hpc, state, callVars, posVars, left, peerVars>>

Stopped ==
  /\ mpc = "stopped"
  /\ state' = "Idle" /\ Goto("idle")
  /\ UNCHANGED <<hpc, callVars, posVars, left, wireVars, peerVars>>

\* SetControl, which may be called while sound is being sent.
SetControlCall ==
  /\ mpc = "idle" /\ state # "Created"
  /\ Goto("setControl")
  /\ UNCHANGED <<hpc, state, callVars, posVars, left, wireVars, peerVars>>

MainStep ==
  \/ StartCall
  \/ SendRequest("config", "config", "configWait")
  \/ AwaitResult("configWait", "control")
  \/ SendRequest("control", "control", "controlWait")
  \/ AwaitResult("controlWait", "open")
  \/ SendOpen \/ SendStart \/ SetRunning \/ ResetPositions
  \/ MainChunk \/ MainWrite \/ MainBump \/ MainData
  \/ CancelCall \/ SetCancelled \/ CancelTaken \/ SendStop \/ Stopped
  \/ SetControlCall
  \/ SendRequest("setControl", "control", "setControlWait")
  \/ AwaitResult("setControlWait", "idle")

------------------------------------------------------------------------------
(* The callback, in the slot handler coroutine                               *)

Delivered(type) ==
  /\ hpc = "idle"
  /\ fromPeer # <<>> /\ Head(fromPeer).type = type
  /\ fromPeer' = Tail(fromPeer)

HandleResult ==
  /\ Delivered("result")
  /\ result' = Head(fromPeer).success
  /\ event' = TRUE
  /\ UNCHANGED <<mainVars, hpc, state, posVars, left, wireVars, unplayed>>

DropComplete ==
  /\ Delivered("complete")
  /\ state \in {"Idle", "Error"}
  /\ UNCHANGED <<mainVars, hpc, state, callVars, posVars, left, wireVars,
                 unplayed>>

\* A completion that does not carry the cookies of a WRITE.
BadComplete ==
  /\ Delivered("complete")
  /\ Faults /\ IsActive /\ state # "Error"
  /\ state' = "Error"
  /\ UNCHANGED <<mainVars, hpc, callVars, posVars, left, wireVars, unplayed>>

\* What the callback does when no more than one chunk is left queued.
Refill ==
  \/ /\ state = "Cancelled"
     /\ state' = "Terminating"
     /\ UNCHANGED <<hpc, left>>
  \/ /\ state # "Cancelled"
     /\ \E n \in CallbackResults :
          /\ Chunk("handler", n)
          /\ hpc' = IF n = 0 THEN "idle" ELSE "write"

\* Variant for mutation: only a running device looks at completions.
CompleteWhenRunning ==
  /\ Delivered("complete")
  /\ IsActive /\ state # "Error"
  /\ UNCHANGED writePos
  /\ IF state # "Running"
     THEN UNCHANGED <<hpc, state, left, completePos>>
     ELSE /\ completePos' = (completePos + Head(fromPeer).packets) % Modulus
          /\ IF Backlog' <= ChunkSize THEN Refill
                                      ELSE UNCHANGED <<hpc, state, left>>
  /\ UNCHANGED <<mainVars, callVars, wireVars, unplayed>>

\* Variant for mutation: the backlog is tested before the completion counts.
CompleteTestedFirst ==
  /\ Delivered("complete")
  /\ IsActive /\ state # "Error"
  /\ completePos' = (completePos + Head(fromPeer).packets) % Modulus
  /\ UNCHANGED writePos
  /\ IF Backlog <= ChunkSize THEN Refill
                             ELSE UNCHANGED <<hpc, state, left>>
  /\ UNCHANGED <<mainVars, callVars, wireVars, unplayed>>

HandleComplete ==
  /\ Delivered("complete")
  /\ IsActive /\ state # "Error"
  /\ completePos' = (completePos + Head(fromPeer).packets) % Modulus
  /\ UNCHANGED writePos
  /\ IF Backlog' <= ChunkSize THEN Refill
                              ELSE UNCHANGED <<hpc, state, left>>
  /\ UNCHANGED <<mainVars, callVars, wireVars, unplayed>>

\* A chunk that cannot be queued is an error of the device.
HandlerFails ==
  /\ Faults /\ hpc \in {"write", "data"}
  /\ hpc' = "idle" /\ state' = "Error"
  /\ frame' = IF hpc = "data" THEN 0 ELSE frame
  /\ UNCHANGED <<mainVars, callVars, posVars, left, toPeer, framed, peerVars>>

\* Variant for mutation: the position does not wrap.
HandlerWriteUnwrapped ==
  /\ hpc = "write"
  /\ Queue(Message("write", left["handler"]))
  /\ writePos' = writePos + left["handler"]
  /\ hpc' = "data"
  /\ UNCHANGED <<mainVars, state, callVars, completePos, left, peerVars>>

HandlerWrite ==
  /\ hpc = "write"
  /\ Queue(Message("write", left["handler"]))
  /\ writePos' = (writePos + left["handler"]) % Modulus
  /\ hpc' = "data"
  /\ UNCHANGED <<mainVars, state, callVars, completePos, left, peerVars>>

\* Variant for mutation: the rest of a chunk that fills no packet is dropped.
HandlerDataFloor ==
  /\ hpc = "data"
  /\ IF left["handler"] = 1
     THEN hpc' = "idle" /\ UNCHANGED <<left, wireVars>>
     ELSE QueuePacket("handler") /\ UNCHANGED hpc
  /\ UNCHANGED <<mainVars, state, callVars, posVars, peerVars>>

HandlerData ==
  /\ hpc = "data"
  /\ QueuePacket("handler")
  /\ hpc' = IF left["handler"] = 1 THEN "idle" ELSE "data"
  /\ UNCHANGED <<mainVars, state, callVars, posVars, peerVars>>

HandlerStep ==
  \/ HandleResult \/ DropComplete \/ BadComplete \/ HandleComplete
  \/ HandlerFails \/ HandlerWrite \/ HandlerData

------------------------------------------------------------------------------
(* Who runs                                                                  *)

MainAtYield ==
  \/ mpc \in {"idle", "configWait", "controlWait", "setControlWait",
              "cancelWait"}
  \/ mpc \in Sending /\ ~Room

HandlerAtYield == hpc = "idle" \/ ~Room

\* ampi_co_yield of the main thread, or AMPiPoke.
ToHandler ==
  /\ cpu = "main" /\ (TimerPoke \/ MainAtYield)
  /\ cpu' = "handler"
  /\ UNCHANGED <<mainVars, hpc, state, callVars, posVars, left, wireVars,
                 peerVars>>

\* ampi_co_yield of the coroutine.
ToMain ==
  /\ cpu = "handler" /\ HandlerAtYield
  /\ cpu' = "main"
  /\ UNCHANGED <<mainVars, hpc, state, callVars, posVars, left, wireVars,
                 peerVars>>

------------------------------------------------------------------------------
(* The audio service of the VideoCore, as the device uses it (external)      *)

Results == IF Faults THEN {0, -1} ELSE {0}

Reply(type, packets, success) ==
  [type |-> type, packets |-> packets, success |-> success]

\* The service reads a message.  It replies to CONFIG and CONTROL, keeps the
\* packets to play them, and may discard what it holds when it is stopped.
PeerRead ==
  /\ toPeer # <<>>
  /\ toPeer' = Tail(toPeer)
  /\ LET type == Head(toPeer).type IN
       \/ /\ type \in {"config", "control"}
          /\ Len(fromPeer) < RxRoom
          /\ \E r \in Results : fromPeer' = Append(fromPeer, Reply("result", 0, r))
          /\ UNCHANGED unplayed
       \/ /\ type = "packet"
          /\ unplayed' = unplayed + 1
          /\ UNCHANGED fromPeer
       \/ /\ type = "stop"
          /\ unplayed' \in {0, unplayed}
          /\ UNCHANGED fromPeer
       \/ /\ type \in {"open", "start", "write"}
          /\ UNCHANGED peerVars
  /\ UNCHANGED <<cpu, mainVars, hpc, state, callVars, posVars, left, frame,
                 framed>>

\* Some of the packets have been played: one COMPLETE covers any number.
PeerComplete ==
  /\ Len(fromPeer) < RxRoom
  /\ \E n \in 1..unplayed :
       /\ unplayed' = unplayed - n
       /\ fromPeer' = Append(fromPeer, Reply("complete", n, 0))
  /\ UNCHANGED <<cpu, mainVars, hpc, state, callVars, posVars, left, wireVars>>

MainRuns    == cpu = "main" /\ MainStep /\ UNCHANGED cpu
HandlerRuns == cpu = "handler" /\ HandlerStep /\ UNCHANGED cpu

Next ==
  \/ MainRuns \/ HandlerRuns \/ ToHandler \/ ToMain \/ PeerRead \/ PeerComplete

Spec == Init /\ [][Next]_vars

(***************************************************************************)
(* Fairness.  A call of the device proceeds while its thread runs; the     *)
(* coroutine works through the messages it finds and gives way when it has *)
(* none, which it reaches again and again because sound plays far slower   *)
(* than chunks are copied; the application keeps poking; the service reads *)
(* and plays.  The application is not obliged to call anything.            *)
(***************************************************************************)

Fairness ==
  /\ SF_vars(MainRuns /\ mpc # "idle")
  /\ SF_vars(HandlerRuns)
  /\ SF_vars(ToMain)
  /\ SF_vars(ToHandler)
  /\ WF_vars(PeerRead)
  /\ WF_vars(PeerComplete)

FairSpec == Spec /\ Fairness

------------------------------------------------------------------------------
(* Properties                                                                *)

\* Every variable of the device and of the wire has its type.
TypeOK ==
  /\ cpu \in Contexts /\ mpc \in MainPCs /\ hpc \in {"idle", "write", "data"}
  /\ state \in States
  /\ event \in BOOLEAN /\ result \in {0, -1}
  /\ {writePos, completePos} \subseteq 0..Modulus - 1
  /\ round \in 1..2 /\ left \in [Contexts -> 0..ChunkSize]
  /\ toPeer \in Seq([type : TxTypes, packets : 0..ChunkSize])
  /\ \A i \in DOMAIN fromPeer : fromPeer[i].type \in {"result", "complete"}
  /\ unplayed \in Nat /\ frame \in 0..ChunkSize
  /\ framed \in BOOLEAN

\* What the service reads is a sequence of WRITE messages, each followed by
\* exactly the packets it announces, or by fewer after a failure: no second
\* chunk and no control message splits a chunk (WriteChunk).
WritesFramed == framed

\* While sound is sent, m_nWritePos - m_nCompletePos is the number of packets
\* announced to the service whose completion the callback has not seen, across
\* restarts, cancelled playbacks and the wrap of the positions.
BacklogExact ==
  /\ state \in {"Running", "Cancelled", "Terminating"}
  /\ mpc \notin {"reset", "bump", "stopped"}
  => Backlog = Unacknowledged

\* A playing device always has something under way that will call the
\* callback again: without it neither the next chunk nor Cancel's reply comes.
StreamAlive ==
  /\ state \in {"Running", "Cancelled"}
  /\ mpc \notin {"reset", "chunk", "write", "bump", "data"}
  => hpc # "idle" \/ Unacknowledged > 0

\* The flag of CallMessage belongs to one request: when no request is awaited,
\* no result is under way that would answer the next one early.
RepliesMatched ==
  mpc \notin {"configWait", "controlWait", "setControlWait"}
    => /\ \A i \in DOMAIN toPeer : toPeer[i].type \notin {"config", "control"}
       /\ \A i \in DOMAIN fromPeer : fromPeer[i].type # "result"

\* The callback asks for a chunk only "if there is no more than one chunk left
\* queued" at the service (Callback).
RefillOnlyWhenLow ==
  [][hpc = "idle" /\ hpc' = "write" => Pending <= ChunkSize]_vars

\* Cancel's wait is ended by the callback's Terminating and by nothing else:
\* what the assertion after it states.
CancelEndsTerminating ==
  mpc = "cancelWait" => state \in {"Cancelled", "Terminating"}

\* Every call of the device returns: Start and SetControl their requests'
\* results, Cancel the end of the playback.
MainReturns == mpc # "idle" ~> mpc = "idle"

\* A running device asks for chunk after chunk until it stops running.
PlaybackGoesOn == state = "Running" ~> (hpc = "write" \/ state # "Running")

==============================================================================
