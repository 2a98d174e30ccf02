----------------------------- MODULE Connection -----------------------------
(***************************************************************************)
(* The state of the connection between the ARM and the VideoCore, which    *)
(* run the same code: connecting, and pausing and resuming it.  A side     *)
(* that has sent PAUSE keeps its slot mutex until RESUME is sent or        *)
(* received, so that none of its threads can send anything between.        *)
(*                                                                         *)
(* The slot handler of a side sleeps until its trigger is fired, looks at  *)
(* poll_needed, then parses all there is.  When it finds no room for what  *)
(* it has to send, it goes back to sleep: room that comes later fires no   *)
(* trigger, only the next message, poll or stall of a sender does.         *)
(*                                                                         *)
(* Only the sides in "Resumers" call vchiq_resume_internal: when both do,  *)
(* the code gives back a mutex that it does not hold.                      *)
(***************************************************************************)
EXTENDS Integers, Sequences

CONSTANTS
  Sides,       (* "arm" and "vc"                                             *)
  Resumers,    (* the sides that resume                                      *)
  ConnRoom,    (* messages a transport takes before its sender waits         *)
  MaxData,     (* bound: other messages sent by the threads of each side     *)
  MaxPauses    (* bound: calls of vchiq_pause_internal on each side          *)

ASSUME ConnectionAssumption ==
  /\ Sides = {"arm", "vc"} /\ Resumers \subseteq Sides
  /\ ConnRoom \in Nat \ {0} /\ {MaxData, MaxPauses} \subseteq Nat

VARIABLES
  conn,        (* conn_state                                                 *)
  connector,   (* where the thread in vchiq_connect is                       *)
  connectSem,  (* state->connect                                             *)
  slotLock,    (* slot_mutex: "free", held by a "sender", or for a "pause"   *)
  connPoll,    (* poll_needed                                                *)
  connHandler, (* where the slot handler is; "bailed": it sleeps, and left a *)
               (* message for want of room                                   *)
  connAhead,   (* messages ahead of it that it saw when it began to parse     *)
  connTrigger, (* the trigger event was fired since it last woke up          *)
  connMsgs,    (* messages on their way to each side                         *)
  connLog      (* history: messages and pauses so far, and whether CONNECTED *)
               (* was set by vchiq_connect over a later state                *)

handlerVars == <<connHandler, connAhead, connTrigger>>
connVars == <<conn, connector, connectSem, slotLock, connPoll, handlerVars,
              connMsgs, connLog>>

Other(s) == IF s = "arm" THEN "vc" ELSE "arm"

ConnInit ==
  /\ conn = [s \in Sides |-> "DISCONNECTED"]
  /\ connector = [s \in Sides |-> "idle"]
  /\ connectSem = [s \in Sides |-> 0]
  /\ slotLock = [s \in Sides |-> "free"]
  /\ connPoll = [s \in Sides |-> FALSE]
  /\ connHandler = [s \in Sides |-> "asleep"]
  /\ connAhead = [s \in Sides |-> 0]
  /\ connTrigger = [s \in Sides |-> FALSE]
  /\ connMsgs = [s \in Sides |-> <<>>]
  /\ connLog = [s \in Sides |-> [data |-> 0, pauses |-> 0, overtaken |-> FALSE]]

SetConn(s, new) == conn' = [conn EXCEPT ![s] = new]
Room(s) == Len(connMsgs[Other(s)]) < ConnRoom

Fires(s) == connTrigger' = [connTrigger EXCEPT ![s] = TRUE]

(* queue_message by s.                                                       *)
Queue(s, m) ==
  /\ connMsgs' = [connMsgs EXCEPT ![Other(s)] = Append(@, m)]
  /\ Fires(Other(s))

-----------------------------------------------------------------------------
(* vchiq_connect and vchiq_connect_internal.                                 *)

SendConnect(s) ==
  /\ connector[s] = "idle" /\ conn[s] = "DISCONNECTED"
  /\ slotLock[s] = "free" /\ Room(s)
  /\ Queue(s, "CONNECT")
  /\ SetConn(s, "CONNECTING")
  /\ connector' = [connector EXCEPT ![s] = "waiting"]
  /\ UNCHANGED <<connHandler, connAhead, connectSem, slotLock, connPoll, connLog>>

(* down, CONNECTED, up again for the next one; the slot handler may have     *)
(* handled more than the CONNECT meanwhile.                                  *)
Connected(s) ==
  /\ connector[s] = "waiting" /\ connectSem[s] > 0
  /\ connector' = [connector EXCEPT ![s] = "connected"]
  /\ SetConn(s, "CONNECTED")
  /\ connLog' = [connLog EXCEPT ![s].overtaken = conn[s] # "CONNECTING"]
  /\ UNCHANGED <<handlerVars, connectSem, slotLock, connPoll, connMsgs>>

(* A thread sends: it holds the slot mutex while the transport has no room,  *)
(* after it let the other side know of what fills it (reserve_space).        *)
SenderLocks(s) ==
  /\ connector[s] = "connected" /\ slotLock[s] = "free"
  /\ connLog[s].data < MaxData
  /\ slotLock' = [slotLock EXCEPT ![s] = "sender"]
  /\ IF Room(s) THEN UNCHANGED connTrigger ELSE Fires(Other(s))
  /\ UNCHANGED <<connHandler, connAhead, conn, connector, connectSem, connPoll, connMsgs,
                 connLog>>

SenderSends(s) ==
  /\ slotLock[s] = "sender" /\ Room(s)
  /\ Queue(s, "DATA")
  /\ slotLock' = [slotLock EXCEPT ![s] = "free"]
  /\ connLog' = [connLog EXCEPT ![s].data = @ + 1]
  /\ UNCHANGED <<connHandler, connAhead, conn, connector, connectSem, connPoll>>

(* request_poll                                                              *)
AsksPoll(s) ==
  /\ connPoll' = [connPoll EXCEPT ![s] = TRUE]
  /\ Fires(s)

(* vchiq_pause_internal and vchiq_resume_internal.                           *)
PauseAsked(s) ==
  /\ conn[s] = "CONNECTED" /\ connLog[s].pauses < MaxPauses
  /\ SetConn(s, "PAUSING")
  /\ AsksPoll(s)
  /\ connLog' = [connLog EXCEPT ![s].pauses = @ + 1]
  /\ UNCHANGED <<connHandler, connAhead, connector, connectSem, slotLock, connMsgs>>

ResumeAsked(s) ==
  /\ s \in Resumers /\ conn[s] = "PAUSED"
  /\ SetConn(s, "RESUMING")
  /\ AsksPoll(s)
  /\ UNCHANGED <<connHandler, connAhead, connector, connectSem, slotLock, connMsgs, connLog>>

-----------------------------------------------------------------------------
(* The slot handler.                                                         *)

(* It parses what is there when it begins, tx_pos being read once, and then  *)
(* goes to sleep.                                                            *)
HandlerParses(s, ahead) ==
  /\ connHandler' = [connHandler EXCEPT ![s] = IF ahead = 0 THEN "asleep" ELSE "parse"]
  /\ connAhead' = [connAhead EXCEPT ![s] = ahead]

HandlerStops(s, place) ==
  /\ connHandler' = [connHandler EXCEPT ![s] = place]
  /\ connAhead' = [connAhead EXCEPT ![s] = 0]

(* It wakes up, and clears poll_needed before it looks at the state. An event *)
(* that was seen as fired leaves its up in the semaphore: it may wake up once *)
(* more than it was fired (RemoteEvent).                                     *)
Polls(s) ==
  /\ connHandler[s] \in {"asleep", "bailed"}
  /\ connPoll' = [connPoll EXCEPT ![s] = FALSE]
  /\ UNCHANGED <<connector, connectSem, connLog>>

PollPausing(s) ==
  /\ Polls(s)
  /\ connPoll[s] /\ conn[s] = "PAUSING"
  /\ connTrigger' = [connTrigger EXCEPT ![s] = FALSE]
  /\ HandlerStops(s, "pausing")
  /\ UNCHANGED <<conn, slotLock, connMsgs>>

(* Without room the code stops in BUG().                                     *)
PollResuming(s) ==
  /\ Polls(s)
  /\ connPoll[s] /\ conn[s] = "RESUMING" /\ Room(s)
  /\ connMsgs' = [connMsgs EXCEPT ![Other(s)] = Append(@, "RESUME")]
  /\ connTrigger' = [connTrigger EXCEPT ![s] = FALSE, ![Other(s)] = TRUE]
  /\ slotLock' = [slotLock EXCEPT ![s] = "free"]
  /\ SetConn(s, "CONNECTED")
  /\ HandlerParses(s, Len(connMsgs[s]))

PollNothing(s) ==
  /\ Polls(s)
  /\ connPoll[s] => conn[s] \notin {"PAUSING", "RESUMING"}
  /\ connTrigger' = [connTrigger EXCEPT ![s] = FALSE]
  /\ HandlerParses(s, Len(connMsgs[s]))
  /\ UNCHANGED <<conn, slotLock, connMsgs>>

HandlerWakes(s) == PollPausing(s) \/ PollResuming(s) \/ PollNothing(s)

(* Whatever the state has become while the handler waited for the mutex.     *)
PauseQueued(s) ==
  /\ connHandler[s] = "pausing" /\ slotLock[s] = "free" /\ Room(s)
  /\ Queue(s, "PAUSE")
  /\ SetConn(s, "PAUSE_SENT")
  /\ HandlerParses(s, Len(connMsgs[s]))
  /\ UNCHANGED <<connector, connectSem, connPoll, connLog>>

(* Variant for mutation: the slot mutex is given back after PAUSE.           *)
SendPauseUnlocked(s) == PauseQueued(s) /\ UNCHANGED slotLock

SendPause(s) ==
  PauseQueued(s) /\ slotLock' = [slotLock EXCEPT ![s] = "pause"]

(* "Retry later": the poll is left to whatever fires the trigger next.       *)
SendPauseStalls(s) ==
  /\ connHandler[s] = "pausing" /\ slotLock[s] = "free" /\ ~Room(s)
  /\ connPoll' = [connPoll EXCEPT ![s] = TRUE]
  /\ Fires(Other(s))
  /\ HandlerParses(s, Len(connMsgs[s]))
  /\ UNCHANGED <<conn, connector, connectSem, slotLock, connMsgs, connLog>>

Parse(s, m) ==
  /\ connHandler[s] = "parse"
  /\ connMsgs[s] # <<>> /\ Head(connMsgs[s]) = m
  /\ UNCHANGED <<connector, connPoll, connLog>>

Parsed(s) ==
  /\ connMsgs' = [connMsgs EXCEPT ![s] = Tail(@)]
  /\ HandlerParses(s, connAhead[s] - 1)
  /\ UNCHANGED connTrigger

ParseConnect(s) ==
  /\ Parse(s, "CONNECT") /\ Parsed(s)
  /\ connectSem' = [connectSem EXCEPT ![s] = @ + 1]
  /\ UNCHANGED <<conn, slotLock>>

ParseData(s) ==
  /\ Parse(s, "DATA") /\ Parsed(s)
  /\ UNCHANGED <<conn, connectSem, slotLock>>

PauseAnswer(s) ==
  /\ Room(s)
  /\ connMsgs' = [connMsgs EXCEPT ![s] = Tail(@), ![Other(s)] = Append(@, "PAUSE")]
  /\ Fires(Other(s))
  /\ slotLock' = [slotLock EXCEPT ![s] = "pause"]
  /\ SetConn(s, "PAUSED")
  /\ HandlerParses(s, connAhead[s] - 1)

(* Variant for mutation: a PAUSE is answered although one was sent before.   *)
ParsePauseAnswered(s) ==
  /\ Parse(s, "PAUSE")
  /\ slotLock[s] \in {"free", "pause"} /\ PauseAnswer(s)
  /\ UNCHANGED connectSem

(* PAUSE: answered, with the slot mutex, unless it is an answer itself;      *)
(* nothing if paused.                                                        *)
ParsePause(s) ==
  /\ Parse(s, "PAUSE")
  /\ \/ /\ conn[s] = "PAUSED" /\ Parsed(s)
        /\ UNCHANGED <<conn, slotLock>>
     \/ /\ conn[s] = "PAUSE_SENT" /\ Parsed(s)
        /\ SetConn(s, "PAUSED")
        /\ UNCHANGED slotLock
     \/ /\ conn[s] \notin {"PAUSED", "PAUSE_SENT"}
        /\ slotLock[s] = "free" /\ PauseAnswer(s)
  /\ UNCHANGED connectSem

(* No room for the answer: the PAUSE stays, the handler goes to sleep.       *)
ParsePauseBails(s) ==
  /\ Parse(s, "PAUSE")
  /\ conn[s] \notin {"PAUSED", "PAUSE_SENT"}
  /\ slotLock[s] = "free" /\ ~Room(s)
  /\ HandlerStops(s, "bailed")
  /\ Fires(Other(s))
  /\ UNCHANGED <<conn, connectSem, slotLock, connMsgs>>

(* RESUME: the slot mutex is given back, whoever holds it.                   *)
ParseResume(s) ==
  /\ Parse(s, "RESUME") /\ Parsed(s)
  /\ slotLock' = [slotLock EXCEPT ![s] = "free"]
  /\ SetConn(s, "CONNECTED")
  /\ UNCHANGED connectSem

HandlerStep(s) ==
  \/ SendPause(s) \/ SendPauseStalls(s)
  \/ ParseConnect(s) \/ ParseData(s)
  \/ ParsePause(s) \/ ParsePauseBails(s) \/ ParseResume(s)

ConnNext ==
  \E s \in Sides :
    \/ SendConnect(s) \/ Connected(s) \/ SenderLocks(s) \/ SenderSends(s)
    \/ PauseAsked(s) \/ ResumeAsked(s)
    \/ HandlerWakes(s) \/ HandlerStep(s)

ConnSpec == ConnInit /\ [][ConnNext]_connVars

(* The slot handler runs when it is woken up, and a sender goes on when there *)
(* is room. Nothing promises the handler room, or a wake-up when it comes.   *)
ConnHandler(s) == (connTrigger[s] /\ HandlerWakes(s)) \/ HandlerStep(s)

ConnFairness ==
  \A s \in Sides :
    WF_connVars(ConnHandler(s)) /\ WF_connVars(SenderSends(s))

-----------------------------------------------------------------------------
ConnStates == {"DISCONNECTED", "CONNECTING", "CONNECTED", "PAUSING", "PAUSE_SENT",
               "PAUSED", "RESUMING"}

ConnTypeOK ==
  /\ conn \in [Sides -> ConnStates]
  /\ connector \in [Sides -> {"idle", "waiting", "connected"}]
  /\ connectSem \in [Sides -> Nat]
  /\ slotLock \in [Sides -> {"free", "sender", "pause"}]
  /\ connPoll \in [Sides -> BOOLEAN] /\ connTrigger \in [Sides -> BOOLEAN]
  /\ connHandler \in [Sides -> {"asleep", "bailed", "pausing", "parse"}]
  /\ connAhead \in [Sides -> Nat]
  /\ \A s \in Sides : (connHandler[s] = "parse") = (connAhead[s] > 0)
  /\ connMsgs \in [Sides -> Seq({"CONNECT", "DATA", "PAUSE", "RESUME"})]
  /\ connLog \in [Sides -> [data : Nat, pauses : Nat, overtaken : BOOLEAN]]

PausedStates == {"PAUSE_SENT", "PAUSED", "RESUMING"}

(* A side holds its slot mutex for the pause exactly while it is paused, and *)
(* what follows a PAUSE in the transport is the RESUME that ends it: nothing *)
(* is sent to a side whose memory may be going away.  Whoever is paused is so *)
(* with the other side's knowledge, or the end of it is under way.           *)
PauseQuiet ==
  \A s \in Sides :
    /\ ~connLog[s].overtaken => (slotLock[s] = "pause") = (conn[s] \in PausedStates)
    /\ \A i \in 1..Len(connMsgs[s]) :
         connMsgs[s][i] = "PAUSE" =>
           IF i = Len(connMsgs[s]) THEN slotLock[Other(s)] = "pause"
                                   ELSE connMsgs[s][i + 1] = "RESUME"
    /\ conn[s] = "PAUSED" =>
         \/ slotLock[Other(s)] = "pause"
         \/ \E i \in 1..Len(connMsgs[s]) : connMsgs[s][i] = "RESUME"

(* A pause that was sent is answered, with two exceptions: vchiq_connect on  *)
(* the other side overwrote PAUSED, and its slot handler may wait for a      *)
(* mutex of its own; or there was no room for the answer, and the handler of *)
(* the other side sleeps, since whoever paused sends nothing to wake it up.  *)
PauseAnswered ==
  \A s \in Sides :
    conn[s] = "PAUSE_SENT"
      ~> \/ conn[s] # "PAUSE_SENT"
         \/ connLog[Other(s)].overtaken
         \/ connHandler[Other(s)] = "bailed" /\ ~connTrigger[Other(s)]
=============================================================================
