---------------------------- MODULE ServiceLife ----------------------------
(***************************************************************************)
(* The life of VCHIQ services: a client's service, opened again and again  *)
(* on one port, and the server it connects to, both run by the same code.  *)
(* Threads open, add, close and remove services and hold references to     *)
(* them; the slot handler of each side carries out what they ask for       *)
(* through the poll flags and answers OPEN, OPENACK and CLOSE.             *)
(*                                                                         *)
(* Neither service has port 0, so that a message with no destination port  *)
(* finds no service by its port.                                           *)
(***************************************************************************)
EXTENDS Integers, Sequences, FiniteSets

CONSTANTS
  ClientThreads, ServerThreads,
  Openers,      (* the client threads that open services                     *)
  LifeRoom,     (* messages a transport takes                                *)
  MaxOpens,     (* bound: calls of vchiq_open_service                        *)
  MaxAdds,      (* bound: calls of vchiq_add_service                         *)
  MaxUps        (* bound: remove_event beyond this makes no difference here  *)

ASSUME ServiceLifeAssumption ==
  /\ ClientThreads \cap ServerThreads = {} /\ Openers \subseteq ClientThreads
  /\ IsFiniteSet(ClientThreads) /\ IsFiniteSet(ServerThreads)
  /\ {LifeRoom, MaxUps} \subseteq Nat \ {0} /\ {MaxOpens, MaxAdds} \subseteq Nat

VARIABLES
  svc,          (* the service of each side, or NoService                    *)
  caller,       (* what each thread is doing                                 *)
  lifeMsgs,     (* messages on their way to each side                        *)
  bailed,       (* the slot handlers that found no room for their answer     *)
  lifeLog       (* history: calls so far, whether two threads have waited    *)
                (* for one remove_event, and whether a CLOSE has missed      *)

lifeVars == <<svc, caller, lifeMsgs, bailed, lifeLog>>

Ends == {"client", "server"}
FarEnd(s) == IF s = "client" THEN "server" ELSE "client"
Threads(s) == IF s = "client" THEN ClientThreads ELSE ServerThreads
LifeThreads == ClientThreads \cup ServerThreads
EndOf(t) == IF t \in ClientThreads THEN "client" ELSE "server"

(* "remote": remoteport is known; "listens": public_fourcc is valid, which   *)
(* is what makes it a server; "ups": the count of remove_event; "auto":      *)
(* auto_close.                                                               *)
NoService == [st |-> "NONE", remote |-> FALSE, refs |-> 0, closing |-> FALSE,
              listens |-> FALSE, ups |-> 0, poll |-> {}, auto |-> TRUE,
              life |-> 0]

Idle == [pc |-> "idle", life |-> 0]

LifeInit ==
  /\ svc = [s \in Ends |-> NoService]
  /\ caller = [t \in LifeThreads |-> Idle]
  /\ lifeMsgs = [s \in Ends |-> <<>>]
  /\ bailed = {}
  /\ lifeLog = [lives |-> [s \in Ends |-> 0], gone |-> FALSE, shared |-> FALSE,
                missed |-> FALSE]

Live(s) == svc[s].st \notin {"NONE", "FREE"}

LifeSpace(s) == Len(lifeMsgs[FarEnd(s)]) < LifeRoom

(* A message fires the trigger of the other side's slot handler.             *)
Sends(s) == bailed' = bailed \ {FarEnd(s)}

(* Other services share the transport, which may be full at any time; that   *)
(* fires the other side's trigger as well.  A slot handler that finds no     *)
(* room leaves the message where it is and sleeps: room will not wake it     *)
(* (bail_not_ready, remote_event_wait).                                      *)
Bails(s) == bailed' = {s}

(* "src" and "dst": the port is given, and not 0.                            *)
Msg(type, src, dst) == [type |-> type, src |-> src, dst |-> dst]

Up(v) == [v EXCEPT !.ups = IF @ < MaxUps THEN @ + 1 ELSE @]

(* unlock_service, which frees the service with its last reference.          *)
Unlock(v) == IF v.refs = 1 THEN NoService ELSE [v EXCEPT !.refs = @ - 1]

(* vchiq_free_service_internal.                                              *)
FreeService(v) == Unlock(Up([v EXCEPT !.st = "FREE", !.remote = FALSE]))

-----------------------------------------------------------------------------
(* Closing a service, in its slot handler.                                   *)

(* close_service_complete, after which the callback has SERVICE_CLOSED.      *)
CloseDone(v) ==
  IF ~v.listens THEN FreeService(v)
  ELSE IF v.auto
       THEN Up([v EXCEPT !.st = "LISTENING", !.remote = FALSE, !.closing = FALSE])
       ELSE [v EXCEPT !.st = "CLOSEWAIT", !.remote = FALSE]

(* vchiq_close_service_internal of service v: what becomes of it.            *)
Closed(v, received) ==
  CASE v.st \in {"HIDDEN", "LISTENING", "CLOSEWAIT"} /\ received -> v
    [] v.st \in {"HIDDEN", "LISTENING", "CLOSEWAIT"} /\ ~received ->
         IF v.listens
         THEN Up([v EXCEPT !.st = IF @ = "CLOSEWAIT" THEN "LISTENING" ELSE @,
                           !.remote = FALSE])
         ELSE FreeService(v)
    [] v.st = "OPENING" /\ received -> Up([v EXCEPT !.st = "CLOSEWAIT"])
    [] v.st = "OPEN" /\ received -> CloseDone(v)
    [] v.st \in {"OPENING", "OPEN"} /\ ~received -> [v EXCEPT !.st = "CLOSESENT"]
    [] v.st = "CLOSESENT" /\ received -> CloseDone(v)
    [] OTHER -> v

(* Variant for mutation: the CLOSE of the other side is not answered.        *)
SendsCloseFirst(v, received) == v.st \in {"OPEN", "OPENING"} /\ ~received

(* The CLOSE it sends, for which there must be room.                         *)
SendsClose(v, received) ==
  v.st = "OPEN" \/ (v.st = "OPENING" /\ ~received)

SendClose(s, msgs) ==
  [msgs EXCEPT ![FarEnd(s)] = Append(@, Msg("CLOSE", TRUE, svc[s].remote))]

(* Closing a server that listens is an error, tried again for ever.          *)
CloseFails(v, received) == v.st = "LISTENING" /\ v.listens /\ ~received

(* The CLOSE of a service whose opener has not sent the OPEN yet.            *)
Overtakes(s) == s = "client" /\ \E t \in LifeThreads : caller[t].pc = "adding"

(* poll_services for one service: REMOVE goes before TERMINATE, and makes    *)
(* the service look like a client's first.  What fails is asked for again,   *)
(* with request_poll, as it is without room for the CLOSE.                   *)
PollService(s) ==
  /\ Live(s) /\ svc[s].poll # {}
  /\ LET kind == IF "REMOVE" \in svc[s].poll THEN "REMOVE" ELSE "TERMINATE"
         v == [svc[s] EXCEPT !.listens = @ /\ kind = "TERMINATE", !.poll = {}]
         again == [v EXCEPT !.poll = {kind}]
     IN \/ /\ ~SendsClose(v, FALSE)
           /\ svc' = [svc EXCEPT
                ![s] = Closed(IF CloseFails(v, FALSE) THEN again ELSE v, FALSE)]
           /\ bailed' = bailed \ {s}
           /\ UNCHANGED <<lifeMsgs, lifeLog>>
        \/ /\ SendsClose(v, FALSE) /\ LifeSpace(s)
           /\ svc' = [svc EXCEPT ![s] = Closed(v, FALSE)]
           /\ lifeMsgs' = SendClose(s, lifeMsgs)
           /\ bailed' = {}
           /\ lifeLog' = [lifeLog EXCEPT !.missed = @ \/ Overtakes(s)]
        \/ /\ SendsClose(v, FALSE)
           /\ svc' = [svc EXCEPT ![s] = again]
           /\ bailed' = {}
           /\ UNCHANGED <<lifeMsgs, lifeLog>>
  /\ UNCHANGED caller

-----------------------------------------------------------------------------
(* What the slot handler makes of a message.                                 *)

Arrives(s, type) ==
  s \notin bailed /\ lifeMsgs[s] # <<>> /\ Head(lifeMsgs[s]).type = type
Taken(s) == [lifeMsgs EXCEPT ![s] = Tail(@)]
Reply(s, m) ==
  lifeMsgs' = [Taken(s) EXCEPT ![FarEnd(s)] = Append(@, m)] /\ Sends(s)

(* get_listening_service; an open service knows its remote port.             *)
Listens(s) == svc[s].st = "LISTENING" /\ svc[s].listens

ParseOpen ==
  /\ Arrives("server", "OPEN") /\ LifeSpace("server") /\ Listens("server")
  /\ svc' = [svc EXCEPT !["server"].st = "OPEN", !["server"].remote = TRUE]
  /\ Reply("server", Msg("OPENACK", TRUE, TRUE))
  /\ UNCHANGED <<caller, lifeLog>>

(* Variant for mutation: the opener is not told.                             *)
ParseOpenIgnored ==
  /\ Arrives("server", "OPEN") /\ ~Listens("server")
  /\ lifeMsgs' = Taken("server")
  /\ UNCHANGED <<svc, caller, bailed, lifeLog>>

(* No service listens, or the one that does is of another version.           *)
ParseOpenRejects ==
  /\ Arrives("server", "OPEN") /\ LifeSpace("server")
  /\ Reply("server", Msg("CLOSE", FALSE, TRUE))
  /\ UNCHANGED <<svc, caller, lifeLog>>

ParseOpenBails ==
  /\ Arrives("server", "OPEN") /\ Bails("server")
  /\ UNCHANGED <<svc, caller, lifeMsgs, lifeLog>>

(* An OPENACK in any other state is reported and dropped.                    *)
ParseOpenAck ==
  /\ Arrives("client", "OPENACK")
  /\ lifeMsgs' = Taken("client")
  /\ svc' = IF svc["client"].st = "OPENING"
            THEN [svc EXCEPT !["client"] =
                    Up([@ EXCEPT !.st = "OPEN", !.remote = TRUE])]
            ELSE svc
  /\ UNCHANGED <<caller, bailed, lifeLog>>

(* get_connected_service: the one that is open to the sender.                *)
ConnectedTo(s, m) == svc[s].st = "OPEN" /\ m.src

(* The service a CLOSE is for: the one with the port, whoever it is          *)
(* connected to, or without a port the one connected to the sender.          *)
Finds(s, m) == IF m.dst THEN Live(s) ELSE ConnectedTo(s, m)

ParseClose(s) ==
  /\ Arrives(s, "CLOSE") /\ Finds(s, Head(lifeMsgs[s]))
  /\ LET v == [svc[s] EXCEPT !.closing = TRUE]
     IN \/ /\ ~SendsClose(v, TRUE)
           /\ svc' = [svc EXCEPT ![s] = Closed(v, TRUE)]
           /\ lifeMsgs' = Taken(s)
           /\ UNCHANGED bailed
        \/ /\ SendsClose(v, TRUE) /\ LifeSpace(s)
           /\ svc' = [svc EXCEPT ![s] = Closed(v, TRUE)]
           /\ lifeMsgs' = SendClose(s, Taken(s))
           /\ Sends(s)
        \/ /\ SendsClose(v, TRUE)
           /\ svc' = [svc EXCEPT ![s] = v]
           /\ Bails(s)
           /\ UNCHANGED lifeMsgs
  /\ UNCHANGED <<caller, lifeLog>>

(* A CLOSE without a port misses a service that has sent its own.            *)
SkipClose(s) ==
  /\ Arrives(s, "CLOSE") /\ ~Finds(s, Head(lifeMsgs[s]))
  /\ lifeMsgs' = Taken(s)
  /\ lifeLog' = [lifeLog EXCEPT !.missed = @ \/ svc[s].st = "CLOSESENT"]
  /\ UNCHANGED <<svc, caller, bailed>>

(* A message or a poll for another service.                                  *)
LifeHandlerWoken(s) ==
  /\ s \in bailed /\ bailed' = bailed \ {s}
  /\ UNCHANGED <<svc, caller, lifeMsgs, lifeLog>>

-----------------------------------------------------------------------------
(* The threads.                                                              *)

Doing(t, pc) == caller[t].pc = pc
Holds(t) == caller[t].pc \in {"using", "asking_TERMINATE", "asking_REMOVE",
                              "waiting_TERMINATE", "waiting_REMOVE"}
Waits(t) == caller[t].pc \in {"opening", "waiting_TERMINATE", "waiting_REMOVE"}

Asking(kind) == IF kind = "REMOVE" THEN "asking_REMOVE" ELSE "asking_TERMINATE"
Waiting(kind) == IF kind = "REMOVE" THEN "waiting_REMOVE" ELSE "waiting_TERMINATE"

Becomes(t, pc) == caller' = [caller EXCEPT ![t].pc = pc]
Returns(t) == caller' = [caller EXCEPT ![t] = Idle]

(* remove_event is waited for by more than one thread from now on.           *)
AlsoWaits(t) ==
  lifeLog' = [lifeLog EXCEPT !.shared = @ \/
    \E u \in Threads(EndOf(t)) \ {t} :
      Doing(u, "adding") \/ Waits(u) \/ (Holds(u) /\ ~Doing(u, "using"))]

Added(s, state, auto) ==
  /\ svc[s] = NoService
  /\ svc' = [svc EXCEPT ![s] =
       [NoService EXCEPT !.st = state, !.refs = 1, !.listens = s = "server",
                         !.auto = auto, !.life = lifeLog.lives[s] + 1]]

(* vchiq_open_service: a service is added, the other side asked to open.     *)
OpenCall(t) ==
  /\ Doing(t, "idle") /\ lifeLog.lives["client"] < MaxOpens
  /\ Added("client", "OPENING", TRUE)
  /\ lifeLog' = [lifeLog EXCEPT !.lives["client"] = @ + 1]
  /\ caller' = [caller EXCEPT ![t] =
                  [pc |-> "adding", life |-> lifeLog.lives["client"] + 1]]
  /\ UNCHANGED <<lifeMsgs, bailed>>

OpenSends(t) ==
  /\ Doing(t, "adding") /\ LifeSpace("client")
  /\ lifeMsgs' = [lifeMsgs EXCEPT !["server"] = Append(@, Msg("OPEN", TRUE, FALSE))]
  /\ Sends("client")
  /\ Becomes(t, "opening")
  /\ UNCHANGED <<svc, lifeLog>>

OwnService(t) == svc[EndOf(t)].life = caller[t].life

(* Unless the answer has made it open, the service is removed again.         *)
OpenWoken(t) ==
  /\ Doing(t, "opening") /\ OwnService(t) /\ svc["client"].ups > 0
  /\ svc' = [svc EXCEPT !["client"].ups = @ - 1]
  /\ Becomes(t, IF svc["client"].st = "OPEN" THEN "idle" ELSE "failed")
  /\ UNCHANGED <<lifeMsgs, bailed, lifeLog>>

(* The opener has no reference of its own: a service that is opened, closed  *)
(* by the other side and freed before it runs is used after that.            *)
OpenGone(t) ==
  /\ Doing(t, "opening") /\ ~OwnService(t)
  /\ lifeLog' = [lifeLog EXCEPT !.gone = TRUE]
  /\ Returns(t)
  /\ UNCHANGED <<svc, lifeMsgs, bailed>>

(* vchiq_add_service: before vchiq_connect the service is hidden.            *)
AddCall(t) ==
  /\ Doing(t, "idle") /\ EndOf(t) = "server"
  /\ lifeLog.lives["server"] < MaxAdds
  /\ \E state \in {"HIDDEN", "LISTENING"}, auto \in BOOLEAN :
       Added("server", state, auto)
  /\ lifeLog' = [lifeLog EXCEPT !.lives["server"] = @ + 1]
  /\ UNCHANGED <<caller, lifeMsgs, bailed>>

(* vchiq_connect_internal shows the hidden services.                         *)
ConnectShows ==
  /\ svc["server"].st = "HIDDEN"
  /\ svc' = [svc EXCEPT !["server"].st = "LISTENING"]
  /\ UNCHANGED <<caller, lifeMsgs, bailed, lifeLog>>

(* vchiq_close_service and vchiq_remove_service: with a reference to the     *)
(* service, mark it as closing, ask the slot handler and wait.               *)
CloseCall(t) ==
  LET s == EndOf(t)
  IN /\ Doing(t, "idle") /\ Live(s)
     /\ svc[s].st \notin {"LISTENING", "HIDDEN"}
     /\ svc' = [svc EXCEPT ![s].refs = @ + 1, ![s].closing = TRUE]
     /\ caller' = [caller EXCEPT ![t] =
                     [pc |-> "asking_TERMINATE", life |-> svc[s].life]]
     /\ AlsoWaits(t)
     /\ UNCHANGED <<lifeMsgs, bailed>>

RemoveCall(t) ==
  LET s == EndOf(t)
  IN /\ Doing(t, "idle") \/ (Doing(t, "failed") /\ OwnService(t))
     /\ Live(s) /\ svc[s].st # "HIDDEN"
     /\ svc' = [svc EXCEPT ![s].refs = @ + 1, ![s].closing = TRUE]
     /\ caller' = [caller EXCEPT ![t] =
                     [pc |-> "asking_REMOVE", life |-> svc[s].life]]
     /\ AlsoWaits(t)
     /\ UNCHANGED <<lifeMsgs, bailed>>

(* A hidden service is freed by the caller.                                  *)
RemoveHidden(t) ==
  LET s == EndOf(t)
      v == [svc[s] EXCEPT !.refs = @ + 1, !.closing = TRUE, !.listens = FALSE]
  IN /\ Doing(t, "idle") /\ svc[s].st = "HIDDEN"
     /\ svc' = [svc EXCEPT ![s] = FreeService(v)]
     /\ caller' = [caller EXCEPT ![t] =
                     [pc |-> "waiting_REMOVE", life |-> svc[s].life]]
     /\ AlsoWaits(t)
     /\ UNCHANGED <<lifeMsgs, bailed>>

(* Nothing to remove: the handle is stale.                                   *)
RemoveNothing(t) ==
  /\ Doing(t, "failed") /\ ~(Live(EndOf(t)) /\ OwnService(t))
  /\ Returns(t)
  /\ UNCHANGED <<svc, lifeMsgs, bailed, lifeLog>>

Asks(t, kind) ==
  LET s == EndOf(t)
  IN /\ Doing(t, Asking(kind))
     /\ svc' = [svc EXCEPT ![s].poll = @ \cup {kind}]
     /\ Becomes(t, Waiting(kind))
     /\ UNCHANGED <<lifeMsgs, bailed, lifeLog>>

CloseAsks(t) == Asks(t, "TERMINATE")
RemoveAsks(t) == Asks(t, "REMOVE")

(* The states in which the wait is over.                                     *)
Ended(kind) == IF kind = "TERMINATE" THEN {"FREE", "LISTENING", "OPEN"}
               ELSE {"FREE", "OPEN"}

(* Variant for mutation: the reference is not given back.                    *)
WokenKeeps(t, kind) ==
  LET s == EndOf(t)
  IN /\ Doing(t, Waiting(kind)) /\ svc[s].ups > 0
     /\ svc' = [svc EXCEPT ![s].ups = @ - 1]
     /\ IF svc[s].st \in Ended(kind) THEN Returns(t) ELSE UNCHANGED caller
     /\ UNCHANGED <<lifeMsgs, bailed, lifeLog>>

Woken(t, kind) ==
  LET s == EndOf(t)
      v == [svc[s] EXCEPT !.ups = @ - 1]
  IN /\ Doing(t, Waiting(kind)) /\ svc[s].ups > 0
     /\ IF v.st \in Ended(kind)
        THEN svc' = [svc EXCEPT ![s] = Unlock(v)] /\ Returns(t)
        ELSE svc' = [svc EXCEPT ![s] = v] /\ UNCHANGED caller
     /\ UNCHANGED <<lifeMsgs, bailed, lifeLog>>

CloseWoken(t) == Woken(t, "TERMINATE")

RemoveWoken(t) == Woken(t, "REMOVE")

(* Any other call on a handle: find_service_by_handle ... unlock_service.    *)
UseCall(t) ==
  LET s == EndOf(t)
  IN /\ Doing(t, "idle") /\ Live(s)
     /\ svc' = [svc EXCEPT ![s].refs = @ + 1]
     /\ caller' = [caller EXCEPT ![t] = [pc |-> "using", life |-> svc[s].life]]
     /\ UNCHANGED <<lifeMsgs, bailed, lifeLog>>

UseReturn(t) ==
  /\ Doing(t, "using")
  /\ svc' = [svc EXCEPT ![EndOf(t)] = Unlock(@)]
  /\ Returns(t)
  /\ UNCHANGED <<lifeMsgs, bailed, lifeLog>>

-----------------------------------------------------------------------------
LifeParse(s) ==
  \/ ParseClose(s) \/ SkipClose(s)
  \/ s = "server" /\ (ParseOpen \/ ParseOpenRejects \/ ParseOpenBails)
  \/ s = "client" /\ ParseOpenAck

LifeHandler(s) == PollService(s) \/ LifeParse(s) \/ LifeHandlerWoken(s)

(* What a thread that is in a call does next.                                *)
LifeGoesOn(t) ==
  \/ OpenSends(t) \/ OpenWoken(t) \/ OpenGone(t)
  \/ CloseAsks(t) \/ RemoveAsks(t) \/ CloseWoken(t) \/ RemoveWoken(t)
  \/ UseReturn(t) \/ RemoveNothing(t)
  \/ Doing(t, "failed") /\ RemoveCall(t)

LifeNext ==
  \/ ConnectShows
  \/ \E s \in Ends : LifeHandler(s)
  \/ \E t \in Openers : OpenCall(t)
  \/ \E t \in LifeThreads :
       \/ LifeGoesOn(t) \/ AddCall(t) \/ CloseCall(t)
       \/ RemoveCall(t) \/ RemoveHidden(t) \/ UseCall(t)

LifeSpec == LifeInit /\ [][LifeNext]_lifeVars

(* A slot handler looks at polls, then at messages, each time round; one     *)
(* that bailed need not wake.  A thread that is inside a call goes on.       *)
LifeFairness ==
  /\ \A s \in Ends : WF_lifeVars(PollService(s)) /\ WF_lifeVars(LifeParse(s))
  /\ \A t \in LifeThreads : WF_lifeVars(LifeGoesOn(t))

-----------------------------------------------------------------------------
(* Every service, thread and message has its type.                           *)
LifeTypeOK ==
  /\ svc \in [Ends -> [st : {"NONE", "FREE", "HIDDEN", "LISTENING", "OPENING",
                             "OPEN", "CLOSESENT", "CLOSEWAIT"},
                       remote : BOOLEAN, refs : Nat, closing : BOOLEAN,
                       listens : BOOLEAN, ups : 0 .. MaxUps,
                       poll : SUBSET {"TERMINATE", "REMOVE"}, auto : BOOLEAN,
                       life : Nat]]
  /\ caller \in [LifeThreads ->
       [pc : {"idle", "using", "adding", "opening", "failed",
              "asking_TERMINATE", "asking_REMOVE", "waiting_TERMINATE",
              "waiting_REMOVE"},
        life : Nat]]
  /\ bailed \subseteq Ends
  /\ \A s \in Ends : /\ Len(lifeMsgs[s]) <= LifeRoom
                      /\ svc[s].refs <= Cardinality(Threads(s)) + 1

(* A service has a reference for every thread that uses it and one for       *)
(* itself until it is freed, whatever happens to it meanwhile: it is not     *)
(* given back under a thread (find_service_by_handle, unlock_service,        *)
(* vchiq_free_service_internal).                                             *)
ServiceRefs ==
  \A s \in Ends :
    /\ svc[s].refs = Cardinality({t \in Threads(s) : Holds(t)})
                     + (IF Live(s) THEN 1 ELSE 0)
    /\ \A t \in Threads(s) : Holds(t) => OwnService(t)

(* Once every message has arrived, the two sides agree: one is open when     *)
(* the other is, and neither waits for a CLOSE that nobody is to send        *)
(* (vchiq_close_service_internal of one side against the other's, parse_open *)
(* and the lookup of the service a CLOSE is for).  A client that closes      *)
(* before it is open may break this: its CLOSE misses when it goes out       *)
(* before its own OPEN, or finds that the server has sent one as well.       *)
EndsAgree ==
  (\A s \in Ends : lifeMsgs[s] = <<>>) /\ ~lifeLog.missed =>
    /\ svc["client"].st = "OPEN" <=> svc["server"].st = "OPEN"
    /\ \A s \in Ends : svc[s].st # "CLOSESENT"

(* A thread that opens, closes or removes a service gets an answer, unless   *)
(* another waits for the same remove_event, of which one up may be all there *)
(* is, the service is a server without auto_close, which goes to CLOSEWAIT   *)
(* without one, or a CLOSE has missed; provided that the slot handlers find  *)
(* room for their answers in the end, for if one does not it may sleep for   *)
(* ever (vchiq_open_service_internal, vchiq_close_service,                   *)
(* vchiq_remove_service, close_service_complete).                            *)
LifeCallsReturn ==
  <>[](bailed = {}) =>
    \A t \in LifeThreads :
      Waits(t) ~> \/ ~Waits(t)
                  \/ lifeLog.shared \/ ~svc[EndOf(t)].auto \/ lifeLog.missed
=============================================================================
