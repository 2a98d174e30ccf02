---------------------------- MODULE ShimService ----------------------------
(***************************************************************************)
(* VCHI services over VCHIQ ones: what vchi_service_open and _create       *)
(* allocate, and _close, _destroy and vchi_disconnect take away, while the *)
(* slot handler calls back with it as user data and puts the messages that *)
(* arrive into its header queue.  A message stays in its place of a slot   *)
(* until it is released; then another message is written there.            *)
(*                                                                         *)
(* Each service has one thread that uses it.  The VCHIQ service beneath    *)
(* closes as in ServiceLife; the other side sends what it may at any time. *)
(***************************************************************************)
EXTENDS ServiceLife

CONSTANTS
  Shims,        (* VCHI services, each allocated once                        *)
  ShimServers,  (* those that vchi_service_create is for                     *)
  Readers,      (* those whose messages a thread reads: the callback of the  *)
                (* others reads them at once, or there is none               *)
  Holders,      (* those whose thread uses vchi_msg_hold, for one message at *)
                (* a time                                                    *)
  Places,       (* places for messages in the received slots                 *)
  HeaderQueue,  (* size of a header queue                                    *)
  MaxServes,    (* bound: times a server is opened                           *)
  NoShim

ASSUME ShimAssumption ==
  /\ ShimServers \subseteq Shims /\ Readers \subseteq Shims
  /\ Holders \subseteq Readers
  /\ NoShim \notin Shims /\ IsFiniteSet(Places) /\ HeaderQueue \in Nat \ {0}
  /\ MaxServes \in Nat

VARIABLES
  instance,     (* of vchi_initialise; "left" and "now" are the services     *)
                (* vchi_disconnect is yet to remove, and removes             *)
  shim,         (* SHIM_SERVICE_T of each service                            *)
  vq,           (* the VCHIQ service beneath each                            *)
  headers,      (* the header queue of each                                  *)
  kept,         (* messages its thread has taken with vchi_msg_hold          *)
  claimed,      (* whose message is claimed at each place                    *)
  pushing,      (* what the slot handler waits to push to a full queue       *)
  user,         (* what the thread of each service is doing                  *)
  shimLog       (* history: servers vchi_service_close left listening, whose *)
                (* freed shim was used, that listened again; connections     *)

shimVars == <<instance, shim, vq, headers, kept, claimed, pushing, user, shimLog>>

ShimInit ==
  /\ instance = [st |-> "none", left |-> {}, now |-> NoShim]
  /\ shim = [h \in Shims |-> "none"]
  /\ vq = [h \in Shims |-> NoService]
  /\ headers = [h \in Shims |-> <<>>]
  /\ kept = [h \in Shims |-> {}]
  /\ claimed = [p \in Places |-> NoShim]
  /\ pushing = <<>>
  /\ user = [h \in Shims |-> "idle"]
  /\ shimLog = [closed |-> {}, used |-> {}, again |-> {}, serves |-> 0]

Exists(h) == vq[h].st \notin {"NONE", "FREE"}
At(h, pc) == user[h] = pc
Goes(h, pc) == user' = [user EXCEPT ![h] = pc]

(* shim_callback reads the shim service.                                     *)
Touched(h, log) == IF shim[h] = "freed" THEN [log EXCEPT !.used = @ \cup {h}] ELSE log

-----------------------------------------------------------------------------
(* Messages.                                                                 *)

(* Variant for mutation: the release of a closing service counts.            *)
MayReleaseAlways(h) == Exists(h)

(* A closing service releases nothing: what it claimed is released when it   *)
(* closes, and may be another's message by now.                              *)
MayRelease(h) == Exists(h) /\ ~vq[h].closing

(* vchiq_release_message: whatever is claimed at the place is released.      *)
Released1(h, p) ==
  IF MayRelease(h) THEN [claimed EXCEPT ![p] = NoShim] ELSE claimed

(* release_service_messages.                                                 *)
AllReleased(h) ==
  [p \in Places |-> IF claimed[p] = h THEN NoShim ELSE claimed[p]]

(* DATA for an open service is claimed; the callback of one that has a       *)
(* reader queues it, and waits in the slot handler while the queue is full.  *)
ShimMessage(h) ==
  /\ pushing = <<>> /\ vq[h].st = "OPEN"
  /\ \E p \in Places :
       /\ claimed[p] = NoShim
       /\ CASE h \notin Readers ->
                 /\ claimed' = IF MayRelease(h) THEN claimed
                               ELSE [claimed EXCEPT ![p] = h]
                 /\ UNCHANGED <<headers, pushing>>
            [] h \in Readers /\ Len(headers[h]) < HeaderQueue ->
                 /\ claimed' = [claimed EXCEPT ![p] = h]
                 /\ headers' = [headers EXCEPT ![h] = Append(@, p)]
                 /\ UNCHANGED pushing
            [] OTHER ->
                 /\ claimed' = [claimed EXCEPT ![p] = h]
                 /\ pushing' = <<h, p>>
                 /\ UNCHANGED headers
  /\ shimLog' = Touched(h, shimLog)
  /\ UNCHANGED <<instance, shim, vq, kept, user>>

PushGoesOn ==
  /\ pushing # <<>>
  /\ LET h == pushing[1]
     IN /\ Len(headers[h]) < HeaderQueue
        /\ headers' = [headers EXCEPT ![h] = Append(@, pushing[2])]
        /\ shimLog' = Touched(h, shimLog)
  /\ pushing' = <<>>
  /\ UNCHANGED <<instance, shim, vq, kept, claimed, user>>

Reads(h) == shim[h] = "held" /\ At(h, "idle") /\ headers[h] # <<>>

(* vchi_msg_dequeue, or vchi_msg_peek and vchi_msg_remove.                   *)
Dequeue(h) ==
  /\ Reads(h)
  /\ headers' = [headers EXCEPT ![h] = Tail(@)]
  /\ claimed' = Released1(h, Head(headers[h]))
  /\ UNCHANGED <<instance, shim, vq, kept, pushing, user, shimLog>>

(* vchi_msg_hold and vchi_held_msg_release.                                  *)
Hold(h) ==
  /\ h \in Holders /\ Reads(h) /\ kept[h] = {}
  /\ headers' = [headers EXCEPT ![h] = Tail(@)]
  /\ kept' = [kept EXCEPT ![h] = @ \cup {Head(headers[h])}]
  /\ UNCHANGED <<instance, shim, vq, claimed, pushing, user, shimLog>>

HeldRelease(h) ==
  /\ At(h, "idle")
  /\ \E p \in kept[h] :
       /\ kept' = [kept EXCEPT ![h] = @ \ {p}]
       /\ claimed' = Released1(h, p)
  /\ UNCHANGED <<instance, shim, vq, headers, pushing, user, shimLog>>

-----------------------------------------------------------------------------
(* The slot handler.                                                         *)

(* vchiq_close_service_internal: an open service releases its messages and   *)
(* sends CLOSE; a service that was open has the callback SERVICE_CLOSED when *)
(* the CLOSE of the other side is there.                                     *)
Closes(h, v, received, again) ==
  LET tells == received /\ v.st \in {"OPEN", "CLOSESENT"}
      w == Closed(v, received)
      log == IF tells THEN Touched(h, shimLog) ELSE shimLog
  IN /\ vq' = [vq EXCEPT ![h] = IF w = NoService THEN w ELSE [w EXCEPT !.poll = again]]
     /\ claimed' = IF v.st = "OPEN" THEN AllReleased(h) ELSE claimed
     /\ shimLog' = IF w.st = "LISTENING" /\ tells
                   THEN [log EXCEPT !.again = @ \cup {h}] ELSE log
     /\ UNCHANGED <<instance, shim, headers, kept, pushing, user>>

ShimPoll(h) ==
  /\ pushing = <<>> /\ Exists(h) /\ vq[h].poll # {}
  /\ LET kind == IF "REMOVE" \in vq[h].poll THEN "REMOVE" ELSE "TERMINATE"
         v == [vq[h] EXCEPT !.listens = @ /\ kind = "TERMINATE"]
     IN Closes(h, v, FALSE, IF CloseFails(v, FALSE) THEN {kind} ELSE {})

(* The other side accepts an OPEN, refuses it or answers a CLOSE.            *)
ShimAccepted(h) ==
  /\ pushing = <<>> /\ vq[h].st = "OPENING"
  /\ vq' = [vq EXCEPT ![h] = Up([@ EXCEPT !.st = "OPEN", !.remote = TRUE])]
  /\ UNCHANGED <<instance, shim, headers, kept, claimed, pushing, user, shimLog>>

ShimClosed(h) ==
  /\ pushing = <<>> /\ vq[h].st \in {"OPENING", "CLOSESENT"}
  /\ Closes(h, [vq[h] EXCEPT !.closing = TRUE], TRUE, vq[h].poll)

(* It closes an open service, or opens one that listens.                     *)
ShimPeerCloses(h) ==
  /\ pushing = <<>> /\ vq[h].st = "OPEN"
  /\ Closes(h, [vq[h] EXCEPT !.closing = TRUE], TRUE, vq[h].poll)

ShimPeerOpens(h) ==
  /\ pushing = <<>> /\ vq[h].st = "LISTENING" /\ vq[h].listens
  /\ shimLog.serves < MaxServes
  /\ vq' = [vq EXCEPT ![h].st = "OPEN", ![h].remote = TRUE]
  /\ shimLog' = [Touched(h, shimLog) EXCEPT !.serves = @ + 1]
  /\ UNCHANGED <<instance, shim, headers, kept, claimed, pushing, user>>

-----------------------------------------------------------------------------
(* The instance.  It is connected and taken down by a program that is in no  *)
(* other call meanwhile.                                                     *)

AllIdle == \A h \in Shims : At(h, "idle")

(* vchi_initialise fails when VideoCore is not ready after ten tries, which  *)
(* changes nothing here.                                                     *)
Initialise ==
  /\ instance.st = "none"
  /\ instance' = [instance EXCEPT !.st = "initialised"]
  /\ UNCHANGED <<shim, vq, headers, kept, claimed, pushing, user, shimLog>>

(* vchi_connect shows the hidden services.                                   *)
VchiConnect ==
  /\ instance.st = "initialised" /\ AllIdle
  /\ instance' = [instance EXCEPT !.st = "connected"]
  /\ vq' = [h \in Shims |-> IF vq[h].st = "HIDDEN"
                            THEN [vq[h] EXCEPT !.st = "LISTENING"] ELSE vq[h]]
  /\ UNCHANGED <<shim, headers, kept, claimed, pushing, user, shimLog>>

(* vchi_disconnect removes what is there, one after the other, and frees the *)
(* instance; the shim services stay.                                         *)
Disconnect ==
  /\ instance.st = "connected" /\ AllIdle
  /\ instance' = [st |-> "shutting", left |-> {h \in Shims : Exists(h)}, now |-> NoShim]
  /\ UNCHANGED <<shim, vq, headers, kept, claimed, pushing, user, shimLog>>

DisconnectNext ==
  /\ instance.st = "shutting" /\ instance.now = NoShim
  /\ \E h \in instance.left :
       IF Exists(h)
       THEN /\ vq' = [vq EXCEPT ![h].refs = @ + 1, ![h].closing = TRUE,
                                ![h].poll = @ \cup {"REMOVE"}]
            /\ instance' = [instance EXCEPT !.left = @ \ {h}, !.now = h]
       ELSE instance' = [instance EXCEPT !.left = @ \ {h}] /\ UNCHANGED vq
  /\ UNCHANGED <<shim, headers, kept, claimed, pushing, user, shimLog>>

DisconnectWoken ==
  /\ instance.now # NoShim /\ vq[instance.now].ups > 0
  /\ LET h == instance.now
         v == [vq[h] EXCEPT !.ups = @ - 1]
     IN IF v.st \in Ended("REMOVE")
        THEN /\ vq' = [vq EXCEPT ![h] = Unlock(v)]
             /\ instance' = [instance EXCEPT !.now = NoShim]
        ELSE vq' = [vq EXCEPT ![h] = v] /\ UNCHANGED instance
  /\ UNCHANGED <<shim, headers, kept, claimed, pushing, user, shimLog>>

Disconnected ==
  /\ instance.st = "shutting" /\ instance.now = NoShim /\ instance.left = {}
  /\ instance' = [instance EXCEPT !.st = "shut"]
  /\ UNCHANGED <<shim, vq, headers, kept, claimed, pushing, user, shimLog>>

-----------------------------------------------------------------------------
(* The thread of a service.                                                  *)

Beneath(st) == [NoService EXCEPT !.st = st, !.refs = 1, !.listens = st # "OPENING"]

(* vchi_service_open; before vchi_connect it fails.                          *)
ShimOpen(h) ==
  /\ h \notin ShimServers /\ shim[h] = "none"
  /\ instance.st \in {"initialised", "connected"}
  /\ IF instance.st = "connected"
     THEN /\ shim' = [shim EXCEPT ![h] = "held"]
          /\ vq' = [vq EXCEPT ![h] = Beneath("OPENING")]
          /\ Goes(h, "opening")
     ELSE shim' = [shim EXCEPT ![h] = "freed"] /\ UNCHANGED <<vq, user>>
  /\ UNCHANGED <<instance, headers, kept, claimed, pushing, shimLog>>

ShimOpenGone(h) ==
  /\ At(h, "opening") /\ ~Exists(h)
  /\ Goes(h, "idle")
  /\ UNCHANGED <<instance, shim, vq, headers, kept, claimed, pushing, shimLog>>

(* What was refused is removed.                                              *)
ShimOpenWoken(h) ==
  /\ At(h, "opening") /\ Exists(h) /\ vq[h].ups > 0
  /\ LET v == [vq[h] EXCEPT !.ups = @ - 1]
     IN IF v.st = "OPEN"
        THEN vq' = [vq EXCEPT ![h] = v] /\ Goes(h, "idle")
        ELSE /\ vq' = [vq EXCEPT ![h] = [v EXCEPT !.refs = @ + 1, !.closing = TRUE,
                                                  !.poll = @ \cup {"REMOVE"}]]
             /\ Goes(h, "refused")
  /\ UNCHANGED <<instance, shim, headers, kept, claimed, pushing, shimLog>>

(* vchi_service_create.                                                      *)
ShimCreate(h) ==
  /\ h \in ShimServers /\ shim[h] = "none"
  /\ instance.st \in {"initialised", "connected"}
  /\ shim' = [shim EXCEPT ![h] = "held"]
  /\ vq' = [vq EXCEPT ![h] = Beneath(IF instance.st = "connected"
                                     THEN "LISTENING" ELSE "HIDDEN")]
  /\ UNCHANGED <<instance, headers, kept, claimed, pushing, user, shimLog>>

MayCall(h) == shim[h] = "held" /\ At(h, "idle") /\ instance.st # "shutting"

(* vchi_service_close and vchi_service_destroy mark the service and ask the  *)
(* slot handler.  An error at once leaves everything as it is.               *)
ShimEnds(h, pc, kind) ==
  /\ MayCall(h) /\ Exists(h)
  /\ vq[h].st \notin (IF kind = "TERMINATE" THEN {"HIDDEN", "LISTENING"} ELSE {"HIDDEN"})
  /\ vq' = [vq EXCEPT ![h].refs = @ + 1, ![h].closing = TRUE, ![h].poll = @ \cup {kind}]
  /\ Goes(h, pc)
  /\ UNCHANGED <<instance, shim, headers, kept, claimed, pushing, shimLog>>

ShimClose(h) == ShimEnds(h, "closing", "TERMINATE")
ShimDestroy(h) == ShimEnds(h, "destroying", "REMOVE")

(* A hidden service is freed by the caller.                                  *)
ShimDestroyHidden(h) ==
  /\ MayCall(h) /\ vq[h].st = "HIDDEN"
  /\ vq' = [vq EXCEPT ![h] = NoService]
  /\ shim' = [shim EXCEPT ![h] = "freed"]
  /\ UNCHANGED <<instance, headers, kept, claimed, pushing, user, shimLog>>

(* The results on which the shim service is freed; vchi_service_open frees   *)
(* it however the removal of the refused service ends.                       *)
EndedWell(h, st) ==
  st = "FREE" \/ (At(h, "closing") /\ st = "LISTENING") \/ At(h, "refused")

ShimEnded(h) ==
  /\ user[h] \in {"closing", "destroying", "refused"} /\ vq[h].ups > 0
  /\ LET v == [vq[h] EXCEPT !.ups = @ - 1]
         kind == IF At(h, "closing") THEN "TERMINATE" ELSE "REMOVE"
     IN IF v.st \notin Ended(kind)
        THEN vq' = [vq EXCEPT ![h] = v] /\ UNCHANGED <<shim, user, headers, shimLog>>
        ELSE /\ vq' = [vq EXCEPT ![h] = Unlock(v)]
             /\ Goes(h, "idle")
             /\ IF EndedWell(h, v.st)
                THEN /\ shim' = [shim EXCEPT ![h] = "freed"]
                     /\ headers' = [headers EXCEPT ![h] = <<>>]
                ELSE UNCHANGED <<shim, headers>>
             /\ shimLog' = IF v.st = "LISTENING"
                           THEN [shimLog EXCEPT !.closed = @ \cup {h}] ELSE shimLog
  /\ UNCHANGED <<instance, kept, claimed, pushing>>

-----------------------------------------------------------------------------
ShimAnswers(h) == ShimAccepted(h) \/ ShimClosed(h)
ShimReturns(h) == ShimOpenGone(h) \/ ShimOpenWoken(h) \/ ShimEnded(h)
DisconnectGoesOn == DisconnectNext \/ DisconnectWoken \/ Disconnected

ShimNext ==
  \/ PushGoesOn \/ Initialise \/ VchiConnect \/ Disconnect \/ DisconnectGoesOn
  \/ \E h \in Shims :
       \/ ShimPoll(h) \/ ShimAnswers(h) \/ ShimMessage(h)
       \/ ShimPeerCloses(h) \/ ShimPeerOpens(h)
       \/ Dequeue(h) \/ Hold(h) \/ HeldRelease(h)
       \/ ShimOpen(h) \/ ShimCreate(h) \/ ShimClose(h) \/ ShimDestroy(h)
       \/ ShimDestroyHidden(h) \/ ShimReturns(h)

ShimSpec == ShimInit /\ [][ShimNext]_shimVars

-----------------------------------------------------------------------------
(* The state has its type.                                                   *)
ShimTypeOK ==
  /\ instance \in [st : {"none", "initialised", "connected", "shutting", "shut"},
                   left : SUBSET Shims, now : Shims \cup {NoShim}]
  /\ shim \in [Shims -> {"none", "held", "freed"}]
  /\ \A h \in Shims : /\ headers[h] \in Seq(Places) /\ Len(headers[h]) <= HeaderQueue
                      /\ kept[h] \subseteq Places
  /\ claimed \in [Places -> Shims \cup {NoShim}]
  /\ pushing = <<>> \/ pushing \in Shims \X Places
  /\ user \in [Shims -> {"idle", "opening", "refused", "closing", "destroying"}]

Claims(h) == {p \in Places : claimed[p] = h}

(* The headers of h: in its queue, held by its thread, with the slot handler.*)
HeadersOf(h) ==
  {headers[h][i] : i \in DOMAIN headers[h]} \cup kept[h]
    \cup (IF pushing # <<>> /\ pushing[1] = h THEN {pushing[2]} ELSE {})

(* The slot handler calls back only with a shim service that is not freed,   *)
(* but for a server that vchi_service_close leaves listening (shim_callback, *)
(* service_free in vchi_service_open, _close and _destroy).                  *)
ShimAlive == shimLog.used \subseteq shimLog.closed

(* What a thread can read of a service that is open is what arrived for it,  *)
(* every such message is somewhere it will be released from, and none keeps  *)
(* its slot once the service is not open (release_slot, service->closing,    *)
(* release_service_messages, vchi_msg_hold).  A server that listens again    *)
(* still has the headers of the last connection, and is excepted with        *)
(* everybody else from then on.                                              *)
ShimMessages ==
  \A h \in Shims :
    /\ vq[h].st # "OPEN" => Claims(h) = {}
    /\ (vq[h].st = "OPEN" /\ ~vq[h].closing /\ shimLog.again = {})
         => Claims(h) = HeadersOf(h)

(* A thread that waits for remove_event has something coming that will give  *)
(* it one: an up, a poll flag or a message of the other side; only a slot    *)
(* handler that waits in vchiu_queue_push for a queue nobody reads keeps it  *)
(* from returning (vchiq_close_service and vchiq_remove_service under        *)
(* vchi_service_close, _destroy and vchi_disconnect).                        *)
ShimWaiters ==
  \A h \in Shims :
    (~At(h, "idle") \/ instance.now = h) =>
      \/ vq[h].ups > 0 \/ vq[h].poll # {}
      \/ vq[h].st \in {"OPENING", "CLOSESENT"}
      \/ At(h, "opening") /\ ~Exists(h)

(* The VCHI services are sound: ShimAlive, ShimMessages, ShimWaiters.        *)
ShimSound == ShimAlive /\ ShimMessages /\ ShimWaiters
=============================================================================
