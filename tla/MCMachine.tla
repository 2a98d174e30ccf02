------------------------------ MODULE MCMachine ------------------------------
(***************************************************************************)
(* The parts under and beside the services, model-checked together: the    *)
(* VCHIU queue, use counts and suspend, the synchronous slot, the state of *)
(* the connection, deferred callbacks, timers and timeouts, page lists and *)
(* the character device.  They share no state here: a behaviour exercises  *)
(* the one named by "under", chosen once, while the others keep their      *)
(* initial state.                                                          *)
(***************************************************************************)
EXTENDS VchiuQueue, SuspendResume, SyncSlot, Connection, Deferred, Jiffies,
        PageList, UserPort, TLC

CONSTANTS p1, p2     (* the threads with a page list                         *)

(* Model constant: one buffer of several pages, one that competes for the    *)
(* fragments.                                                                *)
MCMaxPages == (p1 :> 3) @@ (p2 :> 1)

VARIABLE under

Parts == {"queue", "suspend", "sync", "connection", "deferred", "jiffies",
          "pages", "port"}

machineVars == <<under, queueVars, suspendVars, syncVars, connVars,
                 deferredVars, jiffyVars, pageVars, portVars>>

Init ==
  /\ under \in Parts
  /\ QueueInit /\ SyncInit /\ ConnInit /\ DeferredInit /\ JiffiesInit
  /\ PageInit /\ PortInit /\ (under # "port" => delivering)
  /\ SuspendInit /\ (under # "suspend" => suspends)

(* Every part but this one rests.                                             *)
Rest(part) ==
  /\ part # "queue" => UNCHANGED queueVars
  /\ part # "suspend" => UNCHANGED suspendVars
  /\ part # "sync" => UNCHANGED syncVars
  /\ part # "connection" => UNCHANGED connVars
  /\ part # "deferred" => UNCHANGED deferredVars
  /\ part # "jiffies" => UNCHANGED jiffyVars
  /\ part # "pages" => UNCHANGED pageVars
  /\ part # "port" => UNCHANGED portVars

Next ==
  /\ UNCHANGED under /\ Rest(under)
  /\ \/ under = "queue" /\ QueueNext
     \/ under = "suspend" /\ SuspendNext
     \/ under = "sync" /\ SyncNext
     \/ under = "connection" /\ ConnNext
     \/ under = "deferred" /\ DeferredNext
     \/ under = "jiffies" /\ JiffiesNext
     \/ under = "pages" /\ PageNext
     \/ under = "port" /\ PortNext

Spec == Init /\ [][Next]_machineVars

(* The steps fairness is about are disabled in the initial state of a part,   *)
(* so that one that rests satisfies its own.                                  *)
FairSpec ==
  Spec /\ SuspendFairness /\ SyncFairness /\ ConnFairness

-----------------------------------------------------------------------------
(* The state of every part has its type.                                      *)
TypeOK ==
  /\ QueueTypeOK /\ SuspendTypeOK /\ SyncTypeOK
  /\ ConnTypeOK /\ DeferredTypeOK /\ JiffiesTypeOK
  /\ PageTypeOK /\ PortTypeOK
=============================================================================
