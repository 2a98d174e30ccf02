------------------------------ MODULE Deferred ------------------------------
(***************************************************************************)
(* Callbacks deferred until VCHIQ is connected (vchiq_connected.c).  A     *)
(* callback may wait, and the mutex is held while it does; a callback that *)
(* adds another would wait for its own thread.                             *)
(***************************************************************************)
EXTENDS Integers, Sequences, FiniteSets

CONSTANTS
  Adders,        (* threads; each adds one callback, which it names          *)
  Connector,     (* the thread that calls vchiq_call_connected_callbacks     *)
  MaxCallbacks   (* MAX_CALLBACKS                                            *)

ASSUME DeferredAssumption ==
  /\ MaxCallbacks \in Nat /\ IsFiniteSet(Adders) /\ Connector \notin Adders

VARIABLES
  gConnected,    (* g_connected                                              *)
  deferredCalls, (* g_deferred_callback, g_num_deferred_callbacks of them    *)
  inside,        (* the thread that holds g_connected_mutex, or nobody       *)
  adderAt,       (* where each adder is                                      *)
  calling,       (* i in the connector's loop; 0 before and after            *)
  called,        (* history: how often each callback was called              *)
  dropped        (* history: callbacks for which there was no room           *)

deferredVars == <<gConnected, deferredCalls, inside, adderAt, calling, called,
                  dropped>>

Nobody == {}

DeferredInit ==
  /\ gConnected = FALSE /\ deferredCalls = <<>>
  /\ inside = Nobody
  /\ adderAt = [a \in Adders |-> "start"]
  /\ calling = 0
  /\ called = [a \in Adders |-> 0] /\ dropped = {}

-----------------------------------------------------------------------------
(* vchiq_add_connected_callback                                              *)

(* Variant for mutation: g_connected is looked at without the mutex.         *)
AddLooksFirst(a) ==
  /\ adderAt[a] = "start"
  /\ inside' = IF gConnected THEN inside ELSE inside \cup {a}
  /\ adderAt' = [adderAt EXCEPT ![a] = "locked"]
  /\ UNCHANGED <<gConnected, deferredCalls, calling, called, dropped>>

AddLocks(a) ==
  /\ adderAt[a] = "start" /\ inside = Nobody
  /\ inside' = {a}
  /\ adderAt' = [adderAt EXCEPT ![a] = "locked"]
  /\ UNCHANGED <<gConnected, deferredCalls, calling, called, dropped>>

AddCalls(a) ==
  /\ adderAt[a] = "locked" /\ gConnected
  /\ called' = [called EXCEPT ![a] = @ + 1]
  /\ adderAt' = [adderAt EXCEPT ![a] = "leaving"]
  /\ UNCHANGED <<gConnected, deferredCalls, inside, calling, dropped>>

AddDefers(a) ==
  /\ adderAt[a] = "locked" /\ ~gConnected
  /\ IF Len(deferredCalls) >= MaxCallbacks
     THEN /\ dropped' = dropped \cup {a}
          /\ UNCHANGED deferredCalls
     ELSE /\ deferredCalls' = Append(deferredCalls, a)
          /\ UNCHANGED dropped
  /\ adderAt' = [adderAt EXCEPT ![a] = "leaving"]
  /\ UNCHANGED <<gConnected, inside, calling, called>>

AddUnlocks(a) ==
  /\ adderAt[a] = "leaving"
  /\ inside' = Nobody
  /\ adderAt' = [adderAt EXCEPT ![a] = "done"]
  /\ UNCHANGED <<gConnected, deferredCalls, calling, called, dropped>>

-----------------------------------------------------------------------------
(* vchiq_call_connected_callbacks, when the connection is initialised.       *)

ConnectLocks ==
  /\ ~gConnected /\ inside = Nobody
  /\ inside' = {Connector} /\ calling' = 1
  /\ UNCHANGED <<gConnected, deferredCalls, adderAt, called, dropped>>

ConnectCalls ==
  /\ calling \in 1 .. Len(deferredCalls)
  /\ called' = [called EXCEPT ![deferredCalls[calling]] = @ + 1]
  /\ calling' = calling + 1
  /\ UNCHANGED <<gConnected, deferredCalls, inside, adderAt, dropped>>

ConnectUnlocks ==
  /\ calling > Len(deferredCalls)
  /\ deferredCalls' = <<>> /\ gConnected' = TRUE
  /\ inside' = Nobody /\ calling' = 0
  /\ UNCHANGED <<adderAt, called, dropped>>

DeferredNext ==
  \/ \E a \in Adders :
       AddLocks(a) \/ AddCalls(a) \/ AddDefers(a) \/ AddUnlocks(a)
  \/ ConnectLocks \/ ConnectCalls \/ ConnectUnlocks

DeferredSpec == DeferredInit /\ [][DeferredNext]_deferredVars

-----------------------------------------------------------------------------
DeferredTypeOK ==
  /\ gConnected \in BOOLEAN
  /\ Len(deferredCalls) <= MaxCallbacks
  /\ inside \subseteq Adders \cup {Connector}
  /\ adderAt \in [Adders -> {"start", "locked", "leaving", "done"}]
  /\ calling \in 0 .. MaxCallbacks + 1
  /\ called \in [Adders -> Nat] /\ dropped \subseteq Adders

(* Once VCHIQ is connected, every callback for which there was room has been *)
(* called exactly once, whether it was added before, while the others were   *)
(* called, or after; and none before (vchiq_add_connected_callback against   *)
(* vchiq_call_connected_callbacks).                                          *)
CalledOnce ==
  \A a \in Adders :
    /\ called[a] <= 1 /\ (a \in dropped => called[a] = 0)
    /\ ~gConnected /\ calling = 0 => called[a] = 0
    /\ gConnected /\ adderAt[a] = "done" /\ a \notin dropped => called[a] = 1
=============================================================================
