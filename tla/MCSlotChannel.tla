---------------------------- MODULE MCSlotChannel ----------------------------
(***************************************************************************)
(* Instances of SlotChannel for TLC.                                       *)
(***************************************************************************)
EXTENDS SlotChannel, TLC

CONSTANTS a, b, t1, t2

(* Two services, one sending thread each.                                    *)
OnePerService == [t \in {t1, t2} |-> IF t = t1 THEN a ELSE b]

(* Two threads sending on the same service, as AMPi's main thread and its    *)
(* slot handler both do on AUDS.                                             *)
SharedService == [t \in {t1, t2} |-> a]

(* A single client.                                                          *)
OneSender == [t \in {t1} |-> a]

(* Exchanging both threads with their services changes nothing.              *)
Swap == {[v \in {a, b, t1, t2} |-> v],
         (t1 :> t2) @@ (t2 :> t1) @@ (a :> b) @@ (b :> a)}
=============================================================================
