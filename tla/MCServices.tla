----------------------------- MODULE MCServices -----------------------------
(***************************************************************************)
(* The life of services, their bulk transfers and the VCHI services over   *)
(* them, model-checked together.  They share no state here: a behaviour    *)
(* exercises the one named by "under", chosen once, while the others keep  *)
(* their initial state.                                                    *)
(***************************************************************************)
EXTENDS BulkQueue, ShimService, TLC

CONSTANTS b1, b2     (* the threads that transfer                            *)

(* Model constant: each thread's bulk transfers, in order.                   *)
MCBulkCalls ==
  (b1 :> <<[dir |-> "tx", flags |-> {"data_read"}]>>) @@
  (b2 :> <<[dir |-> "tx", flags |-> {"callback", "queued"}],
           [dir |-> "tx", flags |-> {"queued"}],
           [dir |-> "rx", flags |-> {"op_complete"}]>>)

VARIABLE under

serviceVars == <<under, bulkVars, lifeVars, shimVars>>

Init == under \in {"bulk", "life", "shim"} /\ BulkInit /\ LifeInit /\ ShimInit

Next ==
  /\ UNCHANGED under
  /\ \/ under = "bulk" /\ BulkNext /\ UNCHANGED <<lifeVars, shimVars>>
     \/ under = "life" /\ LifeNext /\ UNCHANGED <<bulkVars, shimVars>>
     \/ under = "shim" /\ ShimNext /\ UNCHANGED <<bulkVars, lifeVars>>

Spec == Init /\ [][Next]_serviceVars

(* The steps fairness is about are disabled in the initial state of a        *)
(* component, so that one that rests satisfies its own.                      *)
FairSpec == Spec /\ BulkFairness /\ LifeFairness

-----------------------------------------------------------------------------
(* The state of each has its type.                                           *)
TypeOK == BulkTypeOK /\ LifeTypeOK /\ ShimTypeOK
=============================================================================
