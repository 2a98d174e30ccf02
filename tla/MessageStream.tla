---------------------------- MODULE MessageStream ----------------------------
(***************************************************************************)
(* What one direction of the VCHIQ transport promises to the services:     *)
(* messages are parsed in the order in which they were published, none is  *)
(* lost, duplicated or altered, and a DATA message that the receiver       *)
(* claimed stays as it was sent until its client releases it.              *)
(***************************************************************************)
EXTENDS Naturals, Sequences

CONSTANT Messages       (* the messages that can be sent *)

VARIABLES
  sent,                 (* everything published, in order *)
  delivered,            (* everything parsed, in order *)
  held                  (* messages claimed and not yet released *)

streamVars == <<sent, delivered, held>>

Init == sent = <<>> /\ delivered = <<>> /\ held = {}

Send(m) == sent' = Append(sent, m) /\ UNCHANGED <<delivered, held>>

(* The receiver keeps a DATA message, or drops it when its service is gone.  *)
Deliver ==
  /\ Len(delivered) < Len(sent)
  /\ LET m == sent[Len(delivered) + 1] IN
     /\ delivered' = Append(delivered, m)
     /\ \/ m.type = "DATA" /\ held' = held \union {m}
        \/ UNCHANGED held
  /\ UNCHANGED sent

Release(m) == m \in held /\ held' = held \ {m} /\ UNCHANGED <<sent, delivered>>

Next == (\E m \in Messages : Send(m)) \/ Deliver
        \/ (\E m \in held : Release(m))

Spec == Init /\ [][Next]_streamVars
=============================================================================
