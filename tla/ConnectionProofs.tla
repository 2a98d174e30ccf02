-------------------------- MODULE ConnectionProofs --------------------------
(***************************************************************************)
(* Proofs about what connects the two sides and is paused with them:       *)
(* the pause itself (Connection), the slot of synchronous messages         *)
(* (SyncSlot) and the callbacks deferred until the connection is there     *)
(* (Deferred), for every number of messages, pauses, senders and threads   *)
(* and every room in the transport.  The three have no variable in common  *)
(* and each has its invariant: ConnInv, SyncInv, DeferredInv.              *)
(***************************************************************************)
EXTENDS Connection, SyncSlot, Deferred, FiniteSetTheorems, TLAPS

-----------------------------------------------------------------------------
(* Connection.  What one side may do depends on what is on its way to it: a  *)
(* PAUSE is the last message of a side that holds its slot mutex, or the     *)
(* RESUME follows it.                                                        *)

ConnMessage == {"CONNECT", "DATA", "PAUSE", "RESUME"}

(* One side at most calls vchiq_resume_internal.                             *)
OneResumes == \E r \in Sides : Resumers \subseteq {r}

Locked(s) == slotLock[s] = "pause"

(* A queue of messages: what is in it, and what follows a PAUSE.             *)
Coming(q, m) == \E i \in 1..Len(q) : q[i] = m
Once(q, m) == \A i, j \in 1..Len(q) : q[i] = m /\ q[j] = m => i = j
Follows(q, locked) ==
  \A i \in 1..Len(q) :
    q[i] = "PAUSE" => IF i = Len(q) THEN locked ELSE q[i + 1] = "RESUME"

(* A side that is paused has its slot mutex; only vchiq_connect makes it     *)
(* forget so.                                                                *)
PausedInv ==
  \A s \in Sides :
    /\ conn[s] \in PausedStates => Locked(s)
    /\ ~connLog[s].overtaken /\ Locked(s) => conn[s] \in PausedStates
    /\ connector[s] # "connected" => ~connLog[s].overtaken
    /\ conn[s] = "RESUMING" => s \in Resumers

FollowInv == \A s \in Sides : Follows(connMsgs[s], Locked(Other(s)))

(* r: the side that may resume. Before it does, the other has its slot mutex *)
(* too, and all PAUSEs of the other have been parsed.                        *)
ResumeInv(r) ==
  /\ ~Coming(connMsgs[r], "RESUME") /\ Once(connMsgs[Other(r)], "RESUME")
  /\ conn[Other(r)] = "PAUSED" => Locked(r) \/ Coming(connMsgs[Other(r)], "RESUME")
  /\ conn[r] \in {"PAUSED", "RESUMING"} => ~Coming(connMsgs[Other(r)], "RESUME")
  /\ conn[r] \in {"PAUSED", "RESUMING"} \/ Coming(connMsgs[Other(r)], "RESUME") =>
       Locked(Other(r)) /\ ~Coming(connMsgs[r], "PAUSE")

ConnInv(r) == ConnTypeOK /\ PausedInv /\ FollowInv /\ ResumeInv(r)

-----------------------------------------------------------------------------
(* The sides are two.                                                        *)
LEMMA TwoSides ==
  /\ "arm" \in Sides /\ "vc" \in Sides
  /\ \A s \in Sides : Other(s) \in Sides /\ Other(s) # s /\ Other(Other(s)) = s
  /\ \A s, t \in Sides : t = s \/ t = Other(s)
BY ConnectionAssumption DEF Other

(* A message joins a queue.                                                  *)
LEMMA Joined ==
  ASSUME NEW q \in Seq(ConnMessage), NEW m \in ConnMessage
  PROVE  /\ Append(q, m) \in Seq(ConnMessage)
         /\ \A x : Coming(Append(q, m), x) <=> Coming(q, x) \/ x = m
         /\ Once(q, "RESUME") /\ (m = "RESUME" => ~Coming(q, "RESUME"))
              => Once(Append(q, m), "RESUME")
         /\ \A l, k \in BOOLEAN :
              Follows(q, l) /\ (l => m = "RESUME") /\ (m = "PAUSE" => k)
                => Follows(Append(q, m), k)
<1>. DEFINE n == Len(q)
            a == Append(q, m)
<1>1. /\ a \in Seq(ConnMessage) /\ n \in Nat /\ Len(a) = n + 1 /\ a[n + 1] = m
      /\ \A i \in 1..n : a[i] = q[i] /\ i \in 1..(n + 1)
      /\ \A i \in 1..(n + 1) : i \in 1..n \/ i = n + 1
      /\ n + 1 \in 1..(n + 1)
  OBVIOUS
<1>. HIDE DEF n, a
<1>2. ASSUME NEW x PROVE Coming(a, x) <=> Coming(q, x) \/ x = m
  BY <1>1 DEF Coming, n
<1>3. ASSUME Once(q, "RESUME"), m = "RESUME" => ~Coming(q, "RESUME")
      PROVE  Once(a, "RESUME")
  BY <1>1, <1>3 DEF Once, Coming, n
<1>4. ASSUME NEW l \in BOOLEAN, NEW k \in BOOLEAN, Follows(q, l), l => m = "RESUME",
             m = "PAUSE" => k
      PROVE  Follows(a, k)
  <2>1. ASSUME NEW i \in 1..n, a[i] = "PAUSE" PROVE i # n + 1 /\ a[i + 1] = "RESUME"
    <3>1. q[i] = "PAUSE" /\ i # n + 1
      BY <1>1, <2>1
    <3>2. CASE i = n
      <4>1. l
        BY <1>4, <3>1, <3>2 DEF Follows, n
      <4>. QED BY <1>1, <1>4, <3>1, <3>2, <4>1
    <3>3. CASE i # n
      <4>1. q[i + 1] = "RESUME" /\ i + 1 \in 1..n
        BY <1>1, <1>4, <2>1, <3>1, <3>3 DEF Follows, n
      <4>. QED BY <1>1, <3>1, <4>1
    <3>. QED BY <3>2, <3>3
  <2>. QED BY <1>1, <1>4, <2>1 DEF Follows
<1>. QED BY <1>1, <1>2, <1>3, <1>4 DEF a

(* A message is parsed.                                                      *)
LEMMA Left ==
  ASSUME NEW q \in Seq(ConnMessage), q # <<>>
  PROVE  /\ Tail(q) \in Seq(ConnMessage)
         /\ Coming(q, Head(q))
         /\ \A x : Coming(Tail(q), x) => Coming(q, x)
         /\ \A x : Coming(q, x) /\ Head(q) # x => Coming(Tail(q), x)
         /\ Once(q, "RESUME") =>
              Once(Tail(q), "RESUME") /\ (Head(q) = "RESUME" => ~Coming(Tail(q), "RESUME"))
         /\ \A l \in BOOLEAN : Follows(q, l) => Follows(Tail(q), l)
         /\ \A l \in BOOLEAN : Follows(q, l) /\ Head(q) = "PAUSE" =>
              \/ l /\ ~Coming(Tail(q), "PAUSE")
              \/ Coming(q, "RESUME")
<1>. DEFINE n == Len(q)
            a == Tail(q)
<1>1. /\ a \in Seq(ConnMessage) /\ n \in Nat /\ n >= 1 /\ Len(a) = n - 1
      /\ 1 \in 1..n /\ Head(q) = q[1]
      /\ \A i \in 1..Len(a) : a[i] = q[i + 1] /\ i + 1 \in 1..n
      /\ \A i \in 1..n : i = 1 \/ (i - 1 \in 1..Len(a) /\ a[i - 1] = q[i])
  OBVIOUS
<1>. HIDE DEF n, a
<1>2. /\ Coming(q, Head(q))
      /\ \A x : Coming(a, x) => Coming(q, x)
      /\ \A x : Coming(q, x) /\ Head(q) # x => Coming(a, x)
  BY <1>1 DEF Coming, n
<1>3. ASSUME Once(q, "RESUME")
      PROVE  Once(a, "RESUME") /\ (Head(q) = "RESUME" => ~Coming(a, "RESUME"))
  <2>1. \A i \in 1..Len(a) : a[i] = q[i + 1] /\ i + 1 \in 1..n /\ i + 1 # 1
    BY <1>1
  <2>2. \A i, j \in 1..Len(a) : i + 1 = j + 1 => i = j
    BY <1>1
  <2>. QED BY <1>1, <1>3, <2>1, <2>2 DEF Once, Coming, n
<1>4. ASSUME NEW l \in BOOLEAN, Follows(q, l) PROVE Follows(a, l)
  <2>1. ASSUME NEW i \in 1..Len(a), a[i] = "PAUSE"
        PROVE  IF i = Len(a) THEN l ELSE a[i + 1] = "RESUME"
    <3>1. q[i + 1] = "PAUSE" /\ i + 1 \in 1..n
      BY <1>1, <2>1
    <3>2. IF i + 1 = n THEN l ELSE q[i + 1 + 1] = "RESUME"
      BY <1>4, <3>1 DEF Follows, n
    <3>3. i + 1 = n <=> i = Len(a)
      BY <1>1, <2>1
    <3>4. i # Len(a) => a[i + 1] = q[i + 1 + 1]
      <4>1. i # Len(a) => i + 1 \in 1..Len(a)
        BY <1>1, <2>1
      <4>. QED BY <1>1, <4>1
    <3>. QED BY <3>2, <3>3, <3>4
  <2>. QED BY <2>1 DEF Follows
<1>5. ASSUME NEW l \in BOOLEAN, Follows(q, l), Head(q) = "PAUSE"
      PROVE  Coming(q, "RESUME") \/ (l /\ ~Coming(a, "PAUSE"))
  <2>1. IF 1 = n THEN l ELSE q[1 + 1] = "RESUME"
    BY <1>1, <1>5 DEF Follows, n
  <2>2. n = 1 => ~Coming(a, "PAUSE")
    BY <1>1 DEF Coming
  <2>3. n # 1 => 1 + 1 \in 1..n
    BY <1>1
  <2>. QED BY <2>1, <2>2, <2>3 DEF Coming, n
<1>. QED BY <1>1, <1>2, <1>3, <1>4, <1>5 DEF a

(* Without a RESUME a PAUSE is the last message.                             *)
LEMMA PauseLast ==
  ASSUME NEW q \in Seq(ConnMessage), NEW l \in BOOLEAN, Follows(q, l), ~Coming(q, "RESUME")
  PROVE  Coming(q, "PAUSE") => l
<1>. SUFFICES ASSUME NEW i \in 1..Len(q), q[i] = "PAUSE" PROVE l
  BY DEF Coming
<1>1. i # Len(q) => i + 1 \in 1..Len(q)
  OBVIOUS
<1>. QED BY <1>1 DEF Follows, Coming

-----------------------------------------------------------------------------
(* The queues and the slot mutexes have their types.                         *)
LEMMA QueuesTyped ==
  ASSUME ConnTypeOK
  PROVE  /\ connMsgs \in [Sides -> Seq(ConnMessage)]
         /\ \A s \in Sides : connMsgs[s] \in Seq(ConnMessage) /\ Locked(s) \in BOOLEAN
BY DEF ConnTypeOK, ConnMessage, Locked

(* Every step keeps the types.                                               *)
LEMMA TypeStep ==
  ASSUME ConnTypeOK, NEW s \in Sides,
         \/ SendConnect(s) \/ Connected(s) \/ SenderLocks(s) \/ SenderSends(s)
         \/ PauseAsked(s) \/ ResumeAsked(s) \/ HandlerWakes(s) \/ HandlerStep(s)
  PROVE  ConnTypeOK'
<1>1. /\ Other(s) \in Sides /\ Other(s) # s
      /\ connMsgs \in [Sides -> Seq(ConnMessage)]
      /\ \A m \in ConnMessage : Append(connMsgs[Other(s)], m) \in Seq(ConnMessage)
      /\ connMsgs[s] # <<>> => Tail(connMsgs[s]) \in Seq(ConnMessage)
  BY TwoSides, QueuesTyped, Joined, Left
<1>. DEFINE Places == {"asleep", "bailed", "pausing", "parse"}
            Log == [data : Nat, pauses : Nat, overtaken : BOOLEAN]
            Placed == /\ connHandler \in [Sides -> Places] /\ connAhead \in [Sides -> Nat]
                      /\ \A t \in Sides : (connHandler[t] = "parse") = (connAhead[t] > 0)
<1>2. /\ \A m \in ConnMessage : Queue(s, m) =>
           connMsgs' \in [Sides -> Seq(ConnMessage)] /\ connTrigger' \in [Sides -> BOOLEAN]
      /\ \A t : Fires(t) => connTrigger' \in [Sides -> BOOLEAN]
      /\ \A n \in Nat : HandlerParses(s, n) => Placed'
      /\ \A place \in Places : place # "parse" /\ HandlerStops(s, place) => Placed'
      /\ UNCHANGED <<connHandler, connAhead>> => Placed'
  <2>1. /\ connHandler \in [Sides -> Places] /\ connAhead \in [Sides -> Nat]
        /\ connTrigger \in [Sides -> BOOLEAN]
        /\ \A t \in Sides : (connHandler[t] = "parse") = (connAhead[t] > 0)
    BY DEF ConnTypeOK
  <2>2. /\ \A m \in ConnMessage : Queue(s, m) =>
             connMsgs' \in [Sides -> Seq(ConnMessage)] /\ connTrigger' \in [Sides -> BOOLEAN]
        /\ \A t : Fires(t) => connTrigger' \in [Sides -> BOOLEAN]
    BY <1>1, <2>1 DEF Queue, Fires
  <2>3. ASSUME NEW n \in Nat, HandlerParses(s, n) PROVE Placed'
    <3>1. CASE n = 0
      BY <2>1, <2>3, <3>1 DEF HandlerParses
    <3>2. CASE n > 0
      BY <2>1, <2>3, <3>2 DEF HandlerParses
    <3>. QED BY <2>3, <3>1, <3>2
  <2>4. ASSUME NEW place \in Places, place # "parse", HandlerStops(s, place) PROVE Placed'
    BY <2>1, <2>4 DEF HandlerStops
  <2>5. UNCHANGED <<connHandler, connAhead>> => Placed'
    BY <2>1
  <2>. QED BY <2>2, <2>3, <2>4, <2>5
<1>3. Len(connMsgs[s]) \in Nat /\ (connHandler[s] = "parse" => connAhead[s] - 1 \in Nat)
  <2>1. connMsgs[s] \in Seq(ConnMessage)
    BY <1>1
  <2>2. connHandler[s] = "parse" => connAhead[s] \in Nat /\ connAhead[s] > 0
    BY DEF ConnTypeOK
  <2>. QED BY <2>1, <2>2
<1>4. connMsgs[s] # <<>> /\ connHandler[s] = "parse" /\ Parsed(s) =>
        /\ connMsgs' \in [Sides -> Seq(ConnMessage)] /\ connTrigger' \in [Sides -> BOOLEAN]
        /\ Placed'
  BY <1>1, <1>2, <1>3 DEF Parsed, ConnTypeOK
<1>. HIDE DEF Placed
<1>5. ASSUME connMsgs' \in [Sides -> Seq(ConnMessage)], connTrigger' \in [Sides -> BOOLEAN],
             Placed', conn' \in [Sides -> ConnStates],
             connector' \in [Sides -> {"idle", "waiting", "connected"}],
             connectSem' \in [Sides -> Nat],
             slotLock' \in [Sides -> {"free", "sender", "pause"}],
             connPoll' \in [Sides -> BOOLEAN], connLog' \in [Sides -> Log]
      PROVE  ConnTypeOK'
  BY <1>5 DEF ConnTypeOK, Placed, ConnMessage
<1>6. /\ conn \in [Sides -> ConnStates]
      /\ connector \in [Sides -> {"idle", "waiting", "connected"}]
      /\ connectSem \in [Sides -> Nat]
      /\ slotLock \in [Sides -> {"free", "sender", "pause"}]
      /\ connPoll \in [Sides -> BOOLEAN] /\ connTrigger \in [Sides -> BOOLEAN]
      /\ connLog \in [Sides -> Log]
      /\ \A n \in ConnStates : SetConn(s, n) => conn' \in [Sides -> ConnStates]
  BY DEF ConnTypeOK, SetConn
<1>7. /\ "DISCONNECTED" \in ConnStates /\ "CONNECTING" \in ConnStates
      /\ "CONNECTED" \in ConnStates /\ "PAUSING" \in ConnStates
      /\ "PAUSE_SENT" \in ConnStates /\ "PAUSED" \in ConnStates
      /\ "RESUMING" \in ConnStates
      /\ "CONNECT" \in ConnMessage /\ "DATA" \in ConnMessage /\ "PAUSE" \in ConnMessage
      /\ "RESUME" \in ConnMessage
  BY DEF ConnStates, ConnMessage
<1>8. /\ [connLog[s] EXCEPT !.data = @ + 1] \in Log
      /\ [connLog[s] EXCEPT !.pauses = @ + 1] \in Log
      /\ \A b \in BOOLEAN : [connLog[s] EXCEPT !.overtaken = b] \in Log
  BY <1>6
<1>. HIDE DEF Log
<1>9. CASE SendConnect(s)
  BY <1>1, <1>2, <1>5, <1>6, <1>7, <1>9 DEF SendConnect
<1>10. CASE Connected(s)
  BY <1>1, <1>2, <1>5, <1>6, <1>7, <1>8, <1>10 DEF Connected, handlerVars
<1>11. CASE SenderLocks(s)
  BY <1>1, <1>2, <1>5, <1>6, <1>11 DEF SenderLocks
<1>12. CASE SenderSends(s)
  BY <1>1, <1>2, <1>5, <1>6, <1>7, <1>8, <1>12 DEF SenderSends
<1>13. CASE PauseAsked(s)
  BY <1>1, <1>2, <1>5, <1>6, <1>7, <1>8, <1>13 DEF PauseAsked, AsksPoll
<1>14. CASE ResumeAsked(s)
  BY <1>1, <1>2, <1>5, <1>6, <1>7, <1>14 DEF ResumeAsked, AsksPoll
<1>15. CASE PollPausing(s)
  BY <1>1, <1>2, <1>5, <1>6, <1>15 DEF PollPausing, Polls
<1>16. CASE PollNothing(s)
  BY <1>1, <1>2, <1>3, <1>5, <1>6, <1>16 DEF PollNothing, Polls
<1>17. CASE PollResuming(s)
  <2>1. connMsgs' \in [Sides -> Seq(ConnMessage)] /\ connTrigger' \in [Sides -> BOOLEAN]
    BY <1>1, <1>6, <1>7, <1>17 DEF PollResuming
  <2>. QED BY <1>2, <1>3, <1>5, <1>6, <1>7, <1>17, <2>1 DEF PollResuming, Polls
<1>18. CASE SendPause(s)
  BY <1>1, <1>2, <1>3, <1>5, <1>6, <1>7, <1>18 DEF SendPause, PauseQueued
<1>19. CASE SendPauseStalls(s)
  BY <1>1, <1>2, <1>3, <1>5, <1>6, <1>19 DEF SendPauseStalls
<1>20. CASE ParseConnect(s)
  BY <1>4, <1>5, <1>6, <1>20 DEF ParseConnect, Parse
<1>21. CASE ParseData(s)
  BY <1>4, <1>5, <1>6, <1>21 DEF ParseData, Parse
<1>22. CASE ParsePause(s)
  <2>1. CASE Parsed(s)
    BY <1>4, <1>5, <1>6, <1>7, <1>22, <2>1 DEF ParsePause, Parse, PauseAnswer
  <2>2. CASE PauseAnswer(s)
    <3>1. connMsgs' \in [Sides -> Seq(ConnMessage)] /\ connTrigger' \in [Sides -> BOOLEAN]
      BY <1>1, <1>2, <1>7, <1>22, <2>2 DEF ParsePause, Parse, PauseAnswer
    <3>2. Placed'
      BY <1>2, <1>3, <1>22, <2>2 DEF ParsePause, Parse, PauseAnswer
    <3>3. conn' \in [Sides -> ConnStates] /\ slotLock' \in [Sides -> {"free", "sender", "pause"}]
      BY <1>6, <1>7, <2>2 DEF PauseAnswer
    <3>. QED BY <1>5, <1>6, <1>22, <3>1, <3>2, <3>3 DEF ParsePause, Parse
  <2>. QED BY <1>22, <2>1, <2>2 DEF ParsePause
<1>23. CASE ParsePauseBails(s)
  BY <1>1, <1>2, <1>5, <1>6, <1>23 DEF ParsePauseBails, Parse
<1>24. CASE ParseResume(s)
  BY <1>4, <1>5, <1>6, <1>7, <1>24 DEF ParseResume, Parse
<1>. QED BY <1>9, <1>10, <1>11, <1>12, <1>13, <1>14, <1>15, <1>16, <1>17, <1>18, <1>19,
            <1>20, <1>21, <1>22, <1>23, <1>24 DEF HandlerWakes, HandlerStep

(* Every step keeps what a paused side knows of its slot mutex.              *)
LEMMA PausedStep ==
  ASSUME ConnTypeOK, PausedInv, NEW s \in Sides,
         \/ SendConnect(s) \/ Connected(s) \/ SenderLocks(s) \/ SenderSends(s)
         \/ PauseAsked(s) \/ ResumeAsked(s) \/ HandlerWakes(s) \/ HandlerStep(s)
  PROVE  PausedInv'
<1>. USE DEF PausedInv, Locked, PausedStates, ConnTypeOK, SetConn
<1>3. CASE SendConnect(s)
  BY <1>3 DEF SendConnect
<1>4. CASE Connected(s)
  BY <1>4 DEF Connected
<1>5. CASE SenderLocks(s)
  BY <1>5 DEF SenderLocks
<1>6. CASE SenderSends(s)
  BY <1>6 DEF SenderSends
<1>7. CASE PauseAsked(s)
  BY <1>7 DEF PauseAsked
<1>8. CASE ResumeAsked(s)
  BY <1>8 DEF ResumeAsked
<1>9. CASE PollPausing(s) \/ PollNothing(s)
  BY <1>9 DEF PollPausing, PollNothing, Polls
<1>10. CASE SendPause(s)
  BY <1>10 DEF SendPause, PauseQueued
<1>11. CASE SendPauseStalls(s)
  BY <1>11 DEF SendPauseStalls
<1>12. CASE PollResuming(s)
  BY <1>12 DEF PollResuming, Polls
<1>13. CASE ParseConnect(s) \/ ParseData(s)
  BY <1>13 DEF ParseConnect, ParseData, Parse
<1>14. CASE ParsePause(s)
  BY <1>14 DEF ParsePause, PauseAnswer, Parse
<1>15. CASE ParsePauseBails(s)
  BY <1>15 DEF ParsePauseBails, Parse
<1>16. CASE ParseResume(s)
  BY <1>16 DEF ParseResume, Parse
<1>. QED BY <1>3, <1>4, <1>5, <1>6, <1>7, <1>8, <1>9, <1>10, <1>11, <1>12, <1>13,
            <1>14, <1>15, <1>16 DEF HandlerWakes, HandlerStep

-----------------------------------------------------------------------------
(* The steps, as far as the messages between the sides are concerned.        *)
Milder(r) ==
  /\ conn'[Other(r)] = "PAUSED" => conn[Other(r)] = "PAUSED"
  /\ conn'[r] \in {"PAUSED", "RESUMING"} => conn[r] \in {"PAUSED", "RESUMING"}

(* A step that sends and parses nothing and takes no slot mutex.             *)
LEMMA QuietStep ==
  ASSUME NEW r \in Sides, FollowInv, ResumeInv(r), Milder(r), connMsgs' = connMsgs,
         \A t \in Sides : Locked(t)' = Locked(t)
  PROVE  FollowInv' /\ ResumeInv(r)'
<1>1. Other(r) \in Sides /\ \A t \in Sides : Other(t) \in Sides
  BY TwoSides
<1>. QED BY <1>1 DEF FollowInv, ResumeInv, Milder

(* CONNECT or DATA.                                                          *)
LEMMA OtherSent ==
  ASSUME ConnTypeOK, NEW r \in Sides, FollowInv, ResumeInv(r), Milder(r),
         NEW s \in Sides, ~Locked(s), \A t \in Sides : Locked(t)' = Locked(t),
         NEW m \in {"CONNECT", "DATA"}, Queue(s, m)
  PROVE  FollowInv' /\ ResumeInv(r)'
<1>1. /\ s = r \/ s = Other(r)
      /\ Other(r) \in Sides /\ Other(r) # r /\ Other(Other(r)) = r /\ Other(s) \in Sides
      /\ \A t \in Sides : t # Other(s) => t = s
      /\ Other(Other(s)) = s
      /\ \A t \in Sides : Other(t) \in Sides
  BY TwoSides
<1>2. m \in ConnMessage /\ m # "PAUSE" /\ m # "RESUME"
  BY DEF ConnMessage
<1>3. /\ connMsgs'[Other(s)] = Append(connMsgs[Other(s)], m)
      /\ \A t \in Sides : t # Other(s) => connMsgs'[t] = connMsgs[t]
  BY <1>1, QueuesTyped DEF Queue
<1>4. /\ \A x \in {"PAUSE", "RESUME"} : \A t \in Sides :
           Coming(connMsgs'[t], x) <=> Coming(connMsgs[t], x)
      /\ Once(connMsgs[Other(r)], "RESUME") => Once(connMsgs'[Other(r)], "RESUME")
  <2>1. connMsgs[Other(s)] \in Seq(ConnMessage)
    BY <1>1, QueuesTyped
  <2>2. /\ \A x \in {"PAUSE", "RESUME"} :
             Coming(connMsgs'[Other(s)], x) <=> Coming(connMsgs[Other(s)], x)
        /\ Once(connMsgs[Other(s)], "RESUME") => Once(connMsgs'[Other(s)], "RESUME")
    BY <1>2, <1>3, <2>1, Joined
  <2>. QED BY <1>1, <1>3, <2>2
<1>5. Follows(connMsgs'[Other(s)], FALSE)
  <2>1. Follows(connMsgs[Other(s)], FALSE)
    <3>1. Follows(connMsgs[Other(s)], Locked(s))
      BY <1>1 DEF FollowInv
    <3>. QED BY <3>1, QueuesTyped DEF Follows
  <2>2. connMsgs[Other(s)] \in Seq(ConnMessage) /\ TRUE \in BOOLEAN /\ FALSE \in BOOLEAN
    BY <1>1, QueuesTyped
  <2>. QED BY <1>1, <1>2, <1>3, <2>1, <2>2, Joined
<1>6. FollowInv'
  <2>1. Follows(connMsgs'[Other(s)], Locked(s)')
    BY <1>5 DEF Follows
  <2>. QED BY <1>1, <1>3, <2>1 DEF FollowInv
<1>7. ResumeInv(r)'
  BY <1>1, <1>4 DEF ResumeInv, Milder
<1>. QED BY <1>6, <1>7

(* CONNECT or DATA is parsed.                                                *)
LEMMA OtherParsed ==
  ASSUME ConnTypeOK, NEW r \in Sides, FollowInv, ResumeInv(r), conn' = conn,
         NEW s \in Sides, \A t \in Sides : Locked(t)' = Locked(t),
         connMsgs[s] # <<>>, Head(connMsgs[s]) \notin {"PAUSE", "RESUME"}, Parsed(s)
  PROVE  FollowInv' /\ ResumeInv(r)'
<1>1. /\ s = r \/ s = Other(r)
      /\ Other(r) \in Sides /\ Other(r) # r
      /\ \A t \in Sides : Other(t) \in Sides
  BY TwoSides
<1>2. /\ connMsgs'[s] = Tail(connMsgs[s])
      /\ \A t \in Sides : t # s => connMsgs'[t] = connMsgs[t]
  BY QueuesTyped DEF Parsed
<1>3. /\ \A x \in {"PAUSE", "RESUME"} : \A t \in Sides :
           Coming(connMsgs'[t], x) <=> Coming(connMsgs[t], x)
      /\ Once(connMsgs[Other(r)], "RESUME") => Once(connMsgs'[Other(r)], "RESUME")
  BY <1>1, <1>2, QueuesTyped, Left
<1>4. Follows(connMsgs'[s], Locked(Other(s)))
  BY <1>1, <1>2, QueuesTyped, Left DEF FollowInv
<1>5. FollowInv'
  BY <1>1, <1>2, <1>4 DEF FollowInv
<1>6. ResumeInv(r)'
  BY <1>1, <1>3 DEF ResumeInv
<1>. QED BY <1>5, <1>6

(* PAUSE, by a side whose slot mutex was free and is kept: unless r resumed, *)
(* or has been told so.                                                      *)
LEMMA PauseSent ==
  ASSUME ConnTypeOK, NEW r \in Sides, FollowInv, ResumeInv(r), NEW s \in Sides,
         ~Locked(s), Locked(s)', \A t \in Sides : t # s => Locked(t)' = Locked(t),
         conn'[s] = "PAUSE_SENT", \A t \in Sides : t # s => conn'[t] = conn[t],
         Queue(s, "PAUSE")
  PROVE  FollowInv' /\ ResumeInv(r)'
<1>1. /\ s = r \/ s = Other(r)
      /\ Other(r) \in Sides /\ Other(r) # r /\ Other(Other(r)) = r /\ Other(s) \in Sides
      /\ Other(Other(s)) = s /\ Other(s) # s
      /\ \A t \in Sides : t # Other(s) => t = s
  BY TwoSides
<1>2. /\ connMsgs'[Other(s)] = Append(connMsgs[Other(s)], "PAUSE")
      /\ connMsgs'[s] = connMsgs[s] /\ "PAUSE" \in ConnMessage
  BY <1>1, QueuesTyped DEF Queue, ConnMessage
<1>3. /\ \A t \in Sides : Coming(connMsgs'[t], "RESUME") <=> Coming(connMsgs[t], "RESUME")
      /\ Once(connMsgs[Other(s)], "RESUME") => Once(connMsgs'[Other(s)], "RESUME")
  <2>1. connMsgs[Other(s)] \in Seq(ConnMessage)
    BY <1>1, QueuesTyped
  <2>2. /\ Coming(connMsgs'[Other(s)], "RESUME") <=> Coming(connMsgs[Other(s)], "RESUME")
        /\ Once(connMsgs[Other(s)], "RESUME") => Once(connMsgs'[Other(s)], "RESUME")
    BY <1>2, <2>1, Joined
  <2>. QED BY <1>1, <1>2, <2>2
<1>4. Follows(connMsgs'[Other(s)], TRUE)
  <2>1. Follows(connMsgs[Other(s)], FALSE)
    <3>1. Follows(connMsgs[Other(s)], Locked(s))
      BY <1>1 DEF FollowInv
    <3>. QED BY <3>1, QueuesTyped DEF Follows
  <2>2. connMsgs[Other(s)] \in Seq(ConnMessage) /\ TRUE \in BOOLEAN /\ FALSE \in BOOLEAN
    BY <1>1, QueuesTyped
  <2>. QED BY <1>1, <1>2, <2>1, <2>2, Joined
<1>5. FollowInv'
  <2>1. Follows(connMsgs'[s], Locked(Other(s))')
    BY <1>1, <1>2 DEF FollowInv
  <2>2. Follows(connMsgs'[Other(s)], Locked(s)')
    BY <1>4
  <2>. QED BY <1>1, <2>1, <2>2 DEF FollowInv
<1>6. ResumeInv(r)'
  <2>1. CASE s = r
    BY <1>1, <1>2, <1>3, <2>1 DEF ResumeInv
  <2>2. CASE s = Other(r)
    <3>1. conn[r] \notin {"PAUSED", "RESUMING"} /\ ~Coming(connMsgs[s], "RESUME")
      BY <1>1, <2>2 DEF ResumeInv
    <3>. QED BY <1>1, <1>2, <1>3, <2>2, <3>1 DEF ResumeInv
  <2>. QED BY <1>1, <2>1, <2>2
<1>. QED BY <1>5, <1>6

(* RESUME, by r: the other side has its slot mutex still, and is not         *)
(* answering.                                                                *)
LEMMA ResumeSent ==
  ASSUME ConnTypeOK, NEW r \in Sides, FollowInv, ResumeInv(r),
         conn[r] = "RESUMING", conn'[r] = "CONNECTED",
         \A t \in Sides : t # r => Locked(t)' = Locked(t) /\ conn'[t] = conn[t],
         connMsgs' = [connMsgs EXCEPT ![Other(r)] = Append(@, "RESUME")]
  PROVE  FollowInv' /\ ResumeInv(r)'
<1>1. /\ Other(r) \in Sides /\ Other(r) # r /\ Other(Other(r)) = r
      /\ \A t \in Sides : t # Other(r) => t = r
  BY TwoSides
<1>2. /\ connMsgs'[Other(r)] = Append(connMsgs[Other(r)], "RESUME")
      /\ connMsgs'[r] = connMsgs[r] /\ "RESUME" \in ConnMessage
  BY <1>1, QueuesTyped DEF Queue, ConnMessage
<1>3. Coming(connMsgs'[Other(r)], "RESUME") /\ Once(connMsgs'[Other(r)], "RESUME")
  BY <1>1, <1>2, QueuesTyped, Joined DEF ResumeInv
<1>4. \A l \in BOOLEAN : Follows(connMsgs'[Other(r)], l)
  BY <1>1, <1>2, QueuesTyped, Joined DEF FollowInv
<1>5. FollowInv'
  <2>1. Locked(r)' \in BOOLEAN
    BY DEF Locked
  <2>2. Follows(connMsgs'[Other(r)], Locked(r)')
    BY <1>4, <2>1
  <2>3. Follows(connMsgs'[r], Locked(Other(r))')
    BY <1>1, <1>2 DEF FollowInv
  <2>. QED BY <1>1, <2>2, <2>3 DEF FollowInv
<1>6. ResumeInv(r)'
  BY <1>1, <1>2, <1>3 DEF ResumeInv
<1>. QED BY <1>5, <1>6

(* PAUSE is parsed, and answered unless it is an answer.                     *)
LEMMA PauseAnswers ==
  ASSUME ConnTypeOK, PausedInv, NEW r \in Sides, FollowInv, ResumeInv(r),
         NEW s \in Sides, ParsePause(s)
  PROVE  FollowInv' /\ ResumeInv(r)'
<1>1. /\ s = r \/ s = Other(r)
      /\ Other(r) \in Sides /\ Other(r) # r /\ Other(Other(r)) = r /\ Other(s) \in Sides
      /\ Other(Other(s)) = s /\ Other(s) # s
      /\ \A t \in Sides : t # Other(s) => t = s
  BY TwoSides
<1>2. /\ connMsgs[s] # <<>> /\ Head(connMsgs[s]) = "PAUSE"
      /\ conn \in [Sides -> ConnStates] /\ slotLock \in [Sides -> {"free", "sender", "pause"}]
      /\ connMsgs[s] \in Seq(ConnMessage) /\ connMsgs[Other(s)] \in Seq(ConnMessage)
      /\ connMsgs \in [Sides -> Seq(ConnMessage)]
      /\ Follows(connMsgs[s], Locked(Other(s))) /\ Locked(Other(s)) \in BOOLEAN
      /\ Follows(connMsgs[Other(s)], Locked(s))
  BY <1>1, QueuesTyped DEF ParsePause, Parse, ConnTypeOK, FollowInv
<1>. DEFINE q == connMsgs[s]
            p == connMsgs[Other(s)]
<1>3. /\ Tail(q) \in Seq(ConnMessage)
      /\ Coming(q, "PAUSE")
      /\ Coming(Tail(q), "RESUME") <=> Coming(q, "RESUME")
      /\ Once(q, "RESUME") => Once(Tail(q), "RESUME")
      /\ Follows(Tail(q), Locked(Other(s)))
      /\ Coming(q, "RESUME") \/ (Locked(Other(s)) /\ ~Coming(Tail(q), "PAUSE"))
      /\ Coming(Tail(q), "PAUSE") => Coming(q, "PAUSE")
  BY <1>2, Left
<1>4. /\ Locked(Other(s))' = Locked(Other(s)) /\ conn'[Other(s)] = conn[Other(s)]
      /\ connMsgs'[s] = Tail(q)
  BY <1>1, <1>2 DEF ParsePause, PauseAnswer, Parsed, SetConn, Locked
<1>5. CASE conn[s] = "PAUSED"
  <2>1. /\ conn'[s] = "PAUSED" /\ Locked(s)' = Locked(s)
        /\ connMsgs'[Other(s)] = connMsgs[Other(s)]
    BY <1>1, <1>2, <1>5 DEF ParsePause, Parsed, Locked
  <2>2. FollowInv'
    <3>1. \A t \in Sides : Follows(connMsgs'[t], Locked(Other(t)))
      BY <1>1, <1>2, <1>3, <1>4, <2>1
    <3>. QED BY <1>1, <1>4, <2>1, <3>1 DEF FollowInv
  <2>3. ResumeInv(r)'
    BY <1>1, <1>3, <1>4, <1>5, <2>1 DEF ResumeInv
  <2>. QED BY <2>2, <2>3
<1>6. CASE conn[s] = "PAUSE_SENT"
  <2>1. /\ conn'[s] = "PAUSED" /\ Locked(s)' = Locked(s)
        /\ connMsgs'[Other(s)] = connMsgs[Other(s)]
    BY <1>1, <1>2, <1>6 DEF ParsePause, Parsed, Locked, SetConn
  <2>2. FollowInv'
    <3>1. \A t \in Sides : Follows(connMsgs'[t], Locked(Other(t)))
      BY <1>1, <1>2, <1>3, <1>4, <2>1
    <3>. QED BY <1>1, <1>4, <2>1, <3>1 DEF FollowInv
  <2>3. ResumeInv(r)'
    BY <1>1, <1>3, <1>4, <1>6, <2>1 DEF ResumeInv
  <2>. QED BY <2>2, <2>3
<1>7. CASE conn[s] \notin {"PAUSED", "PAUSE_SENT"}
  <2>1. /\ conn'[s] = "PAUSED" /\ Locked(s)' /\ ~Locked(s)
        /\ connMsgs'[Other(s)] = Append(p, "PAUSE")
    BY <1>1, <1>2, <1>7 DEF ParsePause, PauseAnswer, Locked, SetConn
  <2>2. "PAUSE" \in ConnMessage
    BY DEF ConnMessage
  <2>3. /\ Coming(Append(p, "PAUSE"), "RESUME") <=> Coming(p, "RESUME")
        /\ Once(p, "RESUME") => Once(Append(p, "PAUSE"), "RESUME")
    BY <1>2, <2>2, Joined
  <2>4. Follows(Append(p, "PAUSE"), TRUE)
    <3>1. Follows(p, FALSE)
      BY <1>2, <2>1 DEF Follows
    <3>. QED BY <1>2, <2>2, <3>1, Joined
  <2>5. FollowInv'
    <3>1. Follows(connMsgs'[Other(s)], Locked(s)')
      BY <2>1, <2>4 DEF Follows
    <3>2. Follows(connMsgs'[s], Locked(Other(s))')
      BY <1>3, <1>4 DEF Follows
    <3>. QED BY <1>1, <3>1, <3>2 DEF FollowInv
  <2>6. ResumeInv(r)'
    <3>1. CASE s = r
      BY <1>1, <1>3, <1>4, <2>1, <2>3, <3>1 DEF ResumeInv
    <3>2. CASE s = Other(r)
      <4>1. conn[r] \notin {"PAUSED", "RESUMING"} /\ ~Coming(q, "RESUME")
        BY <1>1, <2>1, <3>2 DEF ResumeInv
      <4>. QED BY <1>1, <1>3, <1>4, <2>1, <2>3, <3>2, <4>1 DEF ResumeInv
    <3>. QED BY <1>1, <3>1, <3>2
  <2>. QED BY <2>5, <2>6
<1>. QED BY <1>5, <1>6, <1>7

(* RESUME is parsed, never by r.                                             *)
LEMMA ResumeTaken ==
  ASSUME ConnTypeOK, NEW r \in Sides, FollowInv, ResumeInv(r),
         NEW s \in Sides, ParseResume(s)
  PROVE  FollowInv' /\ ResumeInv(r)'
<1>1. /\ Other(r) \in Sides /\ Other(r) # r /\ Other(Other(r)) = r
      /\ s = r \/ s = Other(r)
      /\ \A t \in Sides : t # Other(r) => t = r
  BY TwoSides
<1>2. /\ connMsgs[s] # <<>> /\ Head(connMsgs[s]) = "RESUME"
      /\ connMsgs[s] \in Seq(ConnMessage) /\ connMsgs \in [Sides -> Seq(ConnMessage)]
      /\ conn \in [Sides -> ConnStates] /\ slotLock \in [Sides -> {"free", "sender", "pause"}]
  BY QueuesTyped DEF ParseResume, Parse, ConnTypeOK
<1>3. s = Other(r)
  <2>1. Coming(connMsgs[s], "RESUME")
    BY <1>2, Left
  <2>. QED BY <1>1, <2>1 DEF ResumeInv
<1>4. /\ connMsgs'[s] = Tail(connMsgs[s]) /\ connMsgs'[r] = connMsgs[r]
      /\ conn'[s] = "CONNECTED" /\ conn'[r] = conn[r]
      /\ ~Locked(s)' /\ (Locked(r)' <=> Locked(r))
  BY <1>1, <1>2, <1>3 DEF ParseResume, Parsed, SetConn, Locked
<1>5. ~Coming(connMsgs[r], "PAUSE") /\ conn[r] \notin {"PAUSED", "RESUMING"}
      /\ Once(connMsgs[s], "RESUME") /\ ~Coming(connMsgs[r], "RESUME")
  BY <1>2, <1>3, Left DEF ResumeInv
<1>6. /\ ~Coming(Tail(connMsgs[s]), "RESUME") /\ Once(Tail(connMsgs[s]), "RESUME")
      /\ Follows(Tail(connMsgs[s]), Locked(r))
  <2>1. Follows(connMsgs[s], Locked(r)) /\ Locked(r) \in BOOLEAN
    BY <1>1, <1>3, QueuesTyped DEF FollowInv
  <2>. QED BY <1>2, <1>5, <2>1, Left
<1>7. FollowInv'
  <2>1. Follows(connMsgs'[s], Locked(r)')
    BY <1>4, <1>6 DEF Follows
  <2>2. Follows(connMsgs'[r], Locked(s)')
    BY <1>4, <1>5 DEF Follows, Coming
  <2>. QED BY <1>1, <1>3, <2>1, <2>2 DEF FollowInv
<1>8. ResumeInv(r)'
  BY <1>1, <1>3, <1>4, <1>5, <1>6 DEF ResumeInv
<1>. QED BY <1>7, <1>8

(* Every step keeps what is said of the messages between the sides.          *)
LEMMA MessagesStep ==
  ASSUME ConnTypeOK, PausedInv, NEW r \in Sides, Resumers \subseteq {r},
         FollowInv, ResumeInv(r), NEW s \in Sides,
         \/ SendConnect(s) \/ Connected(s) \/ SenderLocks(s) \/ SenderSends(s)
         \/ PauseAsked(s) \/ ResumeAsked(s) \/ HandlerWakes(s) \/ HandlerStep(s)
  PROVE  FollowInv' /\ ResumeInv(r)'
<1>1. /\ Other(r) \in Sides /\ Other(r) # r /\ (s = r \/ s = Other(r))
      /\ conn \in [Sides -> ConnStates]
      /\ slotLock \in [Sides -> {"free", "sender", "pause"}]
  BY TwoSides DEF ConnTypeOK
<1>3. CASE SendConnect(s)
  <2>1. /\ Milder(r) /\ ~Locked(s) /\ Queue(s, "CONNECT")
        /\ \A t \in Sides : Locked(t)' = Locked(t)
    BY <1>1, <1>3 DEF SendConnect, Milder, SetConn, Locked
  <2>. QED BY <2>1, OtherSent
<1>4. CASE Connected(s)
  <2>1. Milder(r) /\ connMsgs' = connMsgs /\ \A t \in Sides : Locked(t)' = Locked(t)
    BY <1>1, <1>4 DEF Connected, Milder, SetConn, Locked
  <2>. QED BY <2>1, QuietStep
<1>5. CASE SenderLocks(s)
  <2>1. Milder(r) /\ connMsgs' = connMsgs /\ \A t \in Sides : Locked(t)' = Locked(t)
    BY <1>1, <1>5 DEF SenderLocks, Milder, Locked
  <2>. QED BY <2>1, QuietStep
<1>6. CASE SenderSends(s)
  <2>1. /\ Milder(r) /\ ~Locked(s) /\ Queue(s, "DATA")
        /\ \A t \in Sides : Locked(t)' = Locked(t)
    BY <1>1, <1>6 DEF SenderSends, Milder, Locked
  <2>. QED BY <2>1, OtherSent
<1>7. CASE PauseAsked(s)
  <2>1. Milder(r) /\ connMsgs' = connMsgs /\ \A t \in Sides : Locked(t)' = Locked(t)
    BY <1>1, <1>7 DEF PauseAsked, Milder, SetConn, Locked
  <2>. QED BY <2>1, QuietStep
<1>8. CASE ResumeAsked(s)
  <2>1. Milder(r) /\ connMsgs' = connMsgs /\ \A t \in Sides : Locked(t)' = Locked(t)
    BY <1>1, <1>8 DEF ResumeAsked, Milder, SetConn, Locked
  <2>. QED BY <2>1, QuietStep
<1>9. CASE SendPause(s)
  <2>1. /\ ~Locked(s) /\ Locked(s)' /\ \A t \in Sides : t # s => Locked(t)' = Locked(t)
        /\ conn'[s] = "PAUSE_SENT" /\ \A t \in Sides : t # s => conn'[t] = conn[t]
        /\ Queue(s, "PAUSE")
    BY <1>1, <1>9 DEF SendPause, PauseQueued, SetConn, Locked
  <2>. QED BY <2>1, PauseSent
<1>10. CASE PollPausing(s) \/ PollNothing(s) \/ SendPauseStalls(s) \/ ParsePauseBails(s)
  <2>1. Milder(r) /\ connMsgs' = connMsgs /\ \A t \in Sides : Locked(t)' = Locked(t)
    BY <1>10 DEF PollPausing, PollNothing, SendPauseStalls, ParsePauseBails, Milder, Locked
  <2>. QED BY <2>1, QuietStep
<1>11. CASE PollResuming(s)
  <2>1. s = r
    BY <1>11 DEF PollResuming, PausedInv
  <2>2. /\ conn[r] = "RESUMING" /\ conn'[r] = "CONNECTED"
        /\ connMsgs' = [connMsgs EXCEPT ![Other(r)] = Append(@, "RESUME")]
        /\ \A t \in Sides : t # r => Locked(t)' = Locked(t) /\ conn'[t] = conn[t]
    BY <1>1, <1>11, <2>1 DEF PollResuming, SetConn, Locked
  <2>. QED BY <2>2, ResumeSent
<1>12. CASE ParseConnect(s) \/ ParseData(s)
  <2>1. /\ conn' = conn /\ \A t \in Sides : Locked(t)' = Locked(t)
        /\ connMsgs[s] # <<>> /\ Head(connMsgs[s]) \notin {"PAUSE", "RESUME"} /\ Parsed(s)
    BY <1>12 DEF ParseConnect, ParseData, Parse, Locked
  <2>. QED BY <2>1, OtherParsed
<1>. QED BY <1>3, <1>4, <1>5, <1>6, <1>7, <1>8, <1>9, <1>10, <1>11, <1>12,
            PauseAnswers, ResumeTaken DEF HandlerWakes, HandlerStep

-----------------------------------------------------------------------------
(* The initial states.                                                       *)
LEMMA ConnStarts ==
  ASSUME NEW r \in Sides, ConnInit
  PROVE  ConnInv(r)
<1>1. \A s \in Sides : connMsgs[s] = <<>> /\ conn[s] = "DISCONNECTED" /\ ~Locked(s)
  BY DEF ConnInit, Locked
<1>2. \A x, l : ~Coming(<<>>, x) /\ Once(<<>>, x) /\ Follows(<<>>, l)
  BY DEF Coming, Once, Follows
<1>3. Other(r) \in Sides /\ \A s \in Sides : Other(s) \in Sides
  BY TwoSides
<1>4. ConnTypeOK
  <2>1. <<>> \in Seq({"CONNECT", "DATA", "PAUSE", "RESUME"})
    OBVIOUS
  <2>. QED BY <2>1 DEF ConnInit, ConnTypeOK, ConnStates
<1>5. PausedInv
  BY <1>1 DEF PausedInv, PausedStates, ConnInit
<1>6. FollowInv /\ ResumeInv(r)
  BY <1>1, <1>2, <1>3 DEF FollowInv, ResumeInv
<1>. QED BY <1>4, <1>5, <1>6 DEF ConnInv

(* Every step keeps the invariant.                                           *)
LEMMA ConnKeeps ==
  ASSUME NEW r \in Sides, Resumers \subseteq {r}, ConnInv(r), [ConnNext]_connVars
  PROVE  ConnInv(r)'
<1>1. CASE UNCHANGED connVars
  BY <1>1 DEF connVars, handlerVars, ConnInv, ConnTypeOK, PausedInv, FollowInv, ResumeInv, Locked
<1>2. CASE ConnNext
  BY <1>2, TypeStep, PausedStep, MessagesStep DEF ConnNext, ConnInv
<1>. QED BY <1>1, <1>2

(* A side holds its slot mutex for the pause exactly while it is paused,     *)
(* nothing but the RESUME follows its PAUSE, and the other side knows of it, *)
(* for any room in the transport and any number of pauses and messages, as   *)
(* long as one side resumes (vchiq_resume_internal).                         *)
THEOREM PauseQuietAlways ==
  ASSUME OneResumes
  PROVE  ConnSpec => [](ConnTypeOK /\ PauseQuiet)
<1>. PICK r \in Sides : Resumers \subseteq {r}
  BY DEF OneResumes
<1>1. ConnInit => ConnInv(r)
  BY ConnStarts
<1>2. ConnInv(r) /\ [ConnNext]_connVars => ConnInv(r)'
  BY ConnKeeps
<1>3. ConnInv(r) => ConnTypeOK /\ PauseQuiet
  <2>. SUFFICES ASSUME ConnInv(r) PROVE PauseQuiet
    BY DEF ConnInv
  <2>1. Other(Other(r)) = r /\ \A s \in Sides : s = r \/ s = Other(r)
    BY TwoSides
  <2>2. ASSUME NEW s \in Sides
        PROVE  /\ ~connLog[s].overtaken =>
                    (slotLock[s] = "pause") = (conn[s] \in PausedStates)
               /\ Follows(connMsgs[s], Locked(Other(s)))
    BY DEF ConnInv, PausedInv, FollowInv, Locked
  <2>3. ASSUME NEW s \in Sides, conn[s] = "PAUSED"
        PROVE  Locked(Other(s)) \/ Coming(connMsgs[s], "RESUME")
    BY <2>1, <2>3 DEF ConnInv, ResumeInv
  <2>. QED BY <2>2, <2>3 DEF PauseQuiet, Follows, Locked, Coming
<1>. QED BY <1>1, <1>2, <1>3, PTL DEF ConnSpec

-----------------------------------------------------------------------------
(* SyncSlot.  That the slot has one owner is proved by following it from     *)
(* owner to owner: each step takes it from one and gives it to one other.    *)

(* The mutex of the senders, and the numbers of messages.                    *)
SenderMutexInv ==
  /\ \A t \in SyncSenders : senderAt[t] # "idle" =>
       /\ syncMutex /\ syncLog.sent < MaxSyncMessages
       /\ \A u \in SyncSenders : senderAt[u] # "idle" => u = t
  /\ syncHeader.type = "DATA" => syncHeader.n \in 1..MaxSyncMessages
  /\ syncThread.type = "DATA" => syncThread.n \in 1..MaxSyncMessages

Filling == \E t \in SyncSenders : senderAt[t] = "fill"

(* The one owner of the slot, or nobody.                                     *)
Free == syncRelease /\ ~Filling /\ ~syncTrigger /\ syncThread.type = "wait" /\ rxHeld = {}
BeingFilled == ~syncRelease /\ Filling /\ ~syncTrigger /\ syncThread.type = "wait" /\ rxHeld = {}
Unread == /\ ~syncRelease /\ ~Filling /\ syncTrigger /\ syncThread.type = "wait"
          /\ rxHeld = {} /\ syncHeader.n = syncLog.sent
          /\ syncHeader.type \in {"OPENACK", "DATA"}
BeingParsed == /\ ~syncRelease /\ ~Filling /\ ~syncTrigger
               /\ syncThread.type \in {"OPENACK", "DATA"} /\ rxHeld = {}
               /\ syncThread = syncHeader /\ syncHeader.n = syncLog.sent
HeldByClient == /\ ~syncRelease /\ ~Filling /\ ~syncTrigger
                /\ syncThread.type = "wait" /\ rxHeld = {syncLog.sent}
                /\ syncHeader = [type |-> "DATA", n |-> syncLog.sent]
Unowned == ~syncRelease /\ ~Filling /\ ~syncTrigger /\ syncThread.type = "wait" /\ rxHeld = {}

OwnerInv ==
  SyncRxOpen =>
    \/ syncLog.lost = 1 /\ Unowned
    \/ syncLog.lost = 0 /\ (Free \/ BeingFilled \/ Unread \/ BeingParsed \/ HeldByClient)

SyncInv == SyncTypeOK /\ SenderMutexInv /\ OwnerInv

-----------------------------------------------------------------------------
(* The initial states.                                                       *)
LEMMA SyncStarts == SyncInit => SyncInv
<1>. SUFFICES ASSUME SyncInit PROVE SyncInv
  OBVIOUS
<1>1. SyncTypeOK
  BY SyncAssumption DEF SyncInit, SyncTypeOK, Padding
<1>2. SenderMutexInv
  BY DEF SyncInit, SenderMutexInv, Padding
<1>3. OwnerInv
  BY DEF SyncInit, OwnerInv, Free, Filling
<1>. QED BY <1>1, <1>2, <1>3 DEF SyncInv

(* Stuttering.                                                               *)
LEMMA SyncStutters == SyncInv /\ UNCHANGED syncVars => SyncInv'
BY DEF syncVars, SyncInv, SyncTypeOK, SenderMutexInv, OwnerInv, SyncRxOpen, Free,
       BeingFilled, Unread, BeingParsed, HeldByClient, Unowned, Filling

(* A step of a sender.                                                       *)
LEMMA SenderKeeps ==
  ASSUME SyncInv, NEW t \in SyncSenders, SyncSenderStep(t)
  PROVE  SyncInv'
<1>. USE SyncAssumption DEF SyncInv, SyncTypeOK, SenderGoto
<1>1. CASE SyncLock(t)
  <2>1. SyncTypeOK'
    BY <1>1 DEF SyncLock, SenderMutexInv
  <2>2. SenderMutexInv'
    BY <1>1 DEF SyncLock, SenderMutexInv
  <2>3. OwnerInv'
    BY <1>1 DEF SyncLock, OwnerInv, SyncRxOpen, Free,
           BeingFilled, Unread, BeingParsed, HeldByClient, Unowned, Filling, SenderMutexInv
  <2>. QED BY <2>1, <2>2, <2>3
<1>2. CASE SyncAwaitSlot(t)
  <2>1. SyncTypeOK'
    BY <1>2 DEF SyncAwaitSlot, SenderMutexInv
  <2>2. SenderMutexInv'
    BY <1>2 DEF SyncAwaitSlot, SenderMutexInv
  <2>3. OwnerInv'
    BY <1>2 DEF SyncAwaitSlot, OwnerInv, SyncRxOpen, Free,
           BeingFilled, Unread, BeingParsed, HeldByClient, Unowned, Filling, SenderMutexInv
  <2>. QED BY <2>1, <2>2, <2>3
<1>3. CASE SyncSend(t)
  <2>1. SyncTypeOK'
    <3>1. syncLog.sent \in Nat /\ syncLog.lost \in Nat
      OBVIOUS
    <3>2. syncLog' = [sent |-> syncLog.sent + 1, lost |-> syncLog.lost]
      BY <1>3 DEF SyncSend
    <3>3. syncHeader' \in [type : {"PADDING", "OPENACK", "DATA"}, n : Nat]
      BY <1>3, <3>1 DEF SyncSend
    <3>4. senderAt' \in [SyncSenders -> {"idle", "waitRelease", "fill"}]
      BY <1>3 DEF SyncSend
    <3>. QED BY <1>3, <3>1, <3>2, <3>3, <3>4 DEF SyncSend
  <2>2. SenderMutexInv'
    BY <1>3 DEF SyncSend, SenderMutexInv
  <2>3. OwnerInv'
    BY <1>3 DEF SyncSend, OwnerInv, SyncRxOpen, Free,
           BeingFilled, Unread, BeingParsed, HeldByClient, Unowned, Filling, SenderMutexInv
  <2>. QED BY <2>1, <2>2, <2>3
<1>4. CASE SyncCopyFails(t)
  <2>1. SyncTypeOK'
    <3>1. syncLog.sent \in Nat /\ syncLog.lost \in Nat
      OBVIOUS
    <3>2. syncLog' = [sent |-> syncLog.sent, lost |-> syncLog.lost + 1]
      BY <1>4 DEF SyncCopyFails
    <3>3. senderAt' \in [SyncSenders -> {"idle", "waitRelease", "fill"}]
      BY <1>4 DEF SyncCopyFails
    <3>4. syncLog' \in [sent : Nat, lost : Nat]
      BY <3>1, <3>2
    <3>5. UNCHANGED <<syncHeader, syncRelease, syncTrigger, syncThread, rxState, rxHeld>>
          /\ syncMutex' = FALSE
      BY <1>4 DEF SyncCopyFails
    <3>. QED BY <3>3, <3>4, <3>5
  <2>2. SenderMutexInv'
    BY <1>4 DEF SyncCopyFails, SenderMutexInv
  <2>3. OwnerInv'
    BY <1>4 DEF SyncCopyFails, OwnerInv, SyncRxOpen, Free,
           BeingFilled, Unread, BeingParsed, HeldByClient, Unowned, Filling, SenderMutexInv
  <2>. QED BY <2>1, <2>2, <2>3
<1>. QED BY <1>1, <1>2, <1>3, <1>4 DEF SyncSenderStep

(* A step of the sync thread, of a client, or of the slot handler.           *)
LEMMA ReceiverKeeps ==
  ASSUME SyncInv,
         \/ SyncFuncStep \/ SyncClose \/ SyncFree
         \/ \E n \in rxHeld : SyncClientRelease(n)
  PROVE  SyncInv'
<1>. USE SyncAssumption DEF SyncInv, SyncTypeOK, SyncFuncDone, ReleaseMessageSync, Padding
<1>1. CASE SyncFuncWake
  <2>1. SyncTypeOK'
    BY <1>1 DEF SyncFuncWake, SenderMutexInv
  <2>2. SenderMutexInv'
    BY <1>1 DEF SyncFuncWake, SenderMutexInv
  <2>3. OwnerInv'
    BY <1>1 DEF SyncFuncWake, OwnerInv, SyncRxOpen, Free,
           BeingFilled, Unread, BeingParsed, HeldByClient, Unowned, Filling, SenderMutexInv
  <2>. QED BY <2>1, <2>2, <2>3
<1>2. CASE SyncOpenAck
  <2>1. SyncTypeOK'
    BY <1>2 DEF SyncOpenAck, SenderMutexInv
  <2>2. SenderMutexInv'
    BY <1>2 DEF SyncOpenAck, SenderMutexInv
  <2>3. OwnerInv'
    BY <1>2 DEF SyncOpenAck, OwnerInv, SyncRxOpen, Free,
           BeingFilled, Unread, BeingParsed, HeldByClient, Unowned, Filling, SenderMutexInv
  <2>. QED BY <2>1, <2>2, <2>3
<1>3. CASE SyncData
  <2>1. SyncTypeOK'
    BY <1>3 DEF SyncData, SenderMutexInv
  <2>2. SenderMutexInv'
    BY <1>3 DEF SyncData, SenderMutexInv
  <2>3. OwnerInv'
    BY <1>3 DEF SyncData, OwnerInv, SyncRxOpen, Free,
           BeingFilled, Unread, BeingParsed, HeldByClient, Unowned, Filling, SenderMutexInv
  <2>. QED BY <2>1, <2>2, <2>3
<1>4. CASE SyncUnexpected
  <2>1. SyncTypeOK'
    BY <1>4 DEF SyncUnexpected, SenderMutexInv
  <2>2. SenderMutexInv'
    BY <1>4 DEF SyncUnexpected, SenderMutexInv
  <2>3. OwnerInv'
    BY <1>4 DEF SyncUnexpected, OwnerInv, SyncRxOpen, Free,
           BeingFilled, Unread, BeingParsed, HeldByClient, Unowned, Filling, SenderMutexInv
  <2>. QED BY <2>1, <2>2, <2>3
<1>5. CASE SyncClose
  <2>1. SyncTypeOK'
    <3>1. syncHeader' = syncHeader \/ syncHeader' = [type |-> "PADDING", n |-> 0]
      BY <1>5 DEF SyncClose
    <3>2. syncHeader' \in [type : {"PADDING", "OPENACK", "DATA"}, n : Nat]
      BY <3>1
    <3>3. UNCHANGED syncRelease \/ syncRelease'
      BY <1>5 DEF SyncClose
    <3>4. syncRelease' \in BOOLEAN
      BY <3>3, ZenonT(30)
    <3>. QED BY <1>5, <3>2, <3>4 DEF SyncClose
  <2>2. SenderMutexInv'
    BY <1>5 DEF SyncClose, SenderMutexInv
  <2>3. OwnerInv'
    BY <1>5 DEF SyncClose, OwnerInv, SyncRxOpen, Free,
           BeingFilled, Unread, BeingParsed, HeldByClient, Unowned, Filling, SenderMutexInv
  <2>. QED BY <2>1, <2>2, <2>3
<1>6. CASE SyncFree
  <2>1. SyncTypeOK'
    BY <1>6 DEF SyncFree, SenderMutexInv
  <2>2. SenderMutexInv'
    BY <1>6 DEF SyncFree, SenderMutexInv
  <2>3. OwnerInv'
    BY <1>6 DEF SyncFree, OwnerInv, SyncRxOpen, Free,
           BeingFilled, Unread, BeingParsed, HeldByClient, Unowned, Filling, SenderMutexInv
  <2>. QED BY <2>1, <2>2, <2>3
<1>7. ASSUME NEW n \in rxHeld, SyncClientRelease(n) PROVE SyncInv'
  <2>1. SyncTypeOK'
    <3>1. syncHeader' = syncHeader \/ syncHeader' = [type |-> "PADDING", n |-> 0]
      BY <1>7 DEF SyncClientRelease
    <3>2. syncHeader' \in [type : {"PADDING", "OPENACK", "DATA"}, n : Nat]
      BY <3>1
    <3>3. UNCHANGED syncRelease \/ syncRelease'
      BY <1>7 DEF SyncClientRelease
    <3>4. syncRelease' \in BOOLEAN
      BY <3>3, ZenonT(30)
    <3>. QED BY <1>7, <3>2, <3>4 DEF SyncClientRelease
  <2>2. SenderMutexInv'
    BY <1>7 DEF SyncClientRelease, SenderMutexInv
  <2>3. OwnerInv'
    BY <1>7 DEF SyncClientRelease, OwnerInv, SyncRxOpen, Free,
           BeingFilled, Unread, BeingParsed, HeldByClient, Unowned, Filling, SenderMutexInv
  <2>. QED BY <2>1, <2>2, <2>3
<1>. QED BY <1>1, <1>2, <1>3, <1>4, <1>5, <1>6, <1>7 DEF SyncFuncStep

(* The owners of an owned slot, counted.                                     *)
LEMMA OwnersCounted ==
  ASSUME SyncInv, SyncRxOpen
  PROVE  Cardinality(SyncOwners) + syncLog.lost = 1
<1>1. CASE syncLog.lost = 1 /\ Unowned
  <2>1. SyncOwners = {}
    BY <1>1 DEF SyncOwners, Unowned, Filling
  <2>. QED BY <1>1, <2>1, FS_EmptySet
<1>2. CASE syncLog.lost = 0 /\ (Free \/ BeingFilled \/ Unread \/ BeingParsed \/ HeldByClient)
  <2>1. \E o : SyncOwners = {o}
    <3>1. CASE Free
      <4>. SyncOwners = {<<"free", 0>>}
        BY <3>1 DEF SyncOwners, Free, Filling
      <4>. QED OBVIOUS
    <3>2. CASE BeingFilled
      <4>1. PICK t \in SyncSenders : senderAt[t] = "fill"
        BY <3>2 DEF BeingFilled, Filling
      <4>2. {u \in SyncSenders : senderAt[u] = "fill"} = {t}
        BY <4>1 DEF SyncInv, SenderMutexInv
      <4>. SyncOwners = {<<"filling", t>>}
        BY <3>2, <4>2 DEF SyncOwners, BeingFilled
      <4>. QED OBVIOUS
    <3>3. CASE Unread
      <4>. SyncOwners = {<<"unread", 0>>}
        BY <3>3 DEF SyncOwners, Unread, Filling
      <4>. QED OBVIOUS
    <3>4. CASE BeingParsed
      <4>. SyncOwners = {<<"parsed", 0>>}
        BY <3>4 DEF SyncOwners, BeingParsed, Filling
      <4>. QED OBVIOUS
    <3>5. CASE HeldByClient
      <4>. SyncOwners = {<<"held", syncLog.sent>>}
        BY <3>5 DEF SyncOwners, HeldByClient, Filling
      <4>. QED OBVIOUS
    <3>. QED BY <1>2, <3>1, <3>2, <3>3, <3>4, <3>5
  <2>2. PICK o : SyncOwners = {o}
    BY <2>1
  <2>3. Cardinality({o}) = 1
    BY FS_Singleton
  <2>. QED BY <1>2, <2>2, <2>3
<1>. QED BY <1>1, <1>2 DEF SyncInv, OwnerInv

(* Until the service is closed the slot of synchronous messages has exactly  *)
(* one owner, whoever sends, reads and releases it.                          *)
THEOREM SyncOneOwnerAlways == SyncSpec => [](SyncTypeOK /\ SyncOneOwner)
<1>1. SyncInit => SyncInv
  BY SyncStarts
<1>2. SyncInv /\ [SyncNext]_syncVars => SyncInv'
  BY SyncStutters, SenderKeeps, ReceiverKeeps DEF SyncNext
<1>3. SyncInv => SyncTypeOK /\ SyncOneOwner
  <2>1. SyncInv /\ SyncRxOpen =>
          /\ \A n \in rxHeld : n = syncLog.sent /\ syncHeader = [type |-> "DATA", n |-> n]
          /\ syncThread.type # "wait" => syncThread = syncHeader
          /\ syncTrigger => syncHeader.n = syncLog.sent
    BY DEF SyncInv, OwnerInv, Free, BeingFilled, Unread, BeingParsed, HeldByClient, Unowned
  <2>. QED BY <2>1, OwnersCounted DEF SyncOneOwner, SyncInv
<1>. QED BY <1>1, <1>2, <1>3, PTL DEF SyncSpec

-----------------------------------------------------------------------------
(* Deferred.  That nobody's callback is called twice rests on the mutex:     *)
(* whoever is in it is alone, so that a callback is either in the table or   *)
(* called by its own thread.                                                 *)

InTable(a) == \E i \in 1..Len(deferredCalls) : deferredCalls[i] = a

(* The mutex.                                                                *)
InsideInv ==
  /\ \A a \in Adders : adderAt[a] \in {"locked", "leaving"} => inside = {a}
  /\ calling > 0 => inside = {Connector}
  /\ gConnected => calling = 0 /\ deferredCalls = <<>>

(* Each callback is in the table at most once, and those already called are  *)
(* the ones before i.                                                        *)
TableInv ==
  /\ deferredCalls \in Seq(Adders)
  /\ \A i \in 1..Len(deferredCalls) :
       /\ called[deferredCalls[i]] = IF i < calling THEN 1 ELSE 0
       /\ adderAt[deferredCalls[i]] \in {"leaving", "done"}
       /\ deferredCalls[i] \notin dropped
  /\ \A i, j \in 1..Len(deferredCalls) :
       deferredCalls[i] = deferredCalls[j] => i = j
  /\ calling <= Len(deferredCalls) + 1

(* What became of each callback, by where its thread is.                     *)
FateInv ==
  \A a \in Adders :
    /\ adderAt[a] \in {"start", "locked"} => called[a] = 0 /\ a \notin dropped
    /\ a \in dropped => called[a] = 0
    /\ adderAt[a] \in {"leaving", "done"} /\ a \notin dropped =>
         IF gConnected THEN called[a] = 1 ELSE InTable(a)

DeferredInv == DeferredTypeOK /\ InsideInv /\ TableInv /\ FateInv

-----------------------------------------------------------------------------
(* The initial states.                                                       *)
LEMMA DeferredStarts == DeferredInit => DeferredInv
<1>. SUFFICES ASSUME DeferredInit PROVE DeferredInv
  OBVIOUS
<1>1. Len(deferredCalls) = 0 /\ deferredCalls \in Seq(Adders)
  <2>1. deferredCalls = <<>>
    BY DEF DeferredInit
  <2>2. <<>> \in Seq(Adders) /\ Len(<<>>) = 0
    OBVIOUS
  <2>. QED BY <2>1, <2>2
<1>2. DeferredTypeOK
  <2>1. Len(deferredCalls) <= MaxCallbacks /\ calling \in 0..(MaxCallbacks + 1)
    BY <1>1, DeferredAssumption DEF DeferredInit
  <2>2. /\ gConnected \in BOOLEAN /\ inside \subseteq Adders \cup {Connector}
        /\ dropped \subseteq Adders
    BY DEF DeferredInit, Nobody
  <2>3. /\ adderAt \in [Adders -> {"start", "locked", "leaving", "done"}]
        /\ called \in [Adders -> Nat]
    BY DEF DeferredInit
  <2>. QED BY <2>1, <2>2, <2>3 DEF DeferredTypeOK
<1>3. InsideInv /\ FateInv
  BY DEF DeferredInit, InsideInv, FateInv
<1>4. TableInv
  BY <1>1 DEF DeferredInit, TableInv
<1>. QED BY <1>2, <1>3, <1>4 DEF DeferredInv

(* Stuttering.                                                               *)
LEMMA DeferredStutters == DeferredInv /\ UNCHANGED deferredVars => DeferredInv'
BY DEF deferredVars, DeferredInv, DeferredTypeOK, InsideInv, TableInv, FateInv, InTable

(* A step of a thread that adds a callback.                                  *)
LEMMA AdderKeeps ==
  ASSUME DeferredInv, NEW a \in Adders,
         AddLocks(a) \/ AddCalls(a) \/ AddDefers(a) \/ AddUnlocks(a)
  PROVE  DeferredInv'
<1>. USE DeferredAssumption DEF DeferredInv, DeferredTypeOK
<1>1. CASE AddLocks(a)
  <2>1. InsideInv'
    BY <1>1 DEF AddLocks, InsideInv, Nobody
  <2>2. TableInv'
    BY <1>1 DEF AddLocks, TableInv
  <2>3. FateInv'
    BY <1>1 DEF AddLocks, FateInv, InTable
  <2>4. DeferredTypeOK'
    BY <1>1 DEF AddLocks
  <2>. QED BY <2>1, <2>2, <2>3, <2>4
<1>2. CASE AddCalls(a)
  <2>1. InsideInv'
    BY <1>2 DEF AddCalls, InsideInv
  <2>2. TableInv'
    BY <1>2 DEF AddCalls, TableInv, InsideInv
  <2>3. FateInv'
    BY <1>2 DEF AddCalls, FateInv, InTable
  <2>4. DeferredTypeOK'
    BY <1>2 DEF AddCalls
  <2>. QED BY <2>1, <2>2, <2>3, <2>4
<1>3. CASE AddDefers(a)
  <2>1. inside = {a} /\ calling = 0 /\ called[a] = 0 /\ a \notin dropped
    BY <1>3 DEF AddDefers, InsideInv, FateInv
  <2>2. InsideInv'
    BY <1>3 DEF AddDefers, InsideInv
  <2>3. CASE Len(deferredCalls) >= MaxCallbacks
    <3>1. TableInv'
      BY <1>3, <2>1, <2>3 DEF AddDefers, TableInv
    <3>2. FateInv'
      BY <1>3, <2>1, <2>3 DEF AddDefers, FateInv, InTable
    <3>3. DeferredTypeOK'
      BY <1>3, <2>3 DEF AddDefers
    <3>. QED BY <2>2, <3>1, <3>2, <3>3
  <2>4. CASE ~(Len(deferredCalls) >= MaxCallbacks)
    <3>. DEFINE n == Len(deferredCalls)
    <3>1. /\ n \in Nat /\ deferredCalls' \in Seq(Adders) /\ Len(deferredCalls') = n + 1
          /\ deferredCalls'[n + 1] = a
          /\ \A i \in 1..n : deferredCalls'[i] = deferredCalls[i]
      <4>1. deferredCalls \in Seq(Adders)
        BY DEF TableInv
      <4>2. deferredCalls' = Append(deferredCalls, a)
        BY <1>3, <2>4 DEF AddDefers
      <4>. QED BY <4>1, <4>2
    <3>2. \A i \in 1..n : deferredCalls[i] \in Adders /\ deferredCalls[i] # a
      BY <1>3 DEF AddDefers, TableInv
    <3>3. /\ called' = called /\ calling' = calling /\ dropped' = dropped
          /\ adderAt' = [adderAt EXCEPT ![a] = "leaving"] /\ gConnected' = gConnected
          /\ ~gConnected
      BY <1>3, <2>4 DEF AddDefers
    <3>. HIDE DEF n
    <3>4. TableInv'
      <4>1. ASSUME NEW i \in 1..(n + 1)
            PROVE  /\ called'[deferredCalls'[i]] = IF i < calling' THEN 1 ELSE 0
                   /\ adderAt'[deferredCalls'[i]] \in {"leaving", "done"}
                   /\ deferredCalls'[i] \notin dropped'
        <5>1. adderAt \in [Adders -> {"start", "locked", "leaving", "done"}]
          BY DEF DeferredTypeOK
        <5>2. CASE i \in 1..n
          <6>1. /\ called[deferredCalls[i]] = IF i < calling THEN 1 ELSE 0
                /\ adderAt[deferredCalls[i]] \in {"leaving", "done"}
                /\ deferredCalls[i] \notin dropped
            BY <5>2 DEF TableInv, n
          <6>. QED BY <5>1, <5>2, <6>1, <3>1, <3>2, <3>3
        <5>3. CASE i = n + 1
          <6>1. deferredCalls'[i] = a
            BY <5>3, <3>1
          <6>2. ~(i < calling') /\ called'[a] = 0
            BY <5>3, <2>1, <3>1, <3>3
          <6>. QED BY <5>1, <6>1, <6>2, <2>1, <3>3
        <5>. QED BY <5>2, <5>3, <3>1
      <4>2. ASSUME NEW i \in 1..(n + 1), NEW j \in 1..(n + 1),
                   deferredCalls'[i] = deferredCalls'[j]
            PROVE  i = j
        <5>1. CASE i \in 1..n /\ j \in 1..n
          BY <4>2, <5>1, <3>1 DEF TableInv, n
        <5>2. \A k \in 1..n : deferredCalls'[k] # deferredCalls'[n + 1]
          <6>. TAKE k \in 1..n
          <6>1. deferredCalls'[k] = deferredCalls[k] /\ deferredCalls'[n + 1] = a
            BY <3>1
          <6>2. deferredCalls[k] # a
            BY <3>2
          <6>. QED BY <6>1, <6>2
        <5>3. CASE i = n + 1 /\ j \in 1..n
          <6>1. deferredCalls'[n + 1] = deferredCalls'[j]
            BY <4>2, <5>3
          <6>. QED BY <6>1, <5>2, <5>3
        <5>4. CASE i \in 1..n /\ j = n + 1
          <6>1. deferredCalls'[i] = deferredCalls'[n + 1]
            BY <4>2, <5>4
          <6>. QED BY <6>1, <5>2, <5>4
        <5>5. CASE i = n + 1 /\ j = n + 1
          BY <5>5
        <5>6. \A k \in 1..(n + 1) : k \in 1..n \/ k = n + 1
          BY <3>1
        <5>. QED BY <5>1, <5>3, <5>4, <5>5, <5>6
      <4>3. calling' <= n + 2
        BY <2>1, <3>1, <3>3
      <4>. QED BY <4>1, <4>2, <4>3, <3>1 DEF TableInv
    <3>5. FateInv'
      <4>1. \A b \in Adders : InTable(b) \/ b = a => InTable(b)'
        BY <3>1 DEF InTable, n
      <4>. QED BY <4>1, <3>3, <2>1 DEF FateInv
    <3>6. DeferredTypeOK'
      BY <1>3, <2>4, <3>1, <3>3 DEF AddDefers, n
    <3>. QED BY <2>2, <3>4, <3>5, <3>6
  <2>. QED BY <2>3, <2>4
<1>4. CASE AddUnlocks(a)
  <2>1. InsideInv'
    BY <1>4 DEF AddUnlocks, InsideInv, Nobody
  <2>2. TableInv'
    BY <1>4 DEF AddUnlocks, TableInv
  <2>3. FateInv'
    BY <1>4 DEF AddUnlocks, FateInv, InTable
  <2>4. DeferredTypeOK'
    BY <1>4 DEF AddUnlocks, Nobody
  <2>. QED BY <2>1, <2>2, <2>3, <2>4
<1>. QED BY <1>1, <1>2, <1>3, <1>4

(* A step of vchiq_call_connected_callbacks.                                 *)
LEMMA ConnectorKeeps ==
  ASSUME DeferredInv, ConnectLocks \/ ConnectCalls \/ ConnectUnlocks
  PROVE  DeferredInv'
<1>. USE DeferredAssumption DEF DeferredInv, DeferredTypeOK
<1>1. CASE ConnectLocks
  <2>1. calling = 0
    BY <1>1 DEF ConnectLocks, InsideInv, Nobody
  <2>2. InsideInv'
    BY <1>1 DEF ConnectLocks, InsideInv, Nobody
  <2>3. TableInv'
    BY <1>1, <2>1 DEF ConnectLocks, TableInv
  <2>4. FateInv'
    BY <1>1 DEF ConnectLocks, FateInv, InTable
  <2>5. DeferredTypeOK'
    BY <1>1 DEF ConnectLocks
  <2>. QED BY <2>2, <2>3, <2>4, <2>5
<1>2. CASE ConnectCalls
  <2>. DEFINE d == deferredCalls[calling]
  <2>1. /\ calling \in 1..Len(deferredCalls) /\ Len(deferredCalls) \in Nat
        /\ d \in Adders /\ called[d] = 0
        /\ adderAt[d] \in {"leaving", "done"} /\ d \notin dropped
        /\ ~gConnected
    BY <1>2 DEF ConnectCalls, TableInv, InsideInv
  <2>2. InsideInv'
    BY <1>2, <2>1 DEF ConnectCalls, InsideInv
  <2>3. TableInv'
    BY <1>2, <2>1 DEF ConnectCalls, TableInv
  <2>4. FateInv'
    BY <1>2, <2>1 DEF ConnectCalls, FateInv, InTable
  <2>5. DeferredTypeOK'
    BY <1>2, <2>1 DEF ConnectCalls
  <2>. QED BY <2>2, <2>3, <2>4, <2>5
<1>3. CASE ConnectUnlocks
  <2>1. /\ calling = Len(deferredCalls) + 1 /\ inside = {Connector}
        /\ Len(deferredCalls) \in Nat /\ ~gConnected
    BY <1>3 DEF ConnectUnlocks, TableInv, InsideInv
  <2>2. InsideInv'
    BY <1>3, <2>1 DEF ConnectUnlocks, InsideInv, Nobody
  <2>3. TableInv'
    BY <1>3 DEF ConnectUnlocks, TableInv
  <2>4. FateInv'
    <3>1. \A b \in Adders : InTable(b) => called[b] = 1
      BY <2>1 DEF TableInv, InTable
    <3>. QED BY <1>3, <2>1, <3>1 DEF ConnectUnlocks, FateInv
  <2>5. DeferredTypeOK'
    BY <1>3 DEF ConnectUnlocks, Nobody
  <2>. QED BY <2>2, <2>3, <2>4, <2>5
<1>. QED BY <1>1, <1>2, <1>3

(* Every callback for which the table had room is called exactly once,       *)
(* however adding it meets vchiq_call_connected_callbacks.                   *)
THEOREM CalledOnceAlways == DeferredSpec => [](DeferredTypeOK /\ CalledOnce)
<1>1. DeferredInit => DeferredInv
  BY DeferredStarts
<1>2. DeferredInv /\ [DeferredNext]_deferredVars => DeferredInv'
  BY DeferredStutters, AdderKeeps, ConnectorKeeps DEF DeferredNext
<1>3. DeferredInv => DeferredTypeOK /\ CalledOnce
  <2>1. ASSUME DeferredInv, NEW a \in Adders
        PROVE  /\ called[a] <= 1
               /\ ~gConnected /\ calling = 0 => called[a] = 0
    <3>1. CASE adderAt[a] \in {"start", "locked"} \/ a \in dropped \/ gConnected
      BY <2>1, <3>1 DEF DeferredInv, DeferredTypeOK, FateInv
    <3>2. CASE InTable(a)
      BY <2>1, <3>2 DEF DeferredInv, DeferredTypeOK, TableInv, InTable
    <3>. QED BY <2>1, <3>1, <3>2 DEF DeferredInv, DeferredTypeOK, FateInv
  <2>. QED BY <2>1 DEF DeferredInv, FateInv, CalledOnce
<1>. QED BY <1>1, <1>2, <1>3, PTL DEF DeferredSpec
=============================================================================
