---------------------------- MODULE SoundProofs ----------------------------
(*****************************************************************************)
(* Proofs about the sound device (CVCHIQSoundBaseDevice), for any size of a  *)
(* chunk and any width of the positions.  The device counts what it has      *)
(* announced and what has been played in two positions that wrap; the proof  *)
(* counts what is on the way in each queue, and relates the two.  What the   *)
(* queue holds is bounded at each step of Start and of a refill, so neither  *)
(* waits for room while the other could write.                               *)
(*****************************************************************************)
EXTENDS SoundDevice, FiniteSetTheorems, TLAPS

-------------------------------------------------------------------------------
(* Counting packets                                                          *)

(* The packets of one message make a row, as long as the message says.       *)
LEMMA RowCount ==
  ASSUME NEW i, NEW n \in Nat
  PROVE  IsFiniteSet({i} \X (1 .. n)) /\ Cardinality({i} \X (1 .. n)) = n
<1>1. IsFiniteSet(1 .. n) /\ Cardinality(1 .. n) = n
  BY FS_Interval
<1> DEFINE f == [k \in 1 .. n |-> <<i, k>>]
<1>2. f \in Bijection(1 .. n, {i} \X (1 .. n))
  <2>1. f \in [1 .. n -> {i} \X (1 .. n)]
    OBVIOUS
  <2>2. \A j, k \in 1 .. n : f[j] = f[k] => j = k
    OBVIOUS
  <2>3. \A p \in {i} \X (1 .. n) : \E k \in 1 .. n : f[k] = p
    OBVIOUS
  <2> QED
    BY <2>1, <2>2, <2>3 DEF Bijection, Injection, Surjection, IsInjective
<1> QED
  BY <1>1, <1>2, FS_Bijection DEF ExistsBijection

(* The packets of a message are numbered from 1.                             *)
LEMMA PacketsAre ==
  ASSUME NEW msgs, NEW type, NEW p
  PROVE  p \in PacketsOf(msgs, type) <=>
           \E i \in DOMAIN msgs : \E k \in 1 .. msgs[i].packets :
             msgs[i].type = type /\ p = <<i, k>>
BY DEF PacketsOf

Countable(S) == \A m \in S : m.packets \in Nat

(* The packets that a queue's messages cover are finitely many: their count  *)
(* is a number.                                                              *)
LEMMA PacketsFinite ==
  ASSUME NEW S, Countable(S), NEW msgs \in Seq(S), NEW type
  PROVE  IsFiniteSet(PacketsOf(msgs, type)) /\ CountOf(msgs, type) \in Nat
<1> DEFINE D == {j \in DOMAIN msgs : msgs[j].type = type}
           R == {{i} \X (1 .. msgs[i].packets) : i \in D}
           g == [i \in D |-> {i} \X (1 .. msgs[i].packets)]
<1>1. IsFiniteSet(D)
  <2>1. IsFiniteSet(1 .. Len(msgs))
    BY FS_Interval
  <2> QED
    BY <2>1, FS_Subset
<1>2. IsFiniteSet(R)
  <2>1. g \in Surjection(D, R)
    BY DEF Surjection
  <2> QED
    BY <1>1, <2>1, FS_Surjection
<1>3. \A r \in R : IsFiniteSet(r)
  <2> TAKE r \in R
  <2>1. PICK i \in D : r = {i} \X (1 .. msgs[i].packets)
    OBVIOUS
  <2>2. msgs[i].packets \in Nat
    BY <2>1 DEF Countable
  <2> QED
    BY <2>1, <2>2, RowCount
<1>4. IsFiniteSet(UNION R)
  BY <1>2, <1>3, FS_UNION
<1> QED
  BY <1>4, FS_CardinalityType DEF PacketsOf, CountOf

(* One more message, or one less, counts for the packets it carries.         *)
LEMMA CountAppend ==
  ASSUME NEW S, Countable(S), NEW msgs \in Seq(S), NEW m \in S, NEW type
  PROVE  CountOf(Append(msgs, m), type) =
           CountOf(msgs, type) + (IF m.type = type THEN m.packets ELSE 0)
<1> DEFINE n == Len(msgs) + 1
           new == Append(msgs, m)
           row == {n} \X (1 .. m.packets)
<1>1. /\ DOMAIN msgs = 1 .. Len(msgs) /\ DOMAIN new = 1 .. n
      /\ \A i \in 1 .. Len(msgs) : new[i] = msgs[i]
      /\ new[n] = m /\ Len(msgs) \in Nat /\ n \in DOMAIN new
      /\ \A i \in DOMAIN new : i \in DOMAIN msgs \/ i = n
      /\ \A i \in DOMAIN msgs : i \in DOMAIN new /\ i # n
  OBVIOUS
<1>2. m.packets \in Nat
  BY DEF Countable
<1>3. IsFiniteSet(row) /\ Cardinality(row) = m.packets
  BY <1>2, RowCount
<1>4. IsFiniteSet(PacketsOf(msgs, type)) /\ CountOf(msgs, type) \in Nat
  BY PacketsFinite
<1> HIDE DEF new, n
<1>5. CASE m.type = type
  <2>1. PacketsOf(new, type) = PacketsOf(msgs, type) \cup row
    <3>1. ASSUME NEW p \in PacketsOf(new, type)
          PROVE  p \in PacketsOf(msgs, type) \cup row
      BY <1>1, <1>5, <3>1 DEF PacketsOf
    <3>2. ASSUME NEW p \in PacketsOf(msgs, type)
          PROVE  p \in PacketsOf(new, type)
      <4>1. PICK i \in DOMAIN msgs : \E k \in 1 .. msgs[i].packets :
                   msgs[i].type = type /\ p = <<i, k>>
        BY <3>2, PacketsAre
      <4>2. i \in DOMAIN new /\ new[i] = msgs[i]
        BY <1>1
      <4> QED
        BY <4>1, <4>2, PacketsAre
    <3>3. ASSUME NEW p \in row
          PROVE  p \in PacketsOf(new, type)
      <4>1. \E k \in 1 .. new[n].packets : new[n].type = type /\ p = <<n, k>>
        BY <1>1, <1>5
      <4> QED
        BY <1>1, <4>1, PacketsAre
    <3> QED
      BY <3>1, <3>2, <3>3
  <2>2. PacketsOf(msgs, type) \cap row = {}
    BY <1>1 DEF PacketsOf
  <2>3. Cardinality(PacketsOf(msgs, type) \cap row) = 0
    BY <2>2, FS_EmptySet
  <2> HIDE DEF row
  <2>4. Cardinality(PacketsOf(msgs, type) \cup row) =
          Cardinality(PacketsOf(msgs, type)) + Cardinality(row)
            - Cardinality(PacketsOf(msgs, type) \cap row)
    BY <1>3, <1>4, FS_Union
  <2> QED
    BY <1>2, <1>3, <1>4, <1>5, <2>1, <2>3, <2>4 DEF CountOf, new
<1>6. CASE m.type # type
  <2>1. PacketsOf(new, type) = PacketsOf(msgs, type)
    <3>1. ASSUME NEW p \in PacketsOf(new, type)
          PROVE  p \in PacketsOf(msgs, type)
      BY <1>1, <1>6, <3>1 DEF PacketsOf
    <3>2. ASSUME NEW p \in PacketsOf(msgs, type)
          PROVE  p \in PacketsOf(new, type)
      <4>1. PICK i \in DOMAIN msgs : \E k \in 1 .. msgs[i].packets :
                   msgs[i].type = type /\ p = <<i, k>>
        BY <3>2, PacketsAre
      <4>2. i \in DOMAIN new /\ new[i] = msgs[i]
        BY <1>1
      <4> QED
        BY <4>1, <4>2, PacketsAre
    <3> QED
      BY <3>1, <3>2
  <2> QED
    BY <1>4, <1>6, <2>1 DEF CountOf, new
<1> QED
  BY <1>5, <1>6

(* A message taken from the head of a queue takes its packets from the count *)
(* of its kind.                                                              *)
LEMMA CountTail ==
  ASSUME NEW S, Countable(S), NEW msgs \in Seq(S), msgs # <<>>, NEW type
  PROVE  CountOf(msgs, type) = CountOf(Tail(msgs), type)
           + (IF Head(msgs).type = type THEN Head(msgs).packets ELSE 0)
<1> DEFINE rest == Tail(msgs)
           row == {1} \X (1 .. msgs[1].packets)
           shifted == {p \in PacketsOf(msgs, type) : p[1] # 1}
           f == [p \in PacketsOf(rest, type) |-> <<p[1] + 1, p[2]>>]
<1>1. /\ DOMAIN msgs = 1 .. Len(msgs) /\ Len(msgs) \in Nat \ {0}
      /\ DOMAIN rest = 1 .. Len(msgs) - 1
      /\ \A i \in 1 .. Len(msgs) - 1 : rest[i] = msgs[i + 1]
      /\ rest \in Seq(S) /\ Head(msgs) = msgs[1] /\ msgs[1] \in S
  OBVIOUS
<1>2. msgs[1].packets \in Nat
  BY <1>1 DEF Countable
<1>3. IsFiniteSet(row) /\ Cardinality(row) = msgs[1].packets
  BY <1>2, RowCount
<1>4. /\ IsFiniteSet(PacketsOf(msgs, type)) /\ CountOf(msgs, type) \in Nat
      /\ IsFiniteSet(PacketsOf(rest, type)) /\ CountOf(rest, type) \in Nat
  BY <1>1, PacketsFinite
<1> HIDE DEF rest
<1>5. f \in Bijection(PacketsOf(rest, type), shifted)
  <2>1. ASSUME NEW p \in PacketsOf(rest, type)
        PROVE  f[p] \in shifted
    <3>1. PICK i \in DOMAIN rest : \E k \in 1 .. rest[i].packets :
                 rest[i].type = type /\ p = <<i, k>>
      BY PacketsAre
    <3>2. PICK k \in 1 .. rest[i].packets : rest[i].type = type /\ p = <<i, k>>
      BY <3>1
    <3>3. /\ i + 1 \in DOMAIN msgs /\ rest[i] = msgs[i + 1] /\ i + 1 # 1
          /\ f[p] = <<i + 1, k>>
      BY <1>1, <3>2
    <3>4. f[p] \in PacketsOf(msgs, type)
      BY <3>2, <3>3, PacketsAre
    <3> QED
      BY <3>3, <3>4
  <2>2. ASSUME NEW p \in PacketsOf(rest, type),
               NEW q \in PacketsOf(rest, type),
               f[p] = f[q]
        PROVE  p = q
    <3>1. PICK i \in DOMAIN rest : \E k \in 1 .. rest[i].packets :
                 rest[i].type = type /\ p = <<i, k>>
      BY PacketsAre
    <3>2. PICK j \in DOMAIN rest : \E k \in 1 .. rest[j].packets :
                 rest[j].type = type /\ q = <<j, k>>
      BY PacketsAre
    <3> QED
      BY <1>1, <2>2, <3>1, <3>2
  <2>3. ASSUME NEW q \in shifted
        PROVE  \E p \in PacketsOf(rest, type) : f[p] = q
    <3>1. PICK i \in DOMAIN msgs : \E k \in 1 .. msgs[i].packets :
                 msgs[i].type = type /\ q = <<i, k>>
      BY PacketsAre
    <3>2. PICK k \in 1 .. msgs[i].packets : msgs[i].type = type /\ q = <<i, k>>
      BY <3>1
    <3>3. i # 1
      BY <3>2
    <3>4. i - 1 \in DOMAIN rest /\ rest[i - 1] = msgs[i] /\ (i - 1) + 1 = i
      BY <1>1, <3>3
    <3>5. <<i - 1, k>> \in PacketsOf(rest, type)
      BY <3>2, <3>4, PacketsAre
    <3>6. f[<<i - 1, k>>] = q
      BY <3>2, <3>4, <3>5
    <3> QED
      BY <3>5, <3>6
  <2> HIDE DEF shifted
  <2>4. f \in [PacketsOf(rest, type) -> shifted]
    BY <2>1
  <2> HIDE DEF f
  <2> QED
    BY <2>2, <2>3, <2>4 DEF Bijection, Injection, Surjection, IsInjective
<1>6. IsFiniteSet(shifted) /\ Cardinality(shifted) = CountOf(rest, type)
  BY <1>4, <1>5, FS_Bijection DEF ExistsBijection, CountOf
<1>7. CASE msgs[1].type = type
  <2>1. PacketsOf(msgs, type) = shifted \cup row
    <3>1. ASSUME NEW p \in PacketsOf(msgs, type), p \notin shifted
          PROVE  p \in row
      BY <3>1, PacketsAre
    <3>2. ASSUME NEW p \in row
          PROVE  p \in PacketsOf(msgs, type)
      <4>1. 1 \in DOMAIN msgs
        BY <1>1
      <4>2. \E k \in 1 .. msgs[1].packets : msgs[1].type = type /\ p = <<1, k>>
        BY <1>7
      <4> QED
        BY <4>1, <4>2, PacketsAre
    <3> QED
      BY <3>1, <3>2
  <2>2. shifted \cap row = {}
    OBVIOUS
  <2>3. Cardinality(shifted \cap row) = 0
    BY <2>2, FS_EmptySet
  <2> HIDE DEF row, shifted
  <2>4. Cardinality(shifted \cup row) =
          Cardinality(shifted) + Cardinality(row)
            - Cardinality(shifted \cap row)
    BY <1>3, <1>6, FS_Union
  <2> QED
    BY <1>1, <1>2, <1>3, <1>4, <1>6, <1>7, <2>1, <2>3, <2>4 DEF CountOf, rest
<1>8. CASE msgs[1].type # type
  <2>1. PacketsOf(msgs, type) = shifted
    BY <1>8, PacketsAre
  <2> HIDE DEF shifted
  <2> QED
    BY <1>1, <1>4, <1>6, <1>8, <2>1 DEF CountOf, rest
<1> QED
  BY <1>7, <1>8

(* A queue that holds no message of a kind covers no packet of that kind.    *)
LEMMA CountNone ==
  ASSUME NEW msgs, NEW type, \A i \in DOMAIN msgs : msgs[i].type # type
  PROVE  CountOf(msgs, type) = 0
<1>1. PacketsOf(msgs, type) = {}
  BY PacketsAre
<1> QED
  BY <1>1, FS_EmptySet DEF CountOf

(* A message of the type counts for at least its packets.                    *)
LEMMA CountAtLeast ==
  ASSUME NEW S, Countable(S), NEW msgs \in Seq(S), NEW i \in DOMAIN msgs
  PROVE  CountOf(msgs, msgs[i].type) >= msgs[i].packets
<1> DEFINE type == msgs[i].type
           row == {i} \X (1 .. msgs[i].packets)
<1>1. msgs[i].packets \in Nat
  BY DEF Countable
<1>2. IsFiniteSet(row) /\ Cardinality(row) = msgs[i].packets
  BY <1>1, RowCount
<1>3. IsFiniteSet(PacketsOf(msgs, type)) /\ CountOf(msgs, type) \in Nat
  BY PacketsFinite
<1>4. \A p \in row : p \in PacketsOf(msgs, type)
  BY PacketsAre
<1> HIDE DEF row, type
<1>5. Cardinality(row) <= Cardinality(PacketsOf(msgs, type))
  BY <1>3, <1>4, FS_Subset
<1> QED
  BY <1>1, <1>2, <1>3, <1>5 DEF CountOf, type

(* Where every WRITE is followed by a packet and there is at most one other  *)
(* message, the packets bound the messages.                                  *)
LEMMA QueueBound ==
  ASSUME NEW S, Countable(S), NEW msgs \in Seq(S),
         \A i \in DOMAIN msgs : msgs[i].type = "packet" => msgs[i].packets = 1,
         \A i \in DOMAIN msgs : msgs[i].type = "write" =>
           i # Len(msgs) /\ msgs[i + 1].type = "packet",
         \A i, j \in DOMAIN msgs :
           {msgs[i].type, msgs[j].type} \cap {"write", "packet"} = {} => i = j
  PROVE  Len(msgs) <= 2 * CountOf(msgs, "packet") + 1
<1> DEFINE D == 1 .. Len(msgs)
           P == {i \in D : msgs[i].type = "packet"}
           W == {i \in D : msgs[i].type = "write"}
           O == D \ (P \cup W)
           f == [i \in P |-> <<i, 1>>]
           g == [i \in W |-> i + 1]
<1>1. /\ DOMAIN msgs = D /\ Len(msgs) \in Nat
      /\ IsFiniteSet(D) /\ Cardinality(D) = Len(msgs)
  BY FS_Interval
<1>2. IsFiniteSet(P) /\ IsFiniteSet(W) /\ IsFiniteSet(O)
  BY <1>1, FS_Subset
<1>3. Cardinality(P) = CountOf(msgs, "packet")
  <2>1. \A p : p \in PacketsOf(msgs, "packet") <=> \E i \in P : p = <<i, 1>>
    BY <1>1, PacketsAre
  <2>2. f \in Bijection(P, PacketsOf(msgs, "packet"))
    <3>1. f \in [P -> PacketsOf(msgs, "packet")]
      BY <2>1
    <3>2. \A i, j \in P : f[i] = f[j] => i = j
      OBVIOUS
    <3>3. \A p \in PacketsOf(msgs, "packet") : \E i \in P : f[i] = p
      BY <2>1
    <3> HIDE DEF f, P
    <3> QED
      BY <3>1, <3>2, <3>3 DEF Bijection, Injection, Surjection, IsInjective
  <2> QED
    BY <1>2, <2>2, FS_Bijection DEF ExistsBijection, CountOf
<1>4. Cardinality(W) <= Cardinality(P)
  <2>1. g \in [W -> P]
    <3>1. ASSUME NEW i \in W
          PROVE  i + 1 \in P
      BY <1>1
    <3> QED
      BY <3>1
  <2>2. \A i, j \in W : g[i] = g[j] => i = j
    OBVIOUS
  <2> HIDE DEF g, W, P
  <2>3. g \in Injection(W, P)
    BY <2>1, <2>2 DEF Injection, IsInjective
  <2> QED
    BY <1>2, <2>3, FS_Injection
<1>5. Cardinality(O) <= 1
  <2>1. \A i, j \in O : i = j
    BY <1>1
  <2>2. CASE O = {}
    <3> HIDE DEF O
    <3>1. Cardinality(O) = 0
      BY <2>2, FS_EmptySet
    <3> QED
      BY <3>1
  <2>3. CASE O # {}
    <3>1. PICK x \in O : O = {x}
      BY <2>1, <2>3
    <3> HIDE DEF O
    <3>2. Cardinality({x}) = 1
      BY FS_Singleton
    <3> QED
      BY <3>1, <3>2
  <2> QED
    BY <2>2, <2>3
<1>6. D = (P \cup W) \cup O
  OBVIOUS
<1> HIDE DEF D, P, W, O
<1>7. /\ IsFiniteSet(P \cup W)
      /\ Cardinality(P \cup W) =
           Cardinality(P) + Cardinality(W) - Cardinality(P \cap W)
  BY <1>2, FS_Union
<1>8. Cardinality((P \cup W) \cup O) =
        Cardinality(P \cup W) + Cardinality(O) - Cardinality((P \cup W) \cap O)
  BY <1>2, <1>7, FS_Union
<1>9. /\ Cardinality(P \cap W) \in Nat
      /\ Cardinality((P \cup W) \cap O) \in Nat
      /\ Cardinality(P) \in Nat /\ Cardinality(W) \in Nat
      /\ Cardinality(O) \in Nat
  <2>1. IsFiniteSet(P \cap W) /\ IsFiniteSet((P \cup W) \cap O)
    BY <1>2, <1>7, FS_Intersection
  <2> QED
    BY <1>2, <2>1, FS_CardinalityType
<1> QED
  BY <1>1, <1>3, <1>4, <1>5, <1>6, <1>7, <1>8, <1>9

-------------------------------------------------------------------------------
(* The invariant                                                             *)

(* What the playback is proved from: the callback runs at the main thread's  *)
(* yields, not from a timer's AMPiPoke; Start is called again only when      *)
(* everything announced has been played; and the transport takes the         *)
(* messages of Start, and those of a refill behind a chunk, without making   *)
(* the sender wait. The runs sound_timer and sound_restart show what fails   *)
(* without the first two. Requests and messages may fail, and any size of    *)
(* chunk and of the positions' type is allowed.                            *)
PlaybackSetting ==
  /\ TimerPoke = FALSE
  /\ RestartBacklog = 0
  /\ TxRoom >= 2 * ChunkSize + 4 /\ TxRoom >= 3 * ChunkSize + 2

(* The messages of the device and those of the service.                      *)
Sent == [type : TxTypes, packets : 0 .. ChunkSize]
Answer == [type : {"result", "complete"}, packets : Nat, success : {0, -1}]

(* The types, with what the service's answers carry.                         *)
Types ==
  /\ cpu \in Contexts /\ mpc \in MainPCs /\ hpc \in {"idle", "write", "data"}
  /\ state \in States
  /\ event \in BOOLEAN /\ result \in {0, -1}
  /\ writePos \in 0 .. Modulus - 1 /\ completePos \in 0 .. Modulus - 1
  /\ round \in 1 .. 2 /\ left \in [Contexts -> 0 .. ChunkSize]
  /\ toPeer \in Seq(Sent) /\ fromPeer \in Seq(Answer)
  /\ unplayed \in Nat /\ frame \in 0 .. ChunkSize /\ framed \in BOOLEAN

(* The states in which completions count, the steps of a first Start, those  *)
(* of WriteChunk in Start, and the kinds of the messages in a queue.         *)
Playing == state \in {"Running", "Cancelled", "Terminating"}
Opening == {"config", "configWait", "control", "controlWait", "open"}
Loading == {"chunk", "write", "bump", "data"}
Has(msgs, types) == \E i \in DOMAIN msgs : msgs[i].type \in types

(* One of the two runs: the callback is inside a call only while the main    *)
(* thread waits or yields (ampi_co_yield).                                   *)
Turns ==
  /\ cpu = "main" => hpc = "idle"
  /\ cpu = "handler" =>
       mpc \in {"idle", "configWait", "controlWait", "setControlWait",
                "cancelWait", "setControl", "stop"}

(* What m_State may be at each step of Start, Cancel, SetControl and         *)
(* Callback.                                                                 *)
Phases ==
  /\ mpc \in Opening => state = "Created"
  /\ mpc \in {"start", "running"} => state = "Idle"
  /\ mpc \in {"reset", "cancel"} => state = "Running"
  /\ mpc \in Loading => state = "Running" \/ (round = 2 /\ state = "Idle")
  /\ mpc = "cancelWait" =>
       state \in {"Cancelled", "Terminating", "Idle", "Error"}
  /\ mpc \in {"stop", "stopped"} => state \in {"Terminating", "Idle", "Error"}
  /\ state = "Cancelled" => mpc = "cancelWait"
  /\ mpc \in {"setControl", "setControlWait"} => state # "Created"
  /\ hpc # "idle" => state \in {"Running", "Terminating"}

(* Before OPEN, the service has been sent nothing but CONFIG and CONTROL,    *)
(* and it has played nothing.                                                *)
Unopened ==
  state = "Created" =>
    /\ mpc \in Opening \cup {"idle"}
    /\ unplayed = 0
    /\ ~ Has(toPeer, TxTypes \ {"config", "control"})
    /\ ~ Has(fromPeer, {"complete"})

(* WriteChunk's packets are those its WRITE announced, whoever runs it.      *)
Frames ==
  /\ framed
  /\ mpc \in {"write", "bump", "data"} => left["main"] > 0
  /\ hpc # "idle" => left["handler"] > 0
  /\ frame = IF mpc \in {"bump", "data"} THEN left["main"]
             ELSE IF hpc = "data" THEN left["handler"] ELSE 0

(* A request of CallMessage whose result has not come.                       *)
Awaited == mpc \in {"configWait", "controlWait", "setControlWait"} /\ ~ event

(* There is at most one request or result on the way.                        *)
Single(sent, answers) ==
  /\ \A i, j \in DOMAIN sent :
       {sent[i].type, sent[j].type} \subseteq {"config", "control"} => i = j
  /\ \A i, j \in DOMAIN answers :
       answers[i].type = "result" /\ answers[j].type = "result" => i = j
  /\ ~ (Has(sent, {"config", "control"}) /\ Has(answers, {"result"}))

(* CONFIG and CONTROL, and their results, are on the way only while          *)
(* CallMessage awaits them.                                                  *)
Requests ==
  /\ Has(toPeer, {"config", "control"}) \/ Has(fromPeer, {"result"}) => Awaited
  /\ Has(toPeer, {"config"}) => mpc = "configWait"
  /\ Single(toPeer, fromPeer)

(* Each packet is sent by itself.                                            *)
Singles(sent) ==
  \A i \in DOMAIN sent : sent[i].type = "packet" => sent[i].packets = 1

(* A WRITE is followed by a packet; the last one may be about to be.         *)
Followed(sent, more) ==
  \A i \in DOMAIN sent : sent[i].type = "write" =>
    IF i = Len(sent) THEN more ELSE sent[i + 1].type = "packet"

(* Packets are single, completions cover some, and a playing device leaves   *)
(* no WRITE without a packet.                                                *)
Packets ==
  /\ Singles(toPeer)
  /\ \A i \in DOMAIN fromPeer :
       fromPeer[i].type = "complete" => fromPeer[i].packets > 0
  /\ Playing => Followed(toPeer, frame > 0)

(* OPEN and START are sent before any packet.                                *)
HeadsFirst(sent) ==
  \A i, j \in DOMAIN sent :
    i < j /\ sent[j].type \in {"open", "start"} => sent[i].type # "packet"

(* OPEN and START have been read when anything is played, and what is queued *)
(* behind STOP is nothing of a playback.                                     *)
Heads ==
  /\ HeadsFirst(toPeer)
  /\ unplayed > 0 \/ hpc # "idle" \/ Has(fromPeer, {"complete"}) =>
       ~ Has(toPeer, {"open", "start"})
  /\ mpc = "start" => ~ Has(toPeer, TxTypes \ {"open"})
  /\ mpc \in {"running", "reset"} => ~ Has(toPeer, TxTypes \ {"open", "start"})
  /\ Has(toPeer, {"stop"}) =>
       \/ mpc = "stopped"
       \/ state = "Idle" /\ mpc \in {"idle", "setControl", "setControlWait"}

(* What a first call of WriteChunk may have added, in the second.            *)
Before(n) == IF round = 1 THEN 0 ELSE n

(* How much Start has queued, and announced, at each of its steps: the queue *)
(* never fills while Start runs.                                             *)
Loads ==
  /\ mpc = "start" => Len(toPeer) <= 1 /\ Unacknowledged = 0
  /\ mpc \in {"running", "reset"} => Len(toPeer) <= 2 /\ Unacknowledged = 0
  /\ mpc \in {"chunk", "write"} =>
       /\ Len(toPeer) <= 2 + Before(ChunkSize + 1)
       /\ Unacknowledged <= Before(ChunkSize)
  /\ mpc \in {"bump", "data"} =>
       /\ Len(toPeer) + left["main"] <= 3 + ChunkSize + Before(ChunkSize + 1)
       /\ Unacknowledged <= ChunkSize + Before(ChunkSize)
  /\ mpc \in Loading /\ round = 2 /\ state = "Running" => Unacknowledged > 0

(* How much is queued, and announced, when the callback refills: the queue   *)
(* never fills while it does.                                                *)
Refills ==
  /\ hpc = "write" =>
       Len(toPeer) <= 2 * ChunkSize + 1 /\ Unacknowledged <= ChunkSize
  /\ hpc = "data" => Len(toPeer) + left["handler"] <= 3 * ChunkSize + 2

(* A playing device has announced two chunks at most, and the distance of    *)
(* its positions is what it has announced and not seen completed.            *)
Positions ==
  Playing /\ mpc \notin {"reset", "stopped"} =>
    /\ Unacknowledged <= 2 * ChunkSize
    /\ Backlog = IF mpc = "bump" THEN Unacknowledged - left["main"]
                                 ELSE Unacknowledged

(* The inductive invariant of the playback.                                  *)
SoundInv ==
  /\ Types /\ Turns /\ Phases /\ Unopened /\ Frames /\ Requests /\ Packets
  /\ Heads /\ Loads /\ Refills /\ Positions /\ StreamAlive

-------------------------------------------------------------------------------
(* Queues and positions                                                      *)

(* The packets on the way are a number.                                      *)
LEMMA Counts ==
  ASSUME Types, NEW type
  PROVE  CountOf(toPeer, type) \in Nat /\ CountOf(fromPeer, type) \in Nat
<1>1. Countable(Sent) /\ Countable(Answer)
  BY SoundDeviceAssumption DEF Countable, Sent, Answer
<1> QED
  BY <1>1, PacketsFinite DEF Types

(* What queueing a message (vchi_msg_queue) does to the order, the kinds and *)
(* the packets of the queue.                                                 *)
LEMMA QueueStep ==
  ASSUME Types, NEW type \in TxTypes, NEW n \in 0 .. ChunkSize,
         Queue(Message(type, n))
  PROVE  /\ toPeer' \in Seq(Sent) /\ Len(toPeer') = Len(toPeer) + 1
         /\ DOMAIN toPeer' = 1 .. Len(toPeer) + 1
         /\ \A i \in DOMAIN toPeer : toPeer'[i] = toPeer[i]
         /\ toPeer'[Len(toPeer) + 1].type = type
         /\ toPeer'[Len(toPeer) + 1].packets = n
         /\ CountOf(toPeer', "packet") =
              CountOf(toPeer, "packet") + (IF type = "packet" THEN n ELSE 0)
         /\ \A types : Has(toPeer', types)
              <=> Has(toPeer, types) \/ type \in types
         /\ Single(toPeer, fromPeer) /\ type \notin {"config", "control"}
              => Single(toPeer', fromPeer)
         /\ ~ Has(toPeer, {"config", "control"}) /\ ~ Has(fromPeer, {"result"})
              => Single(toPeer', fromPeer)
         /\ frame' = IF type = "write" THEN n
                     ELSE IF type = "packet" /\ frame > 0 THEN frame - 1
                       ELSE frame
         /\ framed /\ (frame > 0 <=> type = "packet") => framed'
         /\ framed' \in BOOLEAN
         /\ Singles(toPeer) /\ (type = "packet" => n = 1) => Singles(toPeer')
         /\ /\ Followed(toPeer, frame > 0)
            /\ frame > 0 <=> type = "packet"
            /\ type = "write" => n > 0
            => Followed(toPeer', frame' > 0)
         /\ HeadsFirst(toPeer)
              /\ (type \in {"open", "start"} => ~ Has(toPeer, {"packet"}))
              => HeadsFirst(toPeer')
<1> DEFINE m == Message(type, n)
<1>1. Countable(Sent)
  BY SoundDeviceAssumption DEF Countable, Sent
<1>2. toPeer \in Seq(Sent) /\ toPeer' = Append(toPeer, m)
  BY DEF Types, Queue
<1>3. m \in Sent /\ m.type = type /\ m.packets = n
  BY DEF Sent, Message
<1> HIDE DEF m
<1>4. CountOf(Append(toPeer, m), "packet") =
        CountOf(toPeer, "packet")
          + (IF m.type = "packet" THEN m.packets ELSE 0)
  BY <1>1, <1>2, <1>3, CountAppend
<1>5. /\ toPeer' \in Seq(Sent) /\ Len(toPeer') = Len(toPeer) + 1
      /\ DOMAIN toPeer' = 1 .. Len(toPeer) + 1
      /\ DOMAIN toPeer = 1 .. Len(toPeer) /\ Len(toPeer) \in Nat
      /\ \A i \in DOMAIN toPeer : toPeer'[i] = toPeer[i]
      /\ toPeer'[Len(toPeer) + 1] = m
  BY <1>2, <1>3
<1>6. ASSUME NEW types
      PROVE  Has(toPeer', types) <=> Has(toPeer, types) \/ type \in types
  <2>1. ASSUME Has(toPeer', types), type \notin types
        PROVE  Has(toPeer, types)
    BY <1>3, <1>5, <2>1 DEF Has
  <2>2. ASSUME Has(toPeer, types)
        PROVE  Has(toPeer', types)
    BY <1>5, <2>2 DEF Has
  <2>3. ASSUME type \in types
        PROVE  Has(toPeer', types)
    BY <1>3, <1>5, <2>3 DEF Has
  <2> QED
    BY <2>1, <2>2, <2>3
<1>7. ASSUME Single(toPeer, fromPeer), type \notin {"config", "control"}
      PROVE  Single(toPeer', fromPeer)
  BY <1>3, <1>5, <1>7 DEF Single, Has
<1>8. ASSUME ~ Has(toPeer, {"config", "control"}), ~ Has(fromPeer, {"result"})
      PROVE  Single(toPeer', fromPeer)
  BY <1>3, <1>5, <1>8 DEF Single, Has
<1>9. frame' = IF type = "write" THEN n
               ELSE IF type = "packet" /\ frame > 0 THEN frame - 1 ELSE frame
  <2>1. frame \in Nat
    BY SoundDeviceAssumption DEF Types
  <2>2. CASE type = "write"
    BY <1>3, <2>1, <2>2 DEF Queue, m
  <2>3. CASE type = "packet"
    BY <1>3, <2>1, <2>3 DEF Queue, m
  <2>4. CASE type \notin {"write", "packet"}
    BY <1>3, <2>1, <2>4 DEF Queue, m
  <2> QED
    BY <2>2, <2>3, <2>4
<1>10. /\ framed' \in BOOLEAN
       /\ framed /\ (frame > 0 <=> type = "packet") => framed'
  <2>1. framed' = (framed /\ (frame > 0 <=> m.type = "packet"))
    BY DEF Queue, m
  <2> QED
    BY <1>3, <2>1
<1>11. ASSUME Singles(toPeer), type = "packet" => n = 1
       PROVE  Singles(toPeer')
  BY <1>3, <1>5, <1>11 DEF Singles
<1>12. ASSUME Followed(toPeer, frame > 0), frame > 0 <=> type = "packet",
              type = "write" => n > 0
       PROVE  Followed(toPeer', frame' > 0)
  <2> SUFFICES ASSUME NEW i \in DOMAIN toPeer', toPeer'[i].type = "write"
               PROVE  IF i = Len(toPeer') THEN frame' > 0
                                          ELSE toPeer'[i + 1].type = "packet"
    BY DEF Followed
  <2>1. CASE i = Len(toPeer) + 1
    BY <1>3, <1>5, <1>9, <1>12, <2>1
  <2>2. CASE i = Len(toPeer)
    <3>1. frame > 0
      BY <1>5, <1>12, <2>2 DEF Followed
    <3> QED
      BY <1>3, <1>5, <1>12, <2>2, <3>1
  <2>3. CASE i < Len(toPeer)
    BY <1>5, <1>12, <2>3 DEF Followed
  <2> QED
    BY <1>5, <2>1, <2>2, <2>3
<1>13. ASSUME HeadsFirst(toPeer),
              type \in {"open", "start"} => ~ Has(toPeer, {"packet"})
       PROVE  HeadsFirst(toPeer')
  BY <1>3, <1>5, <1>13 DEF HeadsFirst, Has
<1> QED
  BY <1>2, <1>3, <1>4, <1>5, <1>6, <1>7, <1>8, <1>9, <1>10, <1>11, <1>12, <1>13
  DEF m

(* The difference of two positions, in their type.                           *)
LEMMA ModMinus ==
  ASSUME NEW M \in Nat, NEW w \in 0 .. M - 1, NEW c \in 0 .. M - 1
  PROVE  (w - c) % M = IF w >= c THEN w - c ELSE w - c + M
OBVIOUS

(* The sum of a position and a distance, in the type of positions.           *)
LEMMA ModPlus ==
  ASSUME NEW M \in Nat, NEW w \in 0 .. M - 1, NEW c \in 0 .. M - 1
  PROVE  (w + c) % M = IF w + c < M THEN w + c ELSE w + c - M
OBVIOUS

(* The messages in the queues are of the two kinds.                          *)
LEMMA Elements ==
  ASSUME Types
  PROVE  /\ Len(toPeer) \in Nat /\ DOMAIN toPeer = 1 .. Len(toPeer)
         /\ Len(fromPeer) \in Nat /\ DOMAIN fromPeer = 1 .. Len(fromPeer)
         /\ \A i \in DOMAIN toPeer : toPeer[i] \in Sent
         /\ \A i \in DOMAIN fromPeer : fromPeer[i] \in Answer
BY DEF Types

(* A completion on the way covers a packet.                                  *)
LEMMA NoneComplete ==
  ASSUME Types, Packets, CountOf(fromPeer, "complete") = 0
  PROVE  ~ Has(fromPeer, {"complete"})
<1> SUFFICES ASSUME NEW i \in DOMAIN fromPeer, fromPeer[i].type = "complete"
             PROVE  FALSE
  BY DEF Has
<1>1. Countable(Answer)
  BY DEF Countable, Answer
<1>2. CountOf(fromPeer, fromPeer[i].type) >= fromPeer[i].packets
  BY <1>1, CountAtLeast DEF Types
<1>3. fromPeer[i].packets > 0 /\ fromPeer[i].packets \in Nat
  BY Elements DEF Packets, Answer
<1> QED
  BY <1>2, <1>3

(* The queue has room whenever Start, or a refill, sends: neither yields in  *)
(* the middle of a chunk, so the other cannot write inside it.               *)
LEMMA RoomLeft ==
  ASSUME SoundInv, PlaybackSetting, ~ Room
  PROVE  /\ hpc = "idle"
         /\ mpc \notin Loading \cup {"config", "control", "open", "start"}
<1>1. /\ Types /\ Turns /\ Phases /\ Unopened /\ Frames /\ Requests
      /\ Loads /\ Refills
  BY DEF SoundInv
<1>2. /\ Len(toPeer) \in Nat /\ DOMAIN toPeer = 1 .. Len(toPeer)
      /\ \A i \in DOMAIN toPeer : toPeer[i] \in Sent
  BY <1>1, Elements
<1>3. Len(toPeer) >= TxRoom
  BY <1>2, SoundDeviceAssumption DEF Room
<1>4. hpc = "idle"
  BY <1>1, <1>2, <1>3, SoundDeviceAssumption
  DEF Refills, PlaybackSetting, Frames, Types, Contexts
<1>5. mpc \notin Loading \cup {"start"}
  BY <1>1, <1>2, <1>3, SoundDeviceAssumption
  DEF Loads, Before, Frames, PlaybackSetting, Types, Contexts, Loading
<1>6. ASSUME mpc \in {"config", "control", "open"}
      PROVE  FALSE
  <2>1. state = "Created" /\ ~ Awaited
    BY <1>1, <1>6 DEF Phases, Opening, Awaited
  <2>2. DOMAIN toPeer = {}
    BY <1>1, <1>2, <2>1 DEF Unopened, Requests, Has, Sent
  <2> QED
    BY <1>2, <1>3, <2>2, SoundDeviceAssumption
<1> QED
  BY <1>4, <1>5, <1>6

(* The positions wrap, the distance between them does not.                   *)
LEMMA BacklogAdd ==
  ASSUME NEW w \in 0 .. Modulus - 1, NEW c \in 0 .. Modulus - 1,
         NEW n \in 0 .. Modulus - 1, ((w - c) % Modulus) + n < Modulus
  PROVE  (((w + n) % Modulus) - c) % Modulus = ((w - c) % Modulus) + n
<1> DEFINE b == (w - c) % Modulus
           v == (w + n) % Modulus
<1>1. b = IF w >= c THEN w - c ELSE w - c + Modulus
  BY ModMinus, SoundDeviceAssumption
<1>2. v = IF w + n < Modulus THEN w + n ELSE w + n - Modulus
  BY ModPlus, SoundDeviceAssumption
<1>3. v \in 0 .. Modulus - 1
  BY <1>2, SoundDeviceAssumption
<1>4. (v - c) % Modulus = IF v >= c THEN v - c ELSE v - c + Modulus
  BY <1>3, ModMinus, SoundDeviceAssumption
<1> HIDE DEF b, v
<1>5. b + n < Modulus
  BY DEF b
<1> QED
  BY <1>1, <1>2, <1>3, <1>4, <1>5, SoundDeviceAssumption DEF b, v

(* A completion moves m_nCompletePos by what it covers: the distance shrinks *)
(* by as much.                                                               *)
LEMMA BacklogTake ==
  ASSUME NEW w \in 0 .. Modulus - 1, NEW c \in 0 .. Modulus - 1,
         NEW n \in Nat, n <= (w - c) % Modulus
  PROVE  /\ (w - ((c + n) % Modulus)) % Modulus = ((w - c) % Modulus) - n
         /\ (c + n) % Modulus \in 0 .. Modulus - 1
<1> DEFINE b == (w - c) % Modulus
           v == (c + n) % Modulus
<1>1. b = IF w >= c THEN w - c ELSE w - c + Modulus
  BY ModMinus, SoundDeviceAssumption
<1>2. n <= b /\ b \in 0 .. Modulus - 1 /\ n \in 0 .. Modulus - 1
  BY <1>1, SoundDeviceAssumption
<1>3. v = IF c + n < Modulus THEN c + n ELSE c + n - Modulus
  BY <1>2, ModPlus, SoundDeviceAssumption
<1>4. v \in 0 .. Modulus - 1
  BY <1>2, <1>3, SoundDeviceAssumption
<1>5. (w - v) % Modulus = IF w >= v THEN w - v ELSE w - v + Modulus
  BY <1>4, ModMinus, SoundDeviceAssumption
<1> HIDE DEF b, v
<1> QED
  BY <1>1, <1>2, <1>3, <1>4, <1>5, SoundDeviceAssumption DEF b, v

-------------------------------------------------------------------------------
(* The steps of the main thread                                              *)

(* Start is called: by an idle device, or again when nothing is left to      *)
(* play.                                                                     *)
LEMMA StartCallStep ==
  ASSUME SoundInv, PlaybackSetting, cpu = "main", cpu' = cpu, StartCall
  PROVE  SoundInv'
<1>1. /\ Types /\ Turns /\ Phases /\ Unopened /\ Frames /\ Requests /\ Packets
      /\ Heads /\ Loads /\ Refills /\ Positions /\ StreamAlive
  BY DEF SoundInv
<1>2. /\ CountOf(toPeer, "packet") \in Nat
      /\ CountOf(fromPeer, "complete") \in Nat
  BY <1>1, Counts
<1>3. Types'
  BY <1>1, <1>2, SoundDeviceAssumption, Elements
  DEF Types, StartCall, MainPCs, States, PlaybackSetting, Goto, mainVars,
      callVars, posVars, wireVars, peerVars, Contexts
<1>4. Turns'
  BY <1>1, <1>2, SoundDeviceAssumption, Elements
  DEF Turns, Phases, Opening, StartCall, MainPCs, States, PlaybackSetting, Goto
<1>5. Phases'
  BY <1>1, <1>2, SoundDeviceAssumption, Elements
  DEF Phases, Opening, Loading, Turns, StartCall, MainPCs, States,
      PlaybackSetting, Goto
<1>6. Unopened'
  BY <1>1, <1>2, SoundDeviceAssumption, Elements
  DEF Unopened, Phases, Opening, StartCall, MainPCs, States, PlaybackSetting,
      Goto, mainVars, callVars, posVars, wireVars, peerVars, Types, Contexts
<1>7. Frames'
  BY <1>1, <1>2, SoundDeviceAssumption, Elements
  DEF Frames, StartCall, MainPCs, States, PlaybackSetting, Goto, mainVars,
      callVars, posVars, wireVars, peerVars, Types, Contexts
<1>8. Requests'
  BY <1>1, <1>2, SoundDeviceAssumption, Elements
  DEF Requests, Awaited, StartCall, MainPCs, States, PlaybackSetting, Goto,
      mainVars, callVars, posVars, wireVars, peerVars, Types, Contexts
<1>9. Packets'
  BY <1>1, <1>2, SoundDeviceAssumption, Elements
  DEF Packets, Playing, Phases, StartCall, MainPCs, States, PlaybackSetting,
      Goto, mainVars, callVars, posVars, wireVars, peerVars, Types, Contexts
<1>10. Heads'
  <2>1. Len(toPeer) = 0 /\ DOMAIN toPeer' = {}
    BY <1>1, <1>2
    DEF StartCall, PlaybackSetting, Unacknowledged, Pending, Types, wireVars
  <2> QED
    BY <1>1, <2>1 DEF Heads, Has, StartCall
<1>11. Loads'
  <2>1. Len(toPeer) = 0 /\ Unacknowledged = 0
    BY <1>1, <1>2
    DEF StartCall, PlaybackSetting, Unacknowledged, Pending, Types, wireVars
  <2>2. Len(toPeer') = 0 /\ Unacknowledged' = 0
    BY <2>1 DEF StartCall, Unacknowledged, Pending, wireVars, peerVars
  <2>3. mpc' \notin Loading
    BY <1>1 DEF StartCall, Goto, Loading
  <2> QED
    BY <2>2, <2>3 DEF Loads, Loading
<1>12. Refills'
  BY <1>1, <1>2, SoundDeviceAssumption, Elements
  DEF Refills, Unacknowledged, Pending, StartCall, MainPCs, States,
      PlaybackSetting, Goto, mainVars, callVars, posVars, wireVars, peerVars,
      Types, Contexts
<1>13. Positions'
  BY <1>1, <1>2, SoundDeviceAssumption, Elements
  DEF Positions, Playing, Phases, Unacknowledged, Pending, Backlog, StartCall,
      MainPCs, States, PlaybackSetting
<1>14. StreamAlive'
  BY <1>1, <1>2, SoundDeviceAssumption, Elements
  DEF StreamAlive, Loading, Loads, Phases, Unacknowledged, Pending, Before,
      StartCall, MainPCs, States, PlaybackSetting
<1> QED
  BY <1>3, <1>4, <1>5, <1>6, <1>7, <1>8, <1>9, <1>10, <1>11, <1>12, <1>13,
     <1>14
  DEF SoundInv

(* Start sets Running.                                                       *)
LEMMA SetRunningStep ==
  ASSUME SoundInv, PlaybackSetting, cpu = "main", cpu' = cpu, SetRunning
  PROVE  SoundInv'
<1>1. /\ Types /\ Turns /\ Phases /\ Unopened /\ Frames /\ Requests /\ Packets
      /\ Heads /\ Loads /\ Refills /\ Positions /\ StreamAlive
  BY DEF SoundInv
<1>2. /\ CountOf(toPeer, "packet") \in Nat
      /\ CountOf(fromPeer, "complete") \in Nat
  BY <1>1, Counts
<1>3. Types'
  BY <1>1, <1>2, SoundDeviceAssumption, Elements
  DEF Types, SetRunning, MainPCs, States, Goto, mainVars, callVars, posVars,
      wireVars, peerVars, Contexts
<1>4. Turns'
  BY <1>1, <1>2, SoundDeviceAssumption, Elements
  DEF Turns, Phases, Opening, SetRunning, MainPCs, States, Goto, mainVars
<1>5. Phases'
  BY <1>1, <1>2, SoundDeviceAssumption, Elements
  DEF Phases, Opening, Loading, Turns, SetRunning, MainPCs, States, Goto
<1>6. Unopened'
  BY <1>1, <1>2, SoundDeviceAssumption, Elements
  DEF Unopened, Phases, Opening, SetRunning, MainPCs, States, Goto, mainVars
<1>7. Frames'
  BY <1>1, <1>2, SoundDeviceAssumption, Elements
  DEF Frames, SetRunning, MainPCs, States, Goto, mainVars, callVars, posVars,
      wireVars, peerVars, Types, Contexts
<1>8. Requests'
  BY <1>1, <1>2, SoundDeviceAssumption, Elements
  DEF Requests, Awaited, SetRunning, MainPCs, States, Goto, mainVars, callVars,
      posVars, wireVars, peerVars, Types, Contexts
<1>9. Packets'
  BY <1>1, <1>2, SoundDeviceAssumption, Elements
  DEF Packets, Playing, Phases, Heads, Has, Singles, Followed, Sent, TxTypes,
      SetRunning, MainPCs, States, Goto, mainVars, callVars, posVars, wireVars,
      peerVars, Types, Contexts
<1>10. Heads'
  BY <1>1, <1>2, SoundDeviceAssumption, Elements
  DEF Heads, Phases, SetRunning, MainPCs, States, Goto, mainVars, callVars,
      posVars, wireVars, peerVars, Types, Contexts
<1>11. Loads'
  BY <1>1, <1>2, SoundDeviceAssumption, Elements
  DEF Loads, Frames, Before, Loading, Phases, Unacknowledged, Pending,
      SetRunning, MainPCs, States, Goto, mainVars, callVars, posVars, wireVars,
      peerVars, Types, Contexts
<1>12. Refills'
  BY <1>1, <1>2, SoundDeviceAssumption, Elements
  DEF Refills, Unacknowledged, Pending, SetRunning, MainPCs, States, Goto,
      mainVars, callVars, posVars, wireVars, peerVars, Types, Contexts
<1>13. Positions'
  BY <1>1, <1>2, SoundDeviceAssumption, Elements
  DEF Positions, Playing, Phases, Unacknowledged, Pending, Backlog, SetRunning,
      MainPCs, States, Goto
<1>14. StreamAlive'
  BY <1>1, <1>2, SoundDeviceAssumption, Elements
  DEF StreamAlive, Loading, Loads, Phases, Unacknowledged, Pending, Before,
      SetRunning, MainPCs, States, Goto, mainVars, callVars, posVars, wireVars,
      peerVars, Types, Contexts
<1> QED
  BY <1>3, <1>4, <1>5, <1>6, <1>7, <1>8, <1>9, <1>10, <1>11, <1>12, <1>13,
     <1>14
  DEF SoundInv

(* Cancel finds the device running.                                          *)
LEMMA CancelCallStep ==
  ASSUME SoundInv, PlaybackSetting, cpu = "main", cpu' = cpu, CancelCall
  PROVE  SoundInv'
<1>1. /\ Types /\ Turns /\ Phases /\ Unopened /\ Frames /\ Requests /\ Packets
      /\ Heads /\ Loads /\ Refills /\ Positions /\ StreamAlive
  BY DEF SoundInv
<1>2. /\ CountOf(toPeer, "packet") \in Nat
      /\ CountOf(fromPeer, "complete") \in Nat
  BY <1>1, Counts
<1>3. Types'
  BY <1>1, <1>2, SoundDeviceAssumption
  DEF Types, CancelCall, MainPCs, States, Goto, mainVars, callVars, posVars,
      wireVars, peerVars, Contexts
<1>4. Turns'
  BY <1>1, <1>2, SoundDeviceAssumption
  DEF Turns, Phases, Opening, CancelCall, MainPCs, States, Goto, mainVars
<1>5. Phases'
  BY <1>1, <1>2, SoundDeviceAssumption
  DEF Phases, Opening, Loading, Turns, CancelCall, MainPCs, States, Goto,
      mainVars
<1>6. Unopened'
  BY <1>1, <1>2, SoundDeviceAssumption
  DEF Unopened, Phases, Opening, CancelCall, MainPCs, States, Goto, mainVars
<1>7. Frames'
  BY <1>1, <1>2, SoundDeviceAssumption
  DEF Frames, CancelCall, MainPCs, States, Goto, mainVars, callVars, posVars,
      wireVars, peerVars, Types, Contexts
<1>8. Requests'
  BY <1>1, <1>2, SoundDeviceAssumption
  DEF Requests, Awaited, CancelCall, MainPCs, States, Goto, mainVars, callVars,
      posVars, wireVars, peerVars, Types, Contexts
<1>9. Packets'
  BY <1>1, <1>2, SoundDeviceAssumption
  DEF Packets, Playing, Phases, CancelCall, MainPCs, States, Goto, mainVars,
      callVars, posVars, wireVars, peerVars, Types, Contexts
<1>10. Heads'
  BY <1>1, <1>2, SoundDeviceAssumption
  DEF Heads, Phases, CancelCall, MainPCs, States, Goto, mainVars, callVars,
      posVars, wireVars, peerVars, Types, Contexts
<1>11. Loads'
  BY <1>1, <1>2, SoundDeviceAssumption
  DEF Loads, Frames, Before, Loading, Phases, Unacknowledged, Pending,
      CancelCall, MainPCs, States, Goto
<1>12. Refills'
  BY <1>1, <1>2, SoundDeviceAssumption
  DEF Refills, Unacknowledged, Pending, CancelCall, MainPCs, States, Goto,
      mainVars, callVars, posVars, wireVars, peerVars, Types, Contexts
<1>13. Positions'
  BY <1>1, <1>2, SoundDeviceAssumption
  DEF Positions, Playing, Phases, Unacknowledged, Pending, Backlog, CancelCall,
      MainPCs, States, Goto, mainVars, callVars, posVars, wireVars, peerVars,
      Types, Contexts
<1>14. StreamAlive'
  BY <1>1, <1>2, SoundDeviceAssumption
  DEF StreamAlive, Loading, Loads, Phases, Unacknowledged, Pending, Before,
      CancelCall, MainPCs, States, Goto, mainVars, callVars, posVars, wireVars,
      peerVars, Types, Contexts
<1> QED
  BY <1>3, <1>4, <1>5, <1>6, <1>7, <1>8, <1>9, <1>10, <1>11, <1>12, <1>13,
     <1>14
  DEF SoundInv

(* Cancel sets Cancelled.                                                    *)
LEMMA SetCancelledStep ==
  ASSUME SoundInv, PlaybackSetting, cpu = "main", cpu' = cpu, SetCancelled
  PROVE  SoundInv'
<1>1. /\ Types /\ Turns /\ Phases /\ Unopened /\ Frames /\ Requests /\ Packets
      /\ Heads /\ Loads /\ Refills /\ Positions /\ StreamAlive
  BY DEF SoundInv
<1>2. /\ CountOf(toPeer, "packet") \in Nat
      /\ CountOf(fromPeer, "complete") \in Nat
  BY <1>1, Counts
<1>3. Types'
  BY <1>1, <1>2, SoundDeviceAssumption
  DEF Types, SetCancelled, MainPCs, States, Goto, mainVars, callVars, posVars,
      wireVars, peerVars, Contexts
<1>4. Turns'
  BY <1>1, <1>2, SoundDeviceAssumption
  DEF Turns, Phases, Opening, SetCancelled, MainPCs, States, Goto, mainVars
<1>5. Phases'
  BY <1>1, <1>2, SoundDeviceAssumption
  DEF Phases, Opening, Loading, Turns, SetCancelled, MainPCs, States, Goto,
      mainVars
<1>6. Unopened'
  BY <1>1, <1>2, SoundDeviceAssumption
  DEF Unopened, Phases, Opening, SetCancelled, MainPCs, States, Goto, mainVars
<1>7. Frames'
  BY <1>1, <1>2, SoundDeviceAssumption
  DEF Frames, SetCancelled, MainPCs, States, Goto, mainVars, callVars, posVars,
      wireVars, peerVars, Types, Contexts
<1>8. Requests'
  BY <1>1, <1>2, SoundDeviceAssumption
  DEF Requests, Awaited, SetCancelled, MainPCs, States, Goto, mainVars,
      callVars, posVars, wireVars, peerVars, Types, Contexts
<1>9. Packets'
  BY <1>1, <1>2, SoundDeviceAssumption
  DEF Packets, Playing, Phases, SetCancelled, MainPCs, States, Goto, mainVars,
      callVars, posVars, wireVars, peerVars, Types, Contexts
<1>10. Heads'
  BY <1>1, <1>2, SoundDeviceAssumption
  DEF Heads, Phases, SetCancelled, MainPCs, States, Goto, mainVars, callVars,
      posVars, wireVars, peerVars, Types, Contexts
<1>11. Loads'
  BY <1>1, <1>2, SoundDeviceAssumption
  DEF Loads, Frames, Before, Loading, Phases, Unacknowledged, Pending,
      SetCancelled, MainPCs, States, Goto
<1>12. Refills'
  BY <1>1, <1>2, SoundDeviceAssumption
  DEF Refills, Unacknowledged, Pending, SetCancelled, MainPCs, States, Goto,
      mainVars, callVars, posVars, wireVars, peerVars, Types, Contexts
<1>13. Positions'
  BY <1>1, <1>2, SoundDeviceAssumption
  DEF Positions, Playing, Phases, Unacknowledged, Pending, Backlog,
      SetCancelled, MainPCs, States, Goto, mainVars, callVars, posVars,
      wireVars, peerVars, Types, Contexts
<1>14. StreamAlive'
  BY <1>1, <1>2, SoundDeviceAssumption
  DEF StreamAlive, Loading, Loads, Phases, Unacknowledged, Pending, Before,
      SetCancelled, MainPCs, States, Goto, mainVars, callVars, posVars,
      wireVars, peerVars, Types, Contexts
<1> QED
  BY <1>3, <1>4, <1>5, <1>6, <1>7, <1>8, <1>9, <1>10, <1>11, <1>12, <1>13,
     <1>14
  DEF SoundInv

(* Cancel's wait ends: the callback has taken notice.                        *)
LEMMA CancelTakenStep ==
  ASSUME SoundInv, PlaybackSetting, cpu = "main", cpu' = cpu, CancelTaken
  PROVE  SoundInv'
<1>1. /\ Types /\ Turns /\ Phases /\ Unopened /\ Frames /\ Requests /\ Packets
      /\ Heads /\ Loads /\ Refills /\ Positions /\ StreamAlive
  BY DEF SoundInv
<1>2. /\ CountOf(toPeer, "packet") \in Nat
      /\ CountOf(fromPeer, "complete") \in Nat
  BY <1>1, Counts
<1>3. Types'
  BY <1>1, <1>2, SoundDeviceAssumption
  DEF Types, CancelTaken, MainPCs, States, Goto, mainVars, callVars, posVars,
      wireVars, peerVars, Contexts
<1>4. Turns'
  BY <1>1, <1>2, SoundDeviceAssumption
  DEF Turns, Phases, Opening, CancelTaken, MainPCs, States, Goto, mainVars
<1>5. Phases'
  BY <1>1, <1>2, SoundDeviceAssumption
  DEF Phases, Opening, Loading, Turns, CancelTaken, MainPCs, States, Goto,
      mainVars
<1>6. Unopened'
  BY <1>1, <1>2, SoundDeviceAssumption
  DEF Unopened, Phases, Opening, CancelTaken, MainPCs, States, Goto, mainVars
<1>7. Frames'
  BY <1>1, <1>2, SoundDeviceAssumption
  DEF Frames, CancelTaken, MainPCs, States, Goto, mainVars, callVars, posVars,
      wireVars, peerVars, Types, Contexts
<1>8. Requests'
  BY <1>1, <1>2, SoundDeviceAssumption
  DEF Requests, Awaited, CancelTaken, MainPCs, States, Goto, mainVars,
      callVars, posVars, wireVars, peerVars, Types, Contexts
<1>9. Packets'
  BY <1>1, <1>2, SoundDeviceAssumption
  DEF Packets, Playing, Phases, CancelTaken, MainPCs, States, Goto, mainVars,
      callVars, posVars, wireVars, peerVars, Types, Contexts
<1>10. Heads'
  BY <1>1, <1>2, SoundDeviceAssumption
  DEF Heads, Phases, CancelTaken, MainPCs, States, Goto, mainVars, callVars,
      posVars, wireVars, peerVars, Types, Contexts
<1>11. Loads'
  BY <1>1, <1>2, SoundDeviceAssumption
  DEF Loads, Frames, Before, Loading, Phases, Unacknowledged, Pending,
      CancelTaken, MainPCs, States, Goto
<1>12. Refills'
  BY <1>1, <1>2, SoundDeviceAssumption
  DEF Refills, Unacknowledged, Pending, CancelTaken, MainPCs, States, Goto,
      mainVars, callVars, posVars, wireVars, peerVars, Types, Contexts
<1>13. Positions'
  BY <1>1, <1>2, SoundDeviceAssumption
  DEF Positions, Playing, Phases, Unacknowledged, Pending, Backlog,
      CancelTaken, MainPCs, States, Goto, mainVars, callVars, posVars,
      wireVars, peerVars, Types, Contexts
<1>14. StreamAlive'
  BY <1>1, <1>2, SoundDeviceAssumption
  DEF StreamAlive, Loading, Loads, Phases, Unacknowledged, Pending, Before,
      CancelTaken, MainPCs, States, Goto
<1> QED
  BY <1>3, <1>4, <1>5, <1>6, <1>7, <1>8, <1>9, <1>10, <1>11, <1>12, <1>13,
     <1>14
  DEF SoundInv

(* Cancel sets Idle after STOP.                                              *)
LEMMA StoppedStep ==
  ASSUME SoundInv, PlaybackSetting, cpu = "main", cpu' = cpu, Stopped
  PROVE  SoundInv'
<1>1. /\ Types /\ Turns /\ Phases /\ Unopened /\ Frames /\ Requests /\ Packets
      /\ Heads /\ Loads /\ Refills /\ Positions /\ StreamAlive
  BY DEF SoundInv
<1>2. /\ CountOf(toPeer, "packet") \in Nat
      /\ CountOf(fromPeer, "complete") \in Nat
  BY <1>1, Counts
<1>3. Types'
  BY <1>1, <1>2, SoundDeviceAssumption
  DEF Types, Stopped, MainPCs, States, Goto, mainVars, callVars, posVars,
      wireVars, peerVars, Contexts
<1>4. Turns'
  BY <1>1, <1>2, SoundDeviceAssumption
  DEF Turns, Phases, Opening, Stopped, MainPCs, States, Goto, mainVars
<1>5. Phases'
  BY <1>1, <1>2, SoundDeviceAssumption
  DEF Phases, Opening, Loading, Turns, Stopped, MainPCs, States, Goto, mainVars
<1>6. Unopened'
  BY <1>1, <1>2, SoundDeviceAssumption
  DEF Unopened, Phases, Opening, Stopped, MainPCs, States, Goto, mainVars
<1>7. Frames'
  BY <1>1, <1>2, SoundDeviceAssumption
  DEF Frames, Stopped, MainPCs, States, Goto, mainVars, callVars, posVars,
      wireVars, peerVars, Types, Contexts
<1>8. Requests'
  BY <1>1, <1>2, SoundDeviceAssumption
  DEF Requests, Awaited, Stopped, MainPCs, States, Goto, mainVars, callVars,
      posVars, wireVars, peerVars, Types, Contexts
<1>9. Packets'
  BY <1>1, <1>2, SoundDeviceAssumption
  DEF Packets, Playing, Phases, Stopped, MainPCs, States, Goto, mainVars,
      callVars, posVars, wireVars, peerVars, Types, Contexts
<1>10. Heads'
  BY <1>1, <1>2, SoundDeviceAssumption
  DEF Heads, Phases, Stopped, MainPCs, States, Goto, mainVars, callVars,
      posVars, wireVars, peerVars, Types, Contexts
<1>11. Loads'
  BY <1>1, <1>2, SoundDeviceAssumption
  DEF Loads, Frames, Before, Loading, Phases, Unacknowledged, Pending, Stopped,
      MainPCs, States, Goto
<1>12. Refills'
  BY <1>1, <1>2, SoundDeviceAssumption
  DEF Refills, Unacknowledged, Pending, Stopped, MainPCs, States, Goto,
      mainVars, callVars, posVars, wireVars, peerVars, Types, Contexts
<1>13. Positions'
  BY <1>1, <1>2, SoundDeviceAssumption
  DEF Positions, Playing, Phases, Unacknowledged, Pending, Backlog, Stopped,
      MainPCs, States, Goto
<1>14. StreamAlive'
  BY <1>1, <1>2, SoundDeviceAssumption
  DEF StreamAlive, Loading, Loads, Phases, Unacknowledged, Pending, Before,
      Stopped, MainPCs, States, Goto
<1> QED
  BY <1>3, <1>4, <1>5, <1>6, <1>7, <1>8, <1>9, <1>10, <1>11, <1>12, <1>13,
     <1>14
  DEF SoundInv

(* SetControl is called.                                                     *)
LEMMA SetControlCallStep ==
  ASSUME SoundInv, PlaybackSetting, cpu = "main", cpu' = cpu, SetControlCall
  PROVE  SoundInv'
<1>1. /\ Types /\ Turns /\ Phases /\ Unopened /\ Frames /\ Requests /\ Packets
      /\ Heads /\ Loads /\ Refills /\ Positions /\ StreamAlive
  BY DEF SoundInv
<1>2. /\ CountOf(toPeer, "packet") \in Nat
      /\ CountOf(fromPeer, "complete") \in Nat
  BY <1>1, Counts
<1>3. Types'
  BY <1>1, <1>2, SoundDeviceAssumption
  DEF Types, SetControlCall, MainPCs, States, Goto, mainVars, callVars,
      posVars, wireVars, peerVars, Contexts
<1>4. Turns'
  BY <1>1, <1>2, SoundDeviceAssumption
  DEF Turns, Phases, Opening, SetControlCall, MainPCs, States, Goto, mainVars
<1>5. Phases'
  BY <1>1, <1>2, SoundDeviceAssumption
  DEF Phases, Opening, Loading, Turns, SetControlCall, MainPCs, States, Goto,
      mainVars
<1>6. Unopened'
  BY <1>1, <1>2, SoundDeviceAssumption
  DEF Unopened, Phases, Opening, SetControlCall, MainPCs, States, Goto,
      mainVars
<1>7. Frames'
  BY <1>1, <1>2, SoundDeviceAssumption
  DEF Frames, SetControlCall, MainPCs, States, Goto, mainVars, callVars,
      posVars, wireVars, peerVars, Types, Contexts
<1>8. Requests'
  BY <1>1, <1>2, SoundDeviceAssumption
  DEF Requests, Awaited, SetControlCall, MainPCs, States, Goto, mainVars,
      callVars, posVars, wireVars, peerVars, Types, Contexts
<1>9. Packets'
  BY <1>1, <1>2, SoundDeviceAssumption
  DEF Packets, Playing, Phases, SetControlCall, MainPCs, States, Goto,
      mainVars, callVars, posVars, wireVars, peerVars, Types, Contexts
<1>10. Heads'
  BY <1>1, <1>2, SoundDeviceAssumption
  DEF Heads, Phases, SetControlCall, MainPCs, States, Goto, mainVars, callVars,
      posVars, wireVars, peerVars, Types, Contexts
<1>11. Loads'
  BY <1>1, <1>2, SoundDeviceAssumption
  DEF Loads, Frames, Before, Loading, Phases, Unacknowledged, Pending,
      SetControlCall, MainPCs, States, Goto
<1>12. Refills'
  BY <1>1, <1>2, SoundDeviceAssumption
  DEF Refills, Unacknowledged, Pending, SetControlCall, MainPCs, States, Goto,
      mainVars, callVars, posVars, wireVars, peerVars, Types, Contexts
<1>13. Positions'
  BY <1>1, <1>2, SoundDeviceAssumption
  DEF Positions, Playing, Phases, Unacknowledged, Pending, Backlog,
      SetControlCall, MainPCs, States, Goto, mainVars, callVars, posVars,
      wireVars, peerVars, Types, Contexts
<1>14. StreamAlive'
  BY <1>1, <1>2, SoundDeviceAssumption
  DEF StreamAlive, Loading, Loads, Phases, Unacknowledged, Pending, Before,
      SetControlCall, MainPCs, States, Goto, mainVars, callVars, posVars,
      wireVars, peerVars, Types, Contexts
<1> QED
  BY <1>3, <1>4, <1>5, <1>6, <1>7, <1>8, <1>9, <1>10, <1>11, <1>12, <1>13,
     <1>14
  DEF SoundInv

(* Start resets the positions, with nothing announced or on the way.         *)
LEMMA ResetPositionsStep ==
  ASSUME SoundInv, PlaybackSetting, cpu = "main", cpu' = cpu, ResetPositions
  PROVE  SoundInv'
<1>1. /\ Types /\ Turns /\ Phases /\ Unopened /\ Frames /\ Requests /\ Packets
      /\ Heads /\ Loads /\ Refills /\ Positions /\ StreamAlive
  BY DEF SoundInv
<1>2. /\ CountOf(toPeer, "packet") \in Nat
      /\ CountOf(fromPeer, "complete") \in Nat
  BY <1>1, Counts
<1>3. Types'
  BY <1>1, <1>2, SoundDeviceAssumption
  DEF Types, ResetPositions, MainPCs, States, Goto, mainVars, callVars,
      posVars, wireVars, peerVars, Contexts
<1>4. Turns'
  BY <1>1, <1>2, SoundDeviceAssumption
  DEF Turns, Phases, Opening, ResetPositions, MainPCs, States, Goto, mainVars
<1>5. Phases'
  BY <1>1, <1>2, SoundDeviceAssumption
  DEF Phases, Opening, Loading, Turns, ResetPositions, MainPCs, States, Goto,
      mainVars
<1>6. Unopened'
  BY <1>1, <1>2, SoundDeviceAssumption
  DEF Unopened, Phases, Opening, ResetPositions, MainPCs, States, Goto,
      mainVars
<1>7. Frames'
  BY <1>1, <1>2, SoundDeviceAssumption
  DEF Frames, ResetPositions, posVars, wireVars, peerVars, Types, Contexts
<1>8. Requests'
  BY <1>1, <1>2, SoundDeviceAssumption
  DEF Requests, Awaited, ResetPositions, MainPCs, States, Goto, mainVars,
      callVars, posVars, wireVars, peerVars, Types, Contexts
<1>9. Packets'
  BY <1>1, <1>2, SoundDeviceAssumption
  DEF Packets, Playing, Phases, ResetPositions, MainPCs, States, Goto,
      mainVars, callVars, posVars, wireVars, peerVars, Types, Contexts
<1>10. Heads'
  BY <1>1, <1>2, SoundDeviceAssumption
  DEF Heads, Phases, ResetPositions, MainPCs, States, Goto, mainVars, callVars,
      posVars, wireVars, peerVars, Types, Contexts
<1>11. Loads'
  BY <1>1, <1>2, SoundDeviceAssumption
  DEF Loads, Frames, Before, Loading, Phases, Unacknowledged, Pending,
      ResetPositions, MainPCs, States, Goto, mainVars, callVars, posVars,
      wireVars, peerVars, Types, Contexts
<1>12. Refills'
  BY <1>1, <1>2, SoundDeviceAssumption
  DEF Refills, Unacknowledged, Pending, ResetPositions, MainPCs, States, Goto,
      mainVars, callVars, posVars, wireVars, peerVars, Types, Contexts
<1>13. Positions'
  <2>1. Unacknowledged = 0
    BY <1>1 DEF Loads, ResetPositions
  <2>2. Unacknowledged' = 0 /\ mpc' = "chunk"
    BY <2>1 DEF ResetPositions, Unacknowledged, Pending, wireVars, peerVars
  <2>3. Backlog' = (0 - 0) % Modulus
    BY DEF ResetPositions, Backlog
  <2>4. 0 \in 0 .. Modulus - 1 /\ Modulus \in Nat
    BY SoundDeviceAssumption
  <2>5. (0 - 0) % Modulus = 0
    BY <2>4, ModMinus
  <2> QED
    BY <2>2, <2>3, <2>5, SoundDeviceAssumption DEF Positions
<1>14. StreamAlive'
  BY <1>1, <1>2, SoundDeviceAssumption
  DEF StreamAlive, Loading, Loads, Phases, Unacknowledged, Pending, Before,
      ResetPositions, MainPCs, States, Goto
<1> QED
  BY <1>3, <1>4, <1>5, <1>6, <1>7, <1>8, <1>9, <1>10, <1>11, <1>12, <1>13,
     <1>14
  DEF SoundInv

(* WriteChunk in Start asks the application for a chunk.                     *)
LEMMA MainChunkStep ==
  ASSUME SoundInv, PlaybackSetting, cpu = "main", cpu' = cpu, MainChunk
  PROVE  SoundInv'
<1>1. /\ Types /\ Turns /\ Phases /\ Unopened /\ Frames /\ Requests /\ Packets
      /\ Heads /\ Loads /\ Refills /\ Positions /\ StreamAlive
  BY DEF SoundInv
<1>2. /\ CountOf(toPeer, "packet") \in Nat
      /\ CountOf(fromPeer, "complete") \in Nat
  BY <1>1, Counts
<1>3. Types'
  BY <1>1, <1>2, SoundDeviceAssumption
  DEF Types, MainChunk, MainPCs, States, Chunk, ChunkWritten, CallbackResults,
      Goto, mainVars, callVars, posVars, wireVars, peerVars, Contexts
<1>4. Turns'
  BY <1>1, <1>2, SoundDeviceAssumption
  DEF Turns, Phases, Opening, MainChunk, MainPCs, States, Chunk, ChunkWritten,
      CallbackResults, Goto
<1>5. Phases'
  BY <1>1, <1>2, SoundDeviceAssumption
  DEF Phases, Opening, Loading, Turns, MainChunk, MainPCs, States, Chunk,
      ChunkWritten, CallbackResults, Goto
<1>6. Unopened'
  BY <1>1, <1>2, SoundDeviceAssumption
  DEF Unopened, Phases, Opening, MainChunk, MainPCs, States, Chunk,
      ChunkWritten, CallbackResults, Goto
<1>7. Frames'
  BY <1>1, <1>2, SoundDeviceAssumption
  DEF Frames, MainChunk, MainPCs, States, Chunk, ChunkWritten, CallbackResults,
      Goto, mainVars, callVars, posVars, wireVars, peerVars, Types, Contexts
<1>8. Requests'
  BY <1>1, <1>2, SoundDeviceAssumption
  DEF Requests, Awaited, MainChunk, MainPCs, States, Chunk, ChunkWritten,
      CallbackResults, Goto, mainVars, callVars, posVars, wireVars, peerVars,
      Types, Contexts
<1>9. Packets'
  BY <1>1, <1>2, SoundDeviceAssumption
  DEF Packets, Playing, Phases, MainChunk, MainPCs, States, Chunk,
      ChunkWritten, CallbackResults, Goto, mainVars, callVars, posVars,
      wireVars, peerVars, Types, Contexts
<1>10. Heads'
  BY <1>1, <1>2, SoundDeviceAssumption
  DEF Heads, Phases, MainChunk, MainPCs, States, Chunk, ChunkWritten,
      CallbackResults, Goto, mainVars, callVars, posVars, wireVars, peerVars,
      Types, Contexts
<1>11. Loads'
  <2>1. /\ toPeer' = toPeer /\ Unacknowledged' = Unacknowledged
        /\ Unacknowledged \in Nat /\ Len(toPeer) \in Nat
    BY <1>1, <1>2, Elements
    DEF MainChunk, Unacknowledged, Pending, wireVars, peerVars, Types
  <2>2. mpc = "chunk" /\ mpc' \in {"chunk", "write", "idle"}
    BY DEF MainChunk, ChunkWritten, Goto
  <2>3. CASE mpc' = "chunk"
    <3>1. round = 1 /\ round' = 2 /\ state' = "Idle"
      BY <2>2, <2>3 DEF MainChunk, ChunkWritten, Goto, Chunk
    <3> QED
      BY <1>1, <2>1, <2>2, <2>3, <3>1, SoundDeviceAssumption
      DEF Loads, Before, Loading
  <2>4. CASE mpc' = "write"
    <3>1. round' = round /\ state' = state
      BY <2>2, <2>4 DEF MainChunk, ChunkWritten, Goto, Chunk
    <3> QED
      BY <1>1, <2>1, <2>2, <2>4, <3>1 DEF Loads, Before, Loading
  <2>5. CASE mpc' = "idle"
    BY <2>5 DEF Loads, Loading
  <2> QED
    BY <2>2, <2>3, <2>4, <2>5
<1>12. Refills'
  BY <1>1, <1>2, SoundDeviceAssumption
  DEF Refills, Unacknowledged, Pending, MainChunk, MainPCs, States, Chunk,
      ChunkWritten, CallbackResults, Goto, mainVars, callVars, posVars,
      wireVars, peerVars, Types, Contexts
<1>13. Positions'
  BY <1>1, <1>2, SoundDeviceAssumption
  DEF Positions, Playing, Phases, Unacknowledged, Pending, Backlog, MainChunk,
      MainPCs, States, Chunk, ChunkWritten, CallbackResults, Goto, mainVars,
      callVars, posVars, wireVars, peerVars, Types, Contexts
<1>14. StreamAlive'
  BY <1>1, <1>2, SoundDeviceAssumption
  DEF StreamAlive, Loading, Loads, Phases, Unacknowledged, Pending, Before,
      MainChunk, MainPCs, States, Chunk, ChunkWritten, CallbackResults, Goto,
      mainVars, callVars, posVars, wireVars, peerVars, Types, Contexts
<1> QED
  BY <1>3, <1>4, <1>5, <1>6, <1>7, <1>8, <1>9, <1>10, <1>11, <1>12, <1>13,
     <1>14
  DEF SoundInv

(* WriteChunk in Start moves m_nWritePos by the chunk it announced.          *)
LEMMA MainBumpStep ==
  ASSUME SoundInv, PlaybackSetting, cpu = "main", cpu' = cpu, MainBump
  PROVE  SoundInv'
<1>1. /\ Types /\ Turns /\ Phases /\ Unopened /\ Frames /\ Requests /\ Packets
      /\ Heads /\ Loads /\ Refills /\ Positions /\ StreamAlive
  BY DEF SoundInv
<1>2. /\ CountOf(toPeer, "packet") \in Nat
      /\ CountOf(fromPeer, "complete") \in Nat
  BY <1>1, Counts
<1>3. Types'
  BY <1>1, <1>2, SoundDeviceAssumption
  DEF Types, MainBump, MainPCs, States, Goto, mainVars, callVars, posVars,
      wireVars, peerVars, Contexts
<1>4. Turns'
  BY <1>1, <1>2, SoundDeviceAssumption
  DEF Turns, Phases, Opening, MainBump, MainPCs, States, Goto, mainVars
<1>5. Phases'
  BY <1>1, <1>2, SoundDeviceAssumption
  DEF Phases, Opening, Loading, Turns, MainBump, MainPCs, States, Goto,
      mainVars
<1>6. Unopened'
  BY <1>1, <1>2, SoundDeviceAssumption
  DEF Unopened, Phases, Opening, MainBump, MainPCs, States, Goto, mainVars
<1>7. Frames'
  BY <1>1, <1>2, SoundDeviceAssumption
  DEF Frames, MainBump, MainPCs, States, Goto, mainVars, callVars, posVars,
      wireVars, peerVars, Types, Contexts
<1>8. Requests'
  BY <1>1, <1>2, SoundDeviceAssumption
  DEF Requests, Awaited, MainBump, MainPCs, States, Goto, mainVars, callVars,
      posVars, wireVars, peerVars, Types, Contexts
<1>9. Packets'
  BY <1>1, <1>2, SoundDeviceAssumption
  DEF Packets, Playing, Phases, MainBump, MainPCs, States, Goto, mainVars,
      callVars, posVars, wireVars, peerVars, Types, Contexts
<1>10. Heads'
  BY <1>1, <1>2, SoundDeviceAssumption
  DEF Heads, Phases, MainBump, MainPCs, States, Goto, mainVars, callVars,
      posVars, wireVars, peerVars, Types, Contexts
<1>11. Loads'
  BY <1>1, <1>2, SoundDeviceAssumption
  DEF Loads, Frames, Before, Loading, Phases, Unacknowledged, Pending,
      MainBump, MainPCs, States, Goto, mainVars, callVars, posVars, wireVars,
      peerVars, Types, Contexts
<1>12. Refills'
  BY <1>1, <1>2, SoundDeviceAssumption
  DEF Refills, Unacknowledged, Pending, MainBump, MainPCs, States, Goto,
      mainVars, callVars, posVars, wireVars, peerVars, Types, Contexts
<1>13. Positions'
  <2>1. /\ Unacknowledged' = Unacknowledged /\ Unacknowledged \in Nat
        /\ mpc = "bump" /\ mpc' = "data" /\ state' = state
    BY <1>1, <1>2
    DEF MainBump, Goto, Unacknowledged, Pending, wireVars, peerVars, Types
  <2>2. SUFFICES ASSUME Playing
                 PROVE  Unacknowledged <= 2 * ChunkSize
                          /\ Backlog' = Unacknowledged
    BY <2>1 DEF Positions, Playing
  <2>3. /\ Unacknowledged <= 2 * ChunkSize
        /\ Backlog = Unacknowledged - left["main"]
    BY <1>1, <2>1, <2>2 DEF Positions
  <2>4. /\ writePos' = (writePos + left["main"]) % Modulus
        /\ completePos' = completePos
        /\ left["main"] \in 0 .. Modulus - 1
    BY <1>1, SoundDeviceAssumption DEF MainBump, Types, Contexts
  <2>5. ((writePos - completePos) % Modulus) + left["main"] < Modulus
    BY <1>1, <2>1, <2>3, <2>4, SoundDeviceAssumption DEF Backlog
  <2>6. Backlog' = ((writePos - completePos) % Modulus) + left["main"]
    BY <1>1, <2>4, <2>5, BacklogAdd DEF Types, Backlog
  <2> QED
    BY <2>1, <2>3, <2>4, <2>6, SoundDeviceAssumption DEF Backlog
<1>14. StreamAlive'
  BY <1>1, <1>2, SoundDeviceAssumption
  DEF StreamAlive, Loading, Loads, Phases, Unacknowledged, Pending, Before,
      MainBump, MainPCs, States, Goto
<1> QED
  BY <1>3, <1>4, <1>5, <1>6, <1>7, <1>8, <1>9, <1>10, <1>11, <1>12, <1>13,
     <1>14
  DEF SoundInv

(* The main thread gives up and returns: an error, or SetControl, or STOP. *)
LEMMA GiveUpStep ==
  ASSUME SoundInv, PlaybackSetting, cpu = "main", cpu' = cpu, ~ Awaited,
         mpc' = "idle", round' = round,
         frame' = IF mpc = "data" THEN 0 ELSE frame,
         \/ state' = "Error"
              /\ mpc \in (Opening \cup Loading \cup {"start", "running"})
                                         \ {"bump"}
         \/ state' = state /\ mpc \in {"setControl", "setControlWait", "stop"},
         event' \in BOOLEAN, result' \in {0, -1},
         UNCHANGED <<hpc, posVars, left, toPeer, framed, peerVars>>
  PROVE  SoundInv'
<1>1. /\ Types /\ Turns /\ Phases /\ Unopened /\ Frames /\ Requests /\ Packets
      /\ Heads /\ Loads /\ Refills /\ Positions /\ StreamAlive
  BY DEF SoundInv
<1>2. /\ CountOf(toPeer, "packet") \in Nat
      /\ CountOf(fromPeer, "complete") \in Nat
  BY <1>1, Counts
<1>3. Types'
  BY <1>1, <1>2, SoundDeviceAssumption
  DEF Types, MainPCs, States, posVars, peerVars, Contexts
<1>4. Turns'
  BY <1>1, <1>2, SoundDeviceAssumption DEF Turns
<1>5. Phases'
  BY <1>1, <1>2, SoundDeviceAssumption
  DEF Phases, Opening, Loading, Turns, MainPCs
<1>6. Unopened'
  BY <1>1, <1>2, SoundDeviceAssumption
  DEF Unopened, Phases, Opening, MainPCs, States
<1>7. Frames'
  BY <1>1, <1>2, SoundDeviceAssumption DEF Frames, Turns, MainPCs, States
<1>8. Requests'
  <2>1. toPeer' = toPeer /\ fromPeer' = fromPeer
    BY DEF wireVars, peerVars
  <2>2. /\ ~ Has(toPeer, {"config", "control"}) /\ ~ Has(fromPeer, {"result"})
        /\ Single(toPeer, fromPeer)
    BY <1>1 DEF Requests, Awaited
  <2>3. ~ Has(toPeer, {"config"})
    BY <2>2 DEF Has
  <2> QED
    BY <2>1, <2>2, <2>3 DEF Requests
<1>9. Packets'
  BY <1>1, <1>2, SoundDeviceAssumption
  DEF Packets, Playing, Phases, MainPCs, States, posVars, peerVars, Types,
      Contexts
<1>10. Heads'
  BY <1>1, <1>2, SoundDeviceAssumption
  DEF Heads, Phases, Opening, Loading, MainPCs, States, posVars, peerVars,
      Types, Contexts
<1>11. Loads'
  BY <1>1, <1>2, SoundDeviceAssumption
  DEF Loads, Frames, Before, Loading, Phases, Unacknowledged, Pending
<1>12. Refills'
  BY <1>1, <1>2, SoundDeviceAssumption
  DEF Refills, Unacknowledged, Pending, MainPCs, States, posVars, peerVars,
      Types, Contexts
<1>13. Positions'
  BY <1>1, <1>2, SoundDeviceAssumption
  DEF Positions, Playing, Phases, Unacknowledged, Pending, Backlog, MainPCs,
      States, posVars, peerVars, Types, Contexts
<1>14. StreamAlive'
  BY <1>1, <1>2, SoundDeviceAssumption
  DEF StreamAlive, Loading, Loads, Phases, Unacknowledged, Pending, Before,
      MainPCs, States, posVars, peerVars, Types, Contexts
<1> QED
  BY <1>3, <1>4, <1>5, <1>6, <1>7, <1>8, <1>9, <1>10, <1>11, <1>12, <1>13,
     <1>14
  DEF SoundInv

(* CallMessage takes the result it awaited.                                  *)
LEMMA AwaitedStep ==
  ASSUME SoundInv, PlaybackSetting, cpu = "main", cpu' = cpu, NEW from, NEW to,
         <<from, to>> \in {<<"configWait", "control">>,
                           <<"controlWait", "open">>,
                           <<"setControlWait", "idle">>},
         mpc = from, event, mpc' = to, round' = round, state' = state,
         UNCHANGED <<hpc, callVars, posVars, left, wireVars, peerVars>>
  PROVE  SoundInv'
<1>1. /\ Types /\ Turns /\ Phases /\ Unopened /\ Frames /\ Requests /\ Packets
      /\ Heads /\ Loads /\ Refills /\ Positions /\ StreamAlive
  BY DEF SoundInv
<1>2. /\ CountOf(toPeer, "packet") \in Nat
      /\ CountOf(fromPeer, "complete") \in Nat
  BY <1>1, Counts
<1>3. Types'
  BY <1>1, <1>2, SoundDeviceAssumption, Elements
  DEF Types, MainPCs, States, posVars, peerVars, wireVars, callVars, Contexts
<1>4. Turns'
  BY <1>1, <1>2, SoundDeviceAssumption, Elements DEF Turns
<1>5. Phases'
  BY <1>1, <1>2, SoundDeviceAssumption, Elements
  DEF Phases, Opening, Loading, Turns, MainPCs, States
<1>6. Unopened'
  BY <1>1, <1>2, SoundDeviceAssumption, Elements
  DEF Unopened, Phases, Opening, MainPCs, States, posVars, peerVars, wireVars,
      callVars, Types, Contexts
<1>7. Frames'
  BY <1>1, <1>2, SoundDeviceAssumption, Elements
  DEF Frames, Turns, MainPCs, States, posVars, peerVars, wireVars, callVars,
      Types, Contexts
<1>8. Requests'
  <2>1. toPeer' = toPeer /\ fromPeer' = fromPeer
    BY DEF wireVars, peerVars
  <2>2. /\ ~ Has(toPeer, {"config", "control"}) /\ ~ Has(fromPeer, {"result"})
        /\ Single(toPeer, fromPeer)
    BY <1>1 DEF Requests, Awaited
  <2>3. ~ Has(toPeer, {"config"})
    BY <2>2 DEF Has
  <2> QED
    BY <2>1, <2>2, <2>3 DEF Requests
<1>9. Packets'
  BY <1>1, <1>2, SoundDeviceAssumption, Elements
  DEF Packets, Playing, Phases, MainPCs, States, posVars, peerVars, wireVars,
      callVars, Types, Contexts
<1>10. Heads'
  BY <1>1, <1>2, SoundDeviceAssumption, Elements
  DEF Heads, States, posVars, peerVars, wireVars, callVars, Types, Contexts
<1>11. Loads'
  BY <1>1, <1>2, SoundDeviceAssumption, Elements
  DEF Loads, Frames, Before, Loading, Phases, Unacknowledged, Pending, MainPCs
<1>12. Refills'
  BY <1>1, <1>2, SoundDeviceAssumption, Elements
  DEF Refills, Unacknowledged, Pending, MainPCs, States, posVars, peerVars,
      wireVars, callVars, Types, Contexts
<1>13. Positions'
  BY <1>1, <1>2, SoundDeviceAssumption, Elements
  DEF Positions, Playing, Phases, Unacknowledged, Pending, Backlog, MainPCs,
      States, posVars, peerVars, wireVars, callVars, Types, Contexts
<1>14. StreamAlive'
  BY <1>1, <1>2, SoundDeviceAssumption, Elements
  DEF StreamAlive, Loading, Loads, Phases, Unacknowledged, Pending, Before,
      MainPCs, States, posVars, peerVars, wireVars, callVars, Types, Contexts
<1> QED
  BY <1>3, <1>4, <1>5, <1>6, <1>7, <1>8, <1>9, <1>10, <1>11, <1>12, <1>13,
     <1>14
  DEF SoundInv

(* Start sends OPEN.                                                         *)
LEMMA OpenedStep ==
  ASSUME SoundInv, PlaybackSetting, cpu = "main", cpu' = cpu, mpc = "open",
         Queue(Message("open", 0)), mpc' = "start",
         round' = round, state' = "Idle",
         UNCHANGED <<hpc, callVars, posVars, left, peerVars>>
  PROVE  SoundInv'
<1>1. /\ Types /\ Turns /\ Phases /\ Unopened /\ Frames /\ Requests /\ Packets
      /\ Heads /\ Loads /\ Refills /\ Positions /\ StreamAlive
  BY DEF SoundInv
<1>2. /\ CountOf(toPeer, "packet") \in Nat
      /\ CountOf(fromPeer, "complete") \in Nat
  BY <1>1, Counts
<1>3. /\ Len(toPeer) \in Nat /\ DOMAIN toPeer = 1 .. Len(toPeer)
      /\ \A i \in DOMAIN toPeer : toPeer[i] \in Sent
  BY <1>1, Elements
<1>4. "open" \in TxTypes /\ 0 \in 0 .. ChunkSize
  BY <1>1, SoundDeviceAssumption DEF TxTypes, Types
<1>5. /\ toPeer' \in Seq(Sent) /\ Len(toPeer') = Len(toPeer) + 1
      /\ frame' = frame /\ framed' /\ framed' \in BOOLEAN
      /\ CountOf(toPeer', "packet") = CountOf(toPeer, "packet")
  BY <1>1, <1>2, <1>4, QueueStep DEF Frames, Turns, Types
<1>6. /\ \A types : Has(toPeer', types)
           <=> Has(toPeer, types) \/ "open" \in types
      /\ Single(toPeer', fromPeer)
  BY <1>1, <1>4, QueueStep DEF Requests
<1>7. /\ Singles(toPeer')
      /\ Playing => Followed(toPeer', frame' > 0)
      /\ HeadsFirst(toPeer) /\ ~ Has(toPeer, {"packet"}) => HeadsFirst(toPeer')
  BY <1>1, <1>4, QueueStep DEF Packets, Frames, Turns
<1>8. ~ Has(toPeer, {"config", "control"})
  BY <1>1 DEF Requests, Awaited
<1>9. Len(toPeer) = 0 /\ CountOf(toPeer, "packet") = 0
  <2>1. \A i \in DOMAIN toPeer : toPeer[i].type \in TxTypes
    BY <1>3 DEF Sent
  <2>2. DOMAIN toPeer = {}
    BY <1>1, <1>8, <2>1 DEF Unopened, Phases, Opening, Has
  <2> QED
    BY <1>3, <2>2, CountNone
<1>10. unplayed = 0 /\ ~ Has(fromPeer, {"complete"})
  BY <1>1 DEF Unopened, Phases, Opening
<1>11. HeadsFirst(toPeer') /\ ~ Has(toPeer', TxTypes \ {"open"})
  <2>1. \A types : ~ Has(toPeer, types)
    BY <1>3, <1>9 DEF Has
  <2>2. HeadsFirst(toPeer)
    BY <1>1 DEF Heads
  <2> QED
    BY <1>6, <1>7, <2>1, <2>2
<1>12. CountOf(fromPeer, "complete") = 0
  BY <1>10, CountNone DEF Has
<1>13. Types'
  BY <1>1, <1>2, SoundDeviceAssumption, <1>5
  DEF Types, TxTypes, MainPCs, States, posVars, peerVars, callVars, Contexts
<1>14. Turns'
  BY <1>1, <1>2, SoundDeviceAssumption DEF Turns
<1>15. Phases'
  BY <1>1, <1>2, SoundDeviceAssumption
  DEF Phases, Opening, Loading, Turns, TxTypes, MainPCs, States
<1>16. Unopened'
  BY <1>1, <1>2, SoundDeviceAssumption, <1>6 DEF Unopened
<1>17. Frames'
  BY <1>1, <1>2, SoundDeviceAssumption, <1>5
  DEF Frames, Turns, TxTypes, MainPCs, States
<1>18. Requests'
  BY <1>1, <1>2, SoundDeviceAssumption, <1>6
  DEF Requests, Awaited, TxTypes, MainPCs, States, posVars, peerVars, callVars,
      Types, Contexts
<1>19. Packets'
  BY <1>1, <1>2, SoundDeviceAssumption, <1>7
  DEF Packets, Playing, Phases, TxTypes, MainPCs, States, posVars, peerVars,
      callVars, Types, Contexts
<1>20. Heads'
  BY <1>1, <1>2, SoundDeviceAssumption, <1>6, <1>7, <1>10, <1>11
  DEF Heads, Turns, Has, TxTypes, MainPCs, States, posVars, peerVars, callVars,
      Types, Contexts
<1>21. Loads'
  BY <1>1, <1>2, SoundDeviceAssumption, <1>3, <1>5, <1>9, <1>10, <1>12
  DEF Loads, Unacknowledged, Pending, Frames, Turns, Loading, TxTypes, MainPCs,
      States, posVars, peerVars, callVars, Types, Contexts
<1>22. Refills'
  BY <1>1, <1>2, SoundDeviceAssumption, <1>3, <1>5
  DEF Refills, Unacknowledged, Pending, Turns, TxTypes, MainPCs
<1>23. Positions'
  BY <1>1, <1>2, SoundDeviceAssumption, <1>5 DEF Positions, Playing
<1>24. StreamAlive'
  BY <1>1, <1>2, SoundDeviceAssumption, <1>5 DEF StreamAlive
<1> QED
  BY <1>13, <1>14, <1>15, <1>16, <1>17, <1>18, <1>19, <1>20, <1>21, <1>22,
     <1>23, <1>24
  DEF SoundInv

(* Start sends START.                                                        *)
LEMMA StartedStep ==
  ASSUME SoundInv, PlaybackSetting, cpu = "main", cpu' = cpu, mpc = "start",
         Queue(Message("start", 0)), mpc' = "running",
         round' = round, state' = state,
         UNCHANGED <<hpc, callVars, posVars, left, peerVars>>
  PROVE  SoundInv'
<1>1. /\ Types /\ Turns /\ Phases /\ Unopened /\ Frames /\ Requests /\ Packets
      /\ Heads /\ Loads /\ Refills /\ Positions /\ StreamAlive
  BY DEF SoundInv
<1>2. /\ CountOf(toPeer, "packet") \in Nat
      /\ CountOf(fromPeer, "complete") \in Nat
  BY <1>1, Counts
<1>3. /\ Len(toPeer) \in Nat /\ DOMAIN toPeer = 1 .. Len(toPeer)
      /\ \A i \in DOMAIN toPeer : toPeer[i] \in Sent
  BY <1>1, Elements
<1>4. "start" \in TxTypes /\ 0 \in 0 .. ChunkSize
  BY <1>1, SoundDeviceAssumption DEF TxTypes, Types
<1>5. /\ toPeer' \in Seq(Sent) /\ Len(toPeer') = Len(toPeer) + 1
      /\ frame' = frame /\ framed' /\ framed' \in BOOLEAN
      /\ CountOf(toPeer', "packet") = CountOf(toPeer, "packet")
  BY <1>1, <1>2, <1>4, QueueStep DEF Frames, Turns, Types
<1>6. /\ \A types : Has(toPeer', types)
           <=> Has(toPeer, types) \/ "start" \in types
      /\ Single(toPeer', fromPeer)
  BY <1>1, <1>4, QueueStep DEF Requests
<1>7. /\ Singles(toPeer')
      /\ Playing => Followed(toPeer', frame' > 0)
      /\ HeadsFirst(toPeer) /\ ~ Has(toPeer, {"packet"}) => HeadsFirst(toPeer')
  BY <1>1, <1>4, QueueStep DEF Packets, Frames, Turns
<1>8. unplayed = 0 /\ ~ Has(fromPeer, {"complete"})
  <2>1. unplayed = 0 /\ CountOf(fromPeer, "complete") = 0
    BY <1>1, <1>2 DEF Loads, Unacknowledged, Pending, Types
  <2> QED
    BY <1>1, <2>1, NoneComplete
<1>9. ~ Has(toPeer, {"packet"}) /\ ~ Has(toPeer, {"stop"})
  BY <1>1 DEF Heads, Has, TxTypes
<1>10. ~ Has(toPeer', TxTypes \ {"open", "start"})
  BY <1>1, <1>6 DEF Heads, Has, TxTypes
<1>11. Types'
  BY <1>1, <1>2, SoundDeviceAssumption, <1>5
  DEF Types, TxTypes, MainPCs, States, posVars, peerVars, callVars, Contexts
<1>12. Turns'
  BY <1>1, <1>2, SoundDeviceAssumption DEF Turns
<1>13. Phases'
  BY <1>1, <1>2, SoundDeviceAssumption
  DEF Phases, Opening, Loading, Turns, TxTypes, MainPCs, States
<1>14. Unopened'
  BY <1>1, <1>2, SoundDeviceAssumption, <1>6
  DEF Unopened, Phases, Opening, TxTypes, MainPCs, States
<1>15. Frames'
  BY <1>1, <1>2, SoundDeviceAssumption, <1>5
  DEF Frames, Turns, TxTypes, MainPCs, States
<1>16. Requests'
  BY <1>1, <1>2, SoundDeviceAssumption, <1>6
  DEF Requests, Awaited, TxTypes, MainPCs, States, posVars, peerVars, callVars,
      Types, Contexts
<1>17. Packets'
  BY <1>1, <1>2, SoundDeviceAssumption, <1>7
  DEF Packets, Playing, Phases, TxTypes, MainPCs, States, posVars, peerVars,
      callVars, Types, Contexts
<1>18. Heads'
  BY <1>1, <1>2, SoundDeviceAssumption, <1>6, <1>7, <1>8, <1>9, <1>10
  DEF Heads, Turns, TxTypes, MainPCs, States, posVars, peerVars, callVars,
      Types, Contexts
<1>19. Loads'
  BY <1>1, <1>2, SoundDeviceAssumption, <1>3, <1>5
  DEF Loads, Frames, Before, Loading, Phases, Unacknowledged, Pending, TxTypes,
      MainPCs, States, posVars, peerVars, callVars, Types, Contexts
<1>20. Refills'
  BY <1>1, <1>2, SoundDeviceAssumption, <1>3, <1>5
  DEF Refills, Unacknowledged, Pending, Turns, TxTypes, MainPCs
<1>21. Positions'
  BY <1>1, <1>2, SoundDeviceAssumption, <1>5
  DEF Positions, Playing, Phases, Unacknowledged, Pending, Backlog, TxTypes,
      MainPCs
<1>22. StreamAlive'
  BY <1>1, <1>2, SoundDeviceAssumption, <1>5
  DEF StreamAlive, Loading, Loads, Phases, Unacknowledged, Pending, Before,
      TxTypes
<1> QED
  BY <1>11, <1>12, <1>13, <1>14, <1>15, <1>16, <1>17, <1>18, <1>19, <1>20,
     <1>21, <1>22
  DEF SoundInv

(* CallMessage sends its request, with the flag cleared.                     *)
LEMMA RequestStep ==
  ASSUME SoundInv, PlaybackSetting, cpu = "main", cpu' = cpu, NEW from,
         NEW type, NEW to,
         <<from, type, to>> \in {<<"config", "config", "configWait">>,
                                 <<"control", "control", "controlWait">>,
                                 <<"setControl", "control",
                                   "setControlWait">>},
         mpc = from, event' \in {FALSE}, Queue(Message(type, 0)), mpc' = to,
         round' = round, state' = state, result' = result,
         UNCHANGED <<hpc, posVars, left, peerVars>>
  PROVE  SoundInv'
<1>1. /\ Types /\ Turns /\ Phases /\ Unopened /\ Frames /\ Requests /\ Packets
      /\ Heads /\ Loads /\ Refills /\ Positions /\ StreamAlive
  BY DEF SoundInv
<1>2. /\ CountOf(toPeer, "packet") \in Nat
      /\ CountOf(fromPeer, "complete") \in Nat
  BY <1>1, Counts
<1>3. /\ Len(toPeer) \in Nat /\ DOMAIN toPeer = 1 .. Len(toPeer)
      /\ \A i \in DOMAIN toPeer : toPeer[i] \in Sent
  BY <1>1, Elements
<1>4. type \in TxTypes /\ 0 \in 0 .. ChunkSize
  BY <1>1, SoundDeviceAssumption DEF TxTypes, Types
<1>5. /\ toPeer' \in Seq(Sent) /\ Len(toPeer') = Len(toPeer) + 1
      /\ frame' = frame /\ framed' /\ framed' \in BOOLEAN
      /\ CountOf(toPeer', "packet") = CountOf(toPeer, "packet")
  BY <1>1, <1>2, <1>4, QueueStep DEF Frames, Turns, Types
<1>6. /\ \A types : Has(toPeer', types)
           <=> Has(toPeer, types) \/ type \in types
      /\ Single(toPeer', fromPeer)
  BY <1>1, <1>4, QueueStep DEF Requests, Awaited
<1>7. /\ Singles(toPeer')
      /\ Playing => Followed(toPeer', frame' > 0)
      /\ HeadsFirst(toPeer)  => HeadsFirst(toPeer')
  BY <1>1, <1>4, QueueStep DEF Packets, Frames, Turns
<1>8. Types'
  BY <1>1, <1>2, SoundDeviceAssumption, <1>5
  DEF Types, TxTypes, MainPCs, States, posVars, peerVars, Contexts
<1>9. Turns'
  BY <1>1, <1>2, SoundDeviceAssumption
  DEF Turns, Phases, Opening, TxTypes, MainPCs
<1>10. Phases'
  BY <1>1, <1>2, SoundDeviceAssumption
  DEF Phases, Opening, Loading, Turns, TxTypes, MainPCs
<1>11. Unopened'
  BY <1>1, <1>2, SoundDeviceAssumption, <1>6
  DEF Unopened, Phases, Opening, TxTypes, MainPCs, States, posVars, peerVars,
      Types, Contexts
<1>12. Frames'
  BY <1>1, <1>2, SoundDeviceAssumption, <1>5
  DEF Frames, Turns, TxTypes, MainPCs
<1>13. Requests'
  BY <1>1, <1>2, SoundDeviceAssumption, <1>6
  DEF Requests, Awaited, TxTypes, MainPCs, States, posVars, peerVars, Types,
      Contexts
<1>14. Packets'
  BY <1>1, <1>2, SoundDeviceAssumption, <1>7
  DEF Packets, Playing, Phases, TxTypes, MainPCs, States, posVars, peerVars,
      Types, Contexts
<1>15. Heads'
  BY <1>1, <1>2, SoundDeviceAssumption, <1>6, <1>7
  DEF Heads, Phases, TxTypes, MainPCs, States, posVars, peerVars, Types,
      Contexts
<1>16. Loads'
  BY DEF Loads, Frames, Before, Loading, Phases, Unacknowledged, Pending
<1>17. Refills'
  BY <1>1 DEF Refills, Unacknowledged, Pending, Turns, TxTypes
<1>18. Positions'
  BY <1>1, <1>2, SoundDeviceAssumption, <1>5
  DEF Positions, Playing, Phases, Unacknowledged, Pending, Backlog, TxTypes,
      MainPCs, States, posVars, peerVars, Types, Contexts
<1>19. StreamAlive'
  BY <1>1, <1>2, SoundDeviceAssumption, <1>5
  DEF StreamAlive, Loading, Loads, Phases, Unacknowledged, Pending, Before,
      TxTypes, MainPCs, States, posVars, peerVars, Types, Contexts
<1> QED
  BY <1>8, <1>9, <1>10, <1>11, <1>12, <1>13, <1>14, <1>15, <1>16, <1>17, <1>18,
     <1>19
  DEF SoundInv

(* Cancel sends STOP.                                                        *)
LEMMA StopStep ==
  ASSUME SoundInv, PlaybackSetting, cpu = "main", cpu' = cpu, mpc = "stop",
         Queue(Message("stop", 0)), mpc' = "stopped",
         round' = round, state' = state,
         UNCHANGED <<hpc, callVars, posVars, left, peerVars>>
  PROVE  SoundInv'
<1>1. /\ Types /\ Turns /\ Phases /\ Unopened /\ Frames /\ Requests /\ Packets
      /\ Heads /\ Loads /\ Refills /\ Positions /\ StreamAlive
  BY DEF SoundInv
<1>2. /\ CountOf(toPeer, "packet") \in Nat
      /\ CountOf(fromPeer, "complete") \in Nat
  BY <1>1, Counts
<1>3. /\ Len(toPeer) \in Nat /\ DOMAIN toPeer = 1 .. Len(toPeer)
      /\ \A i \in DOMAIN toPeer : toPeer[i] \in Sent
  BY <1>1, Elements
<1>4. "stop" \in TxTypes /\ 0 \in 0 .. ChunkSize
  BY <1>1, SoundDeviceAssumption DEF TxTypes, Types
<1>5. /\ toPeer' \in Seq(Sent) /\ Len(toPeer') = Len(toPeer) + 1
      /\ frame' = frame /\ framed' /\ framed' \in BOOLEAN
      /\ CountOf(toPeer', "packet") = CountOf(toPeer, "packet")
  BY <1>1, <1>2, <1>4, QueueStep DEF Frames, Turns, Types
<1>6. /\ \A types : Has(toPeer', types)
           <=> Has(toPeer, types) \/ "stop" \in types
      /\ Single(toPeer', fromPeer)
  BY <1>1, <1>4, QueueStep DEF Requests
<1>7. /\ Singles(toPeer')
      /\ Playing => Followed(toPeer', frame' > 0)
      /\ HeadsFirst(toPeer)  => HeadsFirst(toPeer')
  BY <1>1, <1>4, QueueStep DEF Packets, Frames, Turns
<1>8. Types'
  BY <1>1, <1>2, SoundDeviceAssumption, <1>5
  DEF Types, TxTypes, MainPCs, States, posVars, peerVars, callVars, Contexts
<1>9. Turns'
  BY <1>1, <1>2, SoundDeviceAssumption DEF Turns
<1>10. Phases'
  BY <1>1, <1>2, SoundDeviceAssumption
  DEF Phases, Opening, Loading, Turns, TxTypes, MainPCs, States
<1>11. Unopened'
  BY <1>1, <1>2, SoundDeviceAssumption, <1>6
  DEF Unopened, Phases, Opening, TxTypes, MainPCs, States
<1>12. Frames'
  BY <1>1, <1>2, SoundDeviceAssumption, <1>5
  DEF Frames, Turns, TxTypes, MainPCs, States
<1>13. Requests'
  BY <1>1, <1>2, SoundDeviceAssumption, <1>6
  DEF Requests, Awaited, TxTypes, MainPCs, States, posVars, peerVars, callVars,
      Types, Contexts
<1>14. Packets'
  BY <1>1, <1>2, SoundDeviceAssumption, <1>7
  DEF Packets, Playing, Phases, TxTypes, MainPCs, States, posVars, peerVars,
      callVars, Types, Contexts
<1>15. Heads'
  BY <1>1, <1>2, SoundDeviceAssumption, <1>6, <1>7
  DEF Heads, Phases, TxTypes, MainPCs, States, posVars, peerVars, callVars,
      Types, Contexts
<1>16. Loads'
  BY <1>1, <1>2, SoundDeviceAssumption, <1>3, <1>5
  DEF Loads, Frames, Before, Loading, Phases, Unacknowledged, Pending, TxTypes
<1>17. Refills'
  BY <1>1, <1>2, SoundDeviceAssumption, <1>3, <1>5
  DEF Refills, Unacknowledged, Pending, Turns, TxTypes, MainPCs
<1>18. Positions'
  BY <1>1, <1>2, SoundDeviceAssumption, <1>5 DEF Positions, Playing
<1>19. StreamAlive'
  BY <1>1, <1>2, SoundDeviceAssumption, <1>5
  DEF StreamAlive, Loading, Loads, Phases, Unacknowledged, Pending, Before,
      TxTypes
<1> QED
  BY <1>8, <1>9, <1>10, <1>11, <1>12, <1>13, <1>14, <1>15, <1>16, <1>17, <1>18,
     <1>19
  DEF SoundInv

(* WriteChunk in Start sends WRITE.                                          *)
LEMMA WriteStep ==
  ASSUME SoundInv, PlaybackSetting, cpu = "main", cpu' = cpu, mpc = "write",
         Queue(Message("write", left["main"])),
         mpc' = "bump", round' = round, state' = state,
         UNCHANGED <<hpc, callVars, posVars, left, peerVars>>
  PROVE  SoundInv'
<1>1. /\ Types /\ Turns /\ Phases /\ Unopened /\ Frames /\ Requests /\ Packets
      /\ Heads /\ Loads /\ Refills /\ Positions /\ StreamAlive
  BY DEF SoundInv
<1>2. /\ CountOf(toPeer, "packet") \in Nat
      /\ CountOf(fromPeer, "complete") \in Nat
  BY <1>1, Counts
<1>3. /\ Len(toPeer) \in Nat /\ DOMAIN toPeer = 1 .. Len(toPeer)
      /\ \A i \in DOMAIN toPeer : toPeer[i] \in Sent
  BY <1>1, Elements
<1>4. "write" \in TxTypes /\ left["main"] \in 0 .. ChunkSize
  BY <1>1, SoundDeviceAssumption DEF TxTypes, Types
<1>5. /\ toPeer' \in Seq(Sent) /\ Len(toPeer') = Len(toPeer) + 1
      /\ frame' = left["main"] /\ framed' /\ framed' \in BOOLEAN
      /\ CountOf(toPeer', "packet") = CountOf(toPeer, "packet")
  BY <1>1, <1>2, <1>4, QueueStep DEF Frames, Turns, Types
<1>6. /\ \A types : Has(toPeer', types)
           <=> Has(toPeer, types) \/ "write" \in types
      /\ Single(toPeer', fromPeer)
  BY <1>1, <1>4, QueueStep DEF Requests
<1>7. /\ Singles(toPeer')
      /\ Playing => Followed(toPeer', frame' > 0)
      /\ HeadsFirst(toPeer)  => HeadsFirst(toPeer')
  BY <1>1, <1>4, QueueStep DEF Packets, Frames, Turns
<1>8. Types'
  BY <1>1, <1>2, SoundDeviceAssumption, <1>5
  DEF Types, TxTypes, MainPCs, States, posVars, peerVars, callVars, Contexts
<1>9. Turns'
  BY <1>1, <1>2, SoundDeviceAssumption DEF Turns
<1>10. Phases'
  BY <1>1, <1>2, SoundDeviceAssumption
  DEF Phases, Opening, Loading, Turns, TxTypes, MainPCs, States
<1>11. Unopened'
  BY <1>1, <1>2, SoundDeviceAssumption, <1>6
  DEF Unopened, Phases, Opening, TxTypes, MainPCs, States
<1>12. Frames'
  BY <1>1, <1>2, SoundDeviceAssumption, <1>5
  DEF Frames, Turns, TxTypes, MainPCs, States
<1>13. Requests'
  BY <1>1, <1>2, SoundDeviceAssumption, <1>6
  DEF Requests, Awaited, TxTypes, MainPCs, States, posVars, peerVars, callVars,
      Types, Contexts
<1>14. Packets'
  BY <1>1, <1>2, SoundDeviceAssumption, <1>7
  DEF Packets, Playing, Phases, TxTypes, MainPCs, States, posVars, peerVars,
      callVars, Types, Contexts
<1>15. Heads'
  BY <1>1, <1>2, SoundDeviceAssumption, <1>6, <1>7
  DEF Heads, Phases, TxTypes, MainPCs, States, posVars, peerVars, callVars,
      Types, Contexts
<1>16. Loads'
  <2>1. /\ Len(toPeer) <= 2 + Before(ChunkSize + 1)
        /\ Unacknowledged <= Before(ChunkSize)
        /\ Unacknowledged \in Nat
    BY <1>1, <1>2 DEF Loads, Unacknowledged, Pending, Types
  <2>2. Unacknowledged' = Unacknowledged + left["main"]
          /\ left["main"] \in 1 .. ChunkSize
    BY <1>1, <1>2, <1>5
    DEF Unacknowledged, Pending, peerVars, Types, Contexts, Frames, Turns
  <2>3. \A n : Before(n)' = Before(n)
    BY DEF Before
  <2>4. Before(ChunkSize + 1) \in Nat /\ Before(ChunkSize) \in Nat
    BY SoundDeviceAssumption DEF Before
  <2> QED
    BY SMTT(30), <1>3, <1>5, <2>1, <2>2, <2>3, <2>4, SoundDeviceAssumption
    DEF Loads, Loading
<1>17. Refills'
  BY <1>1, <1>2, SoundDeviceAssumption, <1>3, <1>5
  DEF Refills, Unacknowledged, Pending, Turns, TxTypes, MainPCs
<1>18. Positions'
  BY <1>1, <1>2, SoundDeviceAssumption, <1>5
  DEF Positions, Playing, Phases, Unacknowledged, Pending, Backlog, Loads,
      Frames, Turns, Before, Loading, TxTypes, MainPCs, States, posVars,
      peerVars, callVars, Types, Contexts
<1>19. StreamAlive'
  BY <1>1, <1>2, SoundDeviceAssumption, <1>5 DEF StreamAlive
<1> QED
  BY <1>8, <1>9, <1>10, <1>11, <1>12, <1>13, <1>14, <1>15, <1>16, <1>17, <1>18,
     <1>19
  DEF SoundInv

(* WriteChunk in Start sends a packet, and after the last one goes on.       *)
LEMMA DataStep ==
  ASSUME SoundInv, PlaybackSetting, cpu = "main", cpu' = cpu, mpc = "data",
         Queue(Message("packet", 1)),
         left' = [left EXCEPT !["main"] = @ - 1],
         IF left["main"] = 1 THEN ChunkWritten
           ELSE mpc' = mpc /\ round' = round,
         state' = state,
         UNCHANGED <<hpc, callVars, posVars, peerVars>>
  PROVE  SoundInv'
<1>1. /\ Types /\ Turns /\ Phases /\ Unopened /\ Frames /\ Requests /\ Packets
      /\ Heads /\ Loads /\ Refills /\ Positions /\ StreamAlive
  BY DEF SoundInv
<1>2. /\ CountOf(toPeer, "packet") \in Nat
      /\ CountOf(fromPeer, "complete") \in Nat
  BY <1>1, Counts
<1>3. /\ Len(toPeer) \in Nat /\ DOMAIN toPeer = 1 .. Len(toPeer)
      /\ \A i \in DOMAIN toPeer : toPeer[i] \in Sent
  BY <1>1, Elements
<1>4. "packet" \in TxTypes /\ 1 \in 0 .. ChunkSize
  BY <1>1, SoundDeviceAssumption DEF TxTypes, Types
<1>5. /\ toPeer' \in Seq(Sent) /\ Len(toPeer') = Len(toPeer) + 1
      /\ frame' = frame - 1 /\ framed' /\ framed' \in BOOLEAN
      /\ CountOf(toPeer', "packet") = CountOf(toPeer, "packet") + 1
  BY <1>1, <1>2, <1>4, QueueStep DEF Frames, Turns, Types
<1>6. /\ \A types : Has(toPeer', types)
           <=> Has(toPeer, types) \/ "packet" \in types
      /\ Single(toPeer', fromPeer)
  BY <1>1, <1>4, QueueStep DEF Requests
<1>7. /\ Singles(toPeer')
      /\ Playing => Followed(toPeer', frame' > 0)
      /\ HeadsFirst(toPeer)  => HeadsFirst(toPeer')
  BY <1>1, <1>4, QueueStep DEF Packets, Frames, Turns
<1>8. Types'
  BY <1>1, <1>2, SoundDeviceAssumption, <1>5
  DEF Types, Frames, TxTypes, MainPCs, States, posVars, peerVars, callVars,
      ChunkWritten, Goto, Contexts
<1>9. Turns'
  BY <1>1, <1>2, SoundDeviceAssumption DEF Turns
<1>10. Phases'
  BY <1>1, <1>2, SoundDeviceAssumption
  DEF Phases, Opening, Loading, Turns, TxTypes, MainPCs, States, posVars,
      peerVars, callVars, ChunkWritten, Goto, Types, Contexts
<1>11. Unopened'
  BY <1>1, <1>2, SoundDeviceAssumption, <1>6
  DEF Unopened, Phases, Opening, TxTypes, MainPCs, States, posVars
<1>12. Frames'
  BY <1>1, <1>2, SoundDeviceAssumption, <1>5
  DEF Frames, Turns, TxTypes, MainPCs, States, posVars, peerVars, callVars,
      ChunkWritten, Goto, Types, Contexts
<1>13. Requests'
  BY <1>1, <1>2, SoundDeviceAssumption, <1>6
  DEF Requests, Awaited, TxTypes, MainPCs, States, posVars, peerVars, callVars,
      ChunkWritten, Goto, Types, Contexts
<1>14. Packets'
  BY <1>1, <1>2, SoundDeviceAssumption, <1>7
  DEF Packets, Playing, Phases, TxTypes, MainPCs, States, posVars, peerVars,
      callVars, ChunkWritten, Goto, Types, Contexts
<1>15. Heads'
  BY <1>1, <1>2, SoundDeviceAssumption, <1>6, <1>7
  DEF Heads, Phases, TxTypes, MainPCs, States, posVars, peerVars, callVars,
      ChunkWritten, Goto, Types, Contexts
<1>16. Loads'
  <2>1. left["main"] \in 1 .. ChunkSize /\ frame = left["main"]
    BY <1>1, SoundDeviceAssumption DEF Frames, Types, Contexts
  <2>2. /\ Len(toPeer) + left["main"] <= 3 + ChunkSize + Before(ChunkSize + 1)
        /\ Unacknowledged <= ChunkSize + Before(ChunkSize)
    BY <1>1 DEF Loads
  <2>3. /\ Unacknowledged' = Unacknowledged /\ Unacknowledged > 0
        /\ Unacknowledged \in Nat
    <3>1. fromPeer' = fromPeer /\ unplayed' = unplayed /\ unplayed \in Nat
      BY <1>1 DEF peerVars, Types
    <3>2. frame \in Nat /\ frame > 0 /\ frame' = frame - 1
      BY <1>5, <2>1, SoundDeviceAssumption
    <3> QED
      BY <1>2, <1>5, <3>1, <3>2 DEF Unacknowledged, Pending
  <2>4. left'["main"] = left["main"] - 1
    BY <1>1 DEF Types, Contexts
  <2>5. CASE left["main"] = 1 /\ round = 1
    <3>1. mpc' = "chunk" /\ round' = 2
      BY <2>5 DEF ChunkWritten
    <3> QED
      BY <1>3, <1>5, <2>2, <2>3, <2>5, <3>1, SoundDeviceAssumption
      DEF Loads, Loading, Before
  <2>6. CASE left["main"] = 1 /\ round # 1
    <3>1. mpc' = "idle"
      BY <2>6 DEF ChunkWritten, Goto
    <3> QED
      BY <3>1 DEF Loads, Loading
  <2>7. CASE left["main"] # 1
    <3>1. mpc' = "data" /\ round' = round
      BY <2>7
    <3> QED
      BY <1>3, <1>5, <2>1, <2>2, <2>3, <2>4, <3>1, SoundDeviceAssumption
      DEF Loads, Loading, Before
  <2> QED
    BY <2>5, <2>6, <2>7
<1>17. Refills'
  BY <1>1, <1>2, SoundDeviceAssumption, <1>3, <1>5
  DEF Refills, Unacknowledged, Pending, Turns, TxTypes, MainPCs, States
<1>18. Positions'
  <2>1. mpc' # "bump"
    BY DEF ChunkWritten, Goto
  <2>2. Unacknowledged' = Unacknowledged
    BY <1>1, <1>2, <1>5
    DEF Unacknowledged, Pending, peerVars, Types, Contexts, Frames
  <2>3. Backlog' = Backlog
    BY DEF Backlog, posVars
  <2> QED
    BY <1>1, <2>1, <2>2, <2>3 DEF Positions, Playing
<1>19. StreamAlive'
  BY <1>1, <1>2, SoundDeviceAssumption, <1>5
  DEF StreamAlive, Loading, Loads, Phases, Unacknowledged, Pending, Before,
      TxTypes, MainPCs, States, posVars, peerVars, callVars, ChunkWritten,
      Goto, Types, Contexts
<1> QED
  BY <1>8, <1>9, <1>10, <1>11, <1>12, <1>13, <1>14, <1>15, <1>16, <1>17, <1>18,
     <1>19
  DEF SoundInv

(* A message of the device is read by the service.                           *)
-------------------------------------------------------------------------------
(* The service, and what the callback takes                                  *)

(* What taking the head of the queue does to the order, the kinds and the    *)
(* packets of the rest.                                                      *)
LEMMA TakeStep ==
  ASSUME Types, toPeer # <<>>, toPeer' = Tail(toPeer)
  PROVE  /\ toPeer' \in Seq(Sent) /\ Len(toPeer') = Len(toPeer) - 1
         /\ Len(toPeer) \in Nat /\ Len(toPeer') \in Nat
         /\ Head(toPeer) \in Sent
         /\ CountOf(toPeer, "packet") = CountOf(toPeer', "packet")
              + (IF Head(toPeer).type = "packet" THEN Head(toPeer).packets
                ELSE 0)
         /\ CountOf(toPeer', "packet") \in Nat
         /\ \A types : Has(toPeer, types) <=>
              Has(toPeer', types) \/ Head(toPeer).type \in types
         /\ Singles(toPeer) => Singles(toPeer')
         /\ Singles(toPeer) /\ Head(toPeer).type = "packet"
              => Head(toPeer).packets = 1
         /\ Followed(toPeer, frame > 0) => Followed(toPeer', frame > 0)
         /\ HeadsFirst(toPeer) => HeadsFirst(toPeer')
         /\ HeadsFirst(toPeer) /\ Head(toPeer).type = "packet"
              => ~ Has(toPeer', {"open", "start"})
         /\ Single(toPeer, fromPeer) => Single(toPeer', fromPeer)
         /\ Single(toPeer, fromPeer)
              /\ Head(toPeer).type \in {"config", "control"}
              => ~ Has(toPeer', {"config", "control"})
                /\ ~ Has(fromPeer, {"result"})
<1>1. Countable(Sent)
  BY SoundDeviceAssumption DEF Countable, Sent
<1>2. toPeer \in Seq(Sent)
  BY DEF Types
<1>3. /\ toPeer' \in Seq(Sent) /\ Len(toPeer) \in Nat \ {0}
      /\ Len(toPeer') = Len(toPeer) - 1
      /\ DOMAIN toPeer = 1 .. Len(toPeer)
      /\ DOMAIN toPeer' = 1 .. Len(toPeer) - 1
      /\ Head(toPeer) = toPeer[1] /\ toPeer[1] \in Sent
      /\ \A i \in 1 .. Len(toPeer) - 1 : toPeer'[i] = toPeer[i + 1]
  BY <1>2
<1>4. CountOf(toPeer, "packet") = CountOf(Tail(toPeer), "packet")
        + (IF Head(toPeer).type = "packet" THEN Head(toPeer).packets ELSE 0)
  BY <1>1, <1>2, CountTail
<1>5. CountOf(toPeer', "packet") \in Nat
  BY <1>1, <1>3, PacketsFinite
<1>6. ASSUME NEW types
      PROVE  Has(toPeer, types)
               <=> Has(toPeer', types) \/ toPeer[1].type \in types
  <2>1. ASSUME NEW i \in DOMAIN toPeer, toPeer[i].type \in types, i # 1
        PROVE  Has(toPeer', types)
    <3>1. i - 1 \in DOMAIN toPeer' /\ toPeer'[i - 1] = toPeer[i]
      BY <1>3, <2>1
    <3> QED
      BY <2>1, <3>1 DEF Has
  <2>2. ASSUME NEW i \in DOMAIN toPeer', toPeer'[i].type \in types
        PROVE  Has(toPeer, types)
    <3>1. i + 1 \in DOMAIN toPeer /\ toPeer'[i] = toPeer[i + 1]
      BY <1>3
    <3> QED
      BY <2>2, <3>1 DEF Has
  <2> QED
    BY <1>3, <2>1, <2>2 DEF Has
<1>7. ASSUME Singles(toPeer)
      PROVE  Singles(toPeer')
               /\ (toPeer[1].type = "packet" => toPeer[1].packets = 1)
  BY <1>3, <1>7 DEF Singles
<1>8. ASSUME Followed(toPeer, frame > 0)
      PROVE  Followed(toPeer', frame > 0)
  <2> SUFFICES ASSUME NEW i \in DOMAIN toPeer', toPeer'[i].type = "write"
               PROVE  IF i = Len(toPeer') THEN frame > 0
                                          ELSE toPeer'[i + 1].type = "packet"
    BY DEF Followed
  <2>1. i + 1 \in DOMAIN toPeer /\ toPeer[i + 1].type = "write"
    BY <1>3
  <2>2. IF i + 1 = Len(toPeer) THEN frame > 0
                               ELSE toPeer[(i + 1) + 1].type = "packet"
    BY <1>8, <2>1 DEF Followed
  <2> QED
    BY <1>3, <2>2
<1>9. ASSUME HeadsFirst(toPeer)
      PROVE  /\ HeadsFirst(toPeer')
             /\ toPeer[1].type = "packet" => ~ Has(toPeer', {"open", "start"})
  <2>1. HeadsFirst(toPeer')
    BY <1>3, <1>9 DEF HeadsFirst
  <2>2. ASSUME NEW i \in DOMAIN toPeer', toPeer'[i].type \in {"open", "start"}
        PROVE  toPeer[1].type # "packet"
    <3>1. 1 \in DOMAIN toPeer /\ i + 1 \in DOMAIN toPeer /\ 1 < i + 1
          /\ toPeer[i + 1].type \in {"open", "start"}
      BY <1>3, <2>2
    <3> QED
      BY <1>9, <3>1 DEF HeadsFirst
  <2> QED
    BY <2>1, <2>2 DEF Has
<1>10. ASSUME Single(toPeer, fromPeer)
       PROVE  /\ Single(toPeer', fromPeer)
              /\ toPeer[1].type \in {"config", "control"} =>
                   ~ Has(toPeer', {"config", "control"})
                     /\ ~ Has(fromPeer, {"result"})
  <2>1. \A i, j \in DOMAIN toPeer :
          {toPeer[i].type, toPeer[j].type} \subseteq {"config", "control"}
            => i = j
    BY <1>10 DEF Single
  <2>2. \A i, j \in DOMAIN toPeer' :
          {toPeer'[i].type, toPeer'[j].type} \subseteq {"config", "control"}
            => i = j
    <3> TAKE i, j \in DOMAIN toPeer'
    <3>1. i + 1 \in DOMAIN toPeer /\ j + 1 \in DOMAIN toPeer
          /\ toPeer'[i] = toPeer[i + 1] /\ toPeer'[j] = toPeer[j + 1]
      BY <1>3
    <3>2. {toPeer[i + 1].type, toPeer[j + 1].type} \subseteq {"config",
                                                              "control"}
            => i + 1 = j + 1
      BY <2>1, <3>1
    <3> QED
      BY <1>3, <3>1, <3>2
  <2>3. Has(toPeer', {"config", "control"})
          => Has(toPeer, {"config", "control"})
    BY <1>6
  <2>4. Single(toPeer', fromPeer)
    BY <1>10, <2>2, <2>3 DEF Single
  <2>5. ASSUME toPeer[1].type \in {"config", "control"},
               NEW i \in DOMAIN toPeer',
               toPeer'[i].type \in {"config", "control"}
        PROVE  FALSE
    <3>1. i + 1 \in DOMAIN toPeer /\ 1 \in DOMAIN toPeer /\ i + 1 # 1
          /\ toPeer[i + 1].type \in {"config", "control"}
      BY <1>3, <2>5
    <3> QED
      BY <2>1, <2>5, <3>1
  <2>6. toPeer[1].type \in {"config", "control"}
          => Has(toPeer, {"config", "control"})
    BY <1>6
  <2> QED
    BY <1>10, <2>4 DEF Single, Has
<1>11. CountOf(toPeer, "packet") = CountOf(toPeer', "packet")
         + (IF toPeer[1].type = "packet" THEN toPeer[1].packets ELSE 0)
  BY <1>3, <1>4
<1> QED
  BY <1>3, <1>5, <1>6, <1>7, <1>8, <1>9, <1>10, <1>11

(* The service answers.                                                      *)
LEMMA AnswerStep ==
  ASSUME Types, NEW type \in {"result", "complete"}, NEW n \in Nat,
         NEW r \in {0, -1},
         fromPeer' = Append(fromPeer, Reply(type, n, r))
  PROVE  /\ fromPeer' \in Seq(Answer)
         /\ CountOf(fromPeer', "complete") =
              CountOf(fromPeer, "complete")
                + (IF type = "complete" THEN n ELSE 0)
         /\ \A types : Has(fromPeer', types)
              <=> Has(fromPeer, types) \/ type \in types
         /\ Packets /\ (type = "complete" => n > 0) =>
              \A i \in DOMAIN fromPeer' :
                fromPeer'[i].type = "complete" => fromPeer'[i].packets > 0
         /\ \A sent : Single(sent, fromPeer) /\ type # "result"
              => Single(sent, fromPeer')
         /\ \A sent : ~ Has(sent, {"config", "control"})
              /\ ~ Has(fromPeer, {"result"})
                        => Single(sent, fromPeer')
<1> DEFINE m == Reply(type, n, r)
<1>1. Countable(Answer)
  BY DEF Countable, Answer
<1>2. m \in Answer /\ m.type = type /\ m.packets = n
  BY DEF Answer, Reply
<1>3. fromPeer \in Seq(Answer) /\ fromPeer' = Append(fromPeer, m)
  BY DEF Types
<1> HIDE DEF m
<1>4. CountOf(Append(fromPeer, m), "complete") = CountOf(fromPeer, "complete")
        + (IF m.type = "complete" THEN m.packets ELSE 0)
  BY <1>1, <1>2, <1>3, CountAppend
<1>5. /\ fromPeer' \in Seq(Answer)
      /\ DOMAIN fromPeer' = 1 .. Len(fromPeer) + 1
      /\ DOMAIN fromPeer = 1 .. Len(fromPeer) /\ Len(fromPeer) \in Nat
      /\ \A i \in DOMAIN fromPeer : fromPeer'[i] = fromPeer[i]
      /\ fromPeer'[Len(fromPeer) + 1] = m
  BY <1>2, <1>3
<1>6. ASSUME NEW types
      PROVE  Has(fromPeer', types) <=> Has(fromPeer, types) \/ type \in types
  <2>1. ASSUME Has(fromPeer', types), type \notin types
        PROVE  Has(fromPeer, types)
    BY <1>2, <1>5, <2>1 DEF Has
  <2>2. ASSUME Has(fromPeer, types)
        PROVE  Has(fromPeer', types)
    BY <1>5, <2>2 DEF Has
  <2>3. ASSUME type \in types
        PROVE  Has(fromPeer', types)
    BY <1>2, <1>5, <2>3 DEF Has
  <2> QED
    BY <2>1, <2>2, <2>3
<1>7. ASSUME Packets, type = "complete" => n > 0
      PROVE  \A i \in DOMAIN fromPeer' :
               fromPeer'[i].type = "complete" => fromPeer'[i].packets > 0
  BY <1>2, <1>5, <1>7 DEF Packets
<1>8. ASSUME NEW sent, Single(sent, fromPeer), type # "result"
      PROVE  Single(sent, fromPeer')
  <2>1. ~ Has(fromPeer, {"result"}) => ~ Has(fromPeer', {"result"})
    BY <1>6, <1>8
  <2>2. \A i, j \in DOMAIN fromPeer' :
          fromPeer'[i].type = "result" /\ fromPeer'[j].type = "result" => i = j
    BY <1>2, <1>5, <1>8 DEF Single
  <2> QED
    BY <1>8, <2>1, <2>2 DEF Single
<1>9. ASSUME NEW sent, ~ Has(sent, {"config", "control"}),
             ~ Has(fromPeer, {"result"})
      PROVE  Single(sent, fromPeer')
  BY <1>2, <1>5, <1>9 DEF Single, Has
<1> QED
  BY <1>2, <1>3, <1>4, <1>5, <1>6, <1>7, <1>8, <1>9

(* The callback is given an answer.                                          *)
LEMMA DeliverStep ==
  ASSUME Types, fromPeer # <<>>, fromPeer' = Tail(fromPeer)
  PROVE  /\ fromPeer' \in Seq(Answer) /\ Head(fromPeer) \in Answer
         /\ CountOf(fromPeer, "complete") = CountOf(fromPeer', "complete")
              + (IF Head(fromPeer).type = "complete"
                THEN Head(fromPeer).packets ELSE 0)
         /\ CountOf(fromPeer', "complete") \in Nat
         /\ \A types : Has(fromPeer, types) <=>
              Has(fromPeer', types) \/ Head(fromPeer).type \in types
         /\ Packets => \A i \in DOMAIN fromPeer' :
              fromPeer'[i].type = "complete" => fromPeer'[i].packets > 0
         /\ Packets /\ Head(fromPeer).type = "complete"
              => Head(fromPeer).packets > 0
         /\ \A sent : Single(sent, fromPeer) => Single(sent, fromPeer')
         /\ \A sent : Single(sent, fromPeer) /\ Head(fromPeer).type = "result"
              => ~ Has(fromPeer', {"result"})
                /\ ~ Has(sent, {"config", "control"})
<1>1. Countable(Answer)
  BY DEF Countable, Answer
<1>2. fromPeer \in Seq(Answer)
  BY DEF Types
<1>3. /\ fromPeer' \in Seq(Answer) /\ Len(fromPeer) \in Nat \ {0}
      /\ DOMAIN fromPeer = 1 .. Len(fromPeer)
      /\ DOMAIN fromPeer' = 1 .. Len(fromPeer) - 1
      /\ Head(fromPeer) = fromPeer[1] /\ fromPeer[1] \in Answer
      /\ \A i \in 1 .. Len(fromPeer) - 1 : fromPeer'[i] = fromPeer[i + 1]
  BY <1>2
<1>4. CountOf(fromPeer, "complete") = CountOf(Tail(fromPeer), "complete")
        + (IF Head(fromPeer).type = "complete" THEN Head(fromPeer).packets
          ELSE 0)
  BY <1>1, <1>2, CountTail
<1>5. CountOf(fromPeer', "complete") \in Nat
  BY <1>1, <1>3, PacketsFinite
<1>6. ASSUME NEW types
      PROVE  Has(fromPeer, types)
               <=> Has(fromPeer', types) \/ fromPeer[1].type \in types
  <2>1. ASSUME NEW i \in DOMAIN fromPeer, fromPeer[i].type \in types, i # 1
        PROVE  Has(fromPeer', types)
    <3>1. i - 1 \in DOMAIN fromPeer' /\ fromPeer'[i - 1] = fromPeer[i]
      BY <1>3, <2>1
    <3> QED
      BY <2>1, <3>1 DEF Has
  <2>2. ASSUME NEW i \in DOMAIN fromPeer', fromPeer'[i].type \in types
        PROVE  Has(fromPeer, types)
    <3>1. i + 1 \in DOMAIN fromPeer /\ fromPeer'[i] = fromPeer[i + 1]
      BY <1>3
    <3> QED
      BY <2>2, <3>1 DEF Has
  <2> QED
    BY <1>3, <2>1, <2>2 DEF Has
<1>7. ASSUME Packets
      PROVE  /\ \A i \in DOMAIN fromPeer' :
                  fromPeer'[i].type = "complete" => fromPeer'[i].packets > 0
             /\ fromPeer[1].type = "complete" => fromPeer[1].packets > 0
  BY <1>3, <1>7 DEF Packets
<1>8. ASSUME NEW sent, Single(sent, fromPeer)
      PROVE  /\ Single(sent, fromPeer')
             /\ fromPeer[1].type = "result" =>
                  ~ Has(fromPeer', {"result"})
                    /\ ~ Has(sent, {"config", "control"})
  <2>1. \A i, j \in DOMAIN fromPeer :
          fromPeer[i].type = "result" /\ fromPeer[j].type = "result" => i = j
    BY <1>8 DEF Single
  <2>2. \A i, j \in DOMAIN fromPeer' :
          fromPeer'[i].type = "result" /\ fromPeer'[j].type = "result" => i = j
    <3> TAKE i, j \in DOMAIN fromPeer'
    <3>1. i + 1 \in DOMAIN fromPeer /\ j + 1 \in DOMAIN fromPeer
          /\ fromPeer'[i] = fromPeer[i + 1] /\ fromPeer'[j] = fromPeer[j + 1]
      BY <1>3
    <3>2. fromPeer[i + 1].type = "result" /\ fromPeer[j + 1].type = "result"
            => i + 1 = j + 1
      BY <2>1, <3>1
    <3> QED
      BY <1>3, <3>1, <3>2
  <2>3. Has(fromPeer', {"result"}) => Has(fromPeer, {"result"})
    BY <1>6
  <2>4. Single(sent, fromPeer')
    BY <1>8, <2>2, <2>3 DEF Single
  <2>5. ASSUME fromPeer[1].type = "result",
               NEW i \in DOMAIN fromPeer', fromPeer'[i].type = "result"
        PROVE  FALSE
    <3>1. i + 1 \in DOMAIN fromPeer /\ 1 \in DOMAIN fromPeer /\ i + 1 # 1
          /\ fromPeer[i + 1].type = "result"
      BY <1>3, <2>5
    <3> QED
      BY <2>1, <2>5, <3>1
  <2>6. fromPeer[1].type = "result" => Has(fromPeer, {"result"})
    BY <1>6
  <2> QED
    BY <1>8, <2>4, <2>5, <2>6 DEF Single, Has
<1>9. CountOf(fromPeer, "complete") = CountOf(fromPeer', "complete")
        + (IF fromPeer[1].type = "complete" THEN fromPeer[1].packets ELSE 0)
  BY <1>3, <1>4
<1> QED
  BY <1>3, <1>5, <1>6, <1>7, <1>8, <1>9

(* The main thread yields to the callback.                                   *)
LEMMA ToHandlerStep ==
  ASSUME SoundInv, PlaybackSetting, ToHandler
  PROVE  SoundInv'
<1>1. /\ Types /\ Turns /\ Phases /\ Unopened /\ Frames /\ Requests /\ Packets
      /\ Heads /\ Loads /\ Refills /\ Positions /\ StreamAlive
  BY DEF SoundInv
<1>2. /\ CountOf(toPeer, "packet") \in Nat
      /\ CountOf(fromPeer, "complete") \in Nat
  BY <1>1, Counts
<1>3. Types'
  BY <1>1, <1>2, SoundDeviceAssumption
  DEF Types, ToHandler, mainVars, callVars, posVars, wireVars, peerVars,
      Contexts
<1>4. Turns'
  <2>1. MainAtYield /\ cpu' = "handler"
    BY DEF ToHandler, PlaybackSetting
  <2>2. mpc \in {"idle", "configWait", "controlWait", "setControlWait",
                 "cancelWait", "setControl", "stop"}
    BY <2>1, RoomLeft DEF MainAtYield, Sending, Loading
  <2> QED
    BY <2>1, <2>2 DEF Turns, ToHandler, mainVars
<1>5. Phases'
  BY <1>1, <1>2, SoundDeviceAssumption
  DEF Phases, Opening, Loading, Turns, ToHandler, mainVars, callVars
<1>6. Unopened'
  BY <1>1, <1>2, SoundDeviceAssumption
  DEF Unopened, Phases, Opening, ToHandler, mainVars, callVars, posVars,
      wireVars, peerVars, Types, Contexts
<1>7. Frames'
  BY <1>1, <1>2, SoundDeviceAssumption
  DEF Frames, Turns, ToHandler, mainVars, callVars, posVars, wireVars,
      peerVars, Types, Contexts
<1>8. Requests'
  <2>1. toPeer' = toPeer /\ fromPeer' = fromPeer
    BY DEF ToHandler, wireVars, peerVars
  <2>2. UNCHANGED <<mpc, event>>
    BY DEF ToHandler, mainVars, callVars
  <2> QED
    BY <1>1, <2>1, <2>2 DEF Requests, Awaited
<1>9. Packets'
  BY <1>1, <1>2, SoundDeviceAssumption
  DEF Packets, Playing, Phases, ToHandler, mainVars, callVars, posVars,
      wireVars, peerVars, Types, Contexts
<1>10. Heads'
  BY <1>1, <1>2, SoundDeviceAssumption
  DEF Heads, Phases, ToHandler, mainVars, callVars, posVars, wireVars,
      peerVars, Types, Contexts
<1>11. Loads'
  BY <1>1, <1>2, SoundDeviceAssumption
  DEF Loads, Frames, Before, Loading, Phases, Unacknowledged, Pending,
      ToHandler, mainVars, callVars, posVars, wireVars, peerVars, Types,
      Contexts
<1>12. Refills'
  BY <1>1, <1>2, SoundDeviceAssumption
  DEF Refills, Unacknowledged, Pending, Turns, ToHandler, mainVars, callVars
<1>13. Positions'
  BY <1>1, <1>2, SoundDeviceAssumption
  DEF Positions, Playing, Phases, Unacknowledged, Pending, Backlog, ToHandler,
      mainVars, callVars, posVars, wireVars, peerVars, Types, Contexts
<1>14. StreamAlive'
  BY <1>1, <1>2, SoundDeviceAssumption
  DEF StreamAlive, Loading, Loads, Phases, Unacknowledged, Pending, Before,
      ToHandler, mainVars, callVars, posVars, wireVars, peerVars, Types,
      Contexts
<1> QED
  BY <1>3, <1>4, <1>5, <1>6, <1>7, <1>8, <1>9, <1>10, <1>11, <1>12, <1>13,
     <1>14
  DEF SoundInv

(* The coroutine yields to the main thread.                                  *)
LEMMA ToMainStep ==
  ASSUME SoundInv, PlaybackSetting, ToMain
  PROVE  SoundInv'
<1>1. /\ Types /\ Turns /\ Phases /\ Unopened /\ Frames /\ Requests /\ Packets
      /\ Heads /\ Loads /\ Refills /\ Positions /\ StreamAlive
  BY DEF SoundInv
<1>2. /\ CountOf(toPeer, "packet") \in Nat
      /\ CountOf(fromPeer, "complete") \in Nat
  BY <1>1, Counts
<1>3. Types'
  BY <1>1, <1>2, SoundDeviceAssumption
  DEF Types, ToMain, mainVars, callVars, posVars, wireVars, peerVars, Contexts
<1>4. Turns'
  <2>1. hpc = "idle"
    BY RoomLeft DEF ToMain, HandlerAtYield
  <2> QED
    BY <2>1 DEF Turns, ToMain
<1>5. Phases'
  BY <1>1, <1>2, SoundDeviceAssumption
  DEF Phases, Opening, Loading, Turns, ToMain, mainVars, callVars
<1>6. Unopened'
  BY <1>1, <1>2, SoundDeviceAssumption
  DEF Unopened, Phases, Opening, ToMain, mainVars, callVars, posVars, wireVars,
      peerVars, Types, Contexts
<1>7. Frames'
  BY <1>1, <1>2, SoundDeviceAssumption
  DEF Frames, Turns, ToMain, mainVars, callVars, posVars, wireVars, peerVars,
      Types, Contexts
<1>8. Requests'
  <2>1. toPeer' = toPeer /\ fromPeer' = fromPeer
    BY DEF ToMain, wireVars, peerVars
  <2>2. UNCHANGED <<mpc, event>>
    BY DEF ToMain, mainVars, callVars
  <2> QED
    BY <1>1, <2>1, <2>2 DEF Requests, Awaited
<1>9. Packets'
  BY <1>1, <1>2, SoundDeviceAssumption
  DEF Packets, Playing, Phases, ToMain, mainVars, callVars, posVars, wireVars,
      peerVars, Types, Contexts
<1>10. Heads'
  BY <1>1, <1>2, SoundDeviceAssumption
  DEF Heads, Phases, ToMain, mainVars, callVars, posVars, wireVars, peerVars,
      Types, Contexts
<1>11. Loads'
  BY <1>1, <1>2, SoundDeviceAssumption
  DEF Loads, Frames, Before, Loading, Phases, Unacknowledged, Pending, ToMain,
      mainVars, callVars, posVars, wireVars, peerVars, Types, Contexts
<1>12. Refills'
  BY <1>1, <1>2, SoundDeviceAssumption
  DEF Refills, Unacknowledged, Pending, Turns, ToMain, mainVars, callVars,
      posVars, wireVars, peerVars, Types, Contexts
<1>13. Positions'
  BY <1>1, <1>2, SoundDeviceAssumption
  DEF Positions, Playing, Phases, Unacknowledged, Pending, Backlog, ToMain,
      mainVars, callVars, posVars, wireVars, peerVars, Types, Contexts
<1>14. StreamAlive'
  BY <1>1, <1>2, SoundDeviceAssumption
  DEF StreamAlive, Loading, Loads, Phases, Unacknowledged, Pending, Before,
      ToMain, mainVars, callVars, posVars, wireVars, peerVars, Types, Contexts
<1> QED
  BY <1>3, <1>4, <1>5, <1>6, <1>7, <1>8, <1>9, <1>10, <1>11, <1>12, <1>13,
     <1>14
  DEF SoundInv

(* The service reads a message that it does not answer.                      *)
LEMMA ReadOtherStep ==
  ASSUME SoundInv, toPeer # <<>>, toPeer' = Tail(toPeer),
         Head(toPeer).type \in {"open", "start", "write"},
         UNCHANGED <<cpu, mainVars, hpc, state, callVars, posVars, left, frame,
                     framed>>, UNCHANGED peerVars
  PROVE  SoundInv'
<1>1. /\ Types /\ Turns /\ Phases /\ Unopened /\ Frames /\ Requests /\ Packets
      /\ Heads /\ Loads /\ Refills /\ Positions /\ StreamAlive
  BY DEF SoundInv
<1>2. /\ CountOf(toPeer, "packet") \in Nat
      /\ CountOf(fromPeer, "complete") \in Nat
  BY <1>1, Counts
<1>3. /\ toPeer' \in Seq(Sent) /\ Len(toPeer') = Len(toPeer) - 1
      /\ Len(toPeer) \in Nat /\ Len(toPeer') \in Nat
      /\ CountOf(toPeer', "packet") \in Nat
      /\ CountOf(toPeer, "packet") = CountOf(toPeer', "packet") + 0
  BY <1>1, TakeStep DEF Packets
<1>4. \A types : Has(toPeer', types) => Has(toPeer, types)
  BY <1>1, TakeStep
<1>5. /\ Singles(toPeer') /\ HeadsFirst(toPeer')
      /\ Playing => Followed(toPeer', frame > 0)
  BY <1>1, TakeStep DEF Packets, Heads
<1>6. Single(toPeer', fromPeer)
  BY <1>1, TakeStep DEF Requests
<1>7. UNCHANGED <<cpu, mpc, round, hpc, state, event, result, writePos,
                  completePos,
                  left, frame, framed>>
  BY DEF mainVars, callVars, posVars
<1>8. Types'
  BY <1>1, <1>2, SoundDeviceAssumption, <1>3, <1>7
  DEF Types, peerVars, Contexts
<1>9. Turns'
  BY <1>1, <1>2, SoundDeviceAssumption, <1>7 DEF Turns, Phases
<1>10. Phases'
  BY <1>1, <1>2, SoundDeviceAssumption, <1>7 DEF Phases, Opening, Loading
<1>11. Unopened'
  BY <1>1, <1>2, SoundDeviceAssumption, <1>4, <1>7
  DEF Unopened, Phases, Opening, peerVars, Types, Contexts
<1>12. Frames'
  BY <1>1, <1>2, SoundDeviceAssumption, <1>7 DEF Frames, Turns
<1>13. Requests'
  BY <1>1, <1>2, SoundDeviceAssumption, <1>4, <1>6, <1>7
  DEF Requests, Awaited, peerVars, Types, Contexts
<1>14. Packets'
  BY <1>1, <1>2, SoundDeviceAssumption, <1>5, <1>7
  DEF Packets, Playing, Phases, peerVars, Types, Contexts
<1>15. Heads'
  BY <1>1, <1>2, SoundDeviceAssumption, <1>4, <1>5, <1>7
  DEF Heads, Phases, peerVars, Types, Contexts
<1>16. Loads'
  <2>1. Unacknowledged' = Unacknowledged
    BY <1>1, <1>2, <1>3, <1>7 DEF Unacknowledged, Pending, peerVars, Types
  <2>4. Unacknowledged \in Nat
    BY <1>1, <1>2 DEF Unacknowledged, Pending, Types
  <2>2. \A n : Before(n)' = Before(n)
    BY <1>7 DEF Before
  <2>3. /\ Before(ChunkSize + 1) \in Nat /\ Before(ChunkSize) \in Nat
        /\ left["main"] \in Nat
    BY <1>1, SoundDeviceAssumption DEF Before, Types, Contexts
  <2> QED
    BY <1>1, <1>3, <1>7, <2>1, <2>2, <2>3, <2>4, SoundDeviceAssumption
    DEF Loads, Loading
<1>17. Refills'
  BY <1>1, <1>2, SoundDeviceAssumption, <1>3, <1>7
  DEF Refills, Unacknowledged, Pending, Turns, peerVars, Types, Contexts
<1>18. Positions'
  BY <1>1, <1>2, SoundDeviceAssumption, <1>3, <1>7
  DEF Positions, Playing, Phases, Unacknowledged, Pending, Backlog, peerVars,
      Types, Contexts
<1>19. StreamAlive'
  BY <1>1, <1>2, SoundDeviceAssumption, <1>3, <1>7
  DEF StreamAlive, Loading, Loads, Phases, Unacknowledged, Pending, Before,
      peerVars, Types, Contexts
<1> QED
  BY <1>8, <1>9, <1>10, <1>11, <1>12, <1>13, <1>14, <1>15, <1>16, <1>17, <1>18,
     <1>19
  DEF SoundInv

(* The service reads a packet and keeps it to be played.                     *)
LEMMA ReadPacketStep ==
  ASSUME SoundInv, toPeer # <<>>, toPeer' = Tail(toPeer),
         Head(toPeer).type = "packet", unplayed' = unplayed + 1,
         fromPeer' = fromPeer,
         UNCHANGED <<cpu, mainVars, hpc, state, callVars, posVars, left, frame,
                     framed>>
  PROVE  SoundInv'
<1>1. /\ Types /\ Turns /\ Phases /\ Unopened /\ Frames /\ Requests /\ Packets
      /\ Heads /\ Loads /\ Refills /\ Positions /\ StreamAlive
  BY DEF SoundInv
<1>2. /\ CountOf(toPeer, "packet") \in Nat
      /\ CountOf(fromPeer, "complete") \in Nat
  BY <1>1, Counts
<1>3. /\ toPeer' \in Seq(Sent) /\ Len(toPeer') = Len(toPeer) - 1
      /\ Len(toPeer) \in Nat /\ Len(toPeer') \in Nat
      /\ CountOf(toPeer', "packet") \in Nat
      /\ CountOf(toPeer, "packet") = CountOf(toPeer', "packet") + 1
  BY <1>1, TakeStep DEF Packets
<1>4. \A types : Has(toPeer', types) => Has(toPeer, types)
  BY <1>1, TakeStep
<1>5. /\ Singles(toPeer') /\ HeadsFirst(toPeer')
      /\ Playing => Followed(toPeer', frame > 0)
  BY <1>1, TakeStep DEF Packets, Heads
<1>6. Single(toPeer', fromPeer)
  BY <1>1, TakeStep DEF Requests
<1>7. UNCHANGED <<cpu, mpc, round, hpc, state, event, result, writePos,
                  completePos,
                  left, frame, framed>>
  BY DEF mainVars, callVars, posVars
<1>8. ~ Has(toPeer', {"open", "start"})
        /\ Has(toPeer, TxTypes \ {"config", "control"})
  BY <1>1, TakeStep DEF Heads, TxTypes
<1>9. Types'
  BY <1>1, <1>7 DEF Types, Contexts
<1>10. Turns'
  BY <1>1, <1>2, SoundDeviceAssumption, <1>7 DEF Turns, Phases
<1>11. Phases'
  BY <1>1, <1>2, SoundDeviceAssumption, <1>7 DEF Phases, Opening
<1>12. Unopened'
  BY <1>1, <1>2, SoundDeviceAssumption, <1>4, <1>7, <1>8 DEF Unopened
<1>13. Frames'
  BY <1>1, <1>2, SoundDeviceAssumption, <1>7 DEF Frames
<1>14. Requests'
  BY <1>1, <1>2, SoundDeviceAssumption, <1>4, <1>6, <1>7
  DEF Requests, Awaited, Types, Contexts
<1>15. Packets'
  BY <1>1, <1>2, SoundDeviceAssumption, <1>5, <1>7
  DEF Packets, Playing, Phases, Types, Contexts
<1>16. Heads'
  BY <1>1, <1>2, SoundDeviceAssumption, <1>4, <1>5, <1>7, <1>8
  DEF Heads, Phases, Types, Contexts
<1>17. Loads'
  <2>1. Unacknowledged' = Unacknowledged
    BY <1>1, <1>2, <1>3, <1>7 DEF Unacknowledged, Pending, peerVars, Types
  <2>4. Unacknowledged \in Nat
    BY <1>1, <1>2 DEF Unacknowledged, Pending, Types
  <2>2. \A n : Before(n)' = Before(n)
    BY <1>7 DEF Before
  <2>3. /\ Before(ChunkSize + 1) \in Nat /\ Before(ChunkSize) \in Nat
        /\ left["main"] \in Nat
    BY <1>1, SoundDeviceAssumption DEF Before, Types, Contexts
  <2> QED
    BY SMTT(30), <1>1, <1>3, <1>7, <2>1, <2>2, <2>3, <2>4,
       SoundDeviceAssumption
    DEF Loads, Loading
<1>18. Refills'
  <2>1. Unacknowledged' = Unacknowledged
    BY <1>1, <1>2, <1>3, <1>7 DEF Unacknowledged, Pending, Types
  <2>2. ASSUME hpc = "data" PROVE left["handler"] \in Nat
    BY <1>1, SoundDeviceAssumption DEF Types, Contexts
  <2>3. 2 * ChunkSize + 1 \in Nat /\ 3 * ChunkSize + 2 \in Nat
    BY SoundDeviceAssumption
  <2> QED
    BY <1>1, <1>3, <1>7, <2>1, <2>2, <2>3 DEF Refills
<1>19. Positions'
  <2>1. Unacknowledged' = Unacknowledged
    BY <1>1, <1>2, <1>3 DEF Unacknowledged, Pending, Types
  <2>2. Backlog' = Backlog
    BY <1>7 DEF Backlog
  <2> QED
    BY <1>1, <1>7, <2>1, <2>2 DEF Positions, Playing
<1>20. StreamAlive'
  BY <1>1, <1>2, SoundDeviceAssumption, <1>3, <1>7
  DEF StreamAlive, Loading, Loads, Phases, Unacknowledged, Pending, Before,
      Types, Contexts
<1> QED
  BY <1>9, <1>10, <1>11, <1>12, <1>13, <1>14, <1>15, <1>16, <1>17, <1>18,
     <1>19, <1>20
  DEF SoundInv

(* The service reads STOP, and may discard what it holds.                    *)
LEMMA ReadStopStep ==
  ASSUME SoundInv, toPeer # <<>>, toPeer' = Tail(toPeer),
         Head(toPeer).type = "stop", unplayed' \in {0, unplayed},
         fromPeer' = fromPeer,
         UNCHANGED <<cpu, mainVars, hpc, state, callVars, posVars, left, frame,
                     framed>>
  PROVE  SoundInv'
<1>1. /\ Types /\ Turns /\ Phases /\ Unopened /\ Frames /\ Requests /\ Packets
      /\ Heads /\ Loads /\ Refills /\ Positions /\ StreamAlive
  BY DEF SoundInv
<1>2. /\ CountOf(toPeer, "packet") \in Nat
      /\ CountOf(fromPeer, "complete") \in Nat
  BY <1>1, Counts
<1>3. /\ toPeer' \in Seq(Sent) /\ Len(toPeer') = Len(toPeer) - 1
      /\ Len(toPeer) \in Nat /\ Len(toPeer') \in Nat
      /\ CountOf(toPeer', "packet") \in Nat
      /\ CountOf(toPeer, "packet") = CountOf(toPeer', "packet") + 0
  BY <1>1, TakeStep DEF Packets
<1>4. \A types : Has(toPeer', types) => Has(toPeer, types)
  BY <1>1, TakeStep
<1>5. /\ Singles(toPeer') /\ HeadsFirst(toPeer')
      /\ Playing => Followed(toPeer', frame > 0)
  BY <1>1, TakeStep DEF Packets, Heads
<1>6. Single(toPeer', fromPeer)
  BY <1>1, TakeStep DEF Requests
<1>7. UNCHANGED <<cpu, mpc, round, hpc, state, event, result, writePos,
                  completePos,
                  left, frame, framed>>
  BY DEF mainVars, callVars, posVars
<1>8. mpc = "stopped" \/ state = "Idle"
  <2>1. Has(toPeer, {"stop"})
    BY <1>1, TakeStep
  <2> QED
    BY <1>1, <2>1 DEF Heads
<1>9. mpc \notin Opening \cup Loading \cup {"start", "running", "reset"}
        /\ hpc = "idle"
  <2>1. Has(toPeer, {"stop"})
    BY <1>1, TakeStep
  <2> QED
    BY <1>1, <2>1 DEF Heads, Phases, Turns, Opening, Loading, Types, Contexts
<1>10. Types'
  BY <1>1, <1>7 DEF Types, Contexts
<1>11. Turns'
  BY <1>1, <1>2, SoundDeviceAssumption, <1>7 DEF Turns, Phases
<1>12. Phases'
  BY <1>1, <1>2, SoundDeviceAssumption, <1>7 DEF Phases, Opening
<1>13. Unopened'
  BY <1>1, <1>2, SoundDeviceAssumption, <1>4, <1>7 DEF Unopened
<1>14. Frames'
  BY <1>1, <1>2, SoundDeviceAssumption, <1>7 DEF Frames
<1>15. Requests'
  BY <1>1, <1>2, SoundDeviceAssumption, <1>4, <1>6, <1>7
  DEF Requests, Awaited, Types, Contexts
<1>16. Packets'
  BY <1>1, <1>2, SoundDeviceAssumption, <1>5, <1>7
  DEF Packets, Playing, Phases, Types, Contexts
<1>17. Heads'
  BY <1>1, <1>2, SoundDeviceAssumption, <1>4, <1>5, <1>7, <1>8, <1>9
  DEF Heads, Phases, Types, Contexts
<1>18. Loads'
  BY <1>1, <1>2, SoundDeviceAssumption, <1>3, <1>7, <1>8, <1>9
  DEF Loads, Frames, Before, Loading, Phases, Unacknowledged, Pending, Types,
      Contexts
<1>19. Refills'
  BY <1>1, <1>2, SoundDeviceAssumption, <1>3, <1>7, <1>8, <1>9 DEF Refills
<1>20. Positions'
  BY <1>1, <1>2, SoundDeviceAssumption, <1>3, <1>7, <1>8, <1>9
  DEF Positions, Playing, Phases
<1>21. StreamAlive'
  BY <1>1, <1>2, SoundDeviceAssumption, <1>3, <1>7, <1>8, <1>9
  DEF StreamAlive, Loading, Loads, Phases, Unacknowledged, Pending, Before,
      Types, Contexts
<1> QED
  BY <1>10, <1>11, <1>12, <1>13, <1>14, <1>15, <1>16, <1>17, <1>18, <1>19,
     <1>20, <1>21
  DEF SoundInv

(* The service reads a request and answers it.                               *)
LEMMA ReadRequestStep ==
  ASSUME SoundInv, toPeer # <<>>, toPeer' = Tail(toPeer),
         Head(toPeer).type \in {"config", "control"}, unplayed' = unplayed,
         NEW r \in {0, -1},
         fromPeer' = Append(fromPeer, Reply("result", 0, r)),
         UNCHANGED <<cpu, mainVars, hpc, state, callVars, posVars, left, frame,
                     framed>>
  PROVE  SoundInv'
<1>1. /\ Types /\ Turns /\ Phases /\ Unopened /\ Frames /\ Requests /\ Packets
      /\ Heads /\ Loads /\ Refills /\ Positions /\ StreamAlive
  BY DEF SoundInv
<1>2. /\ CountOf(toPeer, "packet") \in Nat
      /\ CountOf(fromPeer, "complete") \in Nat
  BY <1>1, Counts
<1>3. /\ toPeer' \in Seq(Sent) /\ Len(toPeer') = Len(toPeer) - 1
      /\ Len(toPeer) \in Nat /\ Len(toPeer') \in Nat
      /\ CountOf(toPeer', "packet") \in Nat
      /\ CountOf(toPeer, "packet") = CountOf(toPeer', "packet") + 0
  BY <1>1, TakeStep DEF Packets
<1>4. \A types : Has(toPeer', types) => Has(toPeer, types)
  BY <1>1, TakeStep
<1>5. /\ Singles(toPeer') /\ HeadsFirst(toPeer')
      /\ Playing => Followed(toPeer', frame > 0)
  BY <1>1, TakeStep DEF Packets, Heads
<1>6. Single(toPeer', fromPeer)
  BY <1>1, TakeStep DEF Requests
<1>7. UNCHANGED <<cpu, mpc, round, hpc, state, event, result, writePos,
                  completePos,
                  left, frame, framed>>
  BY DEF mainVars, callVars, posVars
<1>8. /\ fromPeer' \in Seq(Answer)
      /\ CountOf(fromPeer', "complete") = CountOf(fromPeer, "complete")
  BY <1>1, <1>2, AnswerStep
<1>9. /\ \A types : Has(fromPeer', types)
           <=> Has(fromPeer, types) \/ "result" \in types
      /\ Awaited
  <2>1. Has(toPeer, {"config", "control"})
    BY <1>1, TakeStep
  <2> QED
    BY <1>1, <2>1, AnswerStep DEF Requests
<1>10. Single(toPeer', fromPeer')
  <2>1. ~ Has(toPeer', {"config", "control"}) /\ ~ Has(fromPeer, {"result"})
    BY <1>1, TakeStep DEF Requests
  <2> QED
    BY <1>1, <2>1, AnswerStep
<1>11. \A i \in DOMAIN fromPeer' :
         fromPeer'[i].type = "complete" => fromPeer'[i].packets > 0
  BY <1>1, AnswerStep
<1>12. Types'
  BY <1>1, <1>7, <1>8 DEF Types, Contexts
<1>13. Turns'
  BY <1>1, <1>2, SoundDeviceAssumption, <1>7 DEF Turns, Phases
<1>14. Phases'
  BY <1>1, <1>2, SoundDeviceAssumption, <1>7 DEF Phases, Opening
<1>15. Unopened'
  BY <1>1, <1>2, SoundDeviceAssumption, <1>4, <1>7, <1>9 DEF Unopened
<1>16. Frames'
  BY <1>1, <1>2, SoundDeviceAssumption, <1>7 DEF Frames
<1>17. Requests'
  BY <1>1, <1>2, SoundDeviceAssumption, <1>4, <1>7, <1>9, <1>10
  DEF Requests, Awaited, Types, Contexts
<1>18. Packets'
  BY <1>1, <1>2, SoundDeviceAssumption, <1>5, <1>7, <1>11
  DEF Packets, Playing, Phases, Types, Contexts
<1>19. Heads'
  BY <1>1, <1>2, SoundDeviceAssumption, <1>4, <1>5, <1>7, <1>9
  DEF Heads, Phases, Types, Contexts
<1>20. Loads'
  <2>1. Unacknowledged' = Unacknowledged
    BY <1>1, <1>2, <1>3, <1>7, <1>8
    DEF Unacknowledged, Pending, peerVars, Types
  <2>4. Unacknowledged \in Nat
    BY <1>1, <1>2 DEF Unacknowledged, Pending, Types
  <2>2. \A n : Before(n)' = Before(n)
    BY <1>7 DEF Before
  <2>3. /\ Before(ChunkSize + 1) \in Nat /\ Before(ChunkSize) \in Nat
        /\ left["main"] \in Nat
    BY <1>1, SoundDeviceAssumption DEF Before, Types, Contexts
  <2> QED
    BY SMTT(30), <1>1, <1>3, <1>7, <2>1, <2>2, <2>3, <2>4,
       SoundDeviceAssumption
    DEF Loads, Loading
<1>21. Refills'
  BY <1>1, <1>2, SoundDeviceAssumption, <1>3, <1>7, <1>8
  DEF Refills, Unacknowledged, Pending, Turns, Types, Contexts
<1>22. Positions'
  BY <1>1, <1>2, SoundDeviceAssumption, <1>3, <1>7, <1>8
  DEF Positions, Playing, Phases, Unacknowledged, Pending, Backlog, Types,
      Contexts
<1>23. StreamAlive'
  BY <1>1, <1>2, SoundDeviceAssumption, <1>3, <1>7, <1>8
  DEF StreamAlive, Loading, Loads, Phases, Unacknowledged, Pending, Before,
      Types, Contexts
<1> QED
  BY <1>12, <1>13, <1>14, <1>15, <1>16, <1>17, <1>18, <1>19, <1>20, <1>21,
     <1>22, <1>23
  DEF SoundInv

(* The service reports packets as played.                                    *)
LEMMA PeerCompleteStep ==
  ASSUME SoundInv, NEW n \in 1 .. unplayed, unplayed' = unplayed - n,
         fromPeer' = Append(fromPeer, Reply("complete", n, 0)),
         UNCHANGED <<cpu, mainVars, hpc, state, callVars, posVars, left,
                     wireVars>>
  PROVE  SoundInv'
<1>1. /\ Types /\ Turns /\ Phases /\ Unopened /\ Frames /\ Requests /\ Packets
      /\ Heads /\ Loads /\ Refills /\ Positions /\ StreamAlive
  BY DEF SoundInv
<1>2. /\ CountOf(toPeer, "packet") \in Nat
      /\ CountOf(fromPeer, "complete") \in Nat
  BY <1>1, Counts
<1>3. /\ fromPeer' \in Seq(Answer) /\ n \in Nat \ {0} /\ unplayed > 0
      /\ CountOf(fromPeer', "complete") = CountOf(fromPeer, "complete") + n
  BY <1>1, <1>2, AnswerStep DEF Types
<1>4. /\ \A types : Has(fromPeer', types)
           <=> Has(fromPeer, types) \/ "complete" \in types
      /\ ~ Has(toPeer, {"open", "start"})
  BY <1>1, <1>3, AnswerStep DEF Heads
<1>5. \A i \in DOMAIN fromPeer' :
         fromPeer'[i].type = "complete" => fromPeer'[i].packets > 0
  BY <1>1, <1>3, AnswerStep
<1>6. Single(toPeer, fromPeer')
  BY <1>1, <1>3, AnswerStep DEF Requests
<1>7. Unacknowledged' = Unacknowledged /\ Unacknowledged \in Nat
  BY <1>1, <1>2, <1>3 DEF Unacknowledged, Pending, wireVars, Types
<1>8. Types'
  BY <1>1, <1>2, SoundDeviceAssumption, <1>3
  DEF Types, mainVars, callVars, posVars, wireVars, Contexts
<1>9. Turns'
  BY <1>1, <1>2, SoundDeviceAssumption
  DEF Turns, Phases, Opening, mainVars, callVars
<1>10. Phases'
  BY <1>1, <1>2, SoundDeviceAssumption
  DEF Phases, Opening, Loading, Turns, mainVars
<1>11. Unopened'
  BY <1>1 DEF Unopened, Phases, Opening, mainVars
<1>12. Frames'
  BY <1>1, <1>2, SoundDeviceAssumption
  DEF Frames, Turns, mainVars, callVars, posVars, wireVars, Types, Contexts
<1>13. Requests'
  BY <1>1, <1>2, SoundDeviceAssumption, <1>4, <1>6
  DEF Requests, Awaited, mainVars, callVars, posVars, wireVars, Types, Contexts
<1>14. Packets'
  BY <1>1, <1>2, SoundDeviceAssumption, <1>5
  DEF Packets, Playing, Phases, mainVars, callVars, posVars, wireVars, Types,
      Contexts
<1>15. Heads'
  BY <1>1, <1>2, SoundDeviceAssumption, <1>4
  DEF Heads, Phases, mainVars, callVars, posVars, wireVars, Types, Contexts
<1>16. Loads'
  BY <1>1, <1>2, SoundDeviceAssumption, <1>7
  DEF Loads, Loading, Before, mainVars, callVars, posVars, wireVars, Types,
      Contexts
<1>17. Refills'
  BY <1>1, <1>2, SoundDeviceAssumption, <1>7
  DEF Refills, mainVars, callVars, posVars, wireVars, Types, Contexts
<1>18. Positions'
  BY <1>1, <1>2, SoundDeviceAssumption, <1>7
  DEF Positions, Playing, Backlog, mainVars, callVars, posVars, wireVars,
      Types, Contexts
<1>19. StreamAlive'
  BY <1>1, <1>2, SoundDeviceAssumption, <1>7
  DEF StreamAlive, mainVars, callVars
<1> QED
  BY <1>8, <1>9, <1>10, <1>11, <1>12, <1>13, <1>14, <1>15, <1>16, <1>17, <1>18,
     <1>19
  DEF SoundInv

(* The callback takes a result and sets the flag.                            *)
LEMMA HandleResultStep ==
  ASSUME SoundInv, cpu = "handler", cpu' = cpu, HandleResult
  PROVE  SoundInv'
<1>1. /\ Types /\ Turns /\ Phases /\ Unopened /\ Frames /\ Requests /\ Packets
      /\ Heads /\ Loads /\ Refills /\ Positions /\ StreamAlive
  BY DEF SoundInv
<1>2. /\ CountOf(toPeer, "packet") \in Nat
      /\ CountOf(fromPeer, "complete") \in Nat
  BY <1>1, Counts
<1>3. /\ fromPeer' \in Seq(Answer) /\ Head(fromPeer) \in Answer
      /\ CountOf(fromPeer', "complete") \in Nat
      /\ CountOf(fromPeer, "complete") = CountOf(fromPeer', "complete") + 0
  BY <1>1, DeliverStep DEF HandleResult, Delivered
<1>4. \A types : Has(fromPeer', types) => Has(fromPeer, types)
  BY <1>1, DeliverStep DEF HandleResult, Delivered
<1>5. \A i \in DOMAIN fromPeer' :
         fromPeer'[i].type = "complete" => fromPeer'[i].packets > 0
  BY <1>1, DeliverStep DEF HandleResult, Delivered
<1>6. Single(toPeer, fromPeer')
  BY <1>1, DeliverStep DEF HandleResult, Delivered, Requests
<1>7. /\ ~ Has(fromPeer', {"result"}) /\ ~ Has(toPeer, {"config", "control"})
      /\ Head(fromPeer).success \in {0, -1}
  BY <1>1, <1>3, DeliverStep DEF HandleResult, Delivered, Requests, Answer
<1>8. ~ Has(toPeer, {"config"})
  BY <1>7 DEF Has
<1>9. Types'
  BY <1>1, <1>2, SoundDeviceAssumption, <1>3, <1>7
  DEF Types, HandleResult, mainVars, callVars, posVars, wireVars, Delivered,
      Contexts
<1>10. Turns'
  BY <1>1, <1>2, SoundDeviceAssumption
  DEF Turns, Phases, Opening, HandleResult, mainVars, callVars
<1>11. Phases'
  BY <1>1, <1>2, SoundDeviceAssumption
  DEF Phases, Opening, Loading, Turns, HandleResult, mainVars, callVars
<1>12. Unopened'
  BY <1>1, <1>2, SoundDeviceAssumption, <1>4
  DEF Unopened, Phases, Opening, HandleResult, mainVars, callVars, posVars,
      wireVars, Delivered, Types, Contexts
<1>13. Frames'
  BY <1>1, <1>2, SoundDeviceAssumption
  DEF Frames, Turns, HandleResult, mainVars, callVars, posVars, wireVars,
      Delivered, Types, Contexts
<1>14. Requests'
  BY <1>1, <1>2, SoundDeviceAssumption, <1>6, <1>7, <1>8
  DEF Requests, Awaited, HandleResult, mainVars, callVars, posVars, wireVars,
      Delivered, Types, Contexts
<1>15. Packets'
  BY <1>1, <1>2, SoundDeviceAssumption, <1>5
  DEF Packets, Playing, Phases, HandleResult, mainVars, callVars, posVars,
      wireVars, Delivered, Types, Contexts
<1>16. Heads'
  BY <1>1, <1>2, SoundDeviceAssumption, <1>4
  DEF Heads, Phases, HandleResult, mainVars, callVars, posVars, wireVars,
      Delivered, Types, Contexts
<1>17. Loads'
  BY <1>1, <1>2, SoundDeviceAssumption, <1>3
  DEF Loads, Turns, Loading, Unacknowledged, Pending, HandleResult, mainVars
<1>18. Refills'
  BY DEF Refills, Unacknowledged, Pending, Turns, HandleResult, mainVars,
         callVars, posVars, wireVars, Delivered, Types, Contexts
<1>19. Positions'
  BY <1>1, <1>2, SoundDeviceAssumption, <1>3
  DEF Positions, Playing, Phases, Unacknowledged, Pending, Backlog,
      HandleResult, mainVars, callVars, posVars, wireVars, Delivered, Types,
      Contexts
<1>20. StreamAlive'
  BY <1>1, <1>2, SoundDeviceAssumption, <1>3
  DEF StreamAlive, Loading, Loads, Phases, Unacknowledged, Pending, Before,
      HandleResult, mainVars, callVars, posVars, wireVars, Delivered, Types,
      Contexts
<1> QED
  BY <1>9, <1>10, <1>11, <1>12, <1>13, <1>14, <1>15, <1>16, <1>17, <1>18,
     <1>19, <1>20
  DEF SoundInv

(* The callback drops a completion in a state that expects none.             *)
LEMMA DropCompleteStep ==
  ASSUME SoundInv, cpu = "handler", cpu' = cpu, DropComplete
  PROVE  SoundInv'
<1>1. /\ Types /\ Turns /\ Phases /\ Unopened /\ Frames /\ Requests /\ Packets
      /\ Heads /\ Loads /\ Refills /\ Positions /\ StreamAlive
  BY DEF SoundInv
<1>2. /\ CountOf(toPeer, "packet") \in Nat
      /\ CountOf(fromPeer, "complete") \in Nat
  BY <1>1, Counts
<1>3. /\ fromPeer' \in Seq(Answer) /\ Head(fromPeer) \in Answer
      /\ CountOf(fromPeer', "complete") \in Nat
      /\ CountOf(fromPeer, "complete") = CountOf(fromPeer', "complete")
           + Head(fromPeer).packets
  BY <1>1, DeliverStep DEF DropComplete, Delivered
<1>4. \A types : Has(fromPeer', types) => Has(fromPeer, types)
  BY <1>1, DeliverStep DEF DropComplete, Delivered
<1>5. \A i \in DOMAIN fromPeer' :
         fromPeer'[i].type = "complete" => fromPeer'[i].packets > 0
  BY <1>1, DeliverStep DEF DropComplete, Delivered
<1>6. Single(toPeer, fromPeer')
  BY <1>1, DeliverStep DEF DropComplete, Delivered, Requests
<1>7. Types'
  BY <1>1, <1>2, SoundDeviceAssumption, <1>3
  DEF Types, DropComplete, mainVars, callVars, posVars, wireVars, Delivered,
      Contexts
<1>8. Turns'
  BY <1>1, <1>2, SoundDeviceAssumption
  DEF Turns, Phases, Opening, DropComplete, mainVars, callVars
<1>9. Phases'
  BY <1>1, <1>2, SoundDeviceAssumption
  DEF Phases, Opening, Loading, Turns, DropComplete, mainVars, callVars
<1>10. Unopened'
  BY <1>1, <1>2, SoundDeviceAssumption, <1>4
  DEF Unopened, Phases, Opening, DropComplete, mainVars, callVars
<1>11. Frames'
  BY <1>1, <1>2, SoundDeviceAssumption
  DEF Frames, Turns, DropComplete, mainVars, callVars, posVars, wireVars,
      Delivered, Types, Contexts
<1>12. Requests'
  BY <1>1, <1>2, SoundDeviceAssumption, <1>4, <1>6
  DEF Requests, Awaited, DropComplete, mainVars, callVars, posVars, wireVars,
      Delivered, Types, Contexts
<1>13. Packets'
  BY <1>1, <1>2, SoundDeviceAssumption, <1>5
  DEF Packets, Playing, Phases, DropComplete, mainVars, callVars, posVars,
      wireVars, Delivered, Types, Contexts
<1>14. Heads'
  BY <1>1, <1>2, SoundDeviceAssumption, <1>4
  DEF Heads, Phases, DropComplete, mainVars, callVars, posVars, wireVars,
      Delivered, Types, Contexts
<1>15. Loads'
  BY <1>1, <1>2, SoundDeviceAssumption, <1>3
  DEF Loads, Turns, Loading, DropComplete, mainVars, callVars
<1>16. Refills'
  BY DEF Refills, Unacknowledged, Pending, Turns, DropComplete, mainVars,
         callVars, posVars, wireVars, Delivered, Types, Contexts
<1>17. Positions'
  BY <1>1, <1>2, SoundDeviceAssumption, <1>3
  DEF Positions, Playing, Phases, Unacknowledged, Pending, Backlog,
      DropComplete, mainVars
<1>18. StreamAlive'
  BY <1>1, <1>2, SoundDeviceAssumption, <1>3
  DEF StreamAlive, Loading, Loads, Phases, Unacknowledged, Pending, Before,
      DropComplete
<1> QED
  BY <1>7, <1>8, <1>9, <1>10, <1>11, <1>12, <1>13, <1>14, <1>15, <1>16, <1>17,
     <1>18
  DEF SoundInv

(* The callback finds a completion without the cookies of a WRITE.           *)
LEMMA BadCompleteStep ==
  ASSUME SoundInv, cpu = "handler", cpu' = cpu, BadComplete
  PROVE  SoundInv'
<1>1. /\ Types /\ Turns /\ Phases /\ Unopened /\ Frames /\ Requests /\ Packets
      /\ Heads /\ Loads /\ Refills /\ Positions /\ StreamAlive
  BY DEF SoundInv
<1>2. /\ CountOf(toPeer, "packet") \in Nat
      /\ CountOf(fromPeer, "complete") \in Nat
  BY <1>1, Counts
<1>3. /\ fromPeer' \in Seq(Answer) /\ Head(fromPeer) \in Answer
      /\ CountOf(fromPeer', "complete") \in Nat
      /\ CountOf(fromPeer, "complete") = CountOf(fromPeer', "complete")
           + Head(fromPeer).packets
  BY <1>1, DeliverStep DEF BadComplete, Delivered
<1>4. \A types : Has(fromPeer', types) => Has(fromPeer, types)
  BY <1>1, DeliverStep DEF BadComplete, Delivered
<1>5. \A i \in DOMAIN fromPeer' :
         fromPeer'[i].type = "complete" => fromPeer'[i].packets > 0
  BY <1>1, DeliverStep DEF BadComplete, Delivered
<1>6. Single(toPeer, fromPeer')
  BY <1>1, DeliverStep DEF BadComplete, Delivered, Requests
<1>7. Types'
  BY <1>1, <1>2, SoundDeviceAssumption, <1>3
  DEF Types, BadComplete, IsActive, States, mainVars, callVars, posVars,
      wireVars, Delivered, Contexts
<1>8. Turns'
  BY <1>1, <1>2, SoundDeviceAssumption
  DEF Turns, Phases, Opening, BadComplete, IsActive, States, mainVars
<1>9. Phases'
  BY <1>1, <1>2, SoundDeviceAssumption
  DEF Phases, Opening, Loading, Turns, BadComplete, IsActive, States, mainVars,
      callVars, posVars, wireVars, Delivered, Types, Contexts
<1>10. Unopened'
  BY <1>1, <1>2, SoundDeviceAssumption, <1>4
  DEF Unopened, Phases, Opening, BadComplete, IsActive, States, mainVars
<1>11. Frames'
  BY <1>1, <1>2, SoundDeviceAssumption
  DEF Frames, Turns, BadComplete, IsActive, States, mainVars, callVars,
      posVars, wireVars, Delivered, Types, Contexts
<1>12. Requests'
  BY <1>1, <1>2, SoundDeviceAssumption, <1>4, <1>6
  DEF Requests, Awaited, BadComplete, IsActive, States, mainVars, callVars,
      posVars, wireVars, Delivered, Types, Contexts
<1>13. Packets'
  BY <1>1, <1>2, SoundDeviceAssumption, <1>5
  DEF Packets, Playing, Phases, BadComplete, IsActive, States, mainVars,
      callVars, posVars, wireVars, Delivered, Types, Contexts
<1>14. Heads'
  BY <1>1, <1>2, SoundDeviceAssumption, <1>4
  DEF Heads, Phases, BadComplete, IsActive, States, mainVars, callVars,
      posVars, wireVars, Delivered, Types, Contexts
<1>15. Loads'
  BY <1>1, <1>2, SoundDeviceAssumption, <1>3
  DEF Loads, Turns, Loading, BadComplete, IsActive, States, mainVars
<1>16. Refills'
  BY <1>1, <1>2, SoundDeviceAssumption, <1>3
  DEF Refills, Unacknowledged, Pending, Turns, BadComplete, IsActive, States,
      mainVars, callVars, posVars, wireVars, Delivered, Types, Contexts
<1>17. Positions'
  BY <1>1, <1>2, SoundDeviceAssumption, <1>3
  DEF Positions, Playing, Phases, Unacknowledged, Pending, Backlog,
      BadComplete, IsActive, States
<1>18. StreamAlive'
  BY <1>1, <1>2, SoundDeviceAssumption, <1>3
  DEF StreamAlive, Loading, Loads, Phases, Unacknowledged, Pending, Before,
      BadComplete, IsActive, States
<1> QED
  BY <1>7, <1>8, <1>9, <1>10, <1>11, <1>12, <1>13, <1>14, <1>15, <1>16, <1>17,
     <1>18
  DEF SoundInv

(* The callback counts a completion, and refills when one chunk at most is   *)
(* left, or takes notice of Cancel.                                          *)
LEMMA HandleCompleteStep ==
  ASSUME SoundInv, cpu = "handler", cpu' = cpu, HandleComplete
  PROVE  SoundInv'
<1>1. /\ Types /\ Turns /\ Phases /\ Unopened /\ Frames /\ Requests /\ Packets
      /\ Heads /\ Loads /\ Refills /\ Positions /\ StreamAlive
  BY DEF SoundInv
<1>2. /\ CountOf(toPeer, "packet") \in Nat
      /\ CountOf(fromPeer, "complete") \in Nat
  BY <1>1, Counts
<1>3. /\ fromPeer' \in Seq(Answer) /\ Head(fromPeer) \in Answer
      /\ CountOf(fromPeer', "complete") \in Nat
      /\ CountOf(fromPeer, "complete") = CountOf(fromPeer', "complete")
           + Head(fromPeer).packets
  BY <1>1, DeliverStep DEF HandleComplete, Delivered
<1>4. \A types : Has(fromPeer', types) => Has(fromPeer, types)
  BY <1>1, DeliverStep DEF HandleComplete, Delivered
<1>5. \A i \in DOMAIN fromPeer' :
         fromPeer'[i].type = "complete" => fromPeer'[i].packets > 0
  BY <1>1, DeliverStep DEF HandleComplete, Delivered
<1>6. Single(toPeer, fromPeer')
  BY <1>1, DeliverStep DEF HandleComplete, Delivered, Requests
<1>7. Head(fromPeer).packets \in Nat \ {0}
  BY <1>1, <1>3, DeliverStep DEF HandleComplete, Delivered, Answer
<1>8. /\ UNCHANGED <<mpc, round, event, result, toPeer, frame, framed,
                     unplayed, writePos>>
      /\ hpc = "idle" /\ Playing
      /\ mpc \notin Opening \cup Loading
           \cup {"start", "running", "reset", "cancel", "stopped"}
  <2>1. UNCHANGED <<mpc, round, event, result, toPeer, frame, framed, unplayed,
                    writePos>>
        /\ hpc = "idle"
    BY DEF HandleComplete, Delivered, mainVars, callVars, wireVars
  <2>2. mpc \notin Loading
          \cup {"open", "config", "control", "start", "running", "reset",
                                 "cancel", "stopped"}
    BY <1>1 DEF Turns, Loading
  <2>3. Playing
    BY <1>1 DEF HandleComplete, IsActive, Playing, Types, States
  <2>4. mpc \notin Opening
    BY <1>1, <2>3 DEF Phases, Playing
  <2> QED
    BY <2>1, <2>2, <2>3, <2>4
<1>9. ~ Has(toPeer, {"open", "start"})
  <2>1. Has(fromPeer, {"complete"})
    BY <1>1, DeliverStep DEF HandleComplete, Delivered
  <2> QED
    BY <1>1, <2>1 DEF Heads
<1>10. /\ Unacknowledged \in Nat /\ Unacknowledged <= 2 * ChunkSize
       /\ Backlog = Unacknowledged
       /\ Unacknowledged' = Unacknowledged - Head(fromPeer).packets
       /\ Unacknowledged' \in Nat
  <2>1. Unacknowledged <= 2 * ChunkSize /\ Backlog = Unacknowledged
    BY <1>1, <1>8 DEF Positions, Loading
  <2>2. Unacknowledged' = Unacknowledged - Head(fromPeer).packets
    BY SMTT(30), <1>1, <1>2, <1>3, <1>7, <1>8
    DEF Unacknowledged, Pending, Types
  <2>3. Unacknowledged \in Nat /\ Unacknowledged' \in Nat
    BY SMTT(30), <1>1, <1>2, <1>3, <1>8 DEF Unacknowledged, Pending, Types
  <2> QED
    BY <2>1, <2>2, <2>3
<1>11. Backlog' = Unacknowledged' /\ completePos' \in 0 .. Modulus - 1
  <2>1. completePos' = (completePos + Head(fromPeer).packets) % Modulus
    BY DEF HandleComplete
  <2>2. Head(fromPeer).packets <= (writePos - completePos) % Modulus
    BY <1>7, <1>10 DEF Backlog
  <2>3. /\ (writePos
             - ((completePos + Head(fromPeer).packets) % Modulus)) % Modulus
             = ((writePos - completePos) % Modulus) - Head(fromPeer).packets
        /\ (completePos + Head(fromPeer).packets) % Modulus \in 0 .. Modulus
             - 1
    BY <1>1, <1>7, <2>2, BacklogTake DEF Types
  <2>4. Backlog' = (writePos - completePos') % Modulus
    BY <1>8 DEF Backlog
  <2>5. Backlog = (writePos - completePos) % Modulus
    BY DEF Backlog
  <2>6. completePos' \in 0 .. Modulus - 1
    BY <2>1, <2>3
  <2>7. Backlog' = Backlog - Head(fromPeer).packets
    BY <2>1, <2>3, <2>4, <2>5
  <2> QED
    BY <1>10, <2>6, <2>7
<1>12. \/ /\ Unacknowledged' > ChunkSize /\ UNCHANGED <<hpc, state, left>>
       \/ /\ Unacknowledged' <= ChunkSize /\ state = "Cancelled"
          /\ state' = "Terminating" /\ UNCHANGED <<hpc, left>>
       \/ \E n \in 0 .. ChunkSize :
            /\ Unacknowledged' <= ChunkSize /\ state # "Cancelled"
            /\ left' = [left EXCEPT !["handler"] = n]
            /\ IF n = 0 THEN state' = "Idle" /\ hpc' = "idle"
                        ELSE state' = state /\ hpc' = "write"
  BY <1>1, <1>10, <1>11, SoundDeviceAssumption
  DEF HandleComplete, Refill, Chunk, CallbackResults, Types
<1>13. Types'
  BY <1>1, <1>2, SoundDeviceAssumption, <1>8, <1>12, <1>3, <1>11
  DEF Types, HandleComplete, Refill, Chunk, CallbackResults, IsActive, States,
      mainVars, callVars, wireVars, Contexts
<1>14. Turns'
  BY <1>1, <1>2, SoundDeviceAssumption, <1>8, <1>12 DEF Turns, Phases
<1>15. Phases'
  BY <1>1, <1>2, SoundDeviceAssumption, <1>8, <1>12
  DEF Phases, Opening, Loading, Turns, Playing, States, Types, Contexts
<1>16. Unopened'
  BY <1>1, <1>2, SoundDeviceAssumption, <1>8, <1>12, <1>4 DEF Unopened, Phases
<1>17. Frames'
  BY <1>1, <1>2, SoundDeviceAssumption, <1>8, <1>12
  DEF Frames, Turns, States, Types, Contexts
<1>18. Requests'
  BY <1>1, <1>2, SoundDeviceAssumption, <1>8, <1>12, <1>4, <1>6
  DEF Requests, Awaited, States, Types, Contexts
<1>19. Packets'
  BY <1>1, <1>2, SoundDeviceAssumption, <1>8, <1>12, <1>5 DEF Packets, Playing
<1>20. Heads'
  BY <1>1, <1>2, SoundDeviceAssumption, <1>8, <1>12, <1>4, <1>9 DEF Heads
<1>21. Loads'
  BY <1>1, <1>2, SoundDeviceAssumption, <1>8, <1>12
  DEF Loads, Loading, States, Types, Contexts
<1>22. Refills'
  <2>1. hpc' # "data"
    BY <1>8, <1>12
  <2>2. SUFFICES ASSUME hpc' = "write"
                 PROVE  Len(toPeer) <= 2 * ChunkSize + 1
                          /\ Unacknowledged' <= ChunkSize
    BY <1>8, <2>1 DEF Refills
  <2>3. Unacknowledged' <= ChunkSize
    BY <1>8, <1>12, <2>2
  <2>4. CountOf(toPeer, "packet") <= ChunkSize
    BY <1>1, <1>2, <1>3, <1>8, <2>3, SoundDeviceAssumption
    DEF Unacknowledged, Pending, Types
  <2>5. frame = 0
    BY <1>1, <1>8 DEF Frames, Loading
  <2>6. \A i \in DOMAIN toPeer :
          toPeer[i].type \in {"write", "packet", "config", "control"}
    <3>1. \A i \in DOMAIN toPeer : toPeer[i].type \in TxTypes
      BY <1>1, Elements DEF Sent
    <3>2. ~ Has(toPeer, {"stop"})
      BY <1>1, <1>8 DEF Heads, Playing
    <3> QED
      BY <1>9, <3>1, <3>2 DEF Has, TxTypes
  <2>7. Len(toPeer) <= 2 * CountOf(toPeer, "packet") + 1
    <3>1. Countable(Sent) /\ toPeer \in Seq(Sent)
      BY <1>1, SoundDeviceAssumption DEF Countable, Sent, Types
    <3>2. \A i \in DOMAIN toPeer : toPeer[i].type = "packet"
            => toPeer[i].packets = 1
      BY <1>1 DEF Packets, Singles
    <3>3. \A i \in DOMAIN toPeer : toPeer[i].type = "write" =>
            i # Len(toPeer) /\ toPeer[i + 1].type = "packet"
      BY <1>1, <1>8, <2>5 DEF Packets, Followed
    <3>4. \A i, j \in DOMAIN toPeer :
            {toPeer[i].type, toPeer[j].type} \cap {"write", "packet"} = {}
              => i = j
      BY <1>1, <2>6 DEF Requests, Single
    <3> QED
      BY <3>1, <3>2, <3>3, <3>4, QueueBound
  <2> QED
    BY <1>1, <1>2, <2>3, <2>4, <2>7, Elements, SoundDeviceAssumption
<1>23. Positions'
  <2>1. mpc' # "bump"
    BY <1>8 DEF Loading
  <2> QED
    BY <1>7, <1>10, <1>11, <2>1, SoundDeviceAssumption DEF Positions
<1>24. StreamAlive'
  BY <1>1, <1>2, SoundDeviceAssumption, <1>8, <1>12, <1>10
  DEF StreamAlive, States, Types, Contexts
<1> QED
  BY <1>13, <1>14, <1>15, <1>16, <1>17, <1>18, <1>19, <1>20, <1>21, <1>22,
     <1>23, <1>24
  DEF SoundInv

(* The callback fails to send.                                               *)
LEMMA HandlerFailsStep ==
  ASSUME SoundInv, cpu = "handler", cpu' = cpu, HandlerFails
  PROVE  SoundInv'
<1>1. /\ Types /\ Turns /\ Phases /\ Unopened /\ Frames /\ Requests /\ Packets
      /\ Heads /\ Loads /\ Refills /\ Positions /\ StreamAlive
  BY DEF SoundInv
<1>2. /\ CountOf(toPeer, "packet") \in Nat
      /\ CountOf(fromPeer, "complete") \in Nat
  BY <1>1, Counts
<1>3. Types'
  BY <1>1, <1>2, SoundDeviceAssumption
  DEF Types, HandlerFails, States, mainVars, callVars, posVars, peerVars,
      Contexts
<1>4. Turns'
  BY <1>1, <1>2, SoundDeviceAssumption
  DEF Turns, Phases, Opening, HandlerFails, States, mainVars
<1>5. Phases'
  BY <1>1, <1>2, SoundDeviceAssumption
  DEF Phases, Opening, Loading, Turns, HandlerFails, States, mainVars
<1>6. Unopened'
  BY <1>1, <1>2, SoundDeviceAssumption
  DEF Unopened, Phases, Opening, HandlerFails, States, mainVars
<1>7. Frames'
  BY <1>1, <1>2, SoundDeviceAssumption
  DEF Frames, Turns, HandlerFails, States, mainVars
<1>8. Requests'
  <2>1. toPeer' = toPeer /\ fromPeer' = fromPeer /\ UNCHANGED <<mpc, event>>
    BY DEF HandlerFails, mainVars, callVars, peerVars
  <2> QED
    BY <1>1, <2>1 DEF Requests, Awaited
<1>9. Packets'
  BY <1>1, <1>2, SoundDeviceAssumption
  DEF Packets, Playing, Phases, HandlerFails, States, mainVars, callVars,
      posVars, peerVars, Types, Contexts
<1>10. Heads'
  BY <1>1, <1>2, SoundDeviceAssumption
  DEF Heads, Phases, Playing, HandlerFails, States, mainVars
<1>11. Loads'
  BY <1>1, <1>2, SoundDeviceAssumption
  DEF Loads, Turns, Loading, HandlerFails, States, mainVars
<1>12. Refills'
  BY <1>1, <1>2, SoundDeviceAssumption
  DEF Refills, Unacknowledged, Pending, Turns, HandlerFails, States, mainVars
<1>13. Positions'
  BY <1>1, <1>2, SoundDeviceAssumption
  DEF Positions, Playing, Phases, Unacknowledged, Pending, Backlog,
      HandlerFails, States
<1>14. StreamAlive'
  BY <1>1, <1>2, SoundDeviceAssumption
  DEF StreamAlive, Loading, Loads, Phases, Unacknowledged, Pending, Before,
      HandlerFails, States
<1> QED
  BY <1>3, <1>4, <1>5, <1>6, <1>7, <1>8, <1>9, <1>10, <1>11, <1>12, <1>13,
     <1>14
  DEF SoundInv

(* WriteChunk in the callback sends WRITE and moves m_nWritePos.             *)
LEMMA HandlerWriteStep ==
  ASSUME SoundInv, cpu = "handler", cpu' = cpu, hpc = "write",
         Queue(Message("write", left["handler"])),
         writePos' = (writePos + left["handler"]) % Modulus, hpc' = "data",
         left' = left,
         UNCHANGED <<mainVars, state, callVars, completePos, peerVars>>
  PROVE  SoundInv'
<1>1. /\ Types /\ Turns /\ Phases /\ Unopened /\ Frames /\ Requests /\ Packets
      /\ Heads /\ Loads /\ Refills /\ Positions /\ StreamAlive
  BY DEF SoundInv
<1>2. /\ CountOf(toPeer, "packet") \in Nat
      /\ CountOf(fromPeer, "complete") \in Nat
  BY <1>1, Counts
<1>3. /\ Len(toPeer) \in Nat /\ DOMAIN toPeer = 1 .. Len(toPeer)
      /\ \A i \in DOMAIN toPeer : toPeer[i] \in Sent
  BY <1>1, Elements
<1>4. "write" \in TxTypes /\ left["handler"] \in 0 .. ChunkSize
  BY <1>1, SoundDeviceAssumption DEF TxTypes, Types
<1>5. /\ toPeer' \in Seq(Sent) /\ Len(toPeer') = Len(toPeer) + 1
      /\ frame' = left["handler"] /\ framed' /\ framed' \in BOOLEAN
      /\ CountOf(toPeer', "packet") = CountOf(toPeer, "packet")
  BY <1>1, <1>2, <1>4, QueueStep DEF Frames, Turns, Types
<1>6. /\ \A types : Has(toPeer', types)
           <=> Has(toPeer, types) \/ "write" \in types
      /\ Single(toPeer', fromPeer)
  BY <1>1, <1>4, QueueStep DEF Requests
<1>7. /\ Singles(toPeer')
      /\ Playing => Followed(toPeer', frame' > 0)
      /\ HeadsFirst(toPeer)  => HeadsFirst(toPeer')
  BY <1>1, <1>4, QueueStep DEF Packets, Frames, Turns
<1>8. /\ UNCHANGED <<mpc, round, state, event, result, completePos, fromPeer,
                     unplayed>>
      /\ Playing
  BY <1>1 DEF mainVars, callVars, peerVars, Phases, Playing, Types
<1>9. mpc \notin Opening \cup Loading
        \cup {"start", "running", "reset", "cancel", "stopped"}
  BY <1>1 DEF Turns, Phases, Opening, Loading, Playing
<1>10. Types'
  BY <1>1, <1>2, SoundDeviceAssumption, <1>5, <1>8, <1>9 DEF Types, Contexts
<1>11. Turns'
  BY <1>1, <1>2, SoundDeviceAssumption, <1>8, <1>9 DEF Turns
<1>12. Phases'
  BY <1>1, <1>2, SoundDeviceAssumption, <1>8, <1>9 DEF Phases, Opening
<1>13. Unopened'
  BY <1>1, <1>2, SoundDeviceAssumption
  DEF Unopened, Phases, Opening, Types, Contexts
<1>14. Frames'
  BY <1>1, <1>2, SoundDeviceAssumption, <1>5, <1>8, <1>9
  DEF Frames, Turns, Types, Contexts
<1>15. Requests'
  BY <1>1, <1>2, SoundDeviceAssumption, <1>6, <1>8, <1>9
  DEF Requests, Awaited, Types, Contexts
<1>16. Packets'
  BY <1>1, <1>2, SoundDeviceAssumption, <1>7, <1>8, <1>9 DEF Packets
<1>17. Heads'
  BY <1>1, <1>2, SoundDeviceAssumption, <1>6, <1>7, <1>8, <1>9
  DEF Heads, Phases, Types, Contexts
<1>18. Loads'
  BY <1>5, <1>8, <1>9 DEF Loads, Loading, Types, Contexts
<1>19. Refills'
  BY <1>1, <1>2, SoundDeviceAssumption, <1>3, <1>5, <1>8, <1>9
  DEF Refills, Unacknowledged, Pending, Turns, Types, Contexts
<1>20. Positions'
  <2>1. left["handler"] \in 1 .. ChunkSize
          /\ left["handler"] \in 0 .. Modulus - 1
    BY <1>1, SoundDeviceAssumption DEF Types, Contexts, Frames
  <2>2. /\ Unacknowledged <= ChunkSize /\ Backlog = Unacknowledged
        /\ Unacknowledged \in Nat
    BY <1>1, <1>2, <1>8, <1>9
    DEF Refills, Positions, Unacknowledged, Pending, Types, Loading
  <2>3. Unacknowledged' = Unacknowledged + left["handler"]
    <3>1. frame = 0
      BY <1>1, <1>9 DEF Frames, Loading
    <3> QED
      BY <1>1, <1>2, <1>5, <1>8, <2>1, <3>1 DEF Unacknowledged, Pending, Types
  <2>4. ((writePos - completePos) % Modulus) + left["handler"] < Modulus
    BY <2>1, <2>2, SoundDeviceAssumption DEF Backlog
  <2>5. (((writePos + left["handler"]) % Modulus) - completePos) % Modulus
          = ((writePos - completePos) % Modulus) + left["handler"]
    BY <1>1, <2>1, <2>4, BacklogAdd DEF Types
  <2>6. Backlog' = Backlog + left["handler"]
    BY <1>8, <2>5 DEF Backlog
  <2>7. mpc' # "bump"
    BY <1>8, <1>9 DEF Loading
  <2> QED
    BY <2>1, <2>2, <2>3, <2>6, <2>7, SoundDeviceAssumption DEF Positions
<1>21. StreamAlive'
  BY <1>1, <1>2, SoundDeviceAssumption DEF StreamAlive
<1> QED
  BY <1>10, <1>11, <1>12, <1>13, <1>14, <1>15, <1>16, <1>17, <1>18, <1>19,
     <1>20, <1>21
  DEF SoundInv

(* WriteChunk in the callback sends a packet.                                *)
LEMMA HandlerDataStep ==
  ASSUME SoundInv, cpu = "handler", cpu' = cpu, hpc = "data",
         Queue(Message("packet", 1)),
         left' = [left EXCEPT !["handler"] = @ - 1],
         hpc' = IF left["handler"] = 1 THEN "idle" ELSE "data",
         writePos' = writePos,
         UNCHANGED <<mainVars, state, callVars, completePos, peerVars>>
  PROVE  SoundInv'
<1>1. /\ Types /\ Turns /\ Phases /\ Unopened /\ Frames /\ Requests /\ Packets
      /\ Heads /\ Loads /\ Refills /\ Positions /\ StreamAlive
  BY DEF SoundInv
<1>2. /\ CountOf(toPeer, "packet") \in Nat
      /\ CountOf(fromPeer, "complete") \in Nat
  BY <1>1, Counts
<1>3. /\ Len(toPeer) \in Nat /\ DOMAIN toPeer = 1 .. Len(toPeer)
      /\ \A i \in DOMAIN toPeer : toPeer[i] \in Sent
  BY <1>1, Elements
<1>4. "packet" \in TxTypes /\ 1 \in 0 .. ChunkSize
  BY <1>1, SoundDeviceAssumption DEF TxTypes, Types
<1>5. /\ toPeer' \in Seq(Sent) /\ Len(toPeer') = Len(toPeer) + 1
      /\ frame' = frame - 1 /\ framed' /\ framed' \in BOOLEAN
      /\ CountOf(toPeer', "packet") = CountOf(toPeer, "packet") + 1
  BY <1>1, <1>2, <1>4, QueueStep DEF Frames, Turns, Types
<1>6. /\ \A types : Has(toPeer', types)
           <=> Has(toPeer, types) \/ "packet" \in types
      /\ Single(toPeer', fromPeer)
  BY <1>1, <1>4, QueueStep DEF Requests
<1>7. /\ Singles(toPeer')
      /\ Playing => Followed(toPeer', frame' > 0)
      /\ HeadsFirst(toPeer)  => HeadsFirst(toPeer')
  BY <1>1, <1>4, QueueStep DEF Packets, Frames, Turns
<1>8. /\ UNCHANGED <<mpc, round, state, event, result, completePos, fromPeer,
                     unplayed>>
      /\ Playing
  BY <1>1 DEF mainVars, callVars, peerVars, Phases, Playing, Types
<1>9. mpc \notin Opening \cup Loading
        \cup {"start", "running", "reset", "cancel", "stopped"}
  BY <1>1 DEF Turns, Phases, Opening, Loading, Playing
<1>10. Types'
  BY SMTT(30), <1>1, <1>2, SoundDeviceAssumption, <1>5, <1>8, <1>9
  DEF Types, Frames, Contexts
<1>11. Turns'
  BY <1>1, <1>2, SoundDeviceAssumption, <1>8, <1>9 DEF Turns
<1>12. Phases'
  BY <1>1, <1>2, SoundDeviceAssumption, <1>8, <1>9 DEF Phases, Opening
<1>13. Unopened'
  BY <1>1, <1>2, SoundDeviceAssumption
  DEF Unopened, Phases, Opening, Types, Contexts
<1>14. Frames'
  BY <1>1, <1>2, SoundDeviceAssumption, <1>5, <1>8, <1>9
  DEF Frames, Turns, Types, Contexts
<1>15. Requests'
  BY <1>1, <1>2, SoundDeviceAssumption, <1>6, <1>8, <1>9
  DEF Requests, Awaited, Types, Contexts
<1>16. Packets'
  BY <1>1, <1>2, SoundDeviceAssumption, <1>7, <1>8, <1>9 DEF Packets
<1>17. Heads'
  BY <1>1, <1>2, SoundDeviceAssumption, <1>6, <1>7, <1>8, <1>9
  DEF Heads, Phases, Types, Contexts
<1>18. Loads'
  BY <1>5, <1>8, <1>9 DEF Loads, Loading, Types, Contexts
<1>19. Refills'
  BY <1>1, <1>2, SoundDeviceAssumption, <1>3, <1>5, <1>8, <1>9
  DEF Refills, Unacknowledged, Pending, Turns, Types, Contexts
<1>20. Positions'
  BY SMTT(30), <1>1, <1>2, SoundDeviceAssumption, <1>5, <1>8, <1>9
  DEF Positions, Playing, Phases, Unacknowledged, Pending, Backlog, Types,
      Contexts
<1>21. StreamAlive'
  <2>1. frame > 0 /\ frame \in Nat /\ frame' = frame - 1
    BY <1>1, <1>5 DEF Frames, Types, Loading, Contexts
  <2>2. Unacknowledged' > 0
    BY <1>1, <1>2, <1>5, <1>8, <2>1 DEF Unacknowledged, Pending, Types
  <2> QED
    BY <2>2 DEF StreamAlive
<1> QED
  BY <1>10, <1>11, <1>12, <1>13, <1>14, <1>15, <1>16, <1>17, <1>18, <1>19,
     <1>20, <1>21
  DEF SoundInv

-------------------------------------------------------------------------------
(* Together                                                                  *)

(* A device that has not been started keeps the invariant.                   *)
LEMMA SoundInvInit ==
  ASSUME Init
  PROVE  SoundInv
<1>1. /\ cpu = "main" /\ mpc = "idle" /\ hpc = "idle" /\ state = "Created"
      /\ toPeer = <<>> /\ fromPeer = <<>> /\ unplayed = 0 /\ frame = 0
      /\ framed
  BY DEF Init
<1>2. DOMAIN toPeer = {} /\ DOMAIN fromPeer = {} /\ Len(toPeer) = 0
  BY <1>1
<1>3. \A types : ~ Has(toPeer, types) /\ ~ Has(fromPeer, types)
  BY <1>2 DEF Has
<1>4. Types
  <2>1. /\ writePos \in 0 .. Modulus - 1 /\ completePos \in 0 .. Modulus - 1
        /\ round \in 1 .. 2 /\ event \in BOOLEAN /\ result \in {0, -1}
    <3>1. 0 \in 0 .. Modulus - 1
      BY SoundDeviceAssumption
    <3>2. writePos = 0 /\ completePos = 0 /\ round = 1 /\ result = 0
      BY DEF Init
    <3>3. event \in BOOLEAN
      BY Zenon DEF Init
    <3> QED
      BY <3>1, <3>2, <3>3
  <2>2. left \in [Contexts -> 0 .. ChunkSize]
    BY SoundDeviceAssumption DEF Init
  <2>3. toPeer \in Seq(Sent) /\ fromPeer \in Seq(Answer)
    BY <1>1
  <2>4. unplayed \in Nat /\ frame \in 0 .. ChunkSize /\ framed \in BOOLEAN
    BY <1>1, SoundDeviceAssumption DEF Init
  <2> QED
    BY <1>1, <2>1, <2>2, <2>3, <2>4 DEF Types, Contexts, MainPCs, States
<1>5. Turns /\ Phases /\ Unopened /\ Refills /\ Positions /\ StreamAlive
  BY <1>1, <1>3
  DEF Turns, Phases, Unopened, Refills, Positions, StreamAlive, Opening,
      Loading, Playing
<1>6. Frames /\ Loads
  BY <1>1 DEF Frames, Loads, Loading
<1>7. Requests
  BY <1>2, <1>3 DEF Requests, Single
<1>8. Packets
  BY <1>1, <1>2 DEF Packets, Singles, Playing
<1>9. Heads
  BY <1>1, <1>2, <1>3 DEF Heads, HeadsFirst
<1> QED
  BY <1>4, <1>5, <1>6, <1>7, <1>8, <1>9 DEF SoundInv

(* Every step of the main thread keeps the invariant.                        *)
LEMMA MainRunsStep ==
  ASSUME SoundInv, PlaybackSetting, MainRuns
  PROVE  SoundInv'
<1>1. cpu = "main" /\ cpu' = cpu /\ MainStep
  BY DEF MainRuns
<1>2. /\ Types /\ Phases /\ Requests
  BY DEF SoundInv
<1>3. ASSUME NEW from, NEW type, NEW to, SendRequest(from, type, to),
             <<from, type, to>> \in {<<"config", "config", "configWait">>,
                                     <<"control", "control", "controlWait">>,
                                     <<"setControl", "control",
                                       "setControlWait">>}
      PROVE  SoundInv'
  <2>1. mpc = from /\ event' \in {FALSE}
          /\ UNCHANGED <<hpc, posVars, left, peerVars>>
    BY <1>3 DEF SendRequest
  <2>2. CASE Queue(Message(type, 0)) /\ Goto(to) /\ UNCHANGED <<state, result>>
    <3>1. mpc' = to /\ round' = round /\ state' = state /\ result' = result
      BY <2>2 DEF Goto
    <3>2. Queue(Message(type, 0)) /\ state' = state /\ result' = result
      BY <2>2
    <3>3. /\ cpu = "main" /\ cpu' = cpu
          /\ <<from, type, to>> \in {<<"config", "config", "configWait">>,
                                     <<"control", "control", "controlWait">>,
                                     <<"setControl", "control",
                                       "setControlWait">>}
      BY <1>1, <1>3
    <3> QED
      BY <2>1, <3>1, <3>2, <3>3, RequestStep
  <2>3. CASE /\ Faults /\ Goto("idle") /\ result' = -1 /\ UNCHANGED wireVars
             /\ state' = IF from = "setControl" THEN state ELSE "Error"
    <3>1. /\ mpc' = "idle" /\ round' = round /\ frame' = frame
          /\ toPeer' = toPeer /\ framed' = framed
      BY <2>3 DEF Goto, wireVars
    <3>2. ~ Awaited /\ mpc # "data"
      BY <1>3, <2>1 DEF Awaited
    <3>3. \/ state' = "Error" /\ mpc \in {"config", "control"}
          \/ state' = state /\ mpc = "setControl"
      BY <1>3, <2>1, <2>3
    <3> QED
      BY <1>1, <2>1, <2>3, <3>1, <3>2, <3>3, GiveUpStep DEF Opening
  <2> QED
    BY <1>3, <2>2, <2>3 DEF SendRequest
<1>4. ASSUME NEW from, NEW to, AwaitResult(from, to),
             <<from, to>> \in {<<"configWait", "control">>,
                               <<"controlWait", "open">>,
                               <<"setControlWait", "idle">>}
      PROVE  SoundInv'
  <2>1. /\ mpc = from /\ event
        /\ UNCHANGED <<hpc, callVars, posVars, left, wireVars, peerVars>>
    BY <1>4 DEF AwaitResult
  <2>2. CASE Goto(to) /\ UNCHANGED state
    <3>1. mpc' = to /\ round' = round /\ state' = state
      BY <2>2 DEF Goto
    <3> QED
      BY <1>1, <1>4, <2>1, <3>1, AwaitedStep
  <2>3. CASE /\ Goto("idle")
             /\ state' = IF from = "setControlWait" THEN state ELSE "Error"
    <3>1. /\ mpc' = "idle" /\ round' = round /\ frame' = frame
          /\ toPeer' = toPeer
          /\ framed' = framed /\ event' = event /\ result' = result
      BY <2>1, <2>3 DEF Goto, wireVars, callVars
    <3>2. ~ Awaited /\ mpc # "data"
      BY <1>4, <2>1 DEF Awaited
    <3>3. \/ state' = "Error" /\ mpc \in {"configWait", "controlWait"}
          \/ state' = state /\ mpc = "setControlWait"
      BY <1>4, <2>1, <2>3
    <3>4. event' \in BOOLEAN /\ result' \in {0, -1}
      BY <1>2, <3>1 DEF Types
    <3> QED
      BY <1>1, <2>1, <3>1, <3>2, <3>3, <3>4, GiveUpStep DEF Opening
  <2> QED
    BY <1>4, <2>2, <2>3 DEF AwaitResult
<1>5. ASSUME NEW from \in {"start", "write"}, NEW m, NEW to,
             MainSend(from, m, to),
             UNCHANGED <<hpc, callVars, posVars, left, peerVars>>,
             ~ (Queue(m) /\ Goto(to) /\ UNCHANGED state)
      PROVE  SoundInv'
  <2>1. /\ mpc = from /\ mpc' = "idle" /\ round' = round /\ state' = "Error"
        /\ frame' = frame /\ toPeer' = toPeer /\ framed' = framed
    BY <1>5 DEF MainSend, Goto, wireVars
  <2>2. event' = event /\ result' = result
    BY <1>5 DEF callVars
  <2>3. ~ Awaited /\ event' \in BOOLEAN /\ result' \in {0, -1}
    BY <1>2, <2>1, <2>2 DEF Awaited, Types
  <2>4. mpc \in (Opening \cup Loading \cup {"start", "running"}) \ {"bump"}
          /\ mpc # "data"
    BY <2>1 DEF Loading
  <2> QED
    BY <1>1, <1>5, <2>1, <2>3, <2>4, GiveUpStep
<1>6. ASSUME SendOpen
      PROVE  SoundInv'
  <2>1. mpc = "open" /\ UNCHANGED <<hpc, callVars, posVars, left, peerVars>>
    BY <1>6 DEF SendOpen
  <2>2. CASE Queue(Message("open", 0)) /\ Goto("start") /\ state' = "Idle"
    BY <1>1, <2>1, <2>2, OpenedStep DEF Goto
  <2>3. CASE Goto("idle") /\ state' = "Error" /\ UNCHANGED wireVars
    <3>1. /\ mpc' = "idle" /\ round' = round /\ frame' = frame
          /\ toPeer' = toPeer
          /\ framed' = framed /\ event' = event /\ result' = result
      BY <2>1, <2>3 DEF Goto, wireVars, callVars
    <3>2. ~ Awaited /\ event' \in BOOLEAN /\ result' \in {0, -1}
            /\ mpc # "data"
      BY <1>2, <2>1, <3>1 DEF Awaited, Types
    <3> QED
      BY <1>1, <2>1, <2>3, <3>1, <3>2, GiveUpStep DEF Opening
  <2> QED
    BY <1>6, <2>2, <2>3 DEF SendOpen
<1>7. ASSUME SendStart
      PROVE  SoundInv'
  <2>1. CASE Queue(Message("start", 0)) /\ Goto("running") /\ UNCHANGED state
    BY <1>1, <1>7, <2>1, StartedStep DEF SendStart, MainSend, Goto
  <2> QED
    BY <1>5, <1>7, <2>1 DEF SendStart
<1>8. ASSUME MainWrite
      PROVE  SoundInv'
  <2>1. CASE Queue(Message("write", left["main"])) /\ Goto("bump")
               /\ UNCHANGED state
    BY <1>1, <1>8, <2>1, WriteStep DEF MainWrite, MainSend, Goto
  <2> QED
    BY <1>5, <1>8, <2>1 DEF MainWrite
<1>9. ASSUME MainData
      PROVE  SoundInv'
  <2>1. mpc = "data" /\ UNCHANGED <<hpc, callVars, posVars, peerVars>>
    BY <1>9 DEF MainData
  <2>2. CASE /\ QueuePacket("main")
             /\ IF left["main"] = 1 THEN ChunkWritten ELSE Goto("data")
             /\ UNCHANGED state
    <3>1. /\ Queue(Message("packet", 1))
          /\ left' = [left EXCEPT !["main"] = @ - 1]
          /\ IF left["main"] = 1 THEN ChunkWritten
               ELSE mpc' = mpc /\ round' = round
      BY <2>1, <2>2 DEF QueuePacket, Goto
    <3> QED
      BY <1>1, <2>1, <2>2, <3>1, DataStep
  <2>3. CASE /\ Goto("idle") /\ state' = "Error"
             /\ frame' = 0 /\ UNCHANGED <<left, toPeer, framed>>
    <3>1. /\ mpc' = "idle" /\ round' = round /\ event' = event
          /\ result' = result
      BY <2>1, <2>3 DEF Goto, callVars
    <3>2. ~ Awaited /\ event' \in BOOLEAN /\ result' \in {0, -1}
      BY <1>2, <2>1, <3>1 DEF Awaited, Types
    <3> QED
      BY <1>1, <2>1, <2>3, <3>1, <3>2, GiveUpStep DEF Loading
  <2> QED
    BY <1>9, <2>2, <2>3 DEF MainData
<1>10. ASSUME SendStop
       PROVE  SoundInv'
  <2>1. mpc = "stop"
          /\ UNCHANGED <<hpc, state, callVars, posVars, left, peerVars>>
    BY <1>10 DEF SendStop
  <2>2. CASE Queue(Message("stop", 0)) /\ Goto("stopped")
    BY <1>1, <2>1, <2>2, StopStep DEF Goto
  <2>3. CASE Goto("idle") /\ UNCHANGED wireVars
    <3>1. /\ mpc' = "idle" /\ round' = round /\ frame' = frame
          /\ toPeer' = toPeer
          /\ framed' = framed /\ event' = event /\ result' = result
      BY <2>1, <2>3 DEF Goto, wireVars, callVars
    <3>2. ~ Awaited /\ event' \in BOOLEAN /\ result' \in {0, -1}
            /\ mpc # "data"
      BY <1>2, <2>1, <3>1 DEF Awaited, Types
    <3> QED
      BY <1>1, <2>1, <3>1, <3>2, GiveUpStep
  <2> QED
    BY <1>10, <2>2, <2>3 DEF SendStop
<1>11. CASE StartCall \/ SetRunning \/ ResetPositions \/ MainChunk \/ MainBump
  BY <1>1, <1>11, StartCallStep, SetRunningStep, ResetPositionsStep,
     MainChunkStep, MainBumpStep
<1>12. CASE CancelCall \/ SetCancelled \/ CancelTaken \/ Stopped
              \/ SetControlCall
  BY <1>1, <1>12, CancelCallStep, SetCancelledStep, CancelTakenStep,
     StoppedStep, SetControlCallStep
<1>13. CASE \/ SendRequest("config", "config", "configWait")
            \/ SendRequest("control", "control", "controlWait")
            \/ SendRequest("setControl", "control", "setControlWait")
  BY <1>3, <1>13
<1>14. CASE \/ AwaitResult("configWait", "control")
                 \/ AwaitResult("controlWait", "open")
            \/ AwaitResult("setControlWait", "idle")
  BY <1>4, <1>14
<1> QED
  BY <1>1, <1>6, <1>7, <1>8, <1>9, <1>10, <1>11, <1>12, <1>13, <1>14
  DEF MainStep

(* Every step of the callback keeps the invariant.                           *)
LEMMA HandlerRunsStep ==
  ASSUME SoundInv, HandlerRuns
  PROVE  SoundInv'
<1>1. cpu = "handler" /\ cpu' = cpu /\ HandlerStep
  BY DEF HandlerRuns
<1>2. CASE HandleResult \/ DropComplete \/ BadComplete \/ HandleComplete
             \/ HandlerFails
  BY <1>1, <1>2, HandleResultStep, DropCompleteStep, BadCompleteStep,
     HandleCompleteStep, HandlerFailsStep
<1>3. CASE HandlerWrite
  <2>1. /\ hpc = "write" /\ Queue(Message("write", left["handler"]))
        /\ writePos' = (writePos + left["handler"]) % Modulus /\ hpc' = "data"
        /\ left' = left
        /\ UNCHANGED <<mainVars, state, callVars, completePos, peerVars>>
    BY <1>3 DEF HandlerWrite
  <2> QED
    BY <1>1, <2>1, HandlerWriteStep
<1>4. CASE HandlerData
  <2>1. /\ hpc = "data" /\ Queue(Message("packet", 1))
        /\ left' = [left EXCEPT !["handler"] = @ - 1]
        /\ hpc' = IF left["handler"] = 1 THEN "idle" ELSE "data"
        /\ writePos' = writePos
        /\ UNCHANGED <<mainVars, state, callVars, completePos, peerVars>>
    BY <1>4 DEF HandlerData, QueuePacket, posVars
  <2> QED
    BY <1>1, <2>1, HandlerDataStep
<1> QED
  BY <1>1, <1>2, <1>3, <1>4 DEF HandlerStep

(* Every message that the service reads keeps it.                            *)
LEMMA PeerReadStep ==
  ASSUME SoundInv, PeerRead
  PROVE  SoundInv'
<1> DEFINE type == Head(toPeer).type
<1>1. /\ toPeer # <<>> /\ toPeer' = Tail(toPeer)
      /\ UNCHANGED <<cpu, mainVars, hpc, state, callVars, posVars, left, frame,
                     framed>>
  BY DEF PeerRead
<1>2. CASE /\ type \in {"config", "control"} /\ UNCHANGED unplayed
           /\ \E r \in Results :
                fromPeer' = Append(fromPeer, Reply("result", 0, r))
  <2>1. PICK r \in {0, -1} :
          fromPeer' = Append(fromPeer, Reply("result", 0, r))
    BY <1>2 DEF Results
  <2> QED
    BY <1>1, <1>2, <2>1, ReadRequestStep
<1>3. CASE type = "packet" /\ unplayed' = unplayed + 1 /\ UNCHANGED fromPeer
  BY <1>1, <1>3, ReadPacketStep
<1>4. CASE type = "stop" /\ unplayed' \in {0, unplayed} /\ UNCHANGED fromPeer
  BY <1>1, <1>4, ReadStopStep
<1>5. CASE type \in {"open", "start", "write"} /\ UNCHANGED peerVars
  BY <1>1, <1>5, ReadOtherStep
<1> QED
  BY <1>2, <1>3, <1>4, <1>5 DEF PeerRead

(* Every step keeps the invariant.                                           *)
LEMMA SoundInvNext ==
  ASSUME SoundInv, PlaybackSetting, [Next]_vars
  PROVE  SoundInv'
<1>1. CASE PeerComplete
  BY <1>1, PeerCompleteStep DEF PeerComplete
<1>2. CASE UNCHANGED vars
  <2>1. /\ UNCHANGED <<cpu, mpc, hpc, state, event, result, writePos,
                       completePos>>
        /\ UNCHANGED <<round, left, toPeer, fromPeer, unplayed, frame, framed>>
    BY <1>2 DEF vars, mainVars, wireVars, peerVars, posVars, callVars
  <2>2. /\ Types' /\ Turns' /\ Phases' /\ Unopened' /\ Frames' /\ Requests'
    BY <2>1
    DEF SoundInv, Types, Turns, Phases, Unopened, Frames, Requests, Awaited
  <2>3. /\ Packets' /\ Heads' /\ Loads' /\ Refills' /\ Positions'
        /\ StreamAlive'
    BY <2>1
    DEF SoundInv, Packets, Heads, Loads, Refills, Positions, StreamAlive,
        Unacknowledged, Pending, Backlog, Playing, Before
  <2> QED
    BY <2>2, <2>3 DEF SoundInv
<1> QED
  BY <1>1, <1>2, MainRunsStep, HandlerRunsStep, ToHandlerStep, ToMainStep,
     PeerReadStep
  DEF Next

(* The invariant holds in every state of a playback.                         *)
THEOREM SoundInvariant ==
  ASSUME PlaybackSetting
  PROVE  Spec => []SoundInv
<1>1. Init => SoundInv
  BY SoundInvInit
<1>2. SoundInv /\ [Next]_vars => SoundInv'
  BY SoundInvNext
<1> QED
  BY <1>1, <1>2, PTL DEF Spec

(* Every variable of the device and of the wire keeps its type: the          *)
(* positions do not leave theirs, WriteChunk never counts below zero.        *)
THEOREM SoundTypeOK ==
  ASSUME PlaybackSetting
  PROVE  Spec => []TypeOK
<1>1. SoundInv => TypeOK
  <2> SUFFICES ASSUME Types
               PROVE  TypeOK
    BY DEF SoundInv
  <2>1. \A i \in DOMAIN fromPeer : fromPeer[i].type \in {"result", "complete"}
    BY Elements DEF Answer
  <2> QED
    BY <2>1 DEF Types, TypeOK, Sent
<1> QED
  BY <1>1, SoundInvariant, PTL

(* No message splits a chunk: WriteChunk's WRITE is followed by the packets  *)
(* it announced, although Start, SetControl and the callback all write to    *)
(* the service.                                                              *)
THEOREM ChunksFramed ==
  ASSUME PlaybackSetting
  PROVE  Spec => []WritesFramed
<1>1. SoundInv => WritesFramed
  BY DEF SoundInv, Frames, WritesFramed
<1> QED
  BY <1>1, SoundInvariant, PTL

(* m_nWritePos - m_nCompletePos, in the type of the positions, is the number *)
(* of packets announced and not yet seen completed, across restarts and      *)
(* wraps.                                                                    *)
THEOREM BacklogCounts ==
  ASSUME PlaybackSetting
  PROVE  Spec => []BacklogExact
<1>1. SoundInv => BacklogExact
  BY DEF SoundInv, Positions, BacklogExact, Playing
<1> QED
  BY <1>1, SoundInvariant, PTL

(* A playing device has always something on the way that will call Callback  *)
(* again: it does not fall silent.                                           *)
THEOREM PlaybackAlive ==
  ASSUME PlaybackSetting
  PROVE  Spec => []StreamAlive
<1>1. SoundInv => StreamAlive
  BY DEF SoundInv
<1> QED
  BY <1>1, SoundInvariant, PTL

(* No result is on the way that could answer a later CallMessage: the flag   *)
(* and the result belong to the request they follow.                         *)
THEOREM ResultsMatched ==
  ASSUME PlaybackSetting
  PROVE  Spec => []RepliesMatched
<1>1. SoundInv => RepliesMatched
  BY DEF SoundInv, Requests, Awaited, Has, RepliesMatched
<1> QED
  BY <1>1, SoundInvariant, PTL

(* The packets on the way, either way, are numbers.                          *)
CountsKnown ==
  CountOf(fromPeer, "complete") \in Nat /\ CountOf(toPeer, "packet") \in Nat

(* So are they in the next state.                                            *)
LEMMA CountsNext ==
  Types' => CountsKnown'
<1>1. Types => CountsKnown
  BY Counts DEF CountsKnown
<1> QED
  BY <1>1, PTL

(* Callback asks for a chunk only when no more than one chunk is left queued *)
(* at the service, whatever completions are still on the way.                *)
THEOREM RefillsWhenLow ==
  ASSUME PlaybackSetting
  PROVE  Spec => RefillOnlyWhenLow
<1>1. ASSUME SoundInv, SoundInv', [Next]_vars, hpc = "idle", hpc' = "write"
      PROVE  Pending <= ChunkSize
  <2>1. HandleComplete
    BY <1>1
    DEF Next, MainRuns, MainStep, HandlerRuns, HandlerStep, ToHandler, ToMain,
        PeerRead, PeerComplete, StartCall, SendRequest, AwaitResult, SendOpen,
        SendStart, SetRunning, ResetPositions, MainChunk, MainWrite, MainBump,
        MainData, CancelCall, SetCancelled, CancelTaken, SendStop, Stopped,
        SetControlCall, HandleResult, DropComplete, BadComplete, HandlerFails,
        HandlerWrite, HandlerData, vars
  <2>2. UNCHANGED <<toPeer, frame, unplayed>>
    BY <2>1 DEF HandleComplete, wireVars
  <2>3. Pending' = Pending
    BY <2>2 DEF Pending
  <2>4. Unacknowledged' <= ChunkSize
    BY <1>1 DEF SoundInv, Refills
  <2>5. CountOf(fromPeer', "complete") \in Nat /\ Pending' \in Nat
    <3>1. Types' /\ CountsKnown'
      BY <1>1, CountsNext DEF SoundInv
    <3> QED
      BY <3>1 DEF CountsKnown, Pending, Types
  <2> QED
    BY <2>3, <2>4, <2>5, SoundDeviceAssumption DEF Unacknowledged
<1>2. SoundInv /\ SoundInv' /\ [Next]_vars
        => [hpc = "idle" /\ hpc' = "write" => Pending <= ChunkSize]_vars
  BY <1>1
<1> QED
  BY <1>2, SoundInvariant, PTL DEF Spec, RefillOnlyWhenLow

===============================================================================
