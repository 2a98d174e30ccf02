--------------------------- MODULE ServiceProofs ---------------------------
(***************************************************************************)
(* Proofs about the references of services (ServiceLife), for any number   *)
(* of threads on both sides.  A service has as many references as threads  *)
(* hold it, and one while it lives ("Spare"): every step of the slot       *)
(* handler leaves the references beside its own as they are, and every     *)
(* step of a thread changes them by what the thread takes or gives back.   *)
(*                                                                         *)
(* That the two sides agree about a service: what is on its way between    *)
(* them is known from how far each has opened or closed it.                *)
(*                                                                         *)
(* Last the VCHI services (ShimService): what a thread waits for, what the *)
(* service beneath it is like then, and where its messages are.            *)
(***************************************************************************)
EXTENDS ShimService, FiniteSetTheorems, TLAPS

Service ==
  [st : {"NONE", "FREE", "HIDDEN", "LISTENING", "OPENING", "OPEN", "CLOSESENT",
         "CLOSEWAIT"},
   remote : BOOLEAN, refs : Nat, closing : BOOLEAN, listens : BOOLEAN,
   ups : 0 .. MaxUps, poll : SUBSET {"TERMINATE", "REMOVE"}, auto : BOOLEAN,
   life : Nat]

HoldingPlaces == {"using", "asking_TERMINATE", "asking_REMOVE",
                  "waiting_TERMINATE", "waiting_REMOVE"}

Caller ==
  [pc : {"idle", "using", "adding", "opening", "failed", "asking_TERMINATE",
         "asking_REMOVE", "waiting_TERMINATE", "waiting_REMOVE"},
   life : Nat]

(* The references of a service beside its own, and of a thread's call.       *)
Alive(v) == v.st \notin {"NONE", "FREE"}
Spare(v) == v.refs - (IF Alive(v) THEN 1 ELSE 0)
Share(c) == IF c.pc \in HoldingPlaces THEN 1 ELSE 0

HoldersAt(s) == {t \in Threads(s) : Holds(t)}

(* Lives are numbered; only client threads open.                             *)
LifeLog ==
  [lives : [Ends -> Nat], gone : BOOLEAN, shared : BOOLEAN, missed : BOOLEAN]

LifeTypes ==
  /\ lifeLog \in LifeLog
  /\ \A t \in LifeThreads :
       caller[t].pc \in {"adding", "opening"} => EndOf(t) = "client"

(* What is on its way to a side, and fits.                                   *)
Message == [type : {"OPEN", "OPENACK", "CLOSE"}, src : BOOLEAN, dst : BOOLEAN]

MsgsInv ==
  /\ lifeMsgs \in [Ends -> Seq(Message)]
  /\ \A s \in Ends : Len(lifeMsgs[s]) <= LifeRoom

IInv ==
  /\ svc \in [Ends -> Service]
  /\ caller \in [LifeThreads -> Caller]
  /\ ServiceRefs

-----------------------------------------------------------------------------
(* A thread belongs to one side.                                             *)
LEMMA ThreadsApart ==
  ASSUME NEW t \in LifeThreads
  PROVE  /\ EndOf(t) \in Ends /\ t \in Threads(EndOf(t))
         /\ \A s \in Ends : t \in Threads(s) => s = EndOf(t)
BY ServiceLifeAssumption DEF LifeThreads, EndOf, Ends, Threads

LEMMA ThreadsFinite ==
  ASSUME NEW s \in Ends
  PROVE  Threads(s) \subseteq LifeThreads /\ IsFiniteSet(Threads(s))
BY ServiceLifeAssumption DEF LifeThreads, Ends, Threads

(* HoldersAt are finitely many, and none exactly if they count 0.            *)
LEMMA HoldersCounted ==
  ASSUME NEW s \in Ends
  PROVE  /\ IsFiniteSet(HoldersAt(s)) /\ Cardinality(HoldersAt(s)) \in Nat
         /\ Cardinality(HoldersAt(s)) = 0 <=> HoldersAt(s) = {}
<1>1. HoldersAt(s) \subseteq Threads(s)
  BY DEF HoldersAt
<1>2. IsFiniteSet(HoldersAt(s))
  BY <1>1, ThreadsFinite, FS_Subset
<1>. QED BY <1>2, FS_EmptySet, FS_CardinalityType

(* The invariant, said with Spare and HoldersAt.                             *)
RefsCounted ==
  \A s \in Ends :
    /\ Spare(svc[s]) = Cardinality(HoldersAt(s))
    /\ \A t \in HoldersAt(s) : OwnService(t)

LEMMA RefsSaid == svc \in [Ends -> Service] => (ServiceRefs <=> RefsCounted)
<1>. SUFFICES ASSUME svc \in [Ends -> Service] PROVE ServiceRefs <=> RefsCounted
  OBVIOUS
<1>1. ASSUME NEW s \in Ends
      PROVE  svc[s].refs = Cardinality({t \in Threads(s) : Holds(t)})
                           + (IF Live(s) THEN 1 ELSE 0)
             <=> Spare(svc[s]) = Cardinality(HoldersAt(s))
  <2>. DEFINE r == svc[s].refs
              n == Cardinality(HoldersAt(s))
              one == IF Live(s) THEN 1 ELSE 0
  <2>1. r \in Nat /\ n \in Nat /\ one \in Nat
    BY HoldersCounted DEF Service
  <2>2. Spare(svc[s]) = r - one
    BY DEF Spare, Alive, Live
  <2>3. n = Cardinality({t \in Threads(s) : Holds(t)})
    BY DEF HoldersAt
  <2>4. r = n + one <=> r - one = n
    <3>. HIDE DEF r, n, one
    <3>. QED BY <2>1
  <2>. QED BY <2>2, <2>3, <2>4
<1>2. ASSUME NEW s \in Ends
      PROVE  (\A t \in Threads(s) : Holds(t) => OwnService(t))
             <=> \A t \in HoldersAt(s) : OwnService(t)
  BY DEF HoldersAt
<1>. QED BY <1>1, <1>2 DEF ServiceRefs, RefsCounted

-----------------------------------------------------------------------------
(* What a step of thread t does to its side, for any new service w and call  *)
(* c that differ from the old ones by what the thread takes or gives back.   *)
LEMMA ThreadStepKeeps ==
  ASSUME IInv, NEW t \in LifeThreads, NEW w \in Service, NEW c \in Caller,
         svc' = [svc EXCEPT ![EndOf(t)] = w],
         caller' = [caller EXCEPT ![t] = c],
         Spare(w) - Spare(svc[EndOf(t)]) = Share(c) - Share(caller[t]),
         w.life = svc[EndOf(t)].life \/ Spare(svc[EndOf(t)]) = 0 \/ Spare(w) = 0,
         Share(c) = 1 => c.life = w.life
  PROVE  IInv'
<1>. DEFINE e == EndOf(t)
<1>1. svc' \in [Ends -> Service] /\ caller' \in [LifeThreads -> Caller]
  BY DEF IInv
<1>2. e \in Ends /\ t \in Threads(e) /\ \A s \in Ends : t \in Threads(s) => s = e
  BY ThreadsApart
<1>3. \A u \in LifeThreads \ {t} : Holds(u)' = Holds(u)
  BY <1>1 DEF Holds, IInv
<1>4. /\ Holds(t) <=> Share(caller[t]) = 1
      /\ Holds(t)' <=> Share(c) = 1
      /\ Share(c) \in {0, 1} /\ Share(caller[t]) \in {0, 1}
  BY <1>1 DEF Holds, Share, HoldingPlaces, IInv
<1>5. \A s \in Ends : Threads(s) \subseteq LifeThreads
  BY ThreadsFinite
<1>6. ASSUME NEW s \in Ends, s # e
      PROVE  /\ Spare(svc'[s]) = Cardinality(HoldersAt(s)')
             /\ \A u \in HoldersAt(s)' : OwnService(u)'
  <2>1. HoldersAt(s)' = HoldersAt(s) /\ svc'[s] = svc[s]
    BY <1>2, <1>3, <1>5, <1>6 DEF HoldersAt, IInv
  <2>2. \A u \in HoldersAt(s) : u # t /\ EndOf(u) = s /\ u \in LifeThreads
    BY <1>2, <1>5, <1>6, ThreadsApart DEF HoldersAt
  <2>3. \A u \in HoldersAt(s) : OwnService(u) /\ caller'[u] = caller[u]
    BY <2>2, RefsSaid DEF IInv, RefsCounted
  <2>4. Spare(svc[s]) = Cardinality(HoldersAt(s))
    BY RefsSaid DEF IInv, RefsCounted
  <2>. QED BY <2>1, <2>2, <2>3, <2>4 DEF OwnService
<1>7. /\ Spare(svc'[e]) = Cardinality(HoldersAt(e)')
      /\ \A u \in HoldersAt(e)' : OwnService(u)'
  <2>1. svc'[e] = w
    BY <1>2 DEF IInv
  <2>2. /\ Spare(svc[e]) = Cardinality(HoldersAt(e))
        /\ \A u \in HoldersAt(e) : OwnService(u)
    BY <1>2, RefsSaid DEF IInv, RefsCounted
  <2>3. /\ HoldersAt(e)' = {u \in Threads(e) : u # t /\ Holds(u)}
                          \cup (IF Share(c) = 1 THEN {t} ELSE {})
        /\ HoldersAt(e) = {u \in Threads(e) : u # t /\ Holds(u)}
                        \cup (IF Share(caller[t]) = 1 THEN {t} ELSE {})
    BY <1>2, <1>3, <1>4, <1>5 DEF HoldersAt
  <2>. DEFINE H == {u \in Threads(e) : u # t /\ Holds(u)}
  <2>4. IsFiniteSet(H) /\ t \notin H /\ Cardinality(H) \in Nat
    BY <1>2, ThreadsFinite, FS_Subset, FS_CardinalityType
  <2>5. Cardinality(H \cup {t}) = Cardinality(H) + 1
    BY <2>4, FS_AddElement
  <2>6. /\ Cardinality(HoldersAt(e)') = Cardinality(H) + Share(c)
        /\ Cardinality(HoldersAt(e)) = Cardinality(H) + Share(caller[t])
    <3>1. \A n : Cardinality(H \cup (IF n = 1 THEN {t} ELSE {}))
                 = IF n = 1 THEN Cardinality(H) + 1 ELSE Cardinality(H)
      <4>1. H \cup {} = H
        OBVIOUS
      <4>. QED BY <4>1, <2>5
    <3>2. /\ Cardinality(HoldersAt(e)')
             = IF Share(c) = 1 THEN Cardinality(H) + 1 ELSE Cardinality(H)
          /\ Cardinality(HoldersAt(e))
             = IF Share(caller[t]) = 1 THEN Cardinality(H) + 1 ELSE Cardinality(H)
      BY <2>3, <3>1
    <3>. HIDE DEF H
    <3>. QED BY <3>2, <2>4, <1>4
  <2>7. Spare(w) \in Int /\ Spare(svc[e]) \in Int
    BY <1>2 DEF Spare, Service, IInv
  <2>8. Spare(w) = Cardinality(HoldersAt(e)')
    <3>. HIDE DEF H
    <3>. QED BY <2>2, <2>4, <2>6, <2>7, <1>4
  <2>9. ASSUME NEW u \in HoldersAt(e)' PROVE OwnService(u)'
    <3>1. u \in LifeThreads /\ EndOf(u) = e
      BY <1>2, <1>5, ThreadsApart DEF HoldersAt
    <3>2. CASE u = t
      <4>1. Share(c) = 1 /\ caller'[t] = c
        BY <1>4, <2>9, <3>2 DEF HoldersAt, IInv
      <4>. QED BY <2>1, <3>1, <3>2, <4>1 DEF OwnService
    <3>3. CASE u # t
      <4>1. u \in H /\ caller'[u] = caller[u] /\ u \in HoldersAt(e)
        BY <2>3, <2>9, <3>1, <3>3 DEF IInv
      <4>2. Cardinality(H) # 0
        BY <2>4, <4>1, FS_EmptySet
      <4>3. Spare(svc[e]) # 0 /\ Spare(w) # 0
        <5>. HIDE DEF H
        <5>. QED BY <1>4, <2>2, <2>4, <2>6, <2>8, <4>2
      <4>4. w.life = svc[e].life
        BY <4>3
      <4>. QED BY <2>1, <2>2, <3>1, <4>1, <4>4 DEF OwnService
    <3>. QED BY <3>2, <3>3
  <2>. QED BY <2>1, <2>8, <2>9
<1>8. ServiceRefs'
  <2>1. RefsCounted'
    BY <1>6, <1>7 DEF RefsCounted
  <2>2. (svc \in [Ends -> Service])' => (ServiceRefs' <=> RefsCounted')
    BY RefsSaid, PTL
  <2>. QED BY <1>1, <2>1, <2>2
<1>. QED BY <1>1, <1>8 DEF IInv

(* A step of the slot handler, which leaves the spare references alone.      *)
LEMMA HandlerStepKeeps ==
  ASSUME IInv, NEW s \in Ends, NEW w \in Service,
         svc' = [svc EXCEPT ![s] = w], caller' = caller,
         Spare(w) = Spare(svc[s]), w.life = svc[s].life \/ Spare(w) = 0
  PROVE  IInv'
<1>1. svc' \in [Ends -> Service] /\ caller' \in [LifeThreads -> Caller]
  BY DEF IInv
<1>2. RefsCounted
  BY RefsSaid DEF IInv
<1>3. ASSUME NEW r \in Ends
      PROVE  /\ Spare(svc'[r]) = Cardinality(HoldersAt(r)')
             /\ \A u \in HoldersAt(r)' : OwnService(u)'
  <2>1. HoldersAt(r)' = HoldersAt(r)
    BY DEF HoldersAt, Holds
  <2>2. Spare(svc'[r]) = Spare(svc[r])
    BY DEF IInv
  <2>3. ASSUME NEW u \in HoldersAt(r) PROVE OwnService(u)'
    <3>1. u \in LifeThreads /\ EndOf(u) = r
      BY ThreadsFinite, ThreadsApart DEF HoldersAt
    <3>2. Cardinality(HoldersAt(r)) # 0
      BY HoldersCounted, <2>3
    <3>3. Spare(svc[r]) # 0 /\ OwnService(u)
      BY <1>2, <3>2 DEF RefsCounted
    <3>4. svc'[r].life = svc[r].life
      BY <3>3 DEF IInv
    <3>. QED BY <3>1, <3>3, <3>4 DEF OwnService
  <2>. QED BY <1>2, <2>1, <2>2, <2>3 DEF RefsCounted
<1>4. RefsCounted'
  BY <1>3 DEF RefsCounted
<1>5. (svc \in [Ends -> Service])' => (ServiceRefs' <=> RefsCounted')
  BY RefsSaid, PTL
<1>. QED BY <1>1, <1>4, <1>5 DEF IInv

-----------------------------------------------------------------------------
(* What the operators do to a service.                                       *)
LEMMA UpKeeps ==
  ASSUME NEW v \in Service
  PROVE  /\ Up(v) \in Service
         /\ Up(v).st = v.st /\ Up(v).refs = v.refs /\ Up(v).life = v.life
BY ServiceLifeAssumption DEF Up, Service

LEMMA NoServiceIsOne == NoService \in Service /\ Spare(NoService) = 0
BY ServiceLifeAssumption DEF NoService, Service, Spare, Alive

LEMMA UnlockKeeps ==
  ASSUME NEW v \in Service, Spare(v) >= 1
  PROVE  /\ Unlock(v) \in Service /\ Spare(Unlock(v)) = Spare(v) - 1
         /\ Unlock(v).life = v.life \/ Spare(Unlock(v)) = 0
<1>1. v.refs \in Nat
  BY DEF Service
<1>2. CASE v.refs = 1
  BY <1>2, NoServiceIsOne DEF Unlock, Spare
<1>3. CASE v.refs # 1
  <2>1. Unlock(v) = [v EXCEPT !.refs = @ - 1] /\ v.refs - 1 \in Nat
    BY <1>1, <1>3 DEF Unlock, Spare
  <2>2. /\ Unlock(v) \in Service /\ Unlock(v).life = v.life
        /\ Unlock(v).st = v.st /\ Unlock(v).refs = v.refs - 1
    BY <2>1 DEF Service
  <2>. QED BY <1>1, <2>2 DEF Spare, Alive
<1>. QED BY <1>2, <1>3

(* A service that is freed gives back its own reference.                     *)
LEMMA FreeKeeps ==
  ASSUME NEW v \in Service, Alive(v), Spare(v) >= 0
  PROVE  /\ FreeService(v) \in Service /\ Spare(FreeService(v)) = Spare(v)
         /\ FreeService(v).life = v.life \/ Spare(v) = 0
<1>. DEFINE f == [v EXCEPT !.st = "FREE", !.remote = FALSE]
<1>1. /\ f \in Service /\ f.st = "FREE" /\ f.refs = v.refs /\ f.life = v.life
      /\ v.refs \in Nat
  BY DEF Service
<1>. HIDE DEF f
<1>2. /\ Up(f) \in Service /\ Up(f).st = "FREE" /\ Up(f).refs = v.refs
      /\ Up(f).life = v.life
  BY <1>1, UpKeeps
<1>3. Spare(Up(f)) = Spare(v) + 1
  BY <1>1, <1>2 DEF Spare, Alive
<1>4. Spare(v) \in Nat
  BY <1>1 DEF Spare
<1>5. FreeService(v) = Unlock(Up(f))
  BY DEF FreeService, f
<1>6. /\ Unlock(Up(f)) \in Service /\ Spare(Unlock(Up(f))) = Spare(Up(f)) - 1
      /\ Unlock(Up(f)).life = Up(f).life \/ Spare(Unlock(Up(f))) = 0
  BY <1>2, <1>3, <1>4, UnlockKeeps
<1>. QED BY <1>2, <1>3, <1>4, <1>5, <1>6

(* Another record for the same life and references.                          *)
Kin(w, v) ==
  /\ w \in Service /\ Spare(w) = Spare(v)
  /\ w.life = v.life \/ Spare(v) = 0

LEMMA ClosedKeeps ==
  ASSUME NEW v \in Service, Alive(v), Spare(v) >= 0, NEW received \in BOOLEAN
  PROVE  Kin(Closed(v, received), v)
<1>1. Kin(v, v) /\ Kin(FreeService(v), v)
  BY FreeKeeps DEF Kin
<1>2. ASSUME NEW w \in Service, w.st \notin {"NONE", "FREE"}, w.refs = v.refs,
             w.life = v.life
      PROVE  Kin(w, v) /\ Kin(Up(w), v)
  <2>1. Alive(w) /\ Alive(v) /\ Alive(Up(w))
    BY <1>2, UpKeeps DEF Alive
  <2>. QED BY <1>2, <2>1, UpKeeps DEF Kin, Spare
<1>3. Kin(CloseDone(v), v)
  <2>1. CASE v.listens /\ v.auto
    <3>. DEFINE w == [v EXCEPT !.st = "LISTENING", !.remote = FALSE, !.closing = FALSE]
    <3>1. w \in Service /\ w.st = "LISTENING" /\ w.refs = v.refs /\ w.life = v.life
      BY DEF Service
    <3>. HIDE DEF w
    <3>2. Kin(Up(w), v)
      BY <1>2, <3>1
    <3>. QED BY <2>1, <3>2 DEF CloseDone, w
  <2>2. CASE v.listens /\ ~v.auto
    <3>. DEFINE w == [v EXCEPT !.st = "CLOSEWAIT", !.remote = FALSE]
    <3>1. w \in Service /\ w.st = "CLOSEWAIT" /\ w.refs = v.refs /\ w.life = v.life
      BY DEF Service
    <3>. HIDE DEF w
    <3>2. Kin(w, v)
      BY <1>2, <3>1
    <3>. QED BY <2>2, <3>2 DEF CloseDone, w
  <2>3. CASE ~v.listens
    BY <2>3, <1>1 DEF CloseDone
  <2>. QED BY <2>1, <2>2, <2>3
<1>4. CASE v.st \in {"HIDDEN", "LISTENING", "CLOSEWAIT"} /\ ~received /\ v.listens
  <2>. DEFINE w == [v EXCEPT !.st = IF @ = "CLOSEWAIT" THEN "LISTENING" ELSE @,
                             !.remote = FALSE]
  <2>1. w \in Service /\ w.st \notin {"NONE", "FREE"} /\ w.refs = v.refs /\ w.life = v.life
    BY <1>4 DEF Service
  <2>. HIDE DEF w
  <2>2. Kin(Up(w), v)
    BY <1>2, <2>1
  <2>. QED BY <1>4, <2>2 DEF Closed, w
<1>5. CASE v.st = "OPENING" /\ received
  <2>. DEFINE w == [v EXCEPT !.st = "CLOSEWAIT"]
  <2>1. w \in Service /\ w.st = "CLOSEWAIT" /\ w.refs = v.refs /\ w.life = v.life
    BY DEF Service
  <2>. HIDE DEF w
  <2>2. Kin(Up(w), v)
    BY <1>2, <2>1
  <2>. QED BY <1>5, <2>2 DEF Closed, w
<1>6. CASE v.st \in {"OPENING", "OPEN"} /\ ~received
  <2>. DEFINE w == [v EXCEPT !.st = "CLOSESENT"]
  <2>1. w \in Service /\ w.st = "CLOSESENT" /\ w.refs = v.refs /\ w.life = v.life
    BY DEF Service
  <2>. HIDE DEF w
  <2>2. Kin(w, v)
    BY <1>2, <2>1
  <2>. QED BY <1>6, <2>2 DEF Closed, w
<1>7. CASE v.st \in {"OPEN", "CLOSESENT"} /\ received
  BY <1>3, <1>7 DEF Closed
<1>8. CASE /\ ~(v.st \in {"OPENING", "OPEN"} /\ ~received) /\ ~(v.st = "OPENING" /\ received)
           /\ ~(v.st \in {"OPEN", "CLOSESENT"} /\ received)
           /\ ~(v.st \in {"HIDDEN", "LISTENING", "CLOSEWAIT"} /\ ~received /\ v.listens)
  BY <1>1, <1>8 DEF Closed
<1>. QED BY <1>4, <1>5, <1>6, <1>7, <1>8

LEMMA SpareNat ==
  ASSUME IInv, NEW s \in Ends
  PROVE  svc[s] \in Service /\ Spare(svc[s]) \in Nat
BY RefsSaid, HoldersCounted DEF IInv, RefsCounted

-----------------------------------------------------------------------------
(* The slot handler.  First what a poll does.                                *)
PollOf(v, b, P) == [v EXCEPT !.listens = b, !.poll = P]

Polls(s, b, P) ==
  \/ /\ svc[s].st \notin {"OPEN", "OPENING"}
     /\ svc' = [svc EXCEPT ![s] = Closed(PollOf(svc[s], b, P), FALSE)]
     /\ lifeMsgs' = lifeMsgs
  \/ /\ svc[s].st \in {"OPEN", "OPENING"}
     /\ svc' = [svc EXCEPT ![s] = Closed(PollOf(svc[s], b, P), FALSE)]
     /\ lifeMsgs' = SendClose(s, lifeMsgs)
     /\ lifeLog' = [lifeLog EXCEPT !.missed = @ \/ Overtakes(s)]
  \/ svc' = [svc EXCEPT ![s] = PollOf(svc[s], b, P)] /\ lifeMsgs' = lifeMsgs

LEMMA PollPicks ==
  ASSUME NEW s \in Ends, svc[s] \in Service, PollService(s)
  PROVE  \E b \in BOOLEAN, P \in SUBSET {"TERMINATE", "REMOVE"} : Polls(s, b, P)
<1>. DEFINE kind == IF "REMOVE" \in svc[s].poll THEN "REMOVE" ELSE "TERMINATE"
            b == svc[s].listens /\ kind = "TERMINATE"
            v == [svc[s] EXCEPT !.listens = @ /\ kind = "TERMINATE", !.poll = {}]
            again == [v EXCEPT !.poll = {kind}]
<1>1. SendsClose(v, FALSE) <=> svc[s].st \in {"OPEN", "OPENING"}
  BY DEF SendsClose, Service
<1>2. \/ /\ ~SendsClose(v, FALSE)
         /\ \/ svc' = [svc EXCEPT ![s] = Closed(v, FALSE)]
            \/ svc' = [svc EXCEPT ![s] = Closed(again, FALSE)]
         /\ lifeMsgs' = lifeMsgs
      \/ /\ SendsClose(v, FALSE)
         /\ svc' = [svc EXCEPT ![s] = Closed(v, FALSE)]
         /\ lifeMsgs' = SendClose(s, lifeMsgs)
         /\ lifeLog' = [lifeLog EXCEPT !.missed = @ \/ Overtakes(s)]
      \/ svc' = [svc EXCEPT ![s] = again] /\ lifeMsgs' = lifeMsgs
  BY DEF PollService
<1>3. v = PollOf(svc[s], b, {}) /\ again = PollOf(svc[s], b, {kind})
  BY DEF Service, PollOf
<1>4. b \in BOOLEAN /\ {kind} \in SUBSET {"TERMINATE", "REMOVE"}
      /\ {} \in SUBSET {"TERMINATE", "REMOVE"}
  OBVIOUS
<1>. HIDE DEF kind, b, v, again
<1>. QED BY <1>1, <1>2, <1>3, <1>4 DEF Polls

LEMMA HandlerKeeps ==
  ASSUME IInv, NEW s \in Ends, LifeHandler(s)
  PROVE  IInv'
<1>1. svc[s] \in Service /\ Spare(svc[s]) \in Nat
  BY SpareNat
<1>2. ASSUME NEW w, Kin(w, svc[s]), svc' = [svc EXCEPT ![s] = w], caller' = caller
      PROVE  IInv'
  <2>1. w \in Service /\ Spare(w) = Spare(svc[s])
        /\ (w.life = svc[s].life \/ Spare(w) = 0)
    BY <1>2 DEF Kin
  <2>. QED BY <1>2, <2>1, HandlerStepKeeps
<1>3. ASSUME svc' = svc, caller' = caller PROVE IInv'
  <2>1. svc' = [svc EXCEPT ![s] = svc[s]]
    BY <1>3 DEF IInv
  <2>. QED BY <1>1, <1>2, <1>3, <2>1 DEF Kin
<1>4. CASE PollService(s)
  <2>1. PICK b \in BOOLEAN, P \in SUBSET {"TERMINATE", "REMOVE"} : Polls(s, b, P)
    BY ONLY <1>1, <1>4, s \in Ends, PollPicks
  <2>. DEFINE u == PollOf(svc[s], b, P)
  <2>2. Live(s) /\ caller' = caller
    BY <1>4 DEF PollService
  <2>3. /\ u \in Service /\ u.st = svc[s].st /\ u.refs = svc[s].refs
        /\ u.life = svc[s].life
    BY <1>1 DEF Service, PollOf
  <2>4. \/ svc' = [svc EXCEPT ![s] = Closed(u, FALSE)]
        \/ svc' = [svc EXCEPT ![s] = u]
    BY <2>1 DEF Polls
  <2>. HIDE DEF u
  <2>5. Alive(u) /\ Spare(u) = Spare(svc[s]) /\ Spare(u) >= 0
    BY <1>1, <2>2, <2>3 DEF Live, Alive, Spare
  <2>6. Kin(Closed(u, FALSE), u)
    BY <2>3, <2>5, ClosedKeeps
  <2>7. Kin(Closed(u, FALSE), svc[s]) /\ Kin(u, svc[s])
    BY <2>3, <2>5, <2>6 DEF Kin
  <2>. QED BY <1>2, <2>2, <2>4, <2>7
<1>5. CASE ParseClose(s)
  <2>. DEFINE v == [svc[s] EXCEPT !.closing = TRUE]
  <2>1. /\ v \in Service /\ v.st = svc[s].st /\ v.refs = svc[s].refs
        /\ v.life = svc[s].life
    BY <1>1 DEF Service
  <2>2. Finds(s, Head(lifeMsgs[s])) /\ caller' = caller
        /\ \/ svc' = [svc EXCEPT ![s] = Closed(v, TRUE)]
           \/ svc' = [svc EXCEPT ![s] = v]
    BY <1>5 DEF ParseClose
  <2>3. Alive(svc[s])
    BY <2>2 DEF Finds, ConnectedTo, Live, Alive
  <2>. HIDE DEF v
  <2>4. Alive(v) /\ Spare(v) = Spare(svc[s]) /\ Spare(v) >= 0
    BY <1>1, <2>1, <2>3 DEF Alive, Spare
  <2>5. Kin(v, svc[s])
    BY <2>1, <2>4 DEF Kin
  <2>6. Kin(Closed(v, TRUE), v)
    BY <2>1, <2>4, ClosedKeeps
  <2>7. Kin(Closed(v, TRUE), svc[s])
    BY <2>1, <2>4, <2>6 DEF Kin
  <2>. QED BY <1>2, <2>2, <2>5, <2>7
<1>6. CASE SkipClose(s)
  BY <1>3, <1>6 DEF SkipClose
<1>7. CASE \/ s = "server" /\ (ParseOpenRejects \/ ParseOpenBails)
           \/ LifeHandlerWoken(s)
  BY <1>3, <1>7 DEF ParseOpenRejects, ParseOpenBails, LifeHandlerWoken
<1>8. CASE s = "server" /\ ParseOpen
  <2>. DEFINE w == [svc[s] EXCEPT !.st = "OPEN", !.remote = TRUE]
  <2>1. svc' = [svc EXCEPT ![s] = w] /\ caller' = caller /\ Alive(svc[s])
    BY <1>8 DEF ParseOpen, IInv, Listens, Alive
  <2>2. w \in Service /\ w.st = "OPEN" /\ w.refs = svc[s].refs /\ w.life = svc[s].life
    BY <1>1 DEF Service
  <2>. HIDE DEF w
  <2>3. Kin(w, svc[s])
    BY <2>1, <2>2 DEF Kin, Spare, Alive
  <2>. QED BY <1>2, <2>1, <2>3
<1>9. CASE s = "client" /\ ParseOpenAck
  <2>1. CASE svc["client"].st = "OPENING"
    <3>. DEFINE w == [svc[s] EXCEPT !.st = "OPEN", !.remote = TRUE]
    <3>1. svc' = [svc EXCEPT ![s] = Up(w)] /\ caller' = caller /\ Alive(svc[s])
      BY <1>9, <2>1 DEF ParseOpenAck, Alive
    <3>2. w \in Service /\ w.st = "OPEN" /\ w.refs = svc[s].refs /\ w.life = svc[s].life
      BY <1>1 DEF Service
    <3>. HIDE DEF w
    <3>3. Kin(Up(w), svc[s])
      BY <3>1, <3>2, UpKeeps DEF Kin, Spare, Alive
    <3>. QED BY <1>2, <3>1, <3>3
  <2>2. CASE svc["client"].st # "OPENING"
    BY <1>3, <1>9, <2>2 DEF ParseOpenAck
  <2>. QED BY <2>1, <2>2
<1>. QED BY <1>4, <1>5, <1>6, <1>7, <1>8, <1>9 DEF LifeHandler, LifeParse

-----------------------------------------------------------------------------
(* The threads.  First what they have in common.                             *)
LEMMA CallStepKeeps ==
  ASSUME IInv, NEW t \in LifeThreads, NEW w \in Service, NEW c \in Caller,
         svc' = [svc EXCEPT ![EndOf(t)] = w], caller' = [caller EXCEPT ![t] = c],
         w.refs = svc[EndOf(t)].refs + Share(c) - Share(caller[t]),
         Alive(w) <=> Alive(svc[EndOf(t)]), w.life = svc[EndOf(t)].life,
         Share(c) = 1 => c.life = w.life
  PROVE  IInv'
<1>1. svc[EndOf(t)] \in Service /\ Spare(svc[EndOf(t)]) \in Nat
  BY ThreadsApart, SpareNat
<1>2. svc[EndOf(t)].refs \in Nat /\ Share(c) \in Nat /\ Share(caller[t]) \in Nat
  BY <1>1 DEF Service, Share
<1>3. Spare(w) - Spare(svc[EndOf(t)]) = Share(c) - Share(caller[t])
  BY <1>2 DEF Spare
<1>. QED BY <1>3, ThreadStepKeeps

(* Whose call holds a service has the one that is there.                     *)
LEMMA HolderOwns ==
  ASSUME IInv, NEW t \in LifeThreads, Share(caller[t]) = 1
  PROVE  caller[t].life = svc[EndOf(t)].life /\ Spare(svc[EndOf(t)]) >= 1
<1>1. EndOf(t) \in Ends /\ t \in Threads(EndOf(t))
  BY ThreadsApart
<1>2. Holds(t)
  BY DEF Holds, Share, HoldingPlaces
<1>3. t \in HoldersAt(EndOf(t))
  BY <1>1, <1>2 DEF HoldersAt
<1>4. RefsCounted
  BY RefsSaid DEF IInv
<1>5. OwnService(t) /\ Spare(svc[EndOf(t)]) = Cardinality(HoldersAt(EndOf(t)))
  BY <1>1, <1>3, <1>4 DEF RefsCounted
<1>6. Cardinality(HoldersAt(EndOf(t))) \in Nat /\ Cardinality(HoldersAt(EndOf(t))) # 0
  BY <1>1, <1>3, HoldersCounted
<1>. QED BY <1>5, <1>6 DEF OwnService

(* A step that changes no service.                                           *)
LEMMA CallMovesKeeps ==
  ASSUME IInv, NEW t \in LifeThreads, NEW c \in Caller,
         svc' = svc, caller' = [caller EXCEPT ![t] = c],
         Share(c) = Share(caller[t]), c.life = caller[t].life \/ Share(c) = 0
  PROVE  IInv'
<1>1. EndOf(t) \in Ends /\ t \in Threads(EndOf(t)) /\ svc[EndOf(t)] \in Service
  BY ThreadsApart, SpareNat
<1>2. svc' = [svc EXCEPT ![EndOf(t)] = svc[EndOf(t)]]
  BY DEF IInv
<1>3. Share(c) = 1 => c.life = svc[EndOf(t)].life
  <2>. SUFFICES ASSUME Share(c) = 1 PROVE c.life = svc[EndOf(t)].life
    OBVIOUS
  <2>1. Share(caller[t]) = 1 /\ c.life = caller[t].life
    OBVIOUS
  <2>. QED BY <2>1, HolderOwns
<1>4. svc[EndOf(t)].refs \in Nat /\ Share(c) \in Nat
  BY <1>1 DEF Service, Share
<1>5. svc[EndOf(t)].refs = svc[EndOf(t)].refs + Share(c) - Share(caller[t])
  BY <1>4
<1>. QED BY <1>1, <1>2, <1>3, <1>5, CallStepKeeps

(* A thread that takes a service, or what is left of it after "free".        *)
LEMMA AddedKeeps ==
  ASSUME IInv, NEW t \in LifeThreads, NEW w \in Service, NEW c \in Caller,
         svc' = [svc EXCEPT ![EndOf(t)] = w], caller' = [caller EXCEPT ![t] = c],
         svc[EndOf(t)] = NoService, Spare(w) = 0,
         Share(c) = 0, Share(caller[t]) = 0
  PROVE  IInv'
<1>1. Spare(svc[EndOf(t)]) = 0
  BY NoServiceIsOne
<1>2. Spare(w) - Spare(svc[EndOf(t)]) = Share(c) - Share(caller[t])
  BY <1>1
<1>3. ~(Share(c) = 1)
  OBVIOUS
<1>. QED BY <1>1, <1>2, <1>3, ThreadStepKeeps

(* Opening and adding.                                                       *)
LEMMA OpeningKeeps ==
  ASSUME IInv, LifeTypes, NEW t \in LifeThreads,
         \/ t \in Openers /\ OpenCall(t)
         \/ OpenSends(t) \/ OpenWoken(t) \/ OpenGone(t) \/ AddCall(t)
  PROVE  IInv'
<1>. DEFINE e == EndOf(t)
<1>1. /\ e \in Ends /\ svc[e] \in Service /\ svc \in [Ends -> Service]
      /\ caller \in [LifeThreads -> Caller] /\ caller[t] \in Caller
  BY ThreadsApart, SpareNat DEF IInv
<1>2. CASE t \in Openers /\ OpenCall(t)
  <2>1. e = "client"
    BY <1>2, ServiceLifeAssumption DEF EndOf
  <2>. DEFINE n == lifeLog.lives["client"] + 1
              w == [NoService EXCEPT !.st = "OPENING", !.refs = 1, !.listens = FALSE,
                                     !.auto = TRUE, !.life = n]
              c == [pc |-> "adding", life |-> n]
  <2>2. /\ svc' = [svc EXCEPT ![e] = w] /\ caller' = [caller EXCEPT ![t] = c]
        /\ svc[e] = NoService /\ caller[t].pc = "idle"
    BY <1>2, <2>1 DEF OpenCall, Added, Doing
  <2>3. n \in Nat
    BY DEF LifeTypes, LifeLog, Ends
  <2>. HIDE DEF n
  <2>4. /\ w \in Service /\ w.refs = 1 /\ w.st = "OPENING"
        /\ c \in Caller
    BY <2>3, NoServiceIsOne DEF NoService, Service, Caller
  <2>6. Spare(w) = 0
    BY <2>4 DEF Spare, Alive
  <2>5. Share(c) = 0 /\ Share(caller[t]) = 0
    BY <2>2 DEF Share, HoldingPlaces
  <2>. HIDE DEF w, c
  <2>. QED BY <2>2, <2>4, <2>5, <2>6, AddedKeeps
<1>3. CASE AddCall(t)
  <2>1. e = "server" /\ caller[t].pc = "idle" /\ svc[e] = NoService /\ caller' = caller
    BY <1>3 DEF AddCall, Added, Doing
  <2>. DEFINE n == lifeLog.lives["server"] + 1
  <2>2. PICK state \in {"HIDDEN", "LISTENING"}, auto \in BOOLEAN :
          Added("server", state, auto)
    BY <1>3 DEF AddCall
  <2>. DEFINE w == [NoService EXCEPT !.st = state, !.refs = 1, !.listens = TRUE,
                                     !.auto = auto, !.life = n]
  <2>3. svc' = [svc EXCEPT ![e] = w]
    BY <2>1, <2>2 DEF Added
  <2>4. n \in Nat
    BY DEF LifeTypes, LifeLog, Ends
  <2>. HIDE DEF n
  <2>5. w \in Service /\ w.refs = 1 /\ w.st \in {"HIDDEN", "LISTENING"}
    BY <2>4, NoServiceIsOne DEF NoService, Service
  <2>7. Spare(w) = 0
    BY <2>5 DEF Spare, Alive
  <2>6. Share(caller[t]) = 0 /\ caller' = [caller EXCEPT ![t] = caller[t]]
    BY <1>1, <2>1 DEF Share, HoldingPlaces
  <2>. HIDE DEF w
  <2>. QED BY <1>1, <2>1, <2>3, <2>5, <2>6, <2>7, AddedKeeps
<1>4. CASE OpenSends(t)
  <2>. DEFINE c == [caller[t] EXCEPT !.pc = "opening"]
  <2>1. svc' = svc /\ caller' = [caller EXCEPT ![t] = c] /\ caller[t].pc = "adding"
    BY <1>1, <1>4 DEF OpenSends, Becomes, Doing
  <2>2. c \in Caller /\ Share(c) = 0 /\ Share(caller[t]) = 0
    BY <1>1, <2>1 DEF Caller, Share, HoldingPlaces
  <2>. HIDE DEF c
  <2>. QED BY <2>1, <2>2, CallMovesKeeps
<1>5. CASE OpenGone(t)
  <2>1. svc' = svc /\ caller' = [caller EXCEPT ![t] = Idle] /\ caller[t].pc = "opening"
    BY <1>5 DEF OpenGone, Returns, Doing
  <2>2. Idle \in Caller /\ Share(Idle) = 0 /\ Share(caller[t]) = 0
    BY <2>1 DEF Idle, Caller, Share, HoldingPlaces
  <2>. QED BY <2>1, <2>2, CallMovesKeeps
<1>6. CASE OpenWoken(t)
  <2>1. e = "client"
    BY <1>6 DEF OpenWoken, Doing, LifeTypes
  <2>. DEFINE w == [svc["client"] EXCEPT !.ups = @ - 1]
              c == [caller[t] EXCEPT !.pc = IF svc["client"].st = "OPEN" THEN "idle"
                                           ELSE "failed"]
  <2>2. /\ svc' = [svc EXCEPT !["client"] = w] /\ caller' = [caller EXCEPT ![t] = c]
        /\ svc["client"].ups > 0 /\ caller[t].pc = "opening"
    BY <1>1, <1>6 DEF OpenWoken, Becomes, Doing, Ends
  <2>3. /\ svc["client"] \in Service /\ "client" \in Ends
        /\ Spare(svc["client"]) \in Nat
    BY SpareNat DEF Ends
  <2>4. /\ w \in Service /\ w.st = svc["client"].st /\ w.refs = svc["client"].refs
        /\ w.life = svc["client"].life
    BY <2>2, <2>3, ServiceLifeAssumption DEF Service
  <2>5. c \in Caller /\ Share(c) = 0 /\ Share(caller[t]) = 0
    BY <1>1, <2>2 DEF Caller, Share, HoldingPlaces
  <2>6. w.refs = svc[e].refs + Share(c) - Share(caller[t])
    BY <2>1, <2>3, <2>4, <2>5 DEF Service
  <2>7. Share(c) = 1 => c.life = w.life
    BY <2>5
  <2>. HIDE DEF w, c
  <2>. QED BY <2>1, <2>2, <2>4, <2>5, <2>6, <2>7, CallStepKeeps DEF Alive
<1>. QED BY <1>2, <1>3, <1>4, <1>5, <1>6

(* Calls that take a reference.                                              *)
LEMMA TakingKeeps ==
  ASSUME IInv, NEW t \in LifeThreads,
         CloseCall(t) \/ RemoveCall(t) \/ RemoveHidden(t) \/ UseCall(t)
  PROVE  IInv'
<1>. DEFINE e == EndOf(t)
            Takes(b, pc) ==
              /\ Alive(svc[e]) /\ caller[t].pc \in {"idle", "failed"}
              /\ svc' = [svc EXCEPT ![e] =
                           [svc[e] EXCEPT !.refs = @ + 1, !.closing = b]]
              /\ caller' = [caller EXCEPT ![t] = [pc |-> pc, life |-> svc[e].life]]
<1>1. /\ e \in Ends /\ svc[e] \in Service /\ svc \in [Ends -> Service]
      /\ caller[t] \in Caller /\ Spare(svc[e]) \in Nat
  BY ThreadsApart, SpareNat DEF IInv
<1>2. ASSUME NEW b \in BOOLEAN,
             NEW pc \in {"using", "asking_TERMINATE", "asking_REMOVE"}, Takes(b, pc)
      PROVE  IInv'
  <2>. DEFINE w == [svc[e] EXCEPT !.refs = @ + 1, !.closing = b]
              c == [pc |-> pc, life |-> svc[e].life]
  <2>5. svc[e].refs \in Nat /\ svc[e].refs + 1 \in Nat
    BY <1>1 DEF Service
  <2>1. /\ w \in Service /\ w.refs = svc[e].refs + 1 /\ w.st = svc[e].st
        /\ w.life = svc[e].life /\ c.life = svc[e].life
    BY <1>1, <2>5 DEF Service
  <2>2. c \in Caller /\ Share(c) = 1 /\ Share(caller[t]) = 0
    BY <1>1, <1>2 DEF Service, Caller, Share, HoldingPlaces
  <2>3. svc' = [svc EXCEPT ![e] = w] /\ caller' = [caller EXCEPT ![t] = c]
    BY <1>2
  <2>. HIDE DEF w, c
  <2>4. w.refs = svc[e].refs + Share(c) - Share(caller[t])
    BY <2>1, <2>2, <2>5
  <2>. QED BY <2>1, <2>2, <2>3, <2>4, CallStepKeeps DEF Alive
<1>3. CASE CloseCall(t)
  <2>1. Takes(TRUE, "asking_TERMINATE")
    BY <1>1, <1>3 DEF CloseCall, Doing, Live, Alive
  <2>. QED BY <1>2, <2>1
<1>4. CASE RemoveCall(t)
  <2>1. Takes(TRUE, "asking_REMOVE")
    BY <1>1, <1>4 DEF RemoveCall, Doing, Live, Alive
  <2>. QED BY <1>2, <2>1
<1>5. CASE UseCall(t)
  <2>1. svc[e].closing \in BOOLEAN /\ svc' = [svc EXCEPT ![e].refs = @ + 1]
    BY <1>1, <1>5 DEF UseCall, Service
  <2>2. svc' = [svc EXCEPT ![e] =
                  [svc[e] EXCEPT !.refs = @ + 1, !.closing = svc[e].closing]]
    BY <1>1, <2>1 DEF Service
  <2>3. Takes(svc[e].closing, "using")
    BY <1>5, <2>2 DEF UseCall, Doing, Live, Alive
  <2>. QED BY <1>2, <2>1, <2>3
<1>6. CASE RemoveHidden(t)
  <2>. DEFINE v == [svc[e] EXCEPT !.refs = @ + 1, !.closing = TRUE, !.listens = FALSE]
              c == [pc |-> "waiting_REMOVE", life |-> svc[e].life]
  <2>1. /\ svc' = [svc EXCEPT ![e] = FreeService(v)]
        /\ caller' = [caller EXCEPT ![t] = c]
        /\ svc[e].st = "HIDDEN" /\ caller[t].pc = "idle"
    BY <1>1, <1>6 DEF RemoveHidden, Doing
  <2>7. svc[e].refs \in Nat /\ svc[e].refs + 1 \in Nat
    BY <1>1 DEF Service
  <2>2. /\ v \in Service /\ v.refs = svc[e].refs + 1 /\ v.st = "HIDDEN"
        /\ v.life = svc[e].life /\ c.life = svc[e].life
    BY <1>1, <2>1, <2>7 DEF Service
  <2>3. c \in Caller /\ Share(c) = 1 /\ Share(caller[t]) = 0
    BY <1>1, <2>1 DEF Service, Caller, Share, HoldingPlaces
  <2>. HIDE DEF v, c
  <2>4. Alive(v) /\ Spare(v) = Spare(svc[e]) + 1
    BY <1>1, <2>1, <2>2, <2>7 DEF Alive, Spare
  <2>5. /\ FreeService(v) \in Service /\ Spare(FreeService(v)) = Spare(v)
        /\ FreeService(v).life = v.life
    BY <1>1, <2>2, <2>4, FreeKeeps
  <2>6. Spare(FreeService(v)) - Spare(svc[e]) = Share(c) - Share(caller[t])
    BY <1>1, <2>3, <2>4, <2>5
  <2>. QED BY <2>1, <2>2, <2>3, <2>5, <2>6, ThreadStepKeeps
<1>. QED BY <1>3, <1>4, <1>5, <1>6

(* What a thread in a call does, and giving its reference back.              *)
LEMMA GivingKeeps ==
  ASSUME IInv, NEW t \in LifeThreads,
         \/ CloseAsks(t) \/ RemoveAsks(t) \/ CloseWoken(t) \/ RemoveWoken(t)
         \/ UseReturn(t) \/ RemoveNothing(t)
  PROVE  IInv'
<1>. DEFINE e == EndOf(t)
<1>1. /\ e \in Ends /\ svc[e] \in Service /\ svc \in [Ends -> Service]
      /\ caller[t] \in Caller /\ Spare(svc[e]) \in Nat
      /\ caller \in [LifeThreads -> Caller]
  BY ThreadsApart, SpareNat DEF IInv
<1>2. Idle \in Caller /\ Share(Idle) = 0
  BY DEF Idle, Caller, Share, HoldingPlaces
<1>3. ASSUME NEW v \in Service, v.refs = svc[e].refs, v.st = svc[e].st,
             v.life = svc[e].life, Share(caller[t]) = 1,
             svc' = [svc EXCEPT ![e] = Unlock(v)], Returns(t)
      PROVE  IInv'
  <2>1. Spare(v) = Spare(svc[e]) /\ Spare(v) >= 1
    BY <1>1, <1>3, HolderOwns DEF Spare, Alive
  <2>2. /\ Unlock(v) \in Service /\ Spare(Unlock(v)) = Spare(v) - 1
        /\ Unlock(v).life = v.life \/ Spare(Unlock(v)) = 0
    BY <2>1, UnlockKeeps
  <2>3. caller' = [caller EXCEPT ![t] = Idle]
    BY <1>3 DEF Returns
  <2>4. Spare(Unlock(v)) - Spare(svc[e]) = Share(Idle) - Share(caller[t])
    BY <1>1, <1>2, <1>3, <2>1, <2>2
  <2>5. ~(Share(Idle) = 1)
    BY <1>2
  <2>. QED BY <1>2, <1>3, <2>2, <2>3, <2>4, <2>5, ThreadStepKeeps
<1>4. ASSUME NEW w \in Service, w.refs = svc[e].refs, w.st = svc[e].st,
             w.life = svc[e].life, Share(caller[t]) = 1, NEW c \in Caller,
             Share(c) = 1, c.life = caller[t].life,
             svc' = [svc EXCEPT ![e] = w], caller' = [caller EXCEPT ![t] = c]
      PROVE  IInv'
  <2>1. w.refs = svc[e].refs + Share(c) - Share(caller[t])
    BY <1>1, <1>4 DEF Service
  <2>2. c.life = w.life
    BY <1>4, HolderOwns
  <2>. QED BY <1>4, <2>1, <2>2, CallStepKeeps DEF Alive
<1>5. ASSUME NEW kind \in {"TERMINATE", "REMOVE"}, Asks(t, kind) PROVE IInv'
  <2>. DEFINE w == [svc[e] EXCEPT !.poll = @ \cup {kind}]
              c == [caller[t] EXCEPT !.pc = Waiting(kind)]
  <2>1. /\ svc' = [svc EXCEPT ![e] = w] /\ caller' = [caller EXCEPT ![t] = c]
        /\ caller[t].pc = Asking(kind)
    BY <1>1, <1>5 DEF Asks, Becomes, Doing
  <2>2. /\ w \in Service /\ w.refs = svc[e].refs /\ w.st = svc[e].st
        /\ w.life = svc[e].life
    BY <1>1, <1>5 DEF Service
  <2>3. Waiting(kind) \in {"waiting_TERMINATE", "waiting_REMOVE"}
        /\ Asking(kind) \in {"asking_TERMINATE", "asking_REMOVE"}
    BY DEF Waiting, Asking
  <2>4. /\ c \in Caller /\ c.pc = Waiting(kind) /\ c.life = caller[t].life
    BY <1>1, <2>3 DEF Caller
  <2>. HIDE DEF w, c
  <2>5. Share(c) = 1 /\ Share(caller[t]) = 1
    BY <2>1, <2>3, <2>4 DEF Share, HoldingPlaces
  <2>. QED BY <1>4, <2>1, <2>2, <2>4, <2>5
<1>6. ASSUME NEW kind \in {"TERMINATE", "REMOVE"}, Woken(t, kind) PROVE IInv'
  <2>. DEFINE v == [svc[e] EXCEPT !.ups = @ - 1]
  <2>1. caller[t].pc = Waiting(kind) /\ svc[e].ups > 0
        /\ \/ svc' = [svc EXCEPT ![e] = Unlock(v)] /\ Returns(t)
           \/ svc' = [svc EXCEPT ![e] = v] /\ caller' = caller
    BY <1>6 DEF Woken, Doing
  <2>2. /\ v \in Service /\ v.refs = svc[e].refs /\ v.st = svc[e].st
        /\ v.life = svc[e].life
    BY <1>1, <2>1, ServiceLifeAssumption DEF Service
  <2>3. Waiting(kind) \in {"waiting_TERMINATE", "waiting_REMOVE"}
    BY DEF Waiting
  <2>4. Share(caller[t]) = 1
    BY <2>1, <2>3 DEF Share, HoldingPlaces
  <2>5. caller = [caller EXCEPT ![t] = caller[t]]
    BY <1>1
  <2>. HIDE DEF v
  <2>6. CASE svc' = [svc EXCEPT ![e] = Unlock(v)] /\ Returns(t)
    BY <1>3, <2>2, <2>4, <2>6
  <2>7. CASE svc' = [svc EXCEPT ![e] = v] /\ caller' = caller
    BY <1>1, <1>4, <2>2, <2>4, <2>5, <2>7
  <2>. QED BY <2>1, <2>6, <2>7
<1>7. CASE CloseAsks(t) \/ RemoveAsks(t)
  BY <1>5, <1>7 DEF CloseAsks, RemoveAsks
<1>8. CASE CloseWoken(t) \/ RemoveWoken(t)
  BY <1>6, <1>8 DEF CloseWoken, RemoveWoken
<1>9. CASE UseReturn(t)
  <2>1. Share(caller[t]) = 1 /\ svc' = [svc EXCEPT ![e] = Unlock(svc[e])] /\ Returns(t)
    BY <1>1, <1>9 DEF UseReturn, Doing, Share, HoldingPlaces
  <2>. QED BY <1>1, <1>3, <2>1
<1>10. CASE RemoveNothing(t)
  <2>1. svc' = svc /\ caller' = [caller EXCEPT ![t] = Idle] /\ Share(caller[t]) = 0
    BY <1>10 DEF RemoveNothing, Returns, Doing, Share, HoldingPlaces
  <2>. QED BY <1>2, <2>1, CallMovesKeeps
<1>. QED BY <1>7, <1>8, <1>9, <1>10

-----------------------------------------------------------------------------
(* The messages, and the numbers of lives.                                   *)
LEMMA MessagesKept ==
  ASSUME MsgsInv, NEW s \in Ends, NEW m \in Message
  PROVE  /\ lifeMsgs' = lifeMsgs => MsgsInv'
         /\ lifeMsgs[s] # <<>> /\ lifeMsgs' = Taken(s) => MsgsInv'
         /\ LifeSpace(s) /\ lifeMsgs' = [lifeMsgs EXCEPT ![FarEnd(s)] = Append(@, m)]
              => MsgsInv'
         /\ lifeMsgs[s] # <<>> /\ LifeSpace(s)
            /\ lifeMsgs' = [Taken(s) EXCEPT ![FarEnd(s)] = Append(@, m)] => MsgsInv'
<1>1. FarEnd(s) \in Ends /\ FarEnd(s) # s
  BY DEF FarEnd, Ends
<1>2. \A r \in Ends : lifeMsgs[r] \in Seq(Message) /\ Len(lifeMsgs[r]) <= LifeRoom
  BY DEF MsgsInv
<1>3. \A q \in Seq(Message) : q # <<>> =>
        Tail(q) \in Seq(Message) /\ Len(Tail(q)) = Len(q) - 1 /\ Len(q) \in Nat
  OBVIOUS
<1>4. \A q \in Seq(Message) :
        Append(q, m) \in Seq(Message) /\ Len(Append(q, m)) = Len(q) + 1 /\ Len(q) \in Nat
  OBVIOUS
<1>5. LifeRoom \in Nat
  BY ServiceLifeAssumption
<1>6. lifeMsgs[s] # <<>> =>
        /\ Tail(lifeMsgs[s]) \in Seq(Message) /\ Len(Tail(lifeMsgs[s])) <= LifeRoom
  BY <1>2, <1>3, <1>5
<1>7. LifeSpace(s) =>
        /\ Append(lifeMsgs[FarEnd(s)], m) \in Seq(Message)
        /\ Len(Append(lifeMsgs[FarEnd(s)], m)) <= LifeRoom
  BY <1>1, <1>2, <1>4, <1>5 DEF LifeSpace
<1>8. lifeMsgs \in [Ends -> Seq(Message)]
  BY DEF MsgsInv
<1>9. lifeMsgs' = lifeMsgs => MsgsInv'
  BY DEF MsgsInv
<1>10. ASSUME lifeMsgs[s] # <<>>, lifeMsgs' = Taken(s) PROVE MsgsInv'
  BY <1>2, <1>6, <1>8, <1>10 DEF MsgsInv, Taken
<1>11. ASSUME LifeSpace(s), lifeMsgs' = [lifeMsgs EXCEPT ![FarEnd(s)] = Append(@, m)]
       PROVE  MsgsInv'
  BY <1>1, <1>2, <1>7, <1>8, <1>11 DEF MsgsInv
<1>12. ASSUME lifeMsgs[s] # <<>>, LifeSpace(s),
              lifeMsgs' = [Taken(s) EXCEPT ![FarEnd(s)] = Append(@, m)]
       PROVE  MsgsInv'
  <2>1. /\ lifeMsgs'[s] = Tail(lifeMsgs[s])
        /\ lifeMsgs'[FarEnd(s)] = Append(lifeMsgs[FarEnd(s)], m)
    BY <1>1, <1>8, <1>12 DEF Taken
  <2>2. lifeMsgs' \in [Ends -> Seq(Message)]
    BY <1>1, <1>6, <1>7, <1>8, <1>12 DEF Taken
  <2>3. \A r \in Ends : r = s \/ r = FarEnd(s)
    BY DEF FarEnd, Ends
  <2>. QED BY <1>6, <1>7, <1>12, <2>1, <2>2, <2>3 DEF MsgsInv
<1>. QED BY <1>9, <1>10, <1>11, <1>12

LEMMA HandlerTypes ==
  ASSUME IInv, LifeTypes, MsgsInv, NEW s \in Ends, LifeHandler(s)
  PROVE  LifeTypes' /\ MsgsInv'
<1>1. svc[s].remote \in BOOLEAN
  BY SpareNat DEF Service
<1>2. /\ Msg("CLOSE", TRUE, svc[s].remote) \in Message
      /\ Msg("OPENACK", TRUE, TRUE) \in Message /\ Msg("CLOSE", FALSE, TRUE) \in Message
  BY <1>1 DEF Msg, Message
<1>3. /\ caller' = caller
      /\ \/ lifeLog' = lifeLog
         \/ \E b \in BOOLEAN : lifeLog' = [lifeLog EXCEPT !.missed = @ \/ b]
  <2>1. (svc[s].st = "CLOSESENT") \in BOOLEAN /\ Overtakes(s) \in BOOLEAN
    BY DEF Overtakes
  <2>2. CASE PollService(s)
    BY <2>1, <2>2 DEF PollService
  <2>3. CASE SkipClose(s)
    BY <2>1, <2>3 DEF SkipClose
  <2>. QED BY <2>2, <2>3 DEF LifeHandler, LifeParse, ParseClose, ParseOpen,
         ParseOpenRejects, ParseOpenBails, ParseOpenAck, LifeHandlerWoken
<1>4. LifeTypes'
  <2>1. lifeLog' \in LifeLog
    BY <1>3 DEF LifeTypes, LifeLog
  <2>. QED BY <1>3, <2>1 DEF LifeTypes
<1>5. CASE PollService(s)
  <2>1. \/ lifeMsgs' = lifeMsgs
        \/ LifeSpace(s) /\ lifeMsgs' = SendClose(s, lifeMsgs)
    BY <1>5 DEF PollService
  <2>. QED BY <1>2, <2>1, <1>4, MessagesKept DEF SendClose
<1>6. CASE ParseClose(s)
  <2>1. /\ lifeMsgs[s] # <<>>
        /\ \/ lifeMsgs' = lifeMsgs \/ lifeMsgs' = Taken(s)
           \/ LifeSpace(s) /\ lifeMsgs' = SendClose(s, Taken(s))
    BY <1>6 DEF ParseClose, Arrives
  <2>. QED BY <1>2, <2>1, <1>4, MessagesKept DEF SendClose
<1>7. CASE SkipClose(s)
  BY <1>2, <1>7, <1>4, MessagesKept DEF SkipClose, Arrives
<1>8. CASE s = "server" /\ ParseOpen
  BY <1>2, <1>8, <1>4, MessagesKept DEF ParseOpen, Arrives, Reply
<1>9. CASE s = "server" /\ ParseOpenRejects
  BY <1>2, <1>9, <1>4, MessagesKept DEF ParseOpenRejects, Arrives, Reply
<1>10. CASE s = "client" /\ ParseOpenAck
  BY <1>2, <1>10, <1>4, MessagesKept DEF ParseOpenAck, Arrives
<1>11. CASE (s = "server" /\ ParseOpenBails) \/ LifeHandlerWoken(s)
  BY <1>2, <1>4, <1>11, MessagesKept DEF ParseOpenBails, LifeHandlerWoken
<1>. QED BY <1>5, <1>6, <1>7, <1>8, <1>9, <1>10, <1>11 DEF LifeHandler, LifeParse

LEMMA ThreadTypes ==
  ASSUME IInv, LifeTypes, MsgsInv, NEW t \in LifeThreads,
         \/ LifeGoesOn(t) \/ AddCall(t) \/ CloseCall(t)
         \/ RemoveCall(t) \/ RemoveHidden(t) \/ UseCall(t)
         \/ t \in Openers /\ OpenCall(t)
  PROVE  LifeTypes' /\ MsgsInv'
<1>1. /\ caller \in [LifeThreads -> Caller] /\ "client" \in Ends /\ "server" \in Ends
      /\ FarEnd("client") = "server"
  BY DEF IInv, Ends, FarEnd
<1>2. Msg("OPEN", TRUE, FALSE) \in Message
  BY DEF Msg, Message
<1>3. CASE OpenSends(t)
  <2>1. /\ LifeSpace("client") /\ lifeLog' = lifeLog
        /\ lifeMsgs' = [lifeMsgs EXCEPT ![FarEnd("client")] =
                          Append(@, Msg("OPEN", TRUE, FALSE))]
        /\ caller[t].pc = "adding" /\ caller' = [caller EXCEPT ![t].pc = "opening"]
    BY <1>1, <1>3 DEF OpenSends, Becomes, Doing
  <2>2. MsgsInv'
    BY <1>1, <1>2, <2>1, MessagesKept
  <2>3. LifeTypes'
    BY <1>1, <2>1 DEF LifeTypes, Caller
  <2>. QED BY <2>2, <2>3
<1>4. CASE t \in Openers /\ OpenCall(t)
  <2>1. EndOf(t) = "client"
    BY <1>4, ServiceLifeAssumption DEF EndOf
  <2>2. /\ lifeLog' = [lifeLog EXCEPT !.lives["client"] = @ + 1]
        /\ lifeMsgs' = lifeMsgs
        /\ \A u \in LifeThreads \ {t} : caller'[u] = caller[u]
    BY <1>1, <1>4 DEF OpenCall
  <2>3. lifeLog' \in LifeLog
    BY <1>1, <2>2 DEF LifeTypes, LifeLog
  <2>. QED BY <2>1, <2>2, <2>3 DEF LifeTypes, MsgsInv
<1>5. CASE AddCall(t)
  <2>1. /\ lifeLog' = [lifeLog EXCEPT !.lives["server"] = @ + 1]
        /\ lifeMsgs' = lifeMsgs /\ caller' = caller
    BY <1>5 DEF AddCall
  <2>2. lifeLog' \in LifeLog
    BY <1>1, <2>1 DEF LifeTypes, LifeLog
  <2>. QED BY <2>1, <2>2 DEF LifeTypes, MsgsInv
<1>6. ASSUME NEW c \in Caller, c.pc \notin {"adding", "opening"},
             caller' = [caller EXCEPT ![t] = c], lifeMsgs' = lifeMsgs,
             lifeLog' \in LifeLog
      PROVE  LifeTypes' /\ MsgsInv'
  BY <1>1, <1>6 DEF LifeTypes, MsgsInv
<1>7. ASSUME NEW pc \in {"idle", "failed", "using", "asking_TERMINATE", "asking_REMOVE",
                         "waiting_TERMINATE", "waiting_REMOVE"},
             NEW n \in Nat
      PROVE  [pc |-> pc, life |-> n] \in Caller
  BY DEF Caller
<1>8. Idle \in Caller /\ Idle.pc = "idle"
  BY DEF Idle, Caller
<1>9. lifeLog \in LifeLog
  BY DEF LifeTypes
<1>10. AlsoWaits(t) => lifeLog' \in LifeLog
  BY <1>9 DEF AlsoWaits, LifeLog
<1>11. svc[EndOf(t)].life \in Nat /\ caller[t].life \in Nat
  BY <1>1, ThreadsApart, SpareNat DEF Service, Caller
<1>12. CASE CloseCall(t)
  BY <1>6, <1>7, <1>10, <1>11, <1>12 DEF CloseCall
<1>13. CASE RemoveCall(t)
  BY <1>6, <1>7, <1>10, <1>11, <1>13 DEF RemoveCall
<1>14. CASE RemoveHidden(t)
  BY <1>6, <1>7, <1>10, <1>11, <1>14 DEF RemoveHidden
<1>15. CASE UseCall(t)
  BY <1>6, <1>7, <1>9, <1>11, <1>15 DEF UseCall
<1>16. ASSUME NEW pc \in {"idle", "failed", "waiting_TERMINATE", "waiting_REMOVE"},
              Becomes(t, pc), lifeMsgs' = lifeMsgs, lifeLog' = lifeLog
       PROVE  LifeTypes' /\ MsgsInv'
  <2>1. caller[t] \in Caller /\ caller' = [caller EXCEPT ![t] = [caller[t] EXCEPT !.pc = pc]]
    BY <1>1, <1>16 DEF Becomes
  <2>2. [caller[t] EXCEPT !.pc = pc] \in Caller
        /\ [caller[t] EXCEPT !.pc = pc].pc = pc
    BY <2>1 DEF Caller
  <2>. QED BY <1>6, <1>9, <1>16, <2>1, <2>2
<1>17. CASE OpenWoken(t)
  BY <1>16, <1>17 DEF OpenWoken
<1>18. CASE OpenGone(t)
  <2>1. lifeLog' = [lifeLog EXCEPT !.gone = TRUE] /\ lifeMsgs' = lifeMsgs
        /\ caller' = [caller EXCEPT ![t] = Idle]
    BY <1>18 DEF OpenGone, Returns
  <2>2. lifeLog' \in LifeLog
    BY <1>9, <2>1 DEF LifeLog
  <2>. QED BY <1>6, <1>8, <2>1, <2>2
<1>19. ASSUME NEW kind \in {"TERMINATE", "REMOVE"}, Asks(t, kind)
       PROVE  LifeTypes' /\ MsgsInv'
  BY <1>16, <1>19 DEF Asks, Waiting
<1>20. ASSUME NEW kind \in {"TERMINATE", "REMOVE"}, Woken(t, kind)
       PROVE  LifeTypes' /\ MsgsInv'
  <2>1. lifeMsgs' = lifeMsgs /\ lifeLog' = lifeLog
        /\ (caller' = [caller EXCEPT ![t] = Idle] \/ caller' = caller)
    BY <1>20 DEF Woken, Returns
  <2>2. CASE caller' = [caller EXCEPT ![t] = Idle]
    BY <1>6, <1>8, <1>9, <2>1, <2>2
  <2>3. CASE caller' = caller
    BY <2>1, <2>3 DEF LifeTypes, MsgsInv
  <2>. QED BY <2>1, <2>2, <2>3
<1>21. CASE UseReturn(t) \/ RemoveNothing(t)
  BY <1>6, <1>8, <1>9, <1>21 DEF UseReturn, RemoveNothing, Returns
<1>. QED BY <1>3, <1>4, <1>5, <1>12, <1>13, <1>14, <1>15, <1>17, <1>18, <1>19,
            <1>20, <1>21 DEF LifeGoesOn, CloseAsks, RemoveAsks, CloseWoken, RemoveWoken

-----------------------------------------------------------------------------
FullInv == IInv /\ LifeTypes /\ MsgsInv /\ bailed \subseteq Ends

LEMMA BailedKept ==
  ASSUME bailed \subseteq Ends, LifeNext
  PROVE  bailed' \subseteq Ends
<1>1. ASSUME NEW s \in Ends, LifeHandler(s) PROVE bailed' \subseteq Ends
  <2>1. PollService(s) => bailed' \in {bailed \ {s}, {}}
    BY DEF PollService
  <2>2. LifeParse(s) \/ LifeHandlerWoken(s) =>
          bailed' \in {bailed, bailed \ {s}, {s}, bailed \ {FarEnd(s)}}
    BY DEF LifeParse, LifeHandlerWoken, ParseClose, SkipClose, ParseOpen,
           ParseOpenRejects, ParseOpenBails, ParseOpenAck, Reply, Sends, Bails
  <2>. QED BY <1>1, <2>1, <2>2 DEF LifeHandler
<1>2. ASSUME NEW t \in LifeThreads,
             \/ LifeGoesOn(t) \/ AddCall(t) \/ CloseCall(t) \/ OpenCall(t)
             \/ RemoveCall(t) \/ RemoveHidden(t) \/ UseCall(t)
      PROVE  bailed' \subseteq Ends
  <2>1. bailed' \in {bailed, bailed \ {FarEnd("client")}}
    BY <1>2 DEF LifeGoesOn, AddCall, CloseCall, OpenCall, RemoveCall,
         RemoveHidden, UseCall, OpenSends, OpenWoken, OpenGone, CloseAsks,
         RemoveAsks, Asks, CloseWoken, RemoveWoken, Woken, UseReturn,
         RemoveNothing, Sends
  <2>. QED BY <2>1
<1>3. Openers \subseteq LifeThreads
  BY ServiceLifeAssumption DEF LifeThreads
<1>. QED BY <1>1, <1>2, <1>3 DEF LifeNext, ConnectShows

LEMMA LifeStarts == LifeInit => FullInv
<1>. SUFFICES ASSUME LifeInit PROVE FullInv
  OBVIOUS
<1>1. svc \in [Ends -> Service] /\ \A s \in Ends : svc[s] = NoService
  BY NoServiceIsOne DEF LifeInit
<1>2. Idle \in Caller /\ Idle.pc = "idle"
  BY DEF Idle, Caller
<1>3. /\ caller \in [LifeThreads -> Caller]
      /\ \A t \in LifeThreads : caller[t].pc = "idle"
  BY <1>2 DEF LifeInit
<1>4. \A s \in Ends : HoldersAt(s) = {}
  BY <1>3, ThreadsFinite DEF HoldersAt, Holds
<1>5. RefsCounted
  BY <1>1, <1>4, NoServiceIsOne, HoldersCounted DEF RefsCounted
<1>6. LifeTypes
  BY <1>3 DEF LifeInit, LifeTypes, LifeLog
<1>7. MsgsInv
  <2>1. <<>> \in Seq(Message) /\ Len(<<>>) = 0 /\ LifeRoom \in Nat
    BY ServiceLifeAssumption
  <2>. QED BY <2>1 DEF LifeInit, MsgsInv
<1>8. bailed \subseteq Ends
  BY DEF LifeInit
<1>. QED BY <1>1, <1>3, <1>5, <1>6, <1>7, <1>8, RefsSaid DEF FullInv, IInv

LEMMA LifeStutters == FullInv /\ UNCHANGED lifeVars => FullInv'
<1>. SUFFICES ASSUME FullInv, UNCHANGED lifeVars PROVE FullInv'
  OBVIOUS
<1>1. svc' = svc /\ caller' = caller /\ lifeMsgs' = lifeMsgs /\ lifeLog' = lifeLog
      /\ bailed' = bailed
  BY DEF lifeVars
<1>. QED BY <1>1 DEF FullInv, IInv, LifeTypes, MsgsInv, ServiceRefs, Live, Holds, OwnService

LEMMA LifeKeeps ==
  ASSUME FullInv, LifeNext
  PROVE  FullInv'
<1>1. IInv /\ LifeTypes /\ MsgsInv
  BY DEF FullInv
<1>2. ASSUME ConnectShows PROVE IInv' /\ LifeTypes' /\ MsgsInv'
  <2>. DEFINE w == [svc["server"] EXCEPT !.st = "LISTENING"]
  <2>1. "server" \in Ends /\ svc["server"] \in Service
    BY <1>1, SpareNat DEF Ends
  <2>2. /\ svc' = [svc EXCEPT !["server"] = w] /\ caller' = caller
        /\ svc["server"].st = "HIDDEN" /\ lifeMsgs' = lifeMsgs /\ lifeLog' = lifeLog
    BY <1>1, <1>2, <2>1 DEF ConnectShows, IInv
  <2>3. /\ w \in Service /\ w.st = "LISTENING" /\ w.refs = svc["server"].refs
        /\ w.life = svc["server"].life
    BY <2>1 DEF Service
  <2>. HIDE DEF w
  <2>4. Spare(w) = Spare(svc["server"])
    BY <2>2, <2>3 DEF Spare, Alive
  <2>5. IInv'
    BY <1>1, <2>1, <2>2, <2>3, <2>4, HandlerStepKeeps
  <2>6. LifeTypes' /\ MsgsInv'
    BY <1>1, <2>2 DEF LifeTypes, MsgsInv
  <2>. QED BY <2>5, <2>6
<1>3. ASSUME NEW s \in Ends, LifeHandler(s) PROVE IInv' /\ LifeTypes' /\ MsgsInv'
  BY <1>1, <1>3, HandlerKeeps, HandlerTypes
<1>4. ASSUME NEW t \in Openers, OpenCall(t) PROVE IInv' /\ LifeTypes' /\ MsgsInv'
  <2>1. t \in LifeThreads
    BY ServiceLifeAssumption DEF LifeThreads
  <2>. QED BY <1>1, <1>4, <2>1, OpeningKeeps, ThreadTypes
<1>5. ASSUME NEW t \in LifeThreads,
             \/ LifeGoesOn(t) \/ AddCall(t) \/ CloseCall(t)
             \/ RemoveCall(t) \/ RemoveHidden(t) \/ UseCall(t)
      PROVE  IInv' /\ LifeTypes' /\ MsgsInv'
  <2>1. LifeTypes' /\ MsgsInv'
    BY <1>1, <1>5, ThreadTypes
  <2>2. IInv'
    BY <1>1, <1>5, OpeningKeeps, TakingKeeps, GivingKeeps DEF LifeGoesOn
  <2>. QED BY <2>1, <2>2
<1>6. IInv' /\ LifeTypes' /\ MsgsInv'
  BY <1>2, <1>3, <1>4, <1>5 DEF LifeNext
<1>7. bailed' \subseteq Ends
  BY BailedKept DEF FullInv
<1>. QED BY <1>6, <1>7 DEF FullInv

(* What the type invariant of ServiceLife adds.                              *)
LEMMA LifeTyped == FullInv => LifeTypeOK /\ ServiceRefs
<1>. SUFFICES ASSUME FullInv PROVE LifeTypeOK /\ ServiceRefs
  OBVIOUS
<1>1. svc \in [Ends -> Service] /\ caller \in [LifeThreads -> Caller] /\ ServiceRefs
      /\ MsgsInv /\ bailed \subseteq Ends
  BY DEF FullInv, IInv
<1>2. ASSUME NEW s \in Ends
      PROVE  svc[s].refs <= Cardinality(Threads(s)) + 1
  <2>1. RefsCounted
    BY <1>1, RefsSaid
  <2>2. Cardinality(HoldersAt(s)) <= Cardinality(Threads(s))
        /\ Cardinality(Threads(s)) \in Nat /\ Cardinality(HoldersAt(s)) \in Nat
    <3>1. HoldersAt(s) \subseteq Threads(s)
      BY DEF HoldersAt
    <3>. QED BY <3>1, ThreadsFinite, FS_Subset, FS_CardinalityType
  <2>3. svc[s].refs \in Nat /\ Spare(svc[s]) = Cardinality(HoldersAt(s))
    BY <1>1, <2>1 DEF RefsCounted, Service
  <2>4. svc[s].refs <= Spare(svc[s]) + 1
    BY <2>3 DEF Spare
  <2>. QED BY <2>2, <2>3, <2>4
<1>3. \A s \in Ends : Len(lifeMsgs[s]) <= LifeRoom
  BY <1>1 DEF MsgsInv
<1>. QED BY <1>1, <1>2, <1>3 DEF LifeTypeOK, Service, Caller

(* For any number of threads and room in the transports, every reference of  *)
(* a service is a thread's or its own, and no thread's service is taken      *)
(* from under it (find_service_by_handle, unlock_service).                   *)
THEOREM ServiceRefsAlways == LifeSpec => [](LifeTypeOK /\ ServiceRefs)
<1>1. FullInv /\ [LifeNext]_lifeVars => FullInv'
  BY LifeKeeps, LifeStutters
<1>. QED BY <1>1, LifeStarts, LifeTyped, PTL DEF LifeSpec

-----------------------------------------------------------------------------
(* That the two sides agree. What is on its way between them depends on how  *)
(* far the client has opened or closed its service, and on nothing of its    *)
(* earlier lives but CLOSEs that no longer matter.                           *)

Class(v) == IF v.st \in {"OPENING", "OPEN", "CLOSESENT"} THEN v.st ELSE "off"
Classes == {"OPENING", "OPEN", "CLOSESENT", "off"}
Adders == {t \in LifeThreads : Doing(t, "adding")}

(* What is on its way to the server: CLOSEs, by which the server can tell    *)
(* whose they are, or these and one OPEN, which may have a CLOSE behind it.  *)
AllClose(S) == \A i \in 1..Len(S) : S[i].type = "CLOSE" /\ S[i].src
Opens(S) ==
  \E k \in 1..Len(S) :
    /\ S[k].type = "OPEN"
    /\ \A i \in 1..Len(S) : i # k => S[i].type = "CLOSE" /\ S[i].src
OpensCloses(S) == Opens(S) /\ S[Len(S)].type = "CLOSE"
ClosesFirst(S) == S # <<>> /\ S[1].type = "CLOSE"

(* The server is not connected to this life of the client: the CLOSE it may  *)
(* still wait for comes before any OPEN.                                     *)
Apart(r, S) == r # "OPEN" /\ (r = "CLOSESENT" => ClosesFirst(S))

(* And what is on its way to the client.                                     *)
One(C, type) == Len(C) = 1 /\ C[1].type = type /\ C[1].dst
Both(C) ==
  Len(C) = 2 /\ C[1].type = "OPENACK" /\ C[1].dst /\ C[2].type = "CLOSE" /\ C[2].dst

(* c and r: the classes of the client's service and of the server's; A: the  *)
(* threads yet to send OPEN; S and C: what is on its way to the server and   *)
(* to the client.                                                            *)
Agreed(c, r, A, S, C) ==
  \/ c = "off" /\ A = {} /\ Apart(r, S) /\ AllClose(S) /\ C = <<>>
  \/ c = "OPENING" /\ (\E t \in LifeThreads : A = {t})
       /\ Apart(r, S) /\ AllClose(S) /\ C = <<>>
  \/ c = "OPENING" /\ A = {} /\ Apart(r, S) /\ Opens(S) /\ C = <<>>
  \/ c = "OPENING" /\ A = {} /\ Apart(r, S) /\ AllClose(S) /\ One(C, "CLOSE")
  \/ c = "OPENING" /\ A = {} /\ r = "OPEN" /\ AllClose(S) /\ One(C, "OPENACK")
  \/ c = "OPENING" /\ A = {} /\ r # "OPEN" /\ AllClose(S) /\ Both(C)
  \/ c = "OPEN" /\ A = {} /\ r = "OPEN" /\ AllClose(S) /\ C = <<>>
  \/ c = "OPEN" /\ A = {} /\ r # "OPEN" /\ AllClose(S) /\ One(C, "CLOSE")
  \/ c = "CLOSESENT" /\ A = {} /\ Apart(r, S) /\ OpensCloses(S) /\ C = <<>>
  \/ c = "CLOSESENT" /\ A = {} /\ r = "OPEN" /\ AllClose(S) /\ S # <<>>
       /\ (C = <<>> \/ One(C, "OPENACK"))
  \/ c = "CLOSESENT" /\ A = {} /\ Apart(r, S) /\ AllClose(S)
       /\ (One(C, "CLOSE") \/ Both(C))

(* The port of the other side is known as long as the service is open.       *)
PortOf(v) == (v.st = "OPEN" => v.remote) /\ (v.st = "OPENING" => ~v.remote)
PortInv == svc["server"].st # "OPENING" /\ \A s \in Ends : PortOf(svc[s])

AgreeInv ==
  Agreed(Class(svc["client"]), Class(svc["server"]), Adders,
         lifeMsgs["server"], lifeMsgs["client"])

(* Unless a CLOSE has missed.                                                *)
AgreeOrMissed == lifeLog.missed \/ (AgreeInv /\ PortInv)

-----------------------------------------------------------------------------
(* What is on its way to the server as a message is sent.                    *)
LEMMA QueueAppends ==
  ASSUME NEW S \in Seq(Message), NEW m \in Message
  PROVE  /\ Append(S, m) \in Seq(Message) /\ Len(S) \in Nat
         /\ Len(Append(S, m)) = Len(S) + 1 /\ Append(S, m)[Len(S) + 1] = m
         /\ \A i \in 1..Len(S) : Append(S, m)[i] = S[i] /\ i \in 1..(Len(S) + 1)
         /\ \A i \in 1..(Len(S) + 1) : i \in 1..Len(S) \/ i = Len(S) + 1
OBVIOUS

LEMMA QueueShifts ==
  ASSUME NEW S \in Seq(Message), S # <<>>
  PROVE  /\ Tail(S) \in Seq(Message) /\ Len(S) \in Nat /\ Len(S) >= 1
         /\ Len(Tail(S)) = Len(S) - 1 /\ Head(S) = S[1] /\ 1 \in 1..Len(S)
         /\ \A i \in 1..Len(Tail(S)) : Tail(S)[i] = S[i + 1] /\ i + 1 \in 1..Len(S)
         /\ \A i \in 1..Len(S) : \/ i = 1
                                 \/ i - 1 \in 1..Len(Tail(S)) /\ Tail(S)[i - 1] = S[i]
OBVIOUS

LEMMA CloseSent ==
  ASSUME NEW S \in Seq(Message), NEW m \in Message, m.type = "CLOSE", m.src
  PROVE  /\ AllClose(S) => AllClose(Append(S, m)) /\ ClosesFirst(Append(S, m))
         /\ Opens(S) => OpensCloses(Append(S, m))
         /\ ClosesFirst(S) => ClosesFirst(Append(S, m))
         /\ Append(S, m) # <<>>
<1>. DEFINE k == Len(S)
            a == Append(S, m)
<1>1. /\ a \in Seq(Message) /\ k \in Nat /\ Len(a) = k + 1 /\ a[k + 1] = m
      /\ \A i \in 1..k : a[i] = S[i] /\ i \in 1..(k + 1)
      /\ \A i \in 1..(k + 1) : i \in 1..k \/ i = k + 1
  BY QueueAppends
<1>2. a # <<>> /\ 1 \in 1..(k + 1) /\ (S # <<>> => 1 \in 1..k)
  BY <1>1
<1>. HIDE DEF a, k
<1>3. AllClose(S) => AllClose(a)
  BY <1>1 DEF AllClose, k
<1>4. AllClose(S) => ClosesFirst(a)
  BY <1>1, <1>2, <1>3 DEF AllClose, ClosesFirst
<1>5. ASSUME Opens(S) PROVE OpensCloses(a)
  <2>1. PICK n \in 1..k :
          /\ S[n].type = "OPEN"
          /\ \A i \in 1..k : i # n => S[i].type = "CLOSE" /\ S[i].src
    BY <1>5 DEF Opens, k
  <2>2. /\ n \in 1..(k + 1) /\ a[n].type = "OPEN"
        /\ \A i \in 1..(k + 1) : i # n => a[i].type = "CLOSE" /\ a[i].src
    BY <1>1, <2>1
  <2>. QED BY <1>1, <2>2 DEF Opens, OpensCloses
<1>6. ClosesFirst(S) => ClosesFirst(a)
  BY <1>1, <1>2 DEF ClosesFirst
<1>. QED BY <1>2, <1>3, <1>4, <1>5, <1>6 DEF a

LEMMA OpenSent ==
  ASSUME NEW S \in Seq(Message), NEW m \in Message, m.type = "OPEN"
  PROVE  /\ AllClose(S) => Opens(Append(S, m))
         /\ ClosesFirst(S) => ClosesFirst(Append(S, m))
<1>. DEFINE k == Len(S)
            a == Append(S, m)
<1>1. /\ a \in Seq(Message) /\ k \in Nat /\ Len(a) = k + 1 /\ a[k + 1] = m
      /\ \A i \in 1..k : a[i] = S[i] /\ i \in 1..(k + 1)
      /\ \A i \in 1..(k + 1) : i \in 1..k \/ i = k + 1
  BY QueueAppends
<1>2. a # <<>> /\ k + 1 \in 1..Len(a) /\ (S # <<>> => 1 \in 1..k)
  BY <1>1
<1>. HIDE DEF a, k
<1>3. AllClose(S) => Opens(a)
  BY <1>1, <1>2 DEF Opens, AllClose, k
<1>4. ClosesFirst(S) => ClosesFirst(a)
  BY <1>1, <1>2 DEF ClosesFirst
<1>. QED BY <1>3, <1>4 DEF a

LEMMA MessageRead ==
  ASSUME NEW S \in Seq(Message), S # <<>>
  PROVE  /\ AllClose(S) => AllClose(Tail(S)) /\ S[1].type = "CLOSE" /\ S[1].src
         /\ Opens(S) /\ S[1].type = "OPEN" => AllClose(Tail(S))
         /\ Opens(S) /\ S[1].type = "CLOSE" => Opens(Tail(S)) /\ S[1].src
         /\ OpensCloses(S) /\ S[1].type = "OPEN" => Tail(S) # <<>>
         /\ OpensCloses(S) /\ S[1].type = "CLOSE" => OpensCloses(Tail(S))
<1>. DEFINE k == Len(S)
            a == Tail(S)
<1>1. /\ a \in Seq(Message) /\ k \in Nat /\ k >= 1 /\ Len(a) = k - 1 /\ 1 \in 1..k
      /\ \A i \in 1..Len(a) : a[i] = S[i + 1] /\ i + 1 \in 1..k
      /\ \A i \in 1..k : i = 1 \/ (i - 1 \in 1..Len(a) /\ a[i - 1] = S[i])
  BY QueueShifts
<1>2. k \in 1..k /\ (k # 1 => a # <<>> /\ a[Len(a)] = S[k])
  <2>1. Len(<<>>) = 0
    OBVIOUS
  <2>. HIDE DEF a, k
  <2>2. k \in 1..k
    BY <1>1
  <2>3. ASSUME k # 1 PROVE a # <<>> /\ a[Len(a)] = S[k]
    <3>1. Len(a) # 0 /\ Len(a) = k - 1
      BY <1>1, <2>3
    <3>2. a[k - 1] = S[k]
      BY <1>1, <2>2, <2>3
    <3>. QED BY <2>1, <3>1, <3>2
  <2>. QED BY <2>2, <2>3
<1>. HIDE DEF a, k
<1>3. AllClose(S) => AllClose(a) /\ S[1].type = "CLOSE" /\ S[1].src
  BY <1>1 DEF AllClose, k
<1>4. ASSUME Opens(S)
      PROVE  /\ S[1].type = "OPEN" => AllClose(a)
             /\ S[1].type = "CLOSE" => Opens(a) /\ S[1].src /\ k # 1
  <2>1. PICK n \in 1..k :
          /\ S[n].type = "OPEN"
          /\ \A i \in 1..k : i # n => S[i].type = "CLOSE" /\ S[i].src
    BY <1>4 DEF Opens, k
  <2>2. ASSUME S[1].type = "OPEN" PROVE AllClose(a)
    <3>1. n = 1
      BY <1>1, <2>1, <2>2
    <3>2. \A i \in 1..Len(a) : a[i] = S[i + 1] /\ i + 1 \in 1..k /\ i + 1 # 1
      BY <1>1
    <3>. QED BY <2>1, <3>1, <3>2 DEF AllClose
  <2>3. ASSUME S[1].type = "CLOSE" PROVE Opens(a) /\ S[1].src /\ k # 1
    <3>1. n # 1 /\ S[1].src
      BY <1>1, <2>1, <2>3
    <3>2. n - 1 \in 1..Len(a) /\ a[n - 1].type = "OPEN"
      BY <1>1, <2>1, <3>1
    <3>4. k # 1
      BY <1>1, <2>1, <3>1
    <3>3. \A i \in 1..Len(a) : /\ a[i] = S[i + 1] /\ i + 1 \in 1..k
                               /\ i # n - 1 => i + 1 # n
      BY <1>1
    <3>5. \A i \in 1..Len(a) : i # n - 1 => a[i].type = "CLOSE" /\ a[i].src
      BY <2>1, <3>3
    <3>6. Opens(a)
      BY <3>2, <3>5 DEF Opens
    <3>. QED BY <3>1, <3>4, <3>6
  <2>. QED BY <2>2, <2>3
<1>5. OpensCloses(S) /\ S[1].type = "OPEN" => a # <<>>
  BY <1>1, <1>2 DEF OpensCloses, k
<1>6. OpensCloses(S) /\ S[1].type = "CLOSE" => OpensCloses(a)
  BY <1>2, <1>4 DEF OpensCloses, k
<1>. QED BY <1>3, <1>4, <1>5, <1>6 DEF a

-----------------------------------------------------------------------------
(* What is on its way to the client.                                         *)
LEMMA ToldMore ==
  ASSUME NEW C \in Seq(Message), NEW m \in Message, m.dst
  PROVE  /\ C = <<>> => One(Append(C, m), m.type)
         /\ One(C, "OPENACK") /\ m.type = "CLOSE" => Both(Append(C, m))
<1>1. C = <<>> => One(Append(C, m), m.type)
  <2>. SUFFICES ASSUME C = <<>> PROVE One(Append(C, m), m.type)
    OBVIOUS
  <2>1. Len(Append(C, m)) = 1 /\ Append(C, m)[1] = m
    OBVIOUS
  <2>. QED BY <2>1 DEF One
<1>2. ASSUME One(C, "OPENACK"), m.type = "CLOSE" PROVE Both(Append(C, m))
  <2>1. Len(C) = 1
    BY <1>2 DEF One
  <2>2. Len(Append(C, m)) = 2 /\ Append(C, m)[2] = m /\ Append(C, m)[1] = C[1]
    BY ONLY C \in Seq(Message), m \in Message, <2>1
  <2>. QED BY <1>2, <2>2 DEF One, Both
<1>. QED BY <1>1, <1>2

LEMMA ToldLess ==
  ASSUME NEW C \in Seq(Message), C # <<>>
  PROVE  /\ \A type : One(C, type) => Tail(C) = <<>> /\ C[1].type = type /\ C[1].dst
         /\ Both(C) => One(Tail(C), "CLOSE") /\ C[1].type = "OPENACK" /\ C[1].dst
<1>1. /\ Tail(C) \in Seq(Message) /\ Len(Tail(C)) = Len(C) - 1
      /\ \A i \in 1..Len(Tail(C)) : Tail(C)[i] = C[i + 1]
  BY QueueShifts
<1>2. ASSUME NEW type, One(C, type) PROVE Tail(C) = <<>> /\ C[1].type = type /\ C[1].dst
  <2>1. Len(C) = 1
    BY <1>2 DEF One
  <2>2. Tail(C) = <<>>
    <3>1. Len(Tail(C)) = 0
      BY ONLY <1>1, <2>1
    <3>2. \A q \in Seq(Message) : Len(q) = 0 => q = <<>>
      OBVIOUS
    <3>. QED BY <1>1, <3>1, <3>2
  <2>. QED BY <1>2, <2>2 DEF One
<1>3. ASSUME Both(C)
      PROVE  One(Tail(C), "CLOSE") /\ C[1].type = "OPENACK" /\ C[1].dst
  <2>1. Len(Tail(C)) = 1 /\ Tail(C)[1] = C[2]
    BY <1>1, <1>3 DEF Both
  <2>. QED BY <1>3, <2>1 DEF One, Both
<1>. QED BY <1>2, <1>3

(* The steps, as far as the two sides can tell. A service that is asked to   *)
(* close sends CLOSE.                                                        *)
LEMMA AskedClient ==
  ASSUME NEW c \in {"OPENING", "OPEN"}, NEW r, NEW A, NEW S \in Seq(Message), NEW C,
         NEW m \in Message, m.type = "CLOSE", m.src,
         Agreed(c, r, A, S, C), A = {}
  PROVE  Agreed("CLOSESENT", r, A, Append(S, m), C)
<1>1. Apart(r, S) => Apart(r, Append(S, m))
  BY CloseSent DEF Apart
<1>2. AllClose(S) /\ r # "OPEN" => Apart(r, Append(S, m))
  BY CloseSent DEF Apart
<1>. QED BY <1>1, <1>2, CloseSent DEF Agreed

LEMMA AskedServer ==
  ASSUME NEW c, NEW A, NEW S \in Seq(Message), NEW C \in Seq(Message),
         Agreed(c, "OPEN", A, S, C), NEW m \in Message, m.type = "CLOSE", m.dst
  PROVE  Agreed(c, "CLOSESENT", A, S, Append(C, m))
<1>1. S # <<>> /\ AllClose(S) => ClosesFirst(S)
  BY MessageRead DEF ClosesFirst
<1>. QED BY <1>1, ToldMore DEF Agreed, Apart

(* The server answers an OPEN.                                               *)
LEMMA AnswersOpen ==
  ASSUME NEW c, NEW r, NEW A, NEW S \in Seq(Message), NEW C \in Seq(Message),
         Agreed(c, r, A, S, C), S # <<>>, S[1].type = "OPEN",
         NEW m \in Message, m.dst
  PROVE  /\ r # "OPEN" /\ r # "CLOSESENT"
         /\ m.type = "OPENACK" => Agreed(c, "OPEN", A, Tail(S), Append(C, m))
         /\ m.type = "CLOSE" => Agreed(c, r, A, Tail(S), Append(C, m))
<1>1. /\ ~AllClose(S) /\ ~ClosesFirst(S)
      /\ Opens(S) => AllClose(Tail(S))
      /\ OpensCloses(S) => Opens(S) /\ Tail(S) # <<>>
  BY MessageRead DEF ClosesFirst, OpensCloses
<1>2. /\ A = {} /\ Apart(r, S) /\ C = <<>>
      /\ (c = "OPENING" /\ Opens(S)) \/ (c = "CLOSESENT" /\ OpensCloses(S))
  BY <1>1 DEF Agreed
<1>3. r # "OPEN" /\ r # "CLOSESENT"
  BY <1>1, <1>2 DEF Apart
<1>. QED BY <1>1, <1>2, <1>3, ToldMore DEF Agreed, Apart

(* The client has the answer, which it may want no longer, or a CLOSE.       *)
LEMMA ReadsAck ==
  ASSUME NEW c, NEW r, NEW A, NEW S \in Seq(Message), NEW C \in Seq(Message),
         Agreed(c, r, A, S, C), C # <<>>, C[1].type = "OPENACK"
  PROVE  \/ c = "OPENING" /\ Agreed("OPEN", r, A, S, Tail(C))
         \/ c = "CLOSESENT" /\ Agreed(c, r, A, S, Tail(C))
BY ToldLess DEF Agreed

LEMMA ReadsClose ==
  ASSUME NEW c, NEW r, NEW A, NEW S \in Seq(Message), NEW C \in Seq(Message),
         Agreed(c, r, A, S, C), C # <<>>, C[1].type = "CLOSE"
  PROVE  /\ c # "off" /\ C[1].dst
         /\ c # "OPEN" => Agreed("off", r, A, S, Tail(C))
         /\ \A m \in Message : c = "OPEN" /\ m.type = "CLOSE" /\ m.src
              => Agreed("off", r, A, Append(S, m), Tail(C))
<1>1. /\ ~Both(C) /\ ~One(C, "OPENACK")
      /\ One(C, "CLOSE") => Tail(C) = <<>> /\ C[1].dst
  BY ToldLess
<1>2. c # "off" /\ C[1].dst
  BY <1>1 DEF Agreed
<1>3. c # "OPEN" => Agreed("off", r, A, S, Tail(C))
  BY <1>1 DEF Agreed
<1>4. ASSUME NEW m \in Message, c = "OPEN", m.type = "CLOSE", m.src
      PROVE  Agreed("off", r, A, Append(S, m), Tail(C))
  <2>1. r # "OPEN" /\ AllClose(S) /\ A = {} /\ One(C, "CLOSE")
    BY <1>1, <1>4 DEF Agreed
  <2>2. ClosesFirst(Append(S, m)) /\ AllClose(Append(S, m))
    BY <1>4, <2>1, CloseSent
  <2>. QED BY <1>1, <2>1, <2>2 DEF Agreed, Apart
<1>. QED BY <1>2, <1>3, <1>4

(* The server has a CLOSE, of a client it is connected to or not.            *)
LEMMA ServerReadsClose ==
  ASSUME NEW c, NEW r, NEW A, NEW S \in Seq(Message), NEW C \in Seq(Message),
         Agreed(c, r, A, S, C), S # <<>>, S[1].type = "CLOSE"
  PROVE  /\ S[1].src
         /\ r # "OPEN" => Agreed(c, "off", A, Tail(S), C)
         /\ \A m \in Message : r = "OPEN" /\ m.type = "CLOSE" /\ m.dst
              => Agreed(c, "off", A, Tail(S), Append(C, m))
<1>1. /\ AllClose(S) => AllClose(Tail(S)) /\ S[1].src
      /\ Opens(S) => Opens(Tail(S)) /\ S[1].src
      /\ OpensCloses(S) => Opens(S) /\ OpensCloses(Tail(S))
  BY MessageRead DEF OpensCloses
<1>2. S[1].src
  BY <1>1 DEF Agreed
<1>3. r # "OPEN" => Agreed(c, "off", A, Tail(S), C)
  BY <1>1 DEF Agreed, Apart
<1>4. ASSUME NEW m \in Message, r = "OPEN", m.type = "CLOSE", m.dst
      PROVE  Agreed(c, "off", A, Tail(S), Append(C, m))
  BY <1>1, <1>4, ToldMore DEF Agreed, Apart
<1>. QED BY <1>2, <1>3, <1>4

(* The client opens a service, and asks for it.                              *)
LEMMA Opening ==
  ASSUME NEW r, NEW A, NEW S, NEW C, Agreed("off", r, A, S, C), NEW t \in LifeThreads
  PROVE  A = {} /\ Agreed("OPENING", r, {t}, S, C)
BY DEF Agreed

LEMMA OpeningAsked ==
  ASSUME NEW c, NEW r, NEW A, NEW S \in Seq(Message), NEW C, Agreed(c, r, A, S, C),
         NEW t \in A, NEW m \in Message, m.type = "OPEN"
  PROVE  A = {t} /\ Agreed(c, r, {}, Append(S, m), C)
<1>1. /\ c = "OPENING" /\ A = {t} /\ Apart(r, S) /\ AllClose(S) /\ C = <<>>
  BY DEF Agreed
<1>2. Opens(Append(S, m)) /\ Apart(r, Append(S, m))
  BY <1>1, OpenSent DEF Apart
<1>. QED BY <1>1, <1>2 DEF Agreed

LEMMA NothingUnderWay ==
  ASSUME NEW c, NEW r, NEW A, Agreed(c, r, A, <<>>, <<>>)
  PROVE  /\ c = "OPEN" <=> r = "OPEN"
         /\ c # "CLOSESENT" /\ r # "CLOSESENT"
<1>1. Len(<<>>) = 0 /\ ~(<<>> # <<>>) /\ \A i \in 1..0 : FALSE
  OBVIOUS
<1>2. /\ ~ClosesFirst(<<>>) /\ ~Opens(<<>>) /\ ~OpensCloses(<<>>)
      /\ ~One(<<>>, "CLOSE") /\ ~One(<<>>, "OPENACK") /\ ~Both(<<>>)
  BY <1>1 DEF ClosesFirst, Opens, OpensCloses, One, Both
<1>. QED BY <1>2 DEF Agreed, Apart

-----------------------------------------------------------------------------
(* What the operators do to the class of a service.                          *)
LEMMA FreeIsOff ==
  ASSUME NEW v \in Service
  PROVE  Class(FreeService(v)) = "off" /\ PortOf(FreeService(v))
<1>. DEFINE f == [v EXCEPT !.st = "FREE", !.remote = FALSE]
<1>1. f \in Service /\ f.st = "FREE"
  BY DEF Service
<1>. HIDE DEF f
<1>2. Up(f) \in Service /\ Up(f).st = "FREE"
  BY <1>1, UpKeeps
<1>3. Unlock(Up(f)).st \in {"FREE", "NONE"}
  BY <1>2 DEF Unlock, NoService, Service
<1>4. FreeService(v) = Unlock(Up(f))
  BY DEF FreeService, f
<1>. QED BY <1>3, <1>4 DEF Class, PortOf

LEMMA CloseDoneIsOff ==
  ASSUME NEW v \in Service
  PROVE  Class(CloseDone(v)) = "off" /\ PortOf(CloseDone(v))
<1>1. CASE v.listens /\ v.auto
  <2>. DEFINE w == [v EXCEPT !.st = "LISTENING", !.remote = FALSE, !.closing = FALSE]
  <2>1. w \in Service /\ w.st = "LISTENING"
    BY DEF Service
  <2>. HIDE DEF w
  <2>2. Up(w).st = "LISTENING"
    BY <2>1, UpKeeps
  <2>. QED BY <1>1, <2>2 DEF CloseDone, Class, PortOf, w
<1>2. CASE v.listens /\ ~v.auto
  <2>1. CloseDone(v).st = "CLOSEWAIT"
    BY <1>2 DEF CloseDone, Service
  <2>. QED BY <2>1 DEF Class, PortOf
<1>3. CASE ~v.listens
  BY <1>3, FreeIsOff DEF CloseDone
<1>. QED BY <1>1, <1>2, <1>3

LEMMA ClassClosed ==
  ASSUME NEW v \in Service, PortOf(v), NEW received \in BOOLEAN
  PROVE  /\ PortOf(Closed(v, received))
         /\ received \/ Class(v) = "off" => Class(Closed(v, received)) = "off"
         /\ ~received /\ Class(v) # "off" => Class(Closed(v, received)) = "CLOSESENT"
<1>1. CASE v.st \in {"HIDDEN", "LISTENING", "CLOSEWAIT"} /\ ~received /\ v.listens
  <2>. DEFINE w == [v EXCEPT !.st = IF @ = "CLOSEWAIT" THEN "LISTENING" ELSE @,
                             !.remote = FALSE]
  <2>1. w \in Service /\ w.st \in {"HIDDEN", "LISTENING"}
    BY <1>1 DEF Service
  <2>. HIDE DEF w
  <2>2. Up(w).st \in {"HIDDEN", "LISTENING"}
    BY <2>1, UpKeeps
  <2>3. Closed(v, received) = Up(w)
    BY <1>1 DEF Closed, w
  <2>. QED BY <1>1, <2>2, <2>3 DEF Class, PortOf
<1>2. CASE v.st \in {"HIDDEN", "LISTENING", "CLOSEWAIT"} /\ ~received /\ ~v.listens
  <2>1. Closed(v, received) = FreeService(v)
    BY <1>2 DEF Closed
  <2>. QED BY <1>2, <2>1, FreeIsOff DEF Class
<1>3. CASE v.st \in {"HIDDEN", "LISTENING", "CLOSEWAIT"} /\ received
  <2>1. Closed(v, received) = v
    BY <1>3 DEF Closed
  <2>. QED BY <1>3, <2>1 DEF Class
<1>4. CASE v.st = "OPENING" /\ received
  <2>. DEFINE w == [v EXCEPT !.st = "CLOSEWAIT"]
  <2>1. w \in Service /\ w.st = "CLOSEWAIT"
    BY DEF Service
  <2>. HIDE DEF w
  <2>2. Up(w).st = "CLOSEWAIT"
    BY <2>1, UpKeeps
  <2>3. Closed(v, received) = Up(w)
    BY <1>4 DEF Closed, w
  <2>. QED BY <1>4, <2>2, <2>3 DEF Class, PortOf
<1>5. CASE v.st \in {"OPENING", "OPEN"} /\ ~received
  <2>1. Closed(v, received).st = "CLOSESENT"
    BY <1>5 DEF Closed, Service
  <2>. QED BY <1>5, <2>1 DEF Class, PortOf
<1>6. CASE v.st \in {"OPEN", "CLOSESENT"} /\ received
  <2>1. Closed(v, received) = CloseDone(v)
    BY <1>6 DEF Closed
  <2>. QED BY <1>6, <2>1, CloseDoneIsOff
<1>7. CASE v.st \in {"NONE", "FREE"} \/ (v.st = "CLOSESENT" /\ ~received)
  <2>1. Closed(v, received) = v
    BY <1>7 DEF Closed
  <2>. QED BY <1>7, <2>1 DEF Class
<1>. QED BY <1>1, <1>2, <1>3, <1>4, <1>5, <1>6, <1>7 DEF Service

(* A reference given back beside the service's own.                          *)
LEMMA ClassUnlocked ==
  ASSUME NEW v \in Service, Spare(v) >= 1, PortOf(v)
  PROVE  Class(Unlock(v)) = Class(v) /\ PortOf(Unlock(v))
<1>1. v.refs \in Nat
  BY DEF Service
<1>2. CASE v.refs = 1
  <2>1. ~Alive(v)
    BY <1>2 DEF Spare
  <2>2. Unlock(v).st = "NONE"
    BY <1>2 DEF Unlock, NoService
  <2>. QED BY <2>1, <2>2 DEF Alive, Class, PortOf
<1>3. CASE v.refs # 1
  <2>1. Unlock(v).st = v.st /\ Unlock(v).remote = v.remote
    BY <1>3 DEF Unlock, Service
  <2>. QED BY <2>1 DEF Class, PortOf
<1>. QED BY <1>2, <1>3

-----------------------------------------------------------------------------
(* Steps that change no class and send nothing.                              *)
LEMMA AgreeFrame ==
  ASSUME FullInv, AgreeInv, PortInv, NEW s \in Ends, NEW w, PortOf(w),
         svc' = [svc EXCEPT ![s] = w], Class(w) = Class(svc[s]),
         lifeMsgs' = lifeMsgs, Adders' = Adders
  PROVE  AgreeInv' /\ PortInv'
<1>1. svc \in [Ends -> Service] /\ "client" \in Ends /\ "server" \in Ends
  BY DEF FullInv, IInv, Ends
<1>2. /\ Class(svc'["client"]) = Class(svc["client"])
      /\ Class(svc'["server"]) = Class(svc["server"])
  BY <1>1
<1>3. svc'["server"].st # "OPENING"
  BY <1>2 DEF Class, PortInv
<1>4. \A r \in Ends : PortOf(svc'[r])
  BY <1>1 DEF PortInv
<1>. QED BY <1>2, <1>3, <1>4 DEF AgreeInv, PortInv

LEMMA AddersKept ==
  ASSUME FullInv, NEW t \in LifeThreads, NEW c \in Caller, caller[t].pc # "adding",
         c.pc # "adding", caller' = [caller EXCEPT ![t] = c]
  PROVE  Adders' = Adders
<1>1. caller \in [LifeThreads -> Caller]
  BY DEF FullInv, IInv
<1>. QED BY <1>1 DEF Adders, Doing

(* The threads that hold, add or remove services.                            *)
LEMMA HoldingAgrees ==
  ASSUME FullInv, AgreeInv, PortInv, NEW t \in LifeThreads,
         \/ AddCall(t) \/ CloseCall(t) \/ RemoveCall(t) \/ UseCall(t) \/ RemoveHidden(t)
  PROVE  AgreeInv' /\ PortInv'
<1>. DEFINE e == EndOf(t)
<1>1. /\ e \in Ends /\ svc[e] \in Service /\ svc \in [Ends -> Service]
      /\ caller[t] \in Caller /\ Spare(svc[e]) \in Nat /\ PortOf(svc[e])
  BY ThreadsApart, SpareNat DEF FullInv, IInv, PortInv
<1>2. ASSUME NEW b \in BOOLEAN, NEW n \in Nat,
             svc' = [svc EXCEPT ![e] = [svc[e] EXCEPT !.refs = n, !.closing = b]],
             lifeMsgs' = lifeMsgs, Adders' = Adders
      PROVE  AgreeInv' /\ PortInv'
  <2>. DEFINE w == [svc[e] EXCEPT !.refs = n, !.closing = b]
  <2>1. w.st = svc[e].st /\ w.remote = svc[e].remote
    BY <1>1 DEF Service
  <2>2. svc' = [svc EXCEPT ![e] = w]
    BY <1>2
  <2>. HIDE DEF w
  <2>3. PortOf(w) /\ Class(w) = Class(svc[e])
    BY <1>1, <2>1 DEF PortOf, Class
  <2>. QED BY <1>1, <1>2, <2>2, <2>3, AgreeFrame
<1>3. \A pc \in {"using", "asking_TERMINATE", "asking_REMOVE", "waiting_REMOVE"} :
        [pc |-> pc, life |-> svc[e].life] \in Caller
  BY <1>1 DEF Service, Caller
<1>4. svc[e].refs + 1 \in Nat /\ svc[e].closing \in BOOLEAN
  BY <1>1 DEF Service
<1>5. CASE CloseCall(t) \/ RemoveCall(t)
  <2>1. /\ caller[t].pc # "adding" /\ lifeMsgs' = lifeMsgs
        /\ \E pc \in {"asking_TERMINATE", "asking_REMOVE"} :
             caller' = [caller EXCEPT ![t] = [pc |-> pc, life |-> svc[e].life]]
        /\ svc' = [svc EXCEPT ![e].refs = @ + 1, ![e].closing = TRUE]
    BY <1>5 DEF CloseCall, RemoveCall, Doing
  <2>2. Adders' = Adders
    BY <1>3, <2>1, AddersKept
  <2>3. svc' = [svc EXCEPT ![e] = [svc[e] EXCEPT !.refs = svc[e].refs + 1,
                                                 !.closing = TRUE]]
    BY <1>1, <2>1
  <2>. QED BY <1>2, <1>4, <2>1, <2>2, <2>3
<1>6. CASE UseCall(t)
  <2>1. /\ caller[t].pc # "adding" /\ lifeMsgs' = lifeMsgs
        /\ caller' = [caller EXCEPT ![t] = [pc |-> "using", life |-> svc[e].life]]
        /\ svc' = [svc EXCEPT ![e].refs = @ + 1]
    BY <1>6 DEF UseCall, Doing
  <2>2. Adders' = Adders
    BY <1>3, <2>1, AddersKept
  <2>3. svc' = [svc EXCEPT ![e] = [svc[e] EXCEPT !.refs = svc[e].refs + 1,
                                                 !.closing = svc[e].closing]]
    BY <1>1, <2>1 DEF Service
  <2>. QED BY <1>2, <1>4, <2>1, <2>2, <2>3
<1>7. CASE AddCall(t)
  <2>1. /\ e = "server" /\ svc[e] = NoService /\ lifeMsgs' = lifeMsgs /\ caller' = caller
        /\ \E state \in {"HIDDEN", "LISTENING"}, auto \in BOOLEAN :
             Added("server", state, auto)
    BY <1>7 DEF AddCall, Added
  <2>2. PICK state \in {"HIDDEN", "LISTENING"}, auto \in BOOLEAN :
          Added("server", state, auto)
    BY <2>1
  <2>. DEFINE w == [NoService EXCEPT !.st = state, !.refs = 1, !.listens = TRUE,
                      !.auto = auto, !.life = lifeLog.lives["server"] + 1]
  <2>3. svc' = [svc EXCEPT ![e] = w] /\ w.st = state
    BY <2>1, <2>2 DEF Added, NoService
  <2>. HIDE DEF w
  <2>4. PortOf(w) /\ Class(w) = Class(svc[e])
    BY <2>1, <2>3 DEF PortOf, Class, NoService
  <2>5. Adders' = Adders
    BY <2>1 DEF Adders, Doing
  <2>. QED BY <1>1, <2>1, <2>3, <2>4, <2>5, AgreeFrame
<1>8. CASE RemoveHidden(t)
  <2>. DEFINE v == [svc[e] EXCEPT !.refs = @ + 1, !.closing = TRUE, !.listens = FALSE]
  <2>1. /\ caller[t].pc # "adding" /\ lifeMsgs' = lifeMsgs /\ svc[e].st = "HIDDEN"
        /\ caller' = [caller EXCEPT ![t] = [pc |-> "waiting_REMOVE", life |-> svc[e].life]]
        /\ svc' = [svc EXCEPT ![e] = FreeService(v)]
    BY <1>8 DEF RemoveHidden, Doing
  <2>2. Adders' = Adders
    BY <1>3, <2>1, AddersKept
  <2>3. v \in Service
    BY <1>1, <1>4 DEF Service
  <2>. HIDE DEF v
  <2>4. Class(FreeService(v)) = Class(svc[e]) /\ PortOf(FreeService(v))
    BY <2>1, <2>3, FreeIsOff DEF Class
  <2>. QED BY <1>1, <2>1, <2>2, <2>4, AgreeFrame
<1>. QED BY <1>5, <1>6, <1>7, <1>8

LEMMA ReturningAgrees ==
  ASSUME FullInv, AgreeInv, PortInv, NEW t \in LifeThreads,
         \/ OpenWoken(t) \/ OpenGone(t) \/ CloseAsks(t) \/ RemoveAsks(t)
         \/ CloseWoken(t) \/ RemoveWoken(t) \/ UseReturn(t) \/ RemoveNothing(t)
  PROVE  AgreeInv' /\ PortInv'
<1>. DEFINE e == EndOf(t)
<1>1. /\ e \in Ends /\ svc[e] \in Service /\ svc \in [Ends -> Service]
      /\ caller[t] \in Caller /\ caller \in [LifeThreads -> Caller]
      /\ Spare(svc[e]) \in Nat /\ PortOf(svc[e])
  BY ThreadsApart, SpareNat DEF FullInv, IInv, PortInv
<1>2. ASSUME NEW w \in Service, w.st = svc[e].st, w.remote = svc[e].remote,
             svc' = [svc EXCEPT ![e] = w], lifeMsgs' = lifeMsgs, Adders' = Adders
      PROVE  AgreeInv' /\ PortInv'
  <2>1. PortOf(w) /\ Class(w) = Class(svc[e])
    BY <1>1, <1>2 DEF PortOf, Class
  <2>. QED BY <1>1, <1>2, <2>1, AgreeFrame
<1>3. ASSUME NEW w \in Service, w.st = svc[e].st, w.remote = svc[e].remote,
             w.refs = svc[e].refs, Share(caller[t]) = 1,
             svc' = [svc EXCEPT ![e] = Unlock(w)], lifeMsgs' = lifeMsgs,
             Adders' = Adders
      PROVE  AgreeInv' /\ PortInv'
  <2>1. Spare(svc[e]) >= 1
    BY <1>3, HolderOwns DEF FullInv
  <2>2. PortOf(w) /\ Class(w) = Class(svc[e]) /\ Spare(w) = Spare(svc[e])
    BY <1>1, <1>3 DEF PortOf, Class, Spare, Alive
  <2>3. Class(Unlock(w)) = Class(svc[e]) /\ PortOf(Unlock(w))
    BY <2>1, <2>2, ClassUnlocked
  <2>. QED BY <1>1, <1>3, <2>3, AgreeFrame
<1>4. ASSUME NEW pc \in {"idle", "failed", "waiting_TERMINATE", "waiting_REMOVE"},
             Becomes(t, pc), caller[t].pc # "adding"
      PROVE  Adders' = Adders
  <2>1. caller' = [caller EXCEPT ![t] = [caller[t] EXCEPT !.pc = pc]]
    BY <1>1, <1>4 DEF Becomes
  <2>2. [caller[t] EXCEPT !.pc = pc] \in Caller /\ [caller[t] EXCEPT !.pc = pc].pc = pc
    BY <1>1 DEF Caller
  <2>. QED BY <1>4, <2>1, <2>2, AddersKept
<1>5. ASSUME Returns(t), caller[t].pc # "adding" PROVE Adders' = Adders
  <2>1. Idle \in Caller /\ Idle.pc # "adding"
    BY DEF Idle, Caller
  <2>. QED BY <1>5, <2>1, AddersKept DEF Returns
<1>6. svc' = svc => svc' = [svc EXCEPT ![e] = svc[e]]
  BY <1>1
<1>7. CASE OpenGone(t) \/ RemoveNothing(t)
  <2>1. /\ svc' = svc /\ lifeMsgs' = lifeMsgs /\ Returns(t) /\ caller[t].pc # "adding"
    BY <1>7 DEF OpenGone, RemoveNothing, Doing
  <2>. QED BY <1>1, <1>2, <1>5, <1>6, <2>1
<1>8. CASE OpenWoken(t)
  <2>1. e = "client"
    BY <1>8 DEF OpenWoken, Doing, FullInv, LifeTypes
  <2>. DEFINE w == [svc[e] EXCEPT !.ups = @ - 1]
  <2>2. /\ svc' = [svc EXCEPT ![e] = w] /\ svc[e].ups > 0 /\ lifeMsgs' = lifeMsgs
        /\ \E pc \in {"idle", "failed"} : Becomes(t, pc)
        /\ caller[t].pc # "adding"
    BY <1>1, <1>8, <2>1 DEF OpenWoken, Doing
  <2>3. /\ w \in Service /\ w.st = svc[e].st /\ w.remote = svc[e].remote
    BY <1>1, <2>2, ServiceLifeAssumption DEF Service
  <2>. HIDE DEF w
  <2>4. Adders' = Adders
    BY <1>4, <2>2
  <2>. QED BY <1>2, <2>2, <2>3, <2>4
<1>9. ASSUME NEW kind \in {"TERMINATE", "REMOVE"}, Asks(t, kind)
      PROVE  AgreeInv' /\ PortInv'
  <2>. DEFINE w == [svc[e] EXCEPT !.poll = @ \cup {kind}]
  <2>1. /\ svc' = [svc EXCEPT ![e] = w] /\ lifeMsgs' = lifeMsgs
        /\ Becomes(t, Waiting(kind)) /\ caller[t].pc # "adding"
        /\ Waiting(kind) \in {"waiting_TERMINATE", "waiting_REMOVE"}
    BY <1>1, <1>9 DEF Asks, Doing, Asking, Waiting
  <2>2. w \in Service /\ w.st = svc[e].st /\ w.remote = svc[e].remote
    BY <1>1 DEF Service
  <2>. HIDE DEF w
  <2>3. Adders' = Adders
    BY <1>4, <2>1
  <2>. QED BY <1>2, <2>1, <2>2, <2>3
<1>10. ASSUME NEW kind \in {"TERMINATE", "REMOVE"}, Woken(t, kind)
       PROVE  AgreeInv' /\ PortInv'
  <2>. DEFINE v == [svc[e] EXCEPT !.ups = @ - 1]
  <2>1. /\ caller[t].pc = Waiting(kind) /\ svc[e].ups > 0 /\ lifeMsgs' = lifeMsgs
        /\ \/ svc' = [svc EXCEPT ![e] = Unlock(v)] /\ Returns(t)
           \/ svc' = [svc EXCEPT ![e] = v] /\ caller' = caller
    BY <1>10 DEF Woken, Doing
  <2>2. /\ v \in Service /\ v.refs = svc[e].refs /\ v.st = svc[e].st
        /\ v.remote = svc[e].remote
    BY <1>1, <2>1, ServiceLifeAssumption DEF Service
  <2>3. Share(caller[t]) = 1 /\ caller[t].pc # "adding"
    BY <2>1 DEF Waiting, Share, HoldingPlaces
  <2>. HIDE DEF v
  <2>4. Adders' = Adders
    <3>1. caller' = caller => Adders' = Adders
      BY DEF Adders, Doing
    <3>. QED BY <1>5, <2>1, <2>3, <3>1
  <2>. QED BY <1>2, <1>3, <2>1, <2>2, <2>3, <2>4
<1>11. CASE UseReturn(t)
  <2>1. /\ Share(caller[t]) = 1 /\ svc' = [svc EXCEPT ![e] = Unlock(svc[e])] /\ Returns(t)
        /\ caller[t].pc # "adding" /\ lifeMsgs' = lifeMsgs
    BY <1>1, <1>11 DEF UseReturn, Doing, Share, HoldingPlaces
  <2>. QED BY <1>1, <1>3, <1>5, <2>1
<1>. QED BY <1>7, <1>8, <1>9, <1>10, <1>11 DEF CloseAsks, RemoveAsks, CloseWoken, RemoveWoken

(* The opener.                                                               *)
LEMMA OpenerAgrees ==
  ASSUME FullInv, AgreeInv, PortInv, NEW t \in LifeThreads,
         OpenCall(t) \/ OpenSends(t)
  PROVE  AgreeInv' /\ PortInv'
<1>1. /\ svc \in [Ends -> Service] /\ caller \in [LifeThreads -> Caller]
      /\ "client" \in Ends /\ "server" \in Ends /\ lifeMsgs \in [Ends -> Seq(Message)]
  BY DEF FullInv, IInv, MsgsInv, Ends
<1>2. CASE OpenCall(t)
  <2>1. /\ svc["client"] = NoService /\ caller[t].pc = "idle" /\ lifeMsgs' = lifeMsgs
        /\ caller' = [caller EXCEPT ![t] =
                        [pc |-> "adding", life |-> lifeLog.lives["client"] + 1]]
        /\ Added("client", "OPENING", TRUE)
    BY <1>2 DEF OpenCall, Added, Doing
  <2>. DEFINE w == [NoService EXCEPT !.st = "OPENING", !.refs = 1, !.listens = FALSE,
                      !.auto = TRUE, !.life = lifeLog.lives["client"] + 1]
  <2>2. svc' = [svc EXCEPT !["client"] = w] /\ w.st = "OPENING" /\ ~w.remote
    BY <2>1 DEF Added, NoService
  <2>. HIDE DEF w
  <2>3. svc'["client"] = w /\ svc'["server"] = svc["server"]
    BY <1>1, <2>2
  <2>4. Class(svc["client"]) = "off" /\ Class(w) = "OPENING" /\ PortOf(w)
    BY <2>1, <2>2 DEF Class, NoService, PortOf
  <2>5. Adders = {} /\ Agreed("OPENING", Class(svc["server"]), {t}, lifeMsgs["server"],
                              lifeMsgs["client"])
    BY <2>4, Opening DEF AgreeInv
  <2>6. Adders' = {t}
    BY <1>1, <2>1, <2>5 DEF Adders, Doing
  <2>7. AgreeInv'
    BY <2>1, <2>3, <2>4, <2>5, <2>6 DEF AgreeInv
  <2>8. PortInv'
    BY <2>3, <2>4 DEF PortInv, Ends
  <2>. QED BY <2>7, <2>8
<1>3. CASE OpenSends(t)
  <2>. DEFINE m == Msg("OPEN", TRUE, FALSE)
  <2>1. /\ caller[t].pc = "adding" /\ svc' = svc
        /\ lifeMsgs' = [lifeMsgs EXCEPT !["server"] = Append(@, m)]
        /\ caller' = [caller EXCEPT ![t].pc = "opening"]
    BY <1>3 DEF OpenSends, Becomes, Doing
  <2>2. m \in Message /\ m.type = "OPEN"
    BY DEF Msg, Message
  <2>. HIDE DEF m
  <2>3. t \in Adders
    BY <2>1 DEF Adders, Doing
  <2>4. /\ Adders = {t}
        /\ Agreed(Class(svc["client"]), Class(svc["server"]), {},
                  Append(lifeMsgs["server"], m), lifeMsgs["client"])
    BY <1>1, <2>2, <2>3, OpeningAsked DEF AgreeInv
  <2>5. Adders' = {}
    <3>1. caller'[t].pc = "opening" /\ \A u \in LifeThreads : u # t => caller'[u] = caller[u]
      BY <1>1, <2>1 DEF Caller
    <3>. QED BY <2>4, <3>1 DEF Adders, Doing
  <2>6. /\ lifeMsgs'["server"] = Append(lifeMsgs["server"], m)
        /\ lifeMsgs'["client"] = lifeMsgs["client"]
    BY <1>1, <2>1
  <2>7. AgreeInv'
    BY <2>1, <2>4, <2>5, <2>6 DEF AgreeInv
  <2>. QED BY <2>1, <2>7 DEF PortInv
<1>. QED BY <1>2, <1>3

(* The slot handlers.                                                        *)
LEMMA PollAgrees ==
  ASSUME FullInv, AgreeInv, PortInv, NEW s \in Ends, PollService(s)
  PROVE  lifeLog'.missed \/ (AgreeInv' /\ PortInv')
<1>1. /\ svc \in [Ends -> Service] /\ svc[s] \in Service /\ PortOf(svc[s])
      /\ "client" \in Ends /\ "server" \in Ends /\ lifeMsgs \in [Ends -> Seq(Message)]
      /\ s \in {"client", "server"}
  BY DEF FullInv, IInv, MsgsInv, PortInv, Ends
<1>2. Adders' = Adders
  BY DEF PollService, Adders, Doing
<1>3. PICK b \in BOOLEAN, P \in SUBSET {"TERMINATE", "REMOVE"} : Polls(s, b, P)
  BY ONLY <1>1, s \in Ends, PollService(s), PollPicks
<1>. DEFINE u == PollOf(svc[s], b, P)
            m == Msg("CLOSE", TRUE, svc[s].remote)
<1>4. u \in Service /\ u.st = svc[s].st /\ u.remote = svc[s].remote
  BY <1>1 DEF Service, PollOf
<1>5. m \in Message /\ m.type = "CLOSE" /\ m.src /\ m.dst = svc[s].remote
  BY <1>1 DEF Msg, Message, Service
<1>6. svc[s].st \in {"OPEN", "OPENING"} =>
        SendClose(s, lifeMsgs) = [lifeMsgs EXCEPT ![FarEnd(s)] = Append(@, m)]
  BY DEF SendClose
<1>. HIDE DEF u, m
<1>7. PortOf(u) /\ Class(u) = Class(svc[s])
  BY <1>1, <1>4 DEF PortOf, Class
<1>. DEFINE w == Closed(u, FALSE)
<1>8. /\ PortOf(w)
      /\ Class(svc[s]) \in {"CLOSESENT", "off"} => Class(w) = Class(svc[s])
      /\ Class(svc[s]) \in {"OPENING", "OPEN"} => Class(w) = "CLOSESENT"
  <2>1. FALSE \in BOOLEAN
    OBVIOUS
  <2>. QED BY <1>4, <1>7, <2>1, ClassClosed
<1>. HIDE DEF w
<1>9. ASSUME svc' = [svc EXCEPT ![s] = w]
      PROVE  PortInv' /\ svc'[s] = w /\ \A r \in Ends : r # s => svc'[r] = svc[r]
  <2>1. svc'[s] = w /\ \A r \in Ends : r # s => svc'[r] = svc[r]
    BY <1>1, <1>9
  <2>2. \A r \in Ends : PortOf(svc'[r])
    BY <1>8, <2>1 DEF PortInv
  <2>3. Class(w) # "OPENING"
    BY <1>8 DEF Class
  <2>4. svc'["server"].st # "OPENING"
    BY <1>1, <2>1, <2>3 DEF Class, PortInv
  <2>. QED BY <2>1, <2>2, <2>4 DEF PortInv
<1>10. CASE svc' = [svc EXCEPT ![s] = u] /\ lifeMsgs' = lifeMsgs
  BY <1>2, <1>7, <1>10, AgreeFrame
<1>12. CASE /\ svc[s].st \notin {"OPEN", "OPENING"}
            /\ svc' = [svc EXCEPT ![s] = w] /\ lifeMsgs' = lifeMsgs
  <2>1. Class(w) = Class(svc[s])
    BY <1>8, <1>12 DEF Class
  <2>. QED BY <1>2, <1>8, <1>12, <2>1, AgreeFrame
<1>11. ASSUME svc[s].st \in {"OPEN", "OPENING"}, svc' = [svc EXCEPT ![s] = w],
              lifeMsgs' = SendClose(s, lifeMsgs),
              lifeLog' = [lifeLog EXCEPT !.missed = @ \/ Overtakes(s)]
       PROVE  lifeLog'.missed \/ (AgreeInv' /\ PortInv')
  <2>1. CASE Overtakes(s)
    BY <1>11, <2>1 DEF FullInv, LifeTypes, LifeLog
  <2>2. CASE s = "client" /\ ~Overtakes(s)
    <3>1. /\ lifeMsgs'["server"] = Append(lifeMsgs["server"], m)
          /\ lifeMsgs'["client"] = lifeMsgs["client"]
      BY <1>1, <1>6, <1>11, <2>2 DEF FarEnd
    <3>2. Class(svc[s]) \in {"OPENING", "OPEN"} /\ Class(w) = "CLOSESENT"
      BY <1>8, <1>11 DEF Class
    <3>3. Adders = {}
      BY <2>2 DEF Overtakes, Adders, Doing
    <3>4. lifeMsgs["server"] \in Seq(Message)
          /\ Agreed(Class(svc[s]), Class(svc["server"]), Adders, lifeMsgs["server"],
                    lifeMsgs["client"])
      BY <1>1, <2>2 DEF AgreeInv
    <3>5. Agreed("CLOSESENT", Class(svc["server"]), Adders,
                 Append(lifeMsgs["server"], m), lifeMsgs["client"])
      BY <1>5, <3>2, <3>3, <3>4, AskedClient
    <3>6. svc'["client"] = w /\ svc'["server"] = svc["server"] /\ PortInv'
      BY <1>1, <1>9, <1>11, <2>2
    <3>7. AgreeInv'
      BY <1>2, <3>1, <3>2, <3>5, <3>6 DEF AgreeInv
    <3>. QED BY <3>6, <3>7
  <2>3. CASE s = "server"
    <3>1. /\ lifeMsgs'["client"] = Append(lifeMsgs["client"], m)
          /\ lifeMsgs'["server"] = lifeMsgs["server"]
      BY <1>1, <1>6, <1>11, <2>3 DEF FarEnd
    <3>2. Class(svc[s]) = "OPEN" /\ Class(w) = "CLOSESENT" /\ m.dst
      BY <1>1, <1>5, <1>8, <1>11, <2>3 DEF Class, PortOf, PortInv
    <3>3. lifeMsgs["server"] \in Seq(Message) /\ lifeMsgs["client"] \in Seq(Message)
      BY <1>1
    <3>4. Agreed(Class(svc["client"]), Class(w), Adders, lifeMsgs["server"],
                 Append(lifeMsgs["client"], m))
      BY <1>5, <2>3, <3>2, <3>3, AskedServer DEF AgreeInv
    <3>5. svc'["server"] = w /\ svc'["client"] = svc["client"] /\ PortInv'
      BY <1>1, <1>9, <1>11, <2>3
    <3>6. AgreeInv'
      BY <1>2, <3>1, <3>4, <3>5 DEF AgreeInv
    <3>. QED BY <3>5, <3>6
  <2>. QED BY <1>1, <2>1, <2>2, <2>3
<1>13. /\ u = PollOf(svc[s], b, P) /\ w = Closed(u, FALSE)
  BY DEF u, w
<1>. QED BY <1>3, <1>10, <1>11, <1>12, <1>13 DEF Polls

LEMMA OpenAnsweredAgrees ==
  ASSUME FullInv, AgreeInv, PortInv, ParseOpen \/ ParseOpenRejects
  PROVE  AgreeInv' /\ PortInv'
<1>. DEFINE S == lifeMsgs["server"]
            C == lifeMsgs["client"]
<1>1. /\ svc \in [Ends -> Service] /\ svc["server"] \in Service
      /\ "client" \in Ends /\ "server" \in Ends /\ lifeMsgs \in [Ends -> Seq(Message)]
      /\ S \in Seq(Message) /\ C \in Seq(Message)
  BY DEF FullInv, IInv, MsgsInv, Ends
<1>2. Adders' = Adders
  BY DEF ParseOpen, ParseOpenRejects, Adders, Doing
<1>3. S # <<>> /\ S[1].type = "OPEN"
  <2>1. S # <<>> /\ Head(S).type = "OPEN"
    BY DEF ParseOpen, ParseOpenRejects, Arrives
  <2>. QED BY <1>1, <2>1, QueueShifts
<1>4. ASSUME NEW m \in Message, Reply("server", m)
      PROVE  lifeMsgs'["server"] = Tail(S) /\ lifeMsgs'["client"] = Append(C, m)
  BY <1>1, <1>4 DEF Reply, Taken, FarEnd
<1>5. Agreed(Class(svc["client"]), Class(svc["server"]), Adders, S, C)
  BY DEF AgreeInv
<1>. HIDE DEF S, C
<1>6. CASE ParseOpen
  <2>. DEFINE m == Msg("OPENACK", TRUE, TRUE)
              w == [svc["server"] EXCEPT !.st = "OPEN", !.remote = TRUE]
  <2>1. m \in Message /\ m.type = "OPENACK" /\ m.dst
    BY DEF Msg, Message
  <2>2. w.st = "OPEN" /\ w.remote
    BY <1>1 DEF Service
  <2>3. Reply("server", m) /\ svc' = [svc EXCEPT !["server"] = w]
    BY <1>1, <1>6 DEF ParseOpen
  <2>. HIDE DEF m, w
  <2>4. svc'["server"] = w /\ svc'["client"] = svc["client"]
    BY <1>1, <2>3
  <2>5. Class(w) = "OPEN" /\ PortOf(w)
    BY <2>2 DEF Class, PortOf
  <2>6. Agreed(Class(svc["client"]), "OPEN", Adders, Tail(S), Append(C, m))
    BY <1>1, <1>3, <1>5, <2>1, AnswersOpen
  <2>7. lifeMsgs'["server"] = Tail(S) /\ lifeMsgs'["client"] = Append(C, m)
    BY <1>4, <2>1, <2>3
  <2>8. AgreeInv'
    BY <1>2, <2>4, <2>5, <2>6, <2>7 DEF AgreeInv
  <2>9. PortInv'
    BY <2>2, <2>4, <2>5 DEF PortInv, Ends
  <2>. QED BY <2>8, <2>9
<1>7. CASE ParseOpenRejects
  <2>. DEFINE m == Msg("CLOSE", FALSE, TRUE)
  <2>1. m \in Message /\ m.type = "CLOSE" /\ m.dst
    BY DEF Msg, Message
  <2>2. Reply("server", m) /\ svc' = svc
    BY <1>7 DEF ParseOpenRejects
  <2>. HIDE DEF m
  <2>3. Agreed(Class(svc["client"]), Class(svc["server"]), Adders, Tail(S), Append(C, m))
    BY <1>1, <1>3, <1>5, <2>1, AnswersOpen
  <2>4. lifeMsgs'["server"] = Tail(S) /\ lifeMsgs'["client"] = Append(C, m)
    BY <1>4, <2>1, <2>2
  <2>5. AgreeInv'
    BY <1>2, <2>2, <2>3, <2>4 DEF AgreeInv
  <2>. QED BY <2>2, <2>5 DEF PortInv
<1>. QED BY <1>6, <1>7

LEMMA AckAgrees ==
  ASSUME FullInv, AgreeInv, PortInv, ParseOpenAck
  PROVE  AgreeInv' /\ PortInv'
<1>. DEFINE S == lifeMsgs["server"]
            C == lifeMsgs["client"]
<1>1. /\ svc \in [Ends -> Service] /\ svc["client"] \in Service
      /\ "client" \in Ends /\ "server" \in Ends /\ lifeMsgs \in [Ends -> Seq(Message)]
      /\ S \in Seq(Message) /\ C \in Seq(Message)
  BY DEF FullInv, IInv, MsgsInv, Ends
<1>2. Adders' = Adders
  BY DEF ParseOpenAck, Adders, Doing
<1>3. C # <<>> /\ C[1].type = "OPENACK"
  <2>1. C # <<>> /\ Head(C).type = "OPENACK"
    BY DEF ParseOpenAck, Arrives
  <2>. QED BY <1>1, <2>1, QueueShifts
<1>4. lifeMsgs'["client"] = Tail(C) /\ lifeMsgs'["server"] = S
  BY <1>1 DEF ParseOpenAck, Taken
<1>5. Agreed(Class(svc["client"]), Class(svc["server"]), Adders, S, C)
  BY DEF AgreeInv
<1>. HIDE DEF S, C
<1>0. \/ /\ Class(svc["client"]) = "OPENING"
         /\ Agreed("OPEN", Class(svc["server"]), Adders, S, Tail(C))
      \/ /\ Class(svc["client"]) = "CLOSESENT"
         /\ Agreed(Class(svc["client"]), Class(svc["server"]), Adders, S, Tail(C))
  BY <1>1, <1>3, <1>5, ReadsAck
<1>6. CASE Class(svc["client"]) = "CLOSESENT"
  <2>1. svc' = svc
    BY <1>6 DEF Class, ParseOpenAck
  <2>2. AgreeInv'
    BY <1>0, <1>2, <1>4, <1>6, <2>1 DEF AgreeInv
  <2>. QED BY <2>1, <2>2 DEF PortInv
<1>. SUFFICES ASSUME Class(svc["client"]) = "OPENING" PROVE AgreeInv' /\ PortInv'
  BY <1>0, <1>6
<1>7. svc["client"].st = "OPENING"
      /\ Agreed("OPEN", Class(svc["server"]), Adders, S, Tail(C))
  BY <1>0 DEF Class
<1>. DEFINE w == [svc["client"] EXCEPT !.st = "OPEN", !.remote = TRUE]
<1>8. w \in Service /\ w.st = "OPEN" /\ w.remote
  BY <1>1 DEF Service
<1>9. svc' = [svc EXCEPT !["client"] = Up(w)]
  BY <1>1, <1>7 DEF ParseOpenAck
<1>. HIDE DEF w
<1>10. Up(w).st = "OPEN" /\ Up(w).remote
  BY <1>8, UpKeeps DEF Up, Service
<1>11. svc'["client"] = Up(w) /\ svc'["server"] = svc["server"]
  BY <1>1, <1>9
<1>12. Class(Up(w)) = "OPEN" /\ PortOf(Up(w))
  BY <1>10 DEF Class, PortOf
<1>13. AgreeInv'
  BY <1>2, <1>4, <1>7, <1>11, <1>12 DEF AgreeInv
<1>14. PortInv'
  BY <1>11, <1>12 DEF PortInv, Ends
<1>. QED BY <1>13, <1>14

(* What both sides do with a CLOSE, to be told apart below.                  *)
CloseTaken(s, w) ==
  /\ svc'[s] = w /\ \A r \in Ends : r # s => svc'[r] = svc[r]
  /\ lifeMsgs'[s] = Tail(lifeMsgs[s]) /\ Class(w) = "off" /\ PortOf(w)
  /\ IF Class(svc[s]) = "OPEN"
     THEN \E m \in Message :
            /\ m.type = "CLOSE" /\ m.src /\ m.dst
            /\ \A r \in Ends : r # s => lifeMsgs'[r] = Append(lifeMsgs[r], m)
     ELSE \A r \in Ends : r # s => lifeMsgs'[r] = lifeMsgs[r]

LEMMA CloseEffects ==
  ASSUME FullInv, AgreeInv, PortInv, NEW s \in Ends, ParseClose(s)
  PROVE  (AgreeInv' /\ PortInv') \/ \E w \in Service : CloseTaken(s, w)
<1>1. /\ svc \in [Ends -> Service] /\ svc[s] \in Service /\ PortOf(svc[s])
      /\ lifeMsgs \in [Ends -> Seq(Message)]
      /\ FarEnd(s) \in Ends /\ \A r \in Ends : r # s <=> r = FarEnd(s)
  BY DEF FullInv, IInv, MsgsInv, PortInv, Ends, FarEnd
<1>. DEFINE v == [svc[s] EXCEPT !.closing = TRUE]
            w == Closed(v, TRUE)
            m == Msg("CLOSE", TRUE, svc[s].remote)
<1>2. /\ v \in Service /\ v.st = svc[s].st /\ v.remote = svc[s].remote
      /\ v.refs = svc[s].refs
  BY <1>1 DEF Service
<1>3. \/ /\ svc' = [svc EXCEPT ![s] = v] /\ lifeMsgs' = lifeMsgs
      \/ /\ ~SendsClose(v, TRUE)
         /\ svc' = [svc EXCEPT ![s] = w] /\ lifeMsgs' = Taken(s)
      \/ /\ SendsClose(v, TRUE) /\ svc' = [svc EXCEPT ![s] = w]
         /\ lifeMsgs' = [Taken(s) EXCEPT ![FarEnd(s)] = Append(@, m)]
  BY DEF ParseClose, SendClose
<1>4. caller' = caller /\ Finds(s, Head(lifeMsgs[s]))
  BY DEF ParseClose
<1>5. m \in Message /\ m.type = "CLOSE" /\ m.src /\ m.dst = svc[s].remote
  BY <1>1 DEF Msg, Message, Service
<1>6. SendsClose(v, TRUE) <=> Class(svc[s]) = "OPEN"
  BY <1>2 DEF SendsClose, Class
<1>7. Alive(v) /\ Spare(v) \in Nat
  <2>1. Alive(v)
    BY <1>2, <1>4 DEF Finds, ConnectedTo, Live, Alive
  <2>2. Spare(v) = Spare(svc[s])
    BY <1>2 DEF Spare, Alive
  <2>. QED BY <2>1, <2>2, SpareNat DEF FullInv
<1>. HIDE DEF v, m
<1>8. PortOf(v) /\ Class(v) = Class(svc[s])
  BY <1>1, <1>2 DEF PortOf, Class
<1>9. Class(w) = "off" /\ PortOf(w) /\ w \in Service
  <2>1. TRUE \in BOOLEAN
    OBVIOUS
  <2>2. Class(w) = "off" /\ PortOf(w)
    BY <1>2, <1>8, <2>1, ClassClosed
  <2>3. Spare(v) >= 0
    BY <1>7
  <2>4. Kin(w, v)
    BY <1>2, <1>7, <2>1, <2>3, ClosedKeeps
  <2>. QED BY <2>2, <2>4 DEF Kin
<1>. HIDE DEF w
<1>10. CASE svc' = [svc EXCEPT ![s] = v] /\ lifeMsgs' = lifeMsgs
  <2>1. Adders' = Adders
    BY <1>4 DEF Adders, Doing
  <2>. QED BY <1>8, <1>10, <2>1, AgreeFrame
<1>11. CASE /\ ~SendsClose(v, TRUE)
            /\ svc' = [svc EXCEPT ![s] = w] /\ lifeMsgs' = Taken(s)
  <2>1. /\ lifeMsgs'[s] = Tail(lifeMsgs[s])
        /\ \A r \in Ends : r # s => lifeMsgs'[r] = lifeMsgs[r]
        /\ svc'[s] = w /\ \A r \in Ends : r # s => svc'[r] = svc[r]
    BY <1>1, <1>11 DEF Taken
  <2>. QED BY <1>6, <1>9, <1>11, <2>1 DEF CloseTaken
<1>12. CASE /\ SendsClose(v, TRUE) /\ svc' = [svc EXCEPT ![s] = w]
            /\ lifeMsgs' = [Taken(s) EXCEPT ![FarEnd(s)] = Append(@, m)]
  <2>1. /\ lifeMsgs'[s] = Tail(lifeMsgs[s])
        /\ \A r \in Ends : r # s => lifeMsgs'[r] = Append(lifeMsgs[r], m)
        /\ svc'[s] = w /\ \A r \in Ends : r # s => svc'[r] = svc[r]
    BY <1>1, <1>12 DEF Taken
  <2>2. m.dst
    BY <1>1, <1>5, <1>6, <1>12 DEF Class, PortOf
  <2>. QED BY <1>5, <1>6, <1>9, <1>12, <2>1, <2>2 DEF CloseTaken
<1>. QED BY <1>3, <1>10, <1>11, <1>12

LEMMA ParseCloseAgrees ==
  ASSUME FullInv, AgreeInv, PortInv, NEW s \in Ends, ParseClose(s)
  PROVE  AgreeInv' /\ PortInv'
<1>. DEFINE S == lifeMsgs["server"]
            C == lifeMsgs["client"]
            c == Class(svc["client"])
            r == Class(svc["server"])
<1>1. /\ "client" \in Ends /\ "server" \in Ends /\ s \in {"client", "server"}
      /\ S \in Seq(Message) /\ C \in Seq(Message)
      /\ Agreed(c, r, Adders, S, C)
  BY DEF FullInv, MsgsInv, Ends, AgreeInv
<1>2. Adders' = Adders
  BY DEF ParseClose, Adders, Doing
<1>3. /\ s = "client" => C # <<>> /\ C[1].type = "CLOSE"
      /\ s = "server" => S # <<>> /\ S[1].type = "CLOSE"
  <2>1. lifeMsgs[s] # <<>> /\ Head(lifeMsgs[s]).type = "CLOSE"
    BY DEF ParseClose, Arrives
  <2>2. C # <<>> => Head(C) = C[1]
    BY <1>1, QueueShifts
  <2>3. S # <<>> => Head(S) = S[1]
    BY <1>1, QueueShifts
  <2>. QED BY <2>1, <2>2, <2>3
<1>4. ASSUME NEW w \in Service, CloseTaken(s, w) PROVE AgreeInv' /\ PortInv'
  <2>1. PortInv'
    BY <1>1, <1>4 DEF CloseTaken, PortInv, Class
  <2>2. CASE s = "client"
    <3>1. /\ svc'["client"] = w /\ svc'["server"] = svc["server"] /\ Class(w) = "off"
          /\ lifeMsgs'["client"] = Tail(C)
          /\ IF c = "OPEN"
             THEN \E m \in Message : /\ m.type = "CLOSE" /\ m.src
                                     /\ lifeMsgs'["server"] = Append(S, m)
             ELSE lifeMsgs'["server"] = S
      BY <1>1, <1>4, <2>2 DEF CloseTaken
    <3>. HIDE DEF S, C, c, r
    <3>2. Agreed("off", r, Adders, lifeMsgs'["server"], lifeMsgs'["client"])
      <4>1. /\ c # "OPEN" => Agreed("off", r, Adders, S, Tail(C))
            /\ \A m \in Message : c = "OPEN" /\ m.type = "CLOSE" /\ m.src
                 => Agreed("off", r, Adders, Append(S, m), Tail(C))
        BY <1>1, <1>3, <2>2, ReadsClose
      <4>2. CASE c # "OPEN"
        BY <3>1, <4>1, <4>2
      <4>3. CASE c = "OPEN"
        <5>1. PICK m \in Message : /\ m.type = "CLOSE" /\ m.src
                                   /\ lifeMsgs'["server"] = Append(S, m)
          BY <3>1, <4>3
        <5>. QED BY <3>1, <4>1, <4>3, <5>1
      <4>. QED BY <4>2, <4>3
    <3>3. AgreeInv'
      BY <1>2, <3>1, <3>2 DEF AgreeInv, r
    <3>. QED BY <2>1, <3>3
  <2>3. CASE s = "server"
    <3>1. /\ svc'["server"] = w /\ svc'["client"] = svc["client"] /\ Class(w) = "off"
          /\ lifeMsgs'["server"] = Tail(S)
          /\ IF r = "OPEN"
             THEN \E m \in Message : /\ m.type = "CLOSE" /\ m.dst
                                     /\ lifeMsgs'["client"] = Append(C, m)
             ELSE lifeMsgs'["client"] = C
      BY <1>1, <1>4, <2>3 DEF CloseTaken
    <3>. HIDE DEF S, C, c, r
    <3>2. Agreed(c, "off", Adders, lifeMsgs'["server"], lifeMsgs'["client"])
      BY <1>1, <1>3, <2>3, <3>1, ServerReadsClose
    <3>3. AgreeInv'
      BY <1>2, <3>1, <3>2 DEF AgreeInv, c
    <3>. QED BY <2>1, <3>3
  <2>. QED BY <1>1, <2>2, <2>3
<1>. QED BY <1>4, CloseEffects

LEMMA SkipCloseAgrees ==
  ASSUME FullInv, AgreeInv, PortInv, NEW s \in Ends, SkipClose(s)
  PROVE  lifeLog'.missed \/ (AgreeInv' /\ PortInv')
<1>. DEFINE S == lifeMsgs["server"]
            C == lifeMsgs["client"]
            c == Class(svc["client"])
            r == Class(svc["server"])
<1>1. /\ "client" \in Ends /\ "server" \in Ends /\ s \in {"client", "server"}
      /\ S \in Seq(Message) /\ C \in Seq(Message) /\ lifeMsgs \in [Ends -> Seq(Message)]
      /\ Agreed(c, r, Adders, S, C)
  BY DEF FullInv, MsgsInv, Ends, AgreeInv
<1>2. Adders' = Adders /\ svc' = svc
  BY DEF SkipClose, Adders, Doing
<1>3. /\ s = "client" => C # <<>> /\ C[1].type = "CLOSE" /\ ~Finds(s, C[1])
      /\ s = "server" => S # <<>> /\ S[1].type = "CLOSE" /\ ~Finds(s, S[1])
  <2>1. /\ lifeMsgs[s] # <<>> /\ Head(lifeMsgs[s]).type = "CLOSE"
        /\ ~Finds(s, Head(lifeMsgs[s]))
    BY DEF SkipClose, Arrives
  <2>2. C # <<>> => Head(C) = C[1]
    BY <1>1, QueueShifts
  <2>3. S # <<>> => Head(S) = S[1]
    BY <1>1, QueueShifts
  <2>. QED BY <2>1, <2>2, <2>3
<1>4. \A e \in Ends : Class(svc[e]) # "off" => Live(e)
  BY DEF Class, Live
<1>5. PortInv'
  BY <1>2 DEF PortInv
<1>6. s # "client"
  <2>. SUFFICES ASSUME s = "client" PROVE FALSE
    OBVIOUS
  <2>1. c # "off" /\ C[1].dst
    <3>. HIDE DEF S, C, c, r
    <3>. QED BY <1>1, <1>3, ReadsClose
  <2>. QED BY <1>1, <1>3, <1>4, <2>1 DEF Finds
<1>7. S[1].src
  <2>. HIDE DEF S, C, c, r
  <2>. QED BY <1>1, <1>3, <1>6, ServerReadsClose
<1>8. CASE r = "CLOSESENT"
  <2>1. lifeLog'.missed
    BY <1>1, <1>6, <1>8 DEF SkipClose, FullInv, LifeTypes, LifeLog, Class
  <2>. QED BY <2>1
<1>9. CASE r # "CLOSESENT"
  <2>1. s = "server"
    BY <1>1, <1>6
  <2>2. r # "OPEN"
    BY <1>3, <1>7, <2>1 DEF Finds, ConnectedTo, Live, Class
  <2>3. r = "off"
    BY <1>9, <2>2 DEF Class, PortInv
  <2>4. lifeMsgs'["server"] = Tail(S) /\ lifeMsgs'["client"] = C
    BY <1>1, <2>1 DEF SkipClose, Taken
  <2>5. Agreed(c, "off", Adders, Tail(S), C)
    <3>. HIDE DEF S, C, c, r
    <3>. QED BY <1>1, <1>3, <2>1, <2>2, ServerReadsClose
  <2>6. AgreeInv'
    BY <1>2, <2>3, <2>4, <2>5 DEF AgreeInv
  <2>. QED BY <1>5, <2>6
<1>. QED BY <1>8, <1>9

-----------------------------------------------------------------------------
LEMMA AgreeStarts == LifeInit => AgreeInv /\ PortInv
<1>. SUFFICES ASSUME LifeInit PROVE AgreeInv /\ PortInv
  OBVIOUS
<1>1. /\ \A s \in Ends : svc[s] = NoService /\ lifeMsgs[s] = <<>>
      /\ Adders = {} /\ "client" \in Ends /\ "server" \in Ends
  BY DEF LifeInit, Idle, Adders, Doing, Ends
<1>2. \A s \in Ends : Class(svc[s]) = "off" /\ PortOf(svc[s]) /\ svc[s].st = "NONE"
  BY <1>1 DEF NoService, Class, PortOf
<1>3. AllClose(<<>>)
  BY DEF AllClose
<1>. QED BY <1>1, <1>2, <1>3 DEF AgreeInv, Agreed, Apart, PortInv

(* A CLOSE that has missed stays so.                                         *)
LEMMA MissedKept ==
  ASSUME FullInv, lifeLog.missed, LifeNext
  PROVE  lifeLog'.missed
<1>1. lifeLog \in LifeLog
  BY DEF FullInv, LifeTypes
<1>2. ASSUME NEW s \in Ends, LifeHandler(s) PROVE lifeLog'.missed
  <2>1. PollService(s) => \/ lifeLog' = lifeLog
                          \/ lifeLog' = [lifeLog EXCEPT !.missed = @ \/ Overtakes(s)]
    BY DEF PollService
  <2>2. SkipClose(s) =>
          lifeLog' = [lifeLog EXCEPT !.missed = @ \/ svc[s].st = "CLOSESENT"]
    BY DEF SkipClose
  <2>3. LifeHandler(s) => \/ lifeLog' = lifeLog \/ PollService(s) \/ SkipClose(s)
    BY DEF LifeHandler, LifeParse, ParseClose, ParseOpen, ParseOpenRejects,
           ParseOpenBails, ParseOpenAck, LifeHandlerWoken
  <2>. QED BY <1>1, <1>2, <2>1, <2>2, <2>3 DEF LifeLog
<1>3. ASSUME NEW t \in LifeThreads,
             \/ LifeGoesOn(t) \/ AddCall(t) \/ CloseCall(t) \/ OpenCall(t)
             \/ RemoveCall(t) \/ RemoveHidden(t) \/ UseCall(t)
      PROVE  lifeLog'.missed
  <2>1. AlsoWaits(t) => lifeLog'.missed
    BY <1>1 DEF AlsoWaits, LifeLog
  <2>2. OpenCall(t) \/ AddCall(t) \/ OpenGone(t) => lifeLog'.missed
    BY <1>1 DEF OpenCall, AddCall, OpenGone, LifeLog
  <2>. QED BY <1>3, <2>1, <2>2 DEF LifeGoesOn, CloseCall, RemoveCall, RemoveHidden,
         UseCall, OpenSends, OpenWoken, CloseAsks, RemoveAsks, Asks, CloseWoken,
         RemoveWoken, Woken, UseReturn, RemoveNothing
<1>4. Openers \subseteq LifeThreads
  BY ServiceLifeAssumption DEF LifeThreads
<1>. QED BY <1>2, <1>3, <1>4 DEF LifeNext, ConnectShows

LEMMA AgreeKeeps ==
  ASSUME FullInv, AgreeInv, PortInv, [LifeNext]_lifeVars
  PROVE  lifeLog'.missed \/ (AgreeInv' /\ PortInv')
<1>1. CASE UNCHANGED lifeVars
  BY <1>1 DEF lifeVars, AgreeInv, PortInv, Adders, Doing
<1>2. CASE ConnectShows
  <2>. DEFINE w == [svc["server"] EXCEPT !.st = "LISTENING"]
  <2>1. svc \in [Ends -> Service] /\ "server" \in Ends /\ svc["server"] \in Service
    BY DEF FullInv, IInv, Ends
  <2>2. /\ svc' = [svc EXCEPT !["server"] = w] /\ caller' = caller
        /\ svc["server"].st = "HIDDEN" /\ lifeMsgs' = lifeMsgs
    BY <1>2, <2>1 DEF ConnectShows
  <2>3. w.st = "LISTENING"
    BY <2>1 DEF Service
  <2>. HIDE DEF w
  <2>4. Class(w) = Class(svc["server"]) /\ PortOf(w)
    BY <2>2, <2>3 DEF Class, PortOf
  <2>5. Adders' = Adders
    BY <2>2 DEF Adders, Doing
  <2>. QED BY <2>1, <2>2, <2>4, <2>5, AgreeFrame
<1>3. ASSUME NEW s \in Ends, LifeHandler(s) PROVE lifeLog'.missed \/ (AgreeInv' /\ PortInv')
  <2>1. CASE ParseOpenBails \/ LifeHandlerWoken(s)
    BY <2>1 DEF ParseOpenBails, LifeHandlerWoken, AgreeInv, PortInv, Adders, Doing
  <2>. QED BY <1>3, <2>1, PollAgrees, ParseCloseAgrees, SkipCloseAgrees,
              OpenAnsweredAgrees, AckAgrees DEF LifeHandler, LifeParse
<1>4. ASSUME NEW t \in Openers, OpenCall(t) PROVE lifeLog'.missed \/ (AgreeInv' /\ PortInv')
  <2>1. t \in LifeThreads
    BY ServiceLifeAssumption DEF LifeThreads
  <2>. QED BY <1>4, <2>1, OpenerAgrees
<1>5. ASSUME NEW t \in LifeThreads,
             \/ LifeGoesOn(t) \/ AddCall(t) \/ CloseCall(t)
             \/ RemoveCall(t) \/ RemoveHidden(t) \/ UseCall(t)
      PROVE  lifeLog'.missed \/ (AgreeInv' /\ PortInv')
  BY <1>5, HoldingAgrees, ReturningAgrees, OpenerAgrees DEF LifeGoesOn
<1>. QED BY <1>1, <1>2, <1>3, <1>4, <1>5 DEF LifeNext

(* Two sides that have read all messages agree on whether they are connected *)
(* and none still waits for a CLOSE, whoever closes, removes or opens again, *)
(* and when, unless a client has closed before it was open and its CLOSE has *)
(* missed the server (vchiq_close_service_internal, parse_open).             *)
THEOREM EndsAgreeAlways == LifeSpec => []EndsAgree
<1>1. ASSUME AgreeOrMissed PROVE EndsAgree
  <2>. SUFFICES ASSUME \A s \in Ends : lifeMsgs[s] = <<>>, ~lifeLog.missed
                PROVE  /\ svc["client"].st = "OPEN" <=> svc["server"].st = "OPEN"
                       /\ \A s \in Ends : svc[s].st # "CLOSESENT"
    BY DEF EndsAgree
  <2>1. lifeMsgs["server"] = <<>> /\ lifeMsgs["client"] = <<>>
    BY DEF Ends
  <2>2. /\ Class(svc["client"]) = "OPEN" <=> Class(svc["server"]) = "OPEN"
        /\ Class(svc["client"]) # "CLOSESENT" /\ Class(svc["server"]) # "CLOSESENT"
    BY <1>1, <2>1, NothingUnderWay DEF AgreeInv, AgreeOrMissed
  <2>. QED BY <2>2 DEF Class, Ends
<1>2. FullInv /\ [LifeNext]_lifeVars => FullInv'
  BY LifeKeeps, LifeStutters
<1>3. FullInv /\ AgreeOrMissed /\ [LifeNext]_lifeVars => AgreeOrMissed'
  BY AgreeKeeps, MissedKept DEF AgreeOrMissed, lifeVars
<1>4. LifeInit => AgreeOrMissed
  BY AgreeStarts DEF AgreeOrMissed
<1>. QED BY <1>1, <1>2, <1>3, <1>4, LifeStarts, PTL DEF LifeSpec

-----------------------------------------------------------------------------
(* The VCHI services.                                                        *)

(* The types, those of the service beneath and of the history among them.    *)
ShimTypes ==
  /\ ShimTypeOK
  /\ vq \in [Shims -> Service]
  /\ headers \in [Shims -> Seq(Places)] /\ kept \in [Shims -> SUBSET Places]
  /\ shimLog \in [closed : SUBSET Shims, used : SUBSET Shims, again : SUBSET Shims,
                  serves : Nat]

(* vchi_disconnect runs alone.                                               *)
OneCaller ==
  /\ instance.now # NoShim => instance.st = "shutting"
  /\ instance.st = "shutting" => \A h \in Shims : At(h, "idle")

(* The service beneath v, by what a thread of it does (u), whether           *)
(* vchi_disconnect removes it (k), the shim service (s), and whether it was  *)
(* left listening (c).  First its references: "a" is that one of these holds *)
(* one, without which nothing that is free is left.                          *)
RefsFit(v, a) ==
  /\ v.auto
  /\ v.st = "NONE" => v = NoService
  /\ v.st \in {"NONE", "FREE"} => (v.st = "FREE" <=> a)
  /\ Spare(v) = IF a THEN 1 ELSE 0

(* Each wait has something coming, and the states that go with it.           *)
OpenerFit(v, u) ==
  /\ v.st = "OPENING" => u = "opening" /\ v.ups = 0
  /\ v.st = "CLOSEWAIT" => u \in {"opening", "refused"} /\ ~v.listens
  /\ v.st \in {"LISTENING", "HIDDEN"} => v.listens
  /\ u = "opening" =>
       /\ v.st \in {"OPENING", "OPEN", "CLOSEWAIT", "NONE"} /\ ~v.listens /\ v.poll = {}
       /\ v.st \in {"OPEN", "CLOSEWAIT"} => v.ups > 0
  /\ u = "refused" =>
       \/ v.st = "CLOSEWAIT" /\ "REMOVE" \in v.poll
       \/ v.st = "FREE" /\ v.ups > 0

(* A thread that has asked for the end is told of it.                        *)
EnderFit(v, u, k) ==
  /\ k => u = "idle"
  /\ u = "destroying" \/ k =>
       /\ v.st \in {"HIDDEN", "LISTENING", "OPEN", "CLOSESENT", "FREE"}
       /\ \/ "REMOVE" \in v.poll
          \/ v.st = "CLOSESENT" /\ ~v.listens
          \/ v.st = "FREE"
       /\ v.st = "FREE" => v.ups > 0
  /\ u = "closing" =>
       /\ v.st \in {"LISTENING", "OPEN", "CLOSESENT", "FREE"}
       /\ v.ups > 0 \/ v.poll # {} \/ v.st = "CLOSESENT"
       /\ v.st = "FREE" => v.ups > 0

(* A shim service that is freed is one nothing comes for any more, unless it *)
(* was left listening.                                                       *)
OwnerFit(v, u, s, c) ==
  /\ s = "none" => v = NoService /\ u = "idle"
  /\ s = "freed" => u = "idle" /\ (v.st \in {"NONE", "FREE"} \/ c)

Fit(v, u, k, s, c) ==
  /\ RefsFit(v, u \in {"closing", "destroying", "refused"} \/ k)
  /\ OpenerFit(v, u) /\ EnderFit(v, u, k) /\ OwnerFit(v, u, s, c)

BeneathFit ==
  \A h \in Shims : Fit(vq[h], user[h], instance.now = h, shim[h], h \in shimLog.closed)

(* What the steps make of the service beneath.                               *)
AfterClose(v, received, again) ==
  IF Closed(v, received) = NoService THEN NoService
  ELSE [Closed(v, received) EXCEPT !.poll = again]

(* poll_services: REMOVE before TERMINATE.                                   *)
PolledKind(o) == IF "REMOVE" \in o.poll THEN "REMOVE" ELSE "TERMINATE"
PolledAs(o) == [o EXCEPT !.listens = @ /\ PolledKind(o) = "TERMINATE"]
PolledAgain(o) == IF CloseFails(PolledAs(o), FALSE) THEN {PolledKind(o)} ELSE {}
Polled(o) == AfterClose(PolledAs(o), FALSE, PolledAgain(o))

(* A CLOSE of the other side, or its refusal.                                *)
Marked(o) == [o EXCEPT !.closing = TRUE]
Answered(o) == Closed(Marked(o), TRUE)
Received(o) == AfterClose(Marked(o), TRUE, o.poll)

(* It opens; vchi_connect shows it; a thread asks for its end, and is woken. *)
Connects(o) == [o EXCEPT !.st = "OPEN", !.remote = TRUE]
Shown(o) == [o EXCEPT !.st = "LISTENING"]
Asked(o, kind) == [o EXCEPT !.refs = @ + 1, !.closing = TRUE, !.poll = @ \cup {kind}]
Downed(o) == [o EXCEPT !.ups = @ - 1]

(* What is left when the reference is given back.                            *)
GivenBack(z) ==
  z = NoService \/ (/\ z.st \in {"LISTENING", "OPEN"} /\ z.auto /\ Spare(z) = 0
                    /\ z.st = "LISTENING" => z.listens)

(* What a thread has asked for.                                              *)
KindOf(u) == IF u = "closing" THEN "TERMINATE" ELSE "REMOVE"

(* Messages.                                                                 *)
Pushed(h) == pushing # <<>> /\ pushing[1] = h

(* There is no header of it.                                                 *)
Unread(h) == headers[h] = <<>> /\ kept[h] = {} /\ ~Pushed(h)

(* The headers of a service, each in one place.                              *)
Elements(q) == {q[i] : i \in DOMAIN q}
Once(q) == \A i, j \in DOMAIN q : q[i] = q[j] => i = j

Sorted(h) ==
  /\ Once(headers[h]) /\ Elements(headers[h]) \cap kept[h] = {}
  /\ Pushed(h) => pushing[2] \notin Elements(headers[h]) \cup kept[h]

(* A service that has sent CLOSE, or is asked to, releases nothing.          *)
ClosingKnown(v) == v.poll # {} \/ v.st \in {"CLOSESENT", "CLOSEWAIT"} => v.closing

(* Only an open service has messages, and what it has is in its queue, with  *)
(* its thread or with the slot handler.                                      *)
OpenOnly(h) ==
  /\ Claims(h) # {} \/ Pushed(h) => vq[h].st = "OPEN"
  /\ shim[h] = "none" \/ h \notin Readers => Unread(h)

(* Before any server has listened again: a service that is not open yet has  *)
(* no header, and an open one those of what it has claimed.                  *)
FirstLife(h) ==
  /\ ClosingKnown(vq[h])
  /\ Exists(h) /\ vq[h].st \notin {"OPEN", "CLOSESENT"} => Unread(h)
  /\ vq[h].st = "OPEN" /\ ~vq[h].closing => Claims(h) = HeadersOf(h) /\ Sorted(h)

MsgFit(h) == OpenOnly(h) /\ (shimLog.again = {} => FirstLife(h))

(* The inductive invariant.                                                  *)
ShimInv ==
  /\ ShimTypes /\ OneCaller /\ BeneathFit /\ ShimAlive
  /\ \A h \in Shims : MsgFit(h)

(* One more up of remove_event, and nothing else.                            *)
LEMMA UpFits ==
  ASSUME NEW v \in Service
  PROVE  /\ Up(v) \in Service /\ Up(v).ups > 0
         /\ Up(v).st = v.st /\ Up(v).refs = v.refs /\ Up(v).closing = v.closing
         /\ Up(v).listens = v.listens /\ Up(v).poll = v.poll /\ Up(v).auto = v.auto
         /\ Spare(Up(v)) = Spare(v)
<1>. DEFINE n == IF v.ups < MaxUps THEN v.ups + 1 ELSE v.ups
<1>1. MaxUps \in Nat /\ MaxUps > 0
  BY ServiceLifeAssumption
<1>2. v.ups \in 0 .. MaxUps
  BY DEF Service
<1>3. n \in 0 .. MaxUps /\ n > 0
  BY <1>1, <1>2
<1>4. Up(v) = [v EXCEPT !.ups = n]
  BY DEF Up
<1>. HIDE DEF n
<1>. QED BY <1>3, <1>4 DEF Service, Spare, Alive

(* A thread that returns gives its reference back.                           *)
LEMMA UnlockFits ==
  ASSUME NEW v \in Service, Spare(v) = 1
  PROVE  IF v.st \in {"NONE", "FREE"} THEN Unlock(v) = NoService
         ELSE /\ Unlock(v) \in Service /\ Spare(Unlock(v)) = 0
              /\ Unlock(v).st = v.st /\ Unlock(v).closing = v.closing
              /\ Unlock(v).listens = v.listens /\ Unlock(v).poll = v.poll
              /\ Unlock(v).auto = v.auto /\ Unlock(v).ups = v.ups
<1>1. v.refs \in Nat
  BY DEF Service
<1>2. CASE v.st \in {"NONE", "FREE"}
  BY <1>1, <1>2 DEF Unlock, Spare, Alive
<1>3. CASE v.st \notin {"NONE", "FREE"}
  <2>. DEFINE n == v.refs - 1
  <2>1. v.refs = 2 /\ n \in Nat /\ n = 1
    BY <1>1, <1>3 DEF Spare, Alive
  <2>2. Unlock(v) = [v EXCEPT !.refs = n]
    BY <2>1 DEF Unlock
  <2>. HIDE DEF n
  <2>. QED BY <1>3, <2>1, <2>2 DEF Service, Spare, Alive
<1>. QED BY <1>2, <1>3

(* A service that is freed stays while a thread of it has a reference.       *)
LEMMA FreeFits ==
  ASSUME NEW v \in Service, Alive(v), Spare(v) \in {0, 1}
  PROVE  IF Spare(v) = 0 THEN FreeService(v) = NoService
         ELSE /\ FreeService(v) \in Service /\ Spare(FreeService(v)) = 1
              /\ FreeService(v).st = "FREE" /\ FreeService(v).ups > 0
              /\ FreeService(v).closing = v.closing
              /\ FreeService(v).poll = v.poll /\ FreeService(v).auto = v.auto
<1>. DEFINE f == [v EXCEPT !.st = "FREE", !.remote = FALSE]
            u == Up(f)
<1>1. /\ f \in Service /\ f.st = "FREE" /\ f.refs = v.refs /\ f.closing = v.closing
      /\ f.poll = v.poll /\ f.auto = v.auto /\ v.refs \in Nat
  BY DEF Service
<1>2. FreeService(v) = Unlock(u)
  BY DEF FreeService
<1>. HIDE DEF f
<1>3. /\ u \in Service /\ u.st = "FREE" /\ u.refs = v.refs /\ u.closing = v.closing
      /\ u.poll = v.poll /\ u.auto = v.auto /\ u.ups > 0
  BY <1>1, UpFits
<1>. HIDE DEF u
<1>4. CASE Spare(v) = 0
  <2>1. v.refs = 1
    BY <1>1, <1>4 DEF Spare, Alive
  <2>. QED BY <1>2, <1>3, <1>4, <2>1 DEF Unlock
<1>5. CASE Spare(v) = 1
  <2>. DEFINE n == u.refs - 1
  <2>1. v.refs = 2 /\ n \in Nat /\ n = 1
    BY <1>1, <1>3, <1>5 DEF Spare, Alive
  <2>2. Unlock(u) = [u EXCEPT !.refs = n]
    BY <1>3, <2>1 DEF Unlock
  <2>. HIDE DEF n
  <2>3. /\ Unlock(u) \in Service /\ Unlock(u).refs = 1 /\ Unlock(u).st = "FREE"
        /\ Unlock(u).ups > 0 /\ Unlock(u).closing = v.closing
        /\ Unlock(u).poll = v.poll /\ Unlock(u).auto = v.auto
    BY <1>3, <2>1, <2>2 DEF Service
  <2>. QED BY <1>2, <1>5, <2>3 DEF Spare, Alive
<1>. QED BY <1>4, <1>5

(* Where there is no service, there is no reference to it.                   *)
LEMMA NothingFits ==
  /\ NoService \in Service /\ Spare(NoService) = 0 /\ NoService.st = "NONE"
  /\ NoService.auto /\ ~NoService.listens /\ NoService.poll = {}
  /\ ~NoService.closing
BY ServiceLifeAssumption DEF NoService, Service, Spare, Alive

(* A service that was alive and is freed.                                    *)
LEMMA FreedFit ==
  ASSUME NEW v \in Service, NEW u, NEW k \in BOOLEAN, NEW s, NEW c \in BOOLEAN,
         Fit(v, u, k, s, c), Alive(v), NEW w \in Service,
         Spare(v) = 0 => w = NoService,
         Spare(v) # 0 => w.st = "FREE" /\ Spare(w) = 1 /\ w.ups > 0 /\ w.auto
  PROVE  Fit(w, u, k, s, c)
<1>1. Spare(v) = IF u \in {"closing", "destroying", "refused"} \/ k THEN 1 ELSE 0
  BY DEF Fit, RefsFit
<1>2. s # "none"
  BY NothingFits DEF Fit, OwnerFit, Alive
<1>3. u \in {"closing", "destroying", "refused"} \/ k \/ w.st = "NONE"
  BY <1>1, NothingFits
<1>4. k => u = "idle"
  BY DEF Fit, EnderFit
<1>5. CASE Spare(v) = 0
  BY <1>1, <1>2, <1>5, NothingFits DEF Fit, RefsFit, OpenerFit, EnderFit, OwnerFit
<1>6. CASE Spare(v) # 0
  BY <1>1, <1>2, <1>4, <1>6 DEF Fit, RefsFit, OpenerFit, EnderFit, OwnerFit
<1>. QED BY <1>5, <1>6

(* To set the poll flags to what they are changes nothing.                   *)
LEMMA SamePoll ==
  ASSUME NEW v \in Service
  PROVE  [v EXCEPT !.poll = v.poll] = v
BY DEF Service

(* poll_services, for a service beneath.                                     *)
LEMMA PollFits ==
  ASSUME NEW o \in Service, NEW u, NEW k \in BOOLEAN, NEW s, NEW c \in BOOLEAN,
         Fit(o, u, k, s, c), Alive(o), o.poll # {}
  PROVE  /\ Polled(o) \in Service /\ Fit(Polled(o), u, k, s, c) /\ Polled(o).st # "OPEN"
         /\ Polled(o) = NoService \/ Polled(o).closing = o.closing
         /\ Alive(Polled(o)) /\ Polled(o).st # "CLOSESENT" => Polled(o).st = o.st
<1>. DEFINE kind == PolledKind(o)
            v == PolledAs(o)
            again == PolledAgain(o)
            z == Polled(o)
<1>0. /\ kind = IF "REMOVE" \in o.poll THEN "REMOVE" ELSE "TERMINATE"
      /\ v = [o EXCEPT !.listens = @ /\ kind = "TERMINATE"]
      /\ again = IF CloseFails(v, FALSE) THEN {kind} ELSE {}
      /\ z = IF Closed(v, FALSE) = NoService THEN NoService
             ELSE [Closed(v, FALSE) EXCEPT !.poll = again]
  BY DEF Polled, PolledAs, PolledAgain, PolledKind, AfterClose
<1>. USE <1>0
<1>. DEFINE l == o.listens /\ kind = "TERMINATE"
            a == u \in {"closing", "destroying", "refused"} \/ k
<1>1. kind \in {"TERMINATE", "REMOVE"} /\ again \in SUBSET {"TERMINATE", "REMOVE"}
  OBVIOUS
<1>2. l \in BOOLEAN /\ (l <=> o.listens /\ kind = "TERMINATE")
  BY DEF Service
<1>3. v = [o EXCEPT !.listens = l]
  OBVIOUS
<1>. HIDE DEF l
<1>4. /\ v \in Service /\ v.listens = l /\ v.st = o.st /\ v.refs = o.refs
      /\ v.closing = o.closing /\ v.ups = o.ups /\ v.poll = o.poll /\ v.auto = o.auto
      /\ Spare(v) = Spare(o) /\ Alive(v)
  BY <1>2, <1>3 DEF Service, Spare, Alive
<1>5. /\ Spare(o) = IF a THEN 1 ELSE 0
      /\ o.auto /\ s # "none" /\ (k => u = "idle") /\ u # "opening"
      /\ o.st \in {"HIDDEN", "LISTENING", "OPEN", "CLOSESENT", "CLOSEWAIT"}
      /\ (s = "freed" => u = "idle" /\ c)
  BY NothingFits DEF Fit, RefsFit, OwnerFit, EnderFit, OpenerFit, Alive, Service
<1>. HIDE DEF a
<1>6. CASE o.st \in {"HIDDEN", "LISTENING", "CLOSEWAIT"} /\ ~l
  <2>. DEFINE f == FreeService(v)
  <2>1. Closed(v, FALSE) = f
    BY <1>4, <1>6 DEF Closed
  <2>2. /\ Spare(v) = 0 => f = NoService
        /\ Spare(v) # 0 => f \in Service /\ Spare(f) = 1 /\ f.st = "FREE" /\ f.ups > 0
                           /\ f.closing = v.closing /\ f.auto = v.auto
    BY <1>4, <1>5, FreeFits
  <2>. HIDE DEF f
  <2>3. CASE Spare(v) = 0
    <3>1. z = NoService
      BY <2>1, <2>2, <2>3
    <3>. QED BY <1>4, <1>5, <2>1, <2>2, <2>3, <3>1, NothingFits, FreedFit DEF Alive
  <2>4. CASE Spare(v) # 0
    <3>1. z = [f EXCEPT !.poll = again]
      BY <2>1, <2>2, <2>4, NothingFits
    <3>2. /\ z \in Service /\ z.st = "FREE" /\ z.ups > 0 /\ z.auto /\ Spare(z) = 1
          /\ z.closing = o.closing
      BY <1>1, <1>4, <1>5, <2>2, <2>4, <3>1 DEF Service, Spare, Alive
    <3>3. Fit(z, u, k, s, c)
      <4>1. /\ Alive(o) /\ Spare(o) # 0
            /\ z.st = "FREE" /\ Spare(z) = 1 /\ z.ups > 0 /\ z.auto
        BY <1>4, <2>4, <3>2 DEF Alive
      <4>. QED BY ONLY <3>2, <4>1, FreedFit,
                       o \in Service, k \in BOOLEAN, c \in BOOLEAN, Fit(o, u, k, s, c)
    <3>. QED BY <1>4, <1>5, <2>1, <2>2, <2>4, <3>2, <3>3 DEF Alive
  <2>. QED BY <2>3, <2>4
<1>7. CASE o.st \in {"HIDDEN", "LISTENING", "CLOSEWAIT"} /\ l
  <2>0. o.st # "CLOSEWAIT" /\ o.listens /\ kind = "TERMINATE" /\ "REMOVE" \notin o.poll
    BY <1>2, <1>7 DEF Fit, OpenerFit
  <2>. DEFINE g == [v EXCEPT !.st = IF @ = "CLOSEWAIT" THEN "LISTENING" ELSE @,
                             !.remote = FALSE]
              r == Up(g)
  <2>1. /\ g \in Service /\ g.st = o.st /\ g.listens = v.listens /\ g.closing = v.closing
        /\ g.auto = v.auto /\ g.refs = v.refs
    BY <1>4, <1>7, <2>0 DEF Service
  <2>2. Closed(v, FALSE) = r
    BY <1>4, <1>7 DEF Closed
  <2>. HIDE DEF g
  <2>3. /\ r \in Service /\ r.ups > 0 /\ r.st = o.st /\ r.refs = v.refs
        /\ r.closing = v.closing /\ r.listens = v.listens /\ r.auto = v.auto
    BY <2>1, UpFits
  <2>. HIDE DEF r
  <2>4. z = [r EXCEPT !.poll = again]
    BY <1>7, <2>2, <2>3, NothingFits
  <2>5. /\ z \in Service /\ z.st = o.st /\ z.closing = o.closing /\ z.listens /\ z.auto
        /\ Spare(z) = Spare(o) /\ z.poll = again /\ z.ups > 0
    BY <1>1, <1>4, <1>5, <1>7, <2>3, <2>4 DEF Service, Spare, Alive
  <2>6. ~k /\ u # "destroying" /\ u # "refused"
    BY <1>7, <2>0 DEF Fit, EnderFit, OpenerFit
  <2>7. u = "closing" => o.st = "LISTENING"
    BY <1>7, <2>0 DEF Fit, EnderFit
  <2>. QED BY <1>4, <1>5, <1>7, <2>0, <2>2, <2>3, <2>5, <2>6, <2>7
           DEF Fit, RefsFit, OpenerFit, EnderFit, OwnerFit, Alive, a
<1>8. CASE o.st \in {"OPEN", "CLOSESENT"}
  <2>. DEFINE r == Closed(v, FALSE)
  <2>1. r = [v EXCEPT !.st = "CLOSESENT"]
    BY <1>4, <1>8 DEF Closed, Service
  <2>2. /\ r \in Service /\ r.st = "CLOSESENT" /\ r.refs = v.refs
        /\ r.closing = v.closing /\ r.listens = v.listens /\ r.auto = v.auto /\ r.ups = v.ups
    BY <1>4, <2>1 DEF Service
  <2>3. r = Closed(v, FALSE)
    OBVIOUS
  <2>. HIDE DEF r
  <2>4. z = [r EXCEPT !.poll = again]
    BY <2>2, <2>3, NothingFits
  <2>5. /\ z \in Service /\ z.st = "CLOSESENT" /\ z.closing = o.closing
        /\ z.listens = l /\ z.auto /\ Spare(z) = Spare(o) /\ z.poll = again
    BY <1>1, <1>4, <1>5, <1>8, <2>2, <2>4 DEF Service, Spare, Alive
  <2>6. u = "destroying" \/ k => ~l
    BY <1>2, <1>8 DEF Fit, EnderFit
  <2>7. u # "refused"
    BY <1>8 DEF Fit, OpenerFit
  <2>. QED BY <1>2, <1>4, <1>5, <1>8, <2>2, <2>3, <2>5, <2>6, <2>7
           DEF Fit, RefsFit, OpenerFit, EnderFit, OwnerFit, Alive, a
<1>. QED BY <1>5, <1>6, <1>7, <1>8

(* The other side closes a service, or refuses it.                           *)
LEMMA ReceivedFits ==
  ASSUME NEW o \in Service, NEW u, NEW k \in BOOLEAN, NEW s, NEW c \in BOOLEAN,
         Fit(o, u, k, s, c), o.st \in {"OPENING", "OPEN", "CLOSESENT"}
  PROVE  /\ Received(o) \in Service /\ Fit(Received(o), u, k, s, c)
         /\ Received(o).st \in {"NONE", "FREE", "LISTENING", "CLOSEWAIT"}
         /\ Answered(o).st = Received(o).st
         /\ Received(o) = NoService \/ Received(o).st = "LISTENING" \/ Received(o).closing
         /\ Received(o).st = "LISTENING" => o.st \in {"OPEN", "CLOSESENT"}
         /\ Received(o).st = "CLOSEWAIT" => o.st = "OPENING"
<1>. DEFINE v == Marked(o)
            z == Received(o)
<1>0. /\ v = [o EXCEPT !.closing = TRUE]
      /\ z = IF Closed(v, TRUE) = NoService THEN NoService
             ELSE [Closed(v, TRUE) EXCEPT !.poll = o.poll]
      /\ Answered(o) = Closed(v, TRUE)
  BY DEF Received, Answered, Marked, AfterClose
<1>. USE <1>0
<1>. DEFINE a == u \in {"closing", "destroying", "refused"} \/ k
<1>4. /\ v \in Service /\ v.listens = o.listens /\ v.st = o.st /\ v.refs = o.refs
      /\ v.closing /\ v.ups = o.ups /\ v.poll = o.poll /\ v.auto = o.auto
      /\ Spare(v) = Spare(o) /\ Alive(v) /\ Alive(o)
  BY DEF Service, Spare, Alive
<1>5. /\ Spare(o) = IF a THEN 1 ELSE 0
      /\ o.auto /\ s # "none" /\ (k => u = "idle") /\ u # "refused"
      /\ (s = "freed" => u = "idle" /\ c)
  BY NothingFits DEF Fit, RefsFit, OwnerFit, EnderFit, OpenerFit, Alive
<1>. HIDE DEF a
<1>6. CASE o.st = "OPENING"
  <2>. DEFINE g == [v EXCEPT !.st = "CLOSEWAIT"]
              r == Up(g)
  <2>1. /\ g \in Service /\ g.st = "CLOSEWAIT" /\ g.listens = o.listens /\ g.closing
        /\ g.auto = o.auto /\ g.refs = o.refs /\ g.poll = o.poll
    BY <1>4, <1>6 DEF Service
  <2>2. Closed(v, TRUE) = r
    BY <1>4, <1>6 DEF Closed
  <2>. HIDE DEF g
  <2>3. /\ r \in Service /\ r.ups > 0 /\ r.st = "CLOSEWAIT" /\ r.refs = o.refs
        /\ r.closing /\ r.listens = o.listens /\ r.auto = o.auto /\ r.poll = o.poll
    BY <2>1, UpFits
  <2>. HIDE DEF r
  <2>4. z = r
    BY <2>2, <2>3, SamePoll, NothingFits
  <2>5. u = "opening" /\ ~o.listens /\ o.poll = {}
    BY <1>6 DEF Fit, OpenerFit
  <2>6. Spare(r) = Spare(o)
    BY <1>6, <2>3 DEF Spare, Alive
  <2>. QED BY <1>4, <1>5, <1>6, <2>2, <2>3, <2>4, <2>5, <2>6
           DEF Fit, RefsFit, OpenerFit, EnderFit, OwnerFit, Alive, a
<1>7. CASE o.st \in {"OPEN", "CLOSESENT"} /\ ~o.listens
  <2>. DEFINE f == FreeService(v)
  <2>1. Closed(v, TRUE) = f
    BY <1>4, <1>7 DEF Closed, CloseDone
  <2>2. /\ Spare(v) = 0 => f = NoService
        /\ Spare(v) # 0 => f \in Service /\ Spare(f) = 1 /\ f.st = "FREE" /\ f.ups > 0
                           /\ f.closing = v.closing /\ f.auto = v.auto /\ f.poll = v.poll
    BY <1>4, <1>5, FreeFits
  <2>. HIDE DEF f
  <2>3. z = f
    <3>1. CASE Spare(v) = 0
      BY <2>1, <2>2, <3>1
    <3>2. CASE Spare(v) # 0
      <4>1. f # NoService /\ f \in Service /\ f.poll = o.poll
        BY <1>4, <2>2, <3>2, NothingFits
      <4>. QED BY <2>1, <4>1, SamePoll
    <3>. QED BY <3>1, <3>2
  <2>4. z \in Service /\ Fit(z, u, k, s, c)
    <3>1. /\ z \in Service /\ (Spare(o) = 0 => z = NoService)
          /\ Spare(o) # 0 => z.st = "FREE" /\ Spare(z) = 1 /\ z.ups > 0 /\ z.auto
      BY <1>4, <1>5, <2>2, <2>3, NothingFits
    <3>2. Alive(o)
      BY <1>4
    <3>. QED BY ONLY <3>1, <3>2, FreedFit,
                     o \in Service, k \in BOOLEAN, c \in BOOLEAN, Fit(o, u, k, s, c)
  <2>. QED BY <1>4, <1>5, <2>1, <2>2, <2>3, <2>4, NothingFits
<1>8. CASE o.st \in {"OPEN", "CLOSESENT"} /\ o.listens
  <2>. DEFINE g == [v EXCEPT !.st = "LISTENING", !.remote = FALSE, !.closing = FALSE]
              r == Up(g)
  <2>1. /\ g \in Service /\ g.st = "LISTENING" /\ g.listens = o.listens
        /\ g.auto = o.auto /\ g.refs = o.refs /\ g.poll = o.poll
    BY <1>4, <1>8 DEF Service
  <2>2. Closed(v, TRUE) = r
    BY <1>4, <1>5, <1>8 DEF Closed, CloseDone
  <2>. HIDE DEF g
  <2>3. /\ r \in Service /\ r.ups > 0 /\ r.st = "LISTENING" /\ r.refs = o.refs
        /\ r.listens = o.listens /\ r.auto = o.auto /\ r.poll = o.poll
    BY <2>1, UpFits
  <2>. HIDE DEF r
  <2>4. z = r
    BY <2>2, <2>3, SamePoll, NothingFits
  <2>5. u # "opening" /\ (u = "destroying" \/ k => "REMOVE" \in o.poll)
    BY <1>8 DEF Fit, OpenerFit, EnderFit
  <2>6. Spare(r) = Spare(o)
    BY <1>8, <2>3 DEF Spare, Alive
  <2>. QED BY <1>4, <1>5, <1>8, <2>2, <2>3, <2>4, <2>5, <2>6
           DEF Fit, RefsFit, OpenerFit, EnderFit, OwnerFit, Alive, a
<1>. QED BY <1>6, <1>7, <1>8

(* The OPEN of a client is accepted.                                         *)
LEMMA AcceptedFits ==
  ASSUME NEW o \in Service, NEW u, NEW k \in BOOLEAN, NEW s, NEW c \in BOOLEAN,
         Fit(o, u, k, s, c), o.st = "OPENING"
  PROVE  /\ Up(Connects(o)) \in Service /\ Fit(Up(Connects(o)), u, k, s, c)
         /\ Up(Connects(o)).st = "OPEN"
         /\ Up(Connects(o)).closing = o.closing /\ Up(Connects(o)).poll = o.poll
<1>. DEFINE z == Up(Connects(o))
<1>0. z = Up([o EXCEPT !.st = "OPEN", !.remote = TRUE])
  BY DEF Connects
<1>. USE <1>0
<1>. DEFINE g == [o EXCEPT !.st = "OPEN", !.remote = TRUE]
<1>1. /\ g \in Service /\ g.st = "OPEN" /\ g.listens = o.listens
      /\ g.auto = o.auto /\ g.refs = o.refs /\ g.poll = o.poll /\ g.closing = o.closing
  BY DEF Service
<1>2. z = Up(g)
  OBVIOUS
<1>. HIDE DEF g
<1>3. /\ z \in Service /\ z.st = "OPEN" /\ z.listens = o.listens /\ z.ups > 0
      /\ z.auto = o.auto /\ z.refs = o.refs /\ z.poll = o.poll /\ z.closing = o.closing
  BY <1>1, <1>2, UpFits
<1>4. Spare(z) = Spare(o)
  BY <1>3 DEF Spare, Alive
<1>. QED BY <1>3, <1>4, NothingFits DEF Fit, RefsFit, OpenerFit, EnderFit, OwnerFit

(* The other side opens a server.                                            *)
LEMMA OpenedFits ==
  ASSUME NEW o \in Service, NEW u, NEW k \in BOOLEAN, NEW s, NEW c \in BOOLEAN,
         Fit(o, u, k, s, c), o.st = "LISTENING"
  PROVE  /\ Connects(o) \in Service /\ Fit(Connects(o), u, k, s, c) /\ Connects(o).st = "OPEN"
         /\ Connects(o).closing = o.closing /\ Connects(o).poll = o.poll
<1>. DEFINE z == Connects(o)
<1>0. z = [o EXCEPT !.st = "OPEN", !.remote = TRUE]
  BY DEF Connects
<1>. USE <1>0
<1>1. /\ z \in Service /\ z.st = "OPEN" /\ z.listens = o.listens /\ z.ups = o.ups
      /\ z.auto = o.auto /\ z.refs = o.refs /\ z.poll = o.poll /\ z.closing = o.closing
  BY DEF Service
<1>2. Spare(z) = Spare(o)
  BY <1>1 DEF Spare, Alive
<1>. QED BY <1>1, <1>2, NothingFits DEF Fit, RefsFit, OpenerFit, EnderFit, OwnerFit

(* A hidden server is shown.                                                 *)
LEMMA ShownFits ==
  ASSUME NEW o \in Service, NEW k \in BOOLEAN, NEW s, NEW c \in BOOLEAN, ~k,
         Fit(o, "idle", k, s, c), o.st = "HIDDEN"
  PROVE  /\ Shown(o) \in Service /\ Fit(Shown(o), "idle", k, s, c) /\ Shown(o).st = "LISTENING"
         /\ Shown(o).closing = o.closing /\ Shown(o).poll = o.poll
<1>. DEFINE z == Shown(o)
<1>0. z = [o EXCEPT !.st = "LISTENING"]
  BY DEF Shown
<1>. USE <1>0
<1>1. /\ z \in Service /\ z.st = "LISTENING" /\ z.listens = o.listens /\ z.ups = o.ups
      /\ z.auto = o.auto /\ z.refs = o.refs /\ z.poll = o.poll /\ z.closing = o.closing
  BY DEF Service
<1>2. Spare(z) = Spare(o)
  BY <1>1 DEF Spare, Alive
<1>. QED BY <1>1, <1>2, NothingFits DEF Fit, RefsFit, OpenerFit, EnderFit, OwnerFit

(* vchi_service_close, _destroy and vchi_disconnect ask for the end.         *)
LEMMA AskFits ==
  ASSUME NEW o \in Service, NEW u, NEW k \in BOOLEAN, NEW s, NEW c \in BOOLEAN,
         NEW j \in BOOLEAN, ~j, Fit(o, "idle", j, s, c), Alive(o),
         NEW kind \in {"TERMINATE", "REMOVE"},
         \/ u = "closing" /\ ~k /\ o.st \notin {"HIDDEN", "LISTENING"}
         \/ u = "destroying" /\ ~k /\ kind = "REMOVE" /\ o.st # "HIDDEN"
         \/ u = "idle" /\ k /\ kind = "REMOVE",
         u # "idle" => s = "held"
  PROVE  /\ Asked(o, kind) \in Service /\ Fit(Asked(o, kind), u, k, s, c)
         /\ Asked(o, kind).st = o.st /\ Asked(o, kind).closing
<1>. DEFINE z == Asked(o, kind)
<1>0. z = [o EXCEPT !.refs = @ + 1, !.closing = TRUE, !.poll = @ \cup {kind}]
  BY DEF Asked
<1>. USE <1>0
<1>. DEFINE n == o.refs + 1
            p == o.poll \cup {kind}
<1>1. z = [o EXCEPT !.refs = n, !.closing = TRUE, !.poll = p] /\ n \in Nat
      /\ p \in SUBSET {"TERMINATE", "REMOVE"} /\ kind \in p /\ o.refs \in Nat
  BY DEF Service
<1>2. n = o.refs + 1
  OBVIOUS
<1>. HIDE DEF n, p
<1>3. /\ z \in Service /\ z.st = o.st /\ z.listens = o.listens /\ z.ups = o.ups
      /\ z.auto = o.auto /\ z.refs = n /\ z.poll = p /\ z.closing
  BY <1>1 DEF Service
<1>4. Spare(o) = 0
  BY DEF Fit, RefsFit
<1>5. Spare(z) = 1
  BY <1>1, <1>2, <1>3, <1>4 DEF Spare, Alive
<1>6. o.st \in {"HIDDEN", "LISTENING", "OPEN", "CLOSESENT"}
  BY DEF Fit, OpenerFit, Alive, Service
<1>. QED BY <1>1, <1>3, <1>5, <1>6, NothingFits
         DEF Fit, RefsFit, OpenerFit, EnderFit, OwnerFit, Alive

(* One wait for remove_event is over.                                        *)
LEMMA DownFits ==
  ASSUME NEW o \in Service, o.ups > 0
  PROVE  /\ Downed(o) \in Service /\ Downed(o).st = o.st
         /\ Downed(o).listens = o.listens /\ Downed(o).refs = o.refs
         /\ Downed(o).auto = o.auto /\ Downed(o).poll = o.poll /\ Downed(o).closing = o.closing
         /\ Spare(Downed(o)) = Spare(o)
<1>. DEFINE z == Downed(o)
<1>a. z = [o EXCEPT !.ups = @ - 1]
  BY DEF Downed
<1>. USE <1>a
<1>. DEFINE n == o.ups - 1
<1>0. MaxUps \in Nat
  BY ServiceLifeAssumption
<1>1. z = [o EXCEPT !.ups = n] /\ o.ups \in 0 .. MaxUps
  BY DEF Service
<1>2. n \in 0 .. MaxUps
  BY <1>0, <1>1
<1>. HIDE DEF n
<1>3. /\ z \in Service /\ z.st = o.st /\ z.listens = o.listens /\ z.refs = o.refs
      /\ z.auto = o.auto /\ z.poll = o.poll /\ z.closing = o.closing
  BY <1>1, <1>2 DEF Service
<1>. QED BY <1>3 DEF Spare, Alive

(* A client that is open returns to its caller.                              *)
LEMMA OpenReturnFits ==
  ASSUME NEW o \in Service, NEW s, NEW c \in BOOLEAN, NEW k \in BOOLEAN,
         Fit(o, "opening", k, s, c), o.ups > 0, o.st = "OPEN"
  PROVE  Downed(o) \in Service /\ Fit(Downed(o), "idle", k, s, c) /\ Downed(o).st = "OPEN"
         /\ Downed(o).closing = o.closing /\ Downed(o).poll = o.poll
<1>. DEFINE z == Downed(o)
<1>0. z = [o EXCEPT !.ups = @ - 1]
  BY DEF Downed
<1>. USE <1>0
<1>1. /\ z \in Service /\ z.st = o.st /\ z.listens = o.listens
      /\ z.auto = o.auto /\ z.poll = o.poll /\ z.closing = o.closing
      /\ Spare(z) = Spare(o)
  BY DownFits
<1>2. ~k
  BY DEF Fit, EnderFit
<1>. QED BY <1>1, <1>2, NothingFits DEF Fit, RefsFit, OpenerFit, EnderFit, OwnerFit

(* What was refused is to be removed.                                        *)
LEMMA RefusedFits ==
  ASSUME NEW o \in Service, NEW s, NEW c \in BOOLEAN, NEW k \in BOOLEAN,
         Fit(o, "opening", k, s, c), o.ups > 0, o.st # "OPEN", Alive(o)
  PROVE  /\ Asked(Downed(o), "REMOVE") \in Service
         /\ Fit(Asked(Downed(o), "REMOVE"), "refused", k, s, c)
         /\ Asked(Downed(o), "REMOVE").st = "CLOSEWAIT"
         /\ Asked(Downed(o), "REMOVE").closing
         /\ o.st = "CLOSEWAIT"
<1>. DEFINE z == Asked(Downed(o), "REMOVE")
            v == Downed(o)
<1>0. z = [v EXCEPT !.refs = @ + 1, !.closing = TRUE, !.poll = @ \cup {"REMOVE"}]
  BY DEF Asked, Downed
<1>. USE <1>0
<1>1. /\ v \in Service /\ v.st = o.st /\ v.listens = o.listens /\ v.refs = o.refs
      /\ v.auto = o.auto /\ v.poll = o.poll /\ v.closing = o.closing
      /\ Spare(v) = Spare(o)
  BY DownFits
<1>2. ~k /\ o.st = "CLOSEWAIT"
  BY DEF Fit, EnderFit, OpenerFit, Alive
<1>. DEFINE n == v.refs + 1
            p == v.poll \cup {"REMOVE"}
<1>3. z = [v EXCEPT !.refs = n, !.closing = TRUE, !.poll = p] /\ n \in Nat
      /\ p \in SUBSET {"TERMINATE", "REMOVE"} /\ "REMOVE" \in p /\ v.refs \in Nat
  BY <1>1 DEF Service
<1>4. n = v.refs + 1
  OBVIOUS
<1>. HIDE DEF n, p
<1>5. /\ z \in Service /\ z.st = "CLOSEWAIT" /\ z.listens = o.listens
      /\ z.auto = o.auto /\ z.refs = n /\ z.poll = p /\ z.closing
  BY <1>1, <1>2, <1>3 DEF Service
<1>6. Spare(o) = 0
  BY <1>2 DEF Fit, RefsFit
<1>7. Spare(z) = 1
  BY <1>1, <1>2, <1>3, <1>4, <1>5, <1>6 DEF Spare, Alive
<1>. QED BY <1>1, <1>2, <1>3, <1>5, <1>7, NothingFits
         DEF Fit, RefsFit, OpenerFit, EnderFit, OwnerFit

(* A thread that was woken waits again.                                      *)
LEMMA WaitsOnFits ==
  ASSUME NEW o \in Service, NEW u, NEW k \in BOOLEAN, NEW s, NEW c \in BOOLEAN,
         Fit(o, u, k, s, c), o.ups > 0, u \in {"closing", "destroying", "refused"} \/ k,
         o.st \notin Ended(KindOf(u))
  PROVE  /\ Downed(o) \in Service /\ Fit(Downed(o), u, k, s, c) /\ Downed(o).st = o.st
         /\ Downed(o).closing = o.closing /\ Downed(o).poll = o.poll
<1>. DEFINE z == Downed(o)
<1>0. z = [o EXCEPT !.ups = @ - 1]
  BY DEF Downed
<1>. USE <1>0
<1>1. /\ z \in Service /\ z.st = o.st /\ z.listens = o.listens
      /\ z.auto = o.auto /\ z.poll = o.poll /\ z.closing = o.closing
      /\ Spare(z) = Spare(o)
  BY DownFits
<1>2. o.st # "FREE" /\ (u = "closing" => o.st = "CLOSESENT")
  BY DEF Ended, KindOf, Fit, EnderFit
<1>3. u # "opening"
  BY DEF Fit, EnderFit
<1>. QED BY <1>1, <1>2, <1>3, NothingFits DEF Fit, RefsFit, OpenerFit, EnderFit, OwnerFit

(* There is none, or no longer one.                                          *)
LEMMA NoneFits ==
  ASSUME NEW j \in BOOLEAN, ~j, NEW s, NEW c \in BOOLEAN
  PROVE  Fit(NoService, "idle", j, s, c)
BY NothingFits DEF Fit, RefsFit, OpenerFit, EnderFit, OwnerFit

(* A thread that was woken returns: its reference to the service is given    *)
(* back.                                                                     *)
LEMMA ReturnFits ==
  ASSUME NEW o \in Service, NEW u, NEW k \in BOOLEAN, NEW s, NEW c \in BOOLEAN,
         Fit(o, u, k, s, c), o.ups > 0, u \in {"closing", "destroying", "refused"} \/ k,
         o.st \in Ended(KindOf(u))
  PROVE  /\ Unlock(Downed(o)) \in Service
         /\ Unlock(Downed(o)).st = IF o.st = "FREE" THEN "NONE" ELSE o.st
         /\ \/ Unlock(Downed(o)) = NoService
            \/ Unlock(Downed(o)).closing = o.closing /\ Unlock(Downed(o)).poll = o.poll
         /\ GivenBack(Unlock(Downed(o)))
         /\ s # "none" /\ (s = "freed" => (o.st \in {"NONE", "FREE"} \/ c))
<1>. DEFINE z == Unlock(Downed(o))
            v == Downed(o)
<1>0. z = Unlock(v)
  BY DEF Downed
<1>. USE <1>0
<1>1. /\ v \in Service /\ v.st = o.st /\ v.listens = o.listens /\ v.ups \in Nat
      /\ v.auto = o.auto /\ v.poll = o.poll /\ v.closing = o.closing
      /\ Spare(v) = Spare(o)
  BY DownFits, ServiceLifeAssumption DEF Service
<1>2. Spare(v) = 1 /\ o.auto /\ s # "none" /\ (s = "freed" => (o.st \in {"NONE", "FREE"} \/ c))
  BY <1>1, NothingFits DEF Fit, RefsFit, OwnerFit
<1>3. o.st \in {"FREE", "LISTENING", "OPEN"} /\ (o.st = "LISTENING" => o.listens)
  BY DEF Ended, KindOf, Fit, OpenerFit
<1>4. CASE o.st = "FREE"
  <2>1. z = NoService
    BY <1>1, <1>2, <1>4, UnlockFits
  <2>. QED BY <1>2, <1>3, <1>4, <2>1, NothingFits DEF GivenBack
<1>5. CASE o.st # "FREE"
  <2>1. /\ z \in Service /\ Spare(z) = 0 /\ z.st = o.st /\ z.closing = o.closing
        /\ z.listens = o.listens /\ z.poll = o.poll /\ z.auto = o.auto
    BY <1>1, <1>2, <1>3, <1>5, UnlockFits
  <2>. QED BY <1>2, <1>3, <1>5, <2>1, NothingFits DEF GivenBack
<1>. QED BY <1>4, <1>5

(* What it leaves goes with the shim service it leaves.                      *)
LEMMA EndsFits ==
  ASSUME NEW z \in Service, GivenBack(z), NEW j \in BOOLEAN, ~j,
         NEW t \in {"held", "freed"}, NEW d \in BOOLEAN, t = "freed" => z.st = "NONE" \/ d
  PROVE  Fit(z, "idle", j, t, d)
BY NothingFits DEF GivenBack, Fit, RefsFit, OpenerFit, EnderFit, OwnerFit

(* A service that is added.                                                  *)
LEMMA BeneathFits ==
  ASSUME NEW st \in {"OPENING", "LISTENING", "HIDDEN"}, NEW j \in BOOLEAN, ~j, NEW c \in BOOLEAN
  PROVE  /\ Beneath(st) \in Service /\ Beneath(st).st = st /\ Beneath(st).poll = {}
         /\ st = "OPENING" => Fit(Beneath(st), "opening", j, "held", c)
         /\ st # "OPENING" => Fit(Beneath(st), "idle", j, "held", c)
<1>. DEFINE l == st # "OPENING"
<1>1. Beneath(st) = [NoService EXCEPT !.st = st, !.refs = 1, !.listens = l] /\ l \in BOOLEAN
  BY DEF Beneath
<1>. HIDE DEF l
<1>2. /\ Beneath(st) \in Service /\ Beneath(st).st = st /\ Beneath(st).poll = {}
      /\ Beneath(st).listens = l /\ Beneath(st).auto /\ Beneath(st).refs = 1
      /\ Beneath(st).ups = 0
  <2>1. NoService.ups = 0
    BY DEF NoService
  <2>. DEFINE b == Beneath(st)
              n == NoService
  <2>2. b = [n EXCEPT !.st = st, !.refs = 1, !.listens = l] /\ l \in BOOLEAN
        /\ n \in Service /\ n.ups = 0 /\ n.poll = {} /\ n.auto
    BY <1>1, <2>1, NothingFits
  <2>. HIDE DEF b, n
  <2>3. b \in Service
    BY <2>2 DEF Service
  <2>4. /\ b.st = st /\ b.poll = {} /\ b.listens = l /\ b.auto /\ b.refs = 1 /\ b.ups = 0
    BY <2>2 DEF Service
  <2>. QED BY <2>3, <2>4 DEF b
<1>3. Spare(Beneath(st)) = 0
  BY <1>2 DEF Spare, Alive
<1>. USE DEF l
<1>. QED BY <1>2, <1>3, NothingFits DEF Fit, RefsFit, OpenerFit, EnderFit, OwnerFit

(* The service beneath, as the lemmas above take it.                         *)
LEMMA FitIs ==
  ASSUME BeneathFit, NEW h \in Shims, NEW k \in BOOLEAN, NEW c \in BOOLEAN,
         k <=> instance.now = h, c <=> h \in shimLog.closed
  PROVE  Fit(vq[h], user[h], k, shim[h], c)
BY DEF BeneathFit, Fit, RefsFit, OpenerFit, EnderFit, OwnerFit

(* A step that changes one service.                                          *)
LEMMA FitStep ==
  ASSUME BeneathFit, NEW h \in Shims, NEW k \in BOOLEAN, NEW c \in BOOLEAN,
         k <=> instance'.now = h, c <=> h \in shimLog'.closed,
         Fit(vq'[h], user'[h], k, shim'[h], c),
         \A g \in Shims \ {h} :
           /\ vq'[g] = vq[g] /\ user'[g] = user[g] /\ shim'[g] = shim[g]
           /\ instance'.now = g <=> instance.now = g
           /\ g \in shimLog'.closed <=> g \in shimLog.closed
  PROVE  BeneathFit'
<1> SUFFICES ASSUME NEW g \in Shims
             PROVE  Fit(vq'[g], user'[g], instance'.now = g, shim'[g], g \in shimLog'.closed)
  BY DEF BeneathFit
<1>1. CASE g = h
  BY <1>1 DEF Fit, RefsFit, OpenerFit, EnderFit, OwnerFit
<1>2. CASE g # h
  BY <1>2 DEF BeneathFit, Fit, RefsFit, OpenerFit, EnderFit, OwnerFit
<1>. QED BY <1>1, <1>2

(* A step that changes none.                                                 *)
LEMMA FitQuiet ==
  ASSUME BeneathFit, UNCHANGED <<vq, user, shim>>, instance'.now = instance.now,
         shimLog'.closed = shimLog.closed
  PROVE  BeneathFit'
BY DEF BeneathFit, Fit, RefsFit, OpenerFit, EnderFit, OwnerFit

(* The messages of a service that a step is not about.                       *)
LEMMA OtherMsgs ==
  ASSUME NEW g \in Shims, MsgFit(g),
         vq'[g] = vq[g], headers'[g] = headers[g], kept'[g] = kept[g],
         shim'[g] = shim[g], Pushed(g)' <=> Pushed(g),
         Pushed(g) => pushing' = pushing,
         Claims(g)' \subseteq Claims(g),
         shimLog'.again = {} => shimLog.again = {} /\ Claims(g)' = Claims(g)
  PROVE  MsgFit(g)'
<1>1. Unread(g)' <=> Unread(g)
  BY DEF Unread
<1>2. OpenOnly(g)'
  BY <1>1 DEF MsgFit, OpenOnly
<1>3. ASSUME shimLog'.again = {} PROVE FirstLife(g)'
  <2>1. FirstLife(g) /\ Claims(g)' = Claims(g)
    BY <1>3 DEF MsgFit
  <2>2. HeadersOf(g)' = HeadersOf(g)
    BY DEF HeadersOf, Pushed
  <2>3. Sorted(g) => Sorted(g)'
    BY DEF Sorted, Pushed
  <2>. QED BY <1>1, <2>1, <2>2, <2>3 DEF FirstLife, ClosingKnown, Exists
<1>. QED BY <1>2, <1>3 DEF MsgFit

(* A step that leaves the messages alone, and does not open or close.        *)
LEMMA QuietMsgs ==
  ASSUME NEW h \in Shims, MsgFit(h),
         UNCHANGED <<headers, kept, claimed, pushing>>,
         vq[h].st = "OPEN" => vq'[h].st = "OPEN",
         shim'[h] = "none" => shim[h] = "none",
         shimLog'.again = shimLog.again,
         shimLog.again = {} =>
           /\ ClosingKnown(vq'[h])
           /\ Exists(h)' /\ vq'[h].st \notin {"OPEN", "CLOSESENT"} =>
                Unread(h) \/ (Exists(h) /\ vq[h].st \notin {"OPEN", "CLOSESENT"})
           /\ vq'[h].st = "OPEN" /\ ~vq'[h].closing => vq[h].st = "OPEN" /\ ~vq[h].closing
  PROVE  MsgFit(h)'
<1>1. /\ Unread(h)' <=> Unread(h)
      /\ Pushed(h)' <=> Pushed(h)
      /\ Claims(h)' = Claims(h) /\ HeadersOf(h)' = HeadersOf(h)
      /\ Sorted(h) => Sorted(h)'
  BY DEF Unread, Pushed, Claims, HeadersOf, Sorted
<1>2. OpenOnly(h)'
  BY <1>1 DEF MsgFit, OpenOnly
<1>3. ASSUME shimLog'.again = {} PROVE FirstLife(h)'
  BY <1>1, <1>3 DEF MsgFit, FirstLife, Exists
<1>. QED BY <1>2, <1>3 DEF MsgFit

(* A service opens: it has no message yet.                                   *)
LEMMA OpeningMsgs ==
  ASSUME NEW h \in Shims, MsgFit(h),
         UNCHANGED <<headers, kept, claimed, pushing, shim>>,
         Exists(h), vq[h].st \notin {"OPEN", "CLOSESENT", "CLOSEWAIT"}, vq'[h].st = "OPEN",
         vq'[h].closing = vq[h].closing, vq'[h].poll = vq[h].poll,
         shimLog'.again = shimLog.again
  PROVE  MsgFit(h)'
<1>1. /\ Unread(h)' <=> Unread(h)
      /\ Claims(h)' = {} /\ Claims(h) = {}
  BY DEF Unread, Pushed, Claims, MsgFit, OpenOnly
<1>2. OpenOnly(h)'
  BY <1>1 DEF MsgFit, OpenOnly
<1>3. ASSUME shimLog'.again = {} PROVE FirstLife(h)'
  <2>1. ClosingKnown(vq[h]) /\ Unread(h)
    BY <1>3 DEF MsgFit, FirstLife
  <2>2. headers'[h] = <<>> /\ kept'[h] = {} /\ ~Pushed(h)'
    BY <2>1 DEF Unread, Pushed
  <2>3. HeadersOf(h)' = {}
    BY <2>2 DEF HeadersOf, Pushed
  <2>4. Sorted(h)'
    BY <2>2 DEF Sorted, Once, Elements
  <2>. QED BY <1>1, <2>1, <2>3, <2>4 DEF FirstLife, ClosingKnown, Exists
<1>. QED BY <1>2, <1>3 DEF MsgFit

(* The slot handler closes a service, and releases what it has.              *)
LEMMA ClosingMsgs ==
  ASSUME \A g \in Shims : MsgFit(g), vq \in [Shims -> Service],
         NoShim \notin Shims, claimed \in [Places -> Shims \cup {NoShim}],
         NEW h \in Shims, pushing = <<>>,
         NEW z \in Service, vq' = [vq EXCEPT ![h] = z], z.st # "OPEN",
         claimed' = IF vq[h].st = "OPEN" THEN AllReleased(h) ELSE claimed,
         UNCHANGED <<shim, headers, kept, pushing>>,
         shimLog'.again = {} =>
           /\ shimLog.again = {} /\ ClosingKnown(z)
           /\ Alive(z) /\ z.st # "CLOSESENT" =>
                Exists(h) /\ vq[h].st \notin {"OPEN", "CLOSESENT"},
         NEW g \in Shims
  PROVE  MsgFit(g)'
<1>1. \A f \in Shims : ~Pushed(f)' /\ ~Pushed(f) /\ (Unread(f)' <=> Unread(f))
  BY DEF Pushed, Unread
<1>2. CASE g # h
  <2>1. Claims(g)' = Claims(g)
    BY <1>2 DEF Claims, AllReleased
  <2>2. vq'[g] = vq[g] /\ headers'[g] = headers[g] /\ kept'[g] = kept[g] /\ shim'[g] = shim[g]
    BY <1>2
  <2>. QED BY <1>1, <2>1, <2>2, OtherMsgs
<1>3. CASE g = h
  <2>1. Claims(h)' = {}
    BY DEF Claims, AllReleased, MsgFit, OpenOnly
  <2>2. vq'[h] = z
    OBVIOUS
  <2>3. OpenOnly(h)'
    BY <1>1, <2>1 DEF MsgFit, OpenOnly
  <2>4. ASSUME shimLog'.again = {} PROVE FirstLife(h)'
    BY <1>1, <2>2, <2>4 DEF MsgFit, FirstLife, Exists, Alive
  <2>. QED BY <1>3, <2>3, <2>4 DEF MsgFit
<1>. QED BY <1>2, <1>3

(* The callback of a service that is there touches no shim service that is   *)
(* freed, but for a server left listening.                                   *)
LEMMA TouchedLog ==
  ASSUME ShimInv, NEW h \in Shims, Exists(h)
  PROVE  /\ Touched(h, shimLog) \in [closed : SUBSET Shims, used : SUBSET Shims,
                                     again : SUBSET Shims, serves : Nat]
         /\ Touched(h, shimLog).closed = shimLog.closed
         /\ Touched(h, shimLog).again = shimLog.again
         /\ Touched(h, shimLog).serves = shimLog.serves
         /\ Touched(h, shimLog).used \subseteq shimLog.closed
<1>1. shimLog \in [closed : SUBSET Shims, used : SUBSET Shims,
                   again : SUBSET Shims, serves : Nat]
  BY DEF ShimInv, ShimTypes
<1>2. shim[h] = "freed" => h \in shimLog.closed
  BY DEF ShimInv, BeneathFit, Fit, OwnerFit, Exists
<1>3. shimLog.used \subseteq shimLog.closed
  BY DEF ShimInv, ShimAlive
<1>4. CASE shim[h] = "freed"
  <2>. DEFINE p == shimLog.used \cup {h}
  <2>1. Touched(h, shimLog) = [shimLog EXCEPT !.used = p] /\ p \in SUBSET Shims
    BY <1>1, <1>4 DEF Touched
  <2>2. p \subseteq shimLog.closed
    BY <1>2, <1>3, <1>4
  <2>. HIDE DEF p
  <2>. QED BY <1>1, <2>1, <2>2
<1>5. CASE shim[h] # "freed"
  BY <1>1, <1>3, <1>5 DEF Touched
<1>. QED BY <1>4, <1>5

(* What every step starts from.                                              *)
LEMMA ShimStarts ==
  ASSUME ShimInv, NEW h \in Shims
  PROVE  /\ vq \in [Shims -> Service] /\ vq[h] \in Service
         /\ (instance.now = h) \in BOOLEAN /\ (h \in shimLog.closed) \in BOOLEAN
         /\ BeneathFit /\ MsgFit(h)
         /\ NoShim \notin Shims /\ claimed \in [Places -> Shims \cup {NoShim}]
         /\ shimLog.used \subseteq shimLog.closed
         /\ shimLog \in [closed : SUBSET Shims, used : SUBSET Shims,
                         again : SUBSET Shims, serves : Nat]
BY ShimAssumption DEF ShimInv, ShimTypes, ShimTypeOK, ShimAlive

(* A step of the slot handler that changes the service beneath.              *)
LEMMA HandlerTypesKept ==
  ASSUME ShimInv, NEW h \in Shims, NEW z \in Service, vq' = [vq EXCEPT ![h] = z],
         UNCHANGED <<instance, shim, headers, kept, pushing, user>>,
         claimed' \in [Places -> Shims \cup {NoShim}],
         shimLog' \in [closed : SUBSET Shims, used : SUBSET Shims,
                       again : SUBSET Shims, serves : Nat]
  PROVE  ShimTypes' /\ OneCaller'
<1>1. vq' \in [Shims -> Service]
  BY DEF ShimInv, ShimTypes
<1>2. OneCaller'
  BY DEF ShimInv, OneCaller, At
<1>. QED BY <1>1, <1>2 DEF ShimInv, ShimTypes, ShimTypeOK

(* What vchiq_close_service_internal changes.                                *)
LEMMA ClosesChanges ==
  ASSUME ShimInv, NEW h \in Shims, Exists(h),
         NEW v, NEW r \in BOOLEAN, NEW again, Closes(h, v, r, again), v.st = vq[h].st
  PROVE  /\ vq' = [vq EXCEPT ![h] = AfterClose(v, r, again)]
         /\ claimed' = IF vq[h].st = "OPEN" THEN AllReleased(h) ELSE claimed
         /\ UNCHANGED <<instance, shim, headers, kept, pushing, user>>
         /\ shimLog' \in [closed : SUBSET Shims, used : SUBSET Shims,
                          again : SUBSET Shims, serves : Nat]
         /\ shimLog'.closed = shimLog.closed /\ shimLog'.used \subseteq shimLog.closed
         /\ shimLog'.again = {} =>
              /\ shimLog.again = {}
              /\ ~(/\ r /\ vq[h].st \in {"OPEN", "CLOSESENT"}
                   /\ Closed(v, r).st = "LISTENING")
<1>. DEFINE tells == r /\ v.st \in {"OPEN", "CLOSESENT"}
            log == IF tells THEN Touched(h, shimLog) ELSE shimLog
            w == Closed(v, r)
<1>1. /\ vq' = [vq EXCEPT ![h] = AfterClose(v, r, again)]
      /\ claimed' = IF vq[h].st = "OPEN" THEN AllReleased(h) ELSE claimed
      /\ shimLog' = IF w.st = "LISTENING" /\ tells
                    THEN [log EXCEPT !.again = @ \cup {h}] ELSE log
      /\ UNCHANGED <<instance, shim, headers, kept, pushing, user>>
  BY DEF Closes, AfterClose
<1>2. /\ log \in [closed : SUBSET Shims, used : SUBSET Shims,
                  again : SUBSET Shims, serves : Nat]
      /\ log.closed = shimLog.closed /\ log.again = shimLog.again
      /\ log.used \subseteq shimLog.closed
  BY ShimStarts, TouchedLog
<1>. HIDE DEF log, w
<1>3. CASE w.st = "LISTENING" /\ tells
  <2>. DEFINE p == log.again \cup {h}
  <2>1. shimLog' = [log EXCEPT !.again = p] /\ p \in SUBSET Shims /\ p # {}
    BY <1>1, <1>2, <1>3
  <2>. HIDE DEF p
  <2>. QED BY <1>1, <1>2, <1>3, <2>1
<1>4. CASE ~(w.st = "LISTENING" /\ tells)
  BY <1>1, <1>2, <1>4 DEF w
<1>. QED BY <1>3, <1>4

(* The slot handler closes a service.                                        *)
LEMMA ClosesStep ==
  ASSUME ShimInv, NEW h \in Shims, pushing = <<>>,
         NEW z \in Service, vq' = [vq EXCEPT ![h] = z], z.st # "OPEN",
         NEW k \in BOOLEAN, NEW c \in BOOLEAN,
         k <=> instance.now = h, c <=> h \in shimLog.closed,
         Fit(z, user[h], k, shim[h], c),
         claimed' = IF vq[h].st = "OPEN" THEN AllReleased(h) ELSE claimed,
         UNCHANGED <<instance, shim, headers, kept, pushing, user>>,
         shimLog' \in [closed : SUBSET Shims, used : SUBSET Shims,
                       again : SUBSET Shims, serves : Nat],
         shimLog'.closed = shimLog.closed, shimLog'.used \subseteq shimLog.closed,
         shimLog'.again = {} =>
           /\ shimLog.again = {} /\ ClosingKnown(z)
           /\ Alive(z) /\ z.st # "CLOSESENT" =>
                Exists(h) /\ vq[h].st \notin {"OPEN", "CLOSESENT"}
  PROVE  ShimInv'
<1>1. claimed' \in [Places -> Shims \cup {NoShim}]
  BY ShimStarts DEF AllReleased
<1>2. ShimTypes' /\ OneCaller'
  BY <1>1, HandlerTypesKept
<1>3. BeneathFit'
  <2>1. BeneathFit /\ vq \in [Shims -> Service]
    BY ShimStarts
  <2>2. vq'[h] = z /\ user'[h] = user[h] /\ shim'[h] = shim[h]
    BY <2>1
  <2>3. k <=> instance'.now = h
    OBVIOUS
  <2>4. c <=> h \in shimLog'.closed
    OBVIOUS
  <2>5. \A g \in Shims \ {h} :
           /\ vq'[g] = vq[g] /\ user'[g] = user[g] /\ shim'[g] = shim[g]
           /\ instance'.now = g <=> instance.now = g
           /\ g \in shimLog'.closed <=> g \in shimLog.closed
    BY <2>1
  <2>6. Fit(vq'[h], user'[h], k, shim'[h], c)
    BY <2>2
  <2>. QED BY ONLY <2>1, <2>3, <2>4, <2>5, <2>6, FitStep, h \in Shims,
                   k \in BOOLEAN, c \in BOOLEAN
<1>4. ShimAlive'
  BY DEF ShimAlive
<1>5. \A g \in Shims : MsgFit(g)'
  <2>1. \A g \in Shims : MsgFit(g)
    BY DEF ShimInv
  <2>2. /\ vq \in [Shims -> Service] /\ NoShim \notin Shims
        /\ claimed \in [Places -> Shims \cup {NoShim}]
    BY ShimStarts
  <2>. QED BY <2>1, <2>2, ClosingMsgs
<1>. QED BY <1>2, <1>3, <1>4, <1>5 DEF ShimInv

(* The slot handler serves the poll flags of a service.                      *)
LEMMA ShimPollStep ==
  ASSUME ShimInv, NEW h \in Shims, ShimPoll(h)
  PROVE  ShimInv'
<1>. DEFINE o == vq[h]
            v == PolledAs(o)
            z == Polled(o)
            k == instance.now = h
            c == h \in shimLog.closed
            r == FALSE
<1>1. /\ pushing = <<>> /\ Exists(h) /\ o.poll # {}
      /\ Closes(h, v, r, PolledAgain(o)) /\ r \in BOOLEAN /\ ~r
  BY DEF ShimPoll, PolledAs, PolledAgain, PolledKind
<1>2. /\ o \in Service /\ Alive(o) /\ v.st = o.st /\ k \in BOOLEAN /\ c \in BOOLEAN
      /\ k <=> instance.now = h
      /\ c <=> h \in shimLog.closed
  BY <1>1, ShimStarts DEF Alive, Exists, Service, PolledAs
<1>3. z = AfterClose(v, r, PolledAgain(o)) /\ o = vq[h]
  BY DEF Polled
<1>. HIDE DEF k, c, r, v
<1>4. Fit(o, user[h], k, shim[h], c)
  BY <1>2, ShimStarts, FitIs
<1>5. /\ z \in Service /\ Fit(z, user[h], k, shim[h], c) /\ z.st # "OPEN"
      /\ z = NoService \/ z.closing = o.closing
      /\ Alive(z) /\ z.st # "CLOSESENT" => z.st = o.st
  BY <1>1, <1>2, <1>4, PollFits
<1>. HIDE DEF z, o
<1>6. /\ vq' = [vq EXCEPT ![h] = z]
      /\ claimed' = IF vq[h].st = "OPEN" THEN AllReleased(h) ELSE claimed
      /\ UNCHANGED <<instance, shim, headers, kept, pushing, user>>
      /\ shimLog' \in [closed : SUBSET Shims, used : SUBSET Shims,
                       again : SUBSET Shims, serves : Nat]
      /\ shimLog'.closed = shimLog.closed /\ shimLog'.used \subseteq shimLog.closed
      /\ shimLog'.again = {} => shimLog.again = {}
  <2>1. v.st = vq[h].st
    BY <1>2, <1>3
  <2>2. Exists(h) /\ Closes(h, v, r, PolledAgain(o)) /\ r \in BOOLEAN
    BY <1>1
  <2>3. vq' = [vq EXCEPT ![h] = AfterClose(v, r, PolledAgain(o))]
    BY ONLY <2>2 DEF Closes, AfterClose
  <2>6. claimed' = IF vq[h].st = "OPEN" THEN AllReleased(h) ELSE claimed
    BY ONLY <2>1, <2>2, ClosesChanges, ShimInv, h \in Shims
  <2>4. /\ UNCHANGED <<instance, shim, headers, kept, pushing, user>>
        /\ shimLog' \in [closed : SUBSET Shims, used : SUBSET Shims,
                         again : SUBSET Shims, serves : Nat]
    BY ONLY <2>1, <2>2, ClosesChanges, ShimInv, h \in Shims
  <2>5. /\ shimLog'.closed = shimLog.closed /\ shimLog'.used \subseteq shimLog.closed
        /\ shimLog'.again = {} => shimLog.again = {}
    BY ONLY <2>1, <2>2, ClosesChanges, ShimInv, h \in Shims
  <2>. QED BY <1>3, <2>3, <2>4, <2>5, <2>6
<1>7. shimLog'.again = {} =>
        /\ shimLog.again = {} /\ ClosingKnown(z)
        /\ Alive(z) /\ z.st # "CLOSESENT" =>
             Exists(h) /\ vq[h].st \notin {"OPEN", "CLOSESENT"}
  <2>1. shimLog.again = {} => o.closing
    BY <1>1, <1>3, ShimStarts DEF MsgFit, FirstLife, ClosingKnown
  <2>. QED BY <1>1, <1>3, <1>5, <1>6, <2>1, NothingFits DEF ClosingKnown
<1>. QED BY ONLY <1>1, <1>2, <1>5, <1>6, <1>7, ClosesStep, ShimInv, h \in Shims

(* The slot handler closes a service on a CLOSE of the other side.           *)
LEMMA ReceivedStep ==
  ASSUME ShimInv, NEW h \in Shims, pushing = <<>>,
         vq[h].st \in {"OPENING", "OPEN", "CLOSESENT"},
         Closes(h, Marked(vq[h]), TRUE, vq[h].poll)
  PROVE  ShimInv'
<1>. DEFINE o == vq[h]
            v == Marked(o)
            z == Received(o)
            k == instance.now = h
            c == h \in shimLog.closed
            r == TRUE
<1>1. Closes(h, v, r, o.poll) /\ r \in BOOLEAN /\ r
  OBVIOUS
<1>2. /\ o \in Service /\ Exists(h) /\ v.st = o.st /\ k \in BOOLEAN /\ c \in BOOLEAN
      /\ k <=> instance.now = h
      /\ c <=> h \in shimLog.closed
  BY ShimStarts DEF Exists, Service, Marked
<1>3. z = AfterClose(v, r, o.poll) /\ o = vq[h] /\ v.st = vq[h].st
  BY <1>2 DEF Received
<1>4. Closed(v, r) = Answered(o)
  BY DEF Answered
<1>. HIDE DEF k, c, r, v
<1>5. Fit(o, user[h], k, shim[h], c)
  BY <1>2, ShimStarts, FitIs
<1>6. /\ z \in Service /\ Fit(z, user[h], k, shim[h], c)
      /\ z.st \in {"NONE", "FREE", "LISTENING", "CLOSEWAIT"}
      /\ Answered(o).st = z.st
      /\ z = NoService \/ z.st = "LISTENING" \/ z.closing
      /\ z.st = "LISTENING" => o.st \in {"OPEN", "CLOSESENT"}
      /\ z.st = "CLOSEWAIT" => o.st = "OPENING"
  <2>1. o.st \in {"OPENING", "OPEN", "CLOSESENT"}
    OBVIOUS
  <2>2. z = Received(o)
    OBVIOUS
  <2>. HIDE DEF z, o
  <2>3. /\ Received(o) \in Service /\ Fit(Received(o), user[h], k, shim[h], c)
        /\ Received(o).st \in {"NONE", "FREE", "LISTENING", "CLOSEWAIT"}
        /\ Received(o) = NoService \/ Received(o).st = "LISTENING" \/ Received(o).closing
        /\ Received(o).st = "LISTENING" => o.st \in {"OPEN", "CLOSESENT"}
        /\ Received(o).st = "CLOSEWAIT" => o.st = "OPENING"
    BY ONLY <1>2, <1>5, <2>1, ReceivedFits
  <2>4. Answered(o).st = Received(o).st
    BY ONLY <1>2, <1>5, <2>1, ReceivedFits
  <2>. QED BY <2>2, <2>3, <2>4
<1>. HIDE DEF z, o
<1>7. vq' = [vq EXCEPT ![h] = z]
  BY ONLY <1>1, <1>3 DEF Closes, AfterClose
<1>8. claimed' = IF vq[h].st = "OPEN" THEN AllReleased(h) ELSE claimed
  BY ONLY <1>1, <1>2, <1>3, ClosesChanges, ShimInv, h \in Shims
<1>9. /\ UNCHANGED <<instance, shim, headers, kept, pushing, user>>
      /\ shimLog' \in [closed : SUBSET Shims, used : SUBSET Shims,
                       again : SUBSET Shims, serves : Nat]
      /\ shimLog'.closed = shimLog.closed /\ shimLog'.used \subseteq shimLog.closed
      /\ shimLog'.again = {} =>
           /\ shimLog.again = {}
           /\ ~(/\ r /\ vq[h].st \in {"OPEN", "CLOSESENT"}
                /\ Closed(v, r).st = "LISTENING")
  BY ONLY <1>1, <1>2, <1>3, ClosesChanges, ShimInv, h \in Shims
<1>10. shimLog'.again = {} =>
         /\ shimLog.again = {} /\ ClosingKnown(z)
         /\ Alive(z) /\ z.st # "CLOSESENT" =>
              Exists(h) /\ vq[h].st \notin {"OPEN", "CLOSESENT"}
  BY <1>1, <1>2, <1>3, <1>4, <1>6, <1>9, NothingFits DEF ClosingKnown, Alive
<1>11. z.st # "OPEN"
  BY <1>6
<1>. QED BY ONLY <1>2, <1>6, <1>7, <1>8, <1>9, <1>10, <1>11, ClosesStep, ShimInv,
                 h \in Shims, pushing = <<>>

(* What was asked for is refused, or a CLOSE answered.                       *)
LEMMA ShimClosedStep ==
  ASSUME ShimInv, NEW h \in Shims, ShimClosed(h)
  PROVE  ShimInv'
BY ReceivedStep DEF ShimClosed, Marked

(* The other side closes an open service.                                    *)
LEMMA ShimPeerClosesStep ==
  ASSUME ShimInv, NEW h \in Shims, ShimPeerCloses(h)
  PROVE  ShimInv'
BY ReceivedStep DEF ShimPeerCloses, Marked

(* The messages when the service beneath h opens.                            *)
LEMMA OpensStep ==
  ASSUME ShimInv, NEW h \in Shims, pushing = <<>>,
         Exists(h), vq[h].st \notin {"OPEN", "CLOSESENT", "CLOSEWAIT"},
         NEW z \in Service, vq' = [vq EXCEPT ![h] = z], z.st = "OPEN",
         z.closing = vq[h].closing, z.poll = vq[h].poll,
         NEW k \in BOOLEAN, NEW c \in BOOLEAN,
         k <=> instance.now = h, c <=> h \in shimLog.closed,
         Fit(z, user[h], k, shim[h], c),
         UNCHANGED <<instance, shim, headers, kept, claimed, pushing, user>>,
         shimLog' \in [closed : SUBSET Shims, used : SUBSET Shims,
                       again : SUBSET Shims, serves : Nat],
         shimLog'.closed = shimLog.closed, shimLog'.used \subseteq shimLog.closed,
         shimLog'.again = shimLog.again
  PROVE  ShimInv'
<1>1. claimed' \in [Places -> Shims \cup {NoShim}] /\ BeneathFit /\ vq \in [Shims -> Service]
  BY ShimStarts
<1>2. ShimTypes' /\ OneCaller'
  BY <1>1, HandlerTypesKept
<1>3. BeneathFit'
  <2>2. vq'[h] = z /\ user'[h] = user[h] /\ shim'[h] = shim[h]
    BY <1>1
  <2>3. k <=> instance'.now = h
    OBVIOUS
  <2>4. c <=> h \in shimLog'.closed
    OBVIOUS
  <2>5. \A g \in Shims \ {h} :
           /\ vq'[g] = vq[g] /\ user'[g] = user[g] /\ shim'[g] = shim[g]
           /\ instance'.now = g <=> instance.now = g
           /\ g \in shimLog'.closed <=> g \in shimLog.closed
    BY <1>1
  <2>6. Fit(vq'[h], user'[h], k, shim'[h], c)
    BY <2>2
  <2>. QED BY ONLY <1>1, <2>3, <2>4, <2>5, <2>6, FitStep, h \in Shims,
                   k \in BOOLEAN, c \in BOOLEAN
<1>4. ShimAlive'
  BY DEF ShimAlive
<1>5. ASSUME NEW g \in Shims PROVE MsgFit(g)'
  <2>1. MsgFit(g)
    BY DEF ShimInv
  <2>2. CASE g = h
    BY <1>1, <2>1, <2>2, OpeningMsgs
  <2>3. CASE g # h
    <3>1. vq'[g] = vq[g]
      BY <1>1, <2>3
    <3>2. /\ Claims(g)' = Claims(g)
          /\ Pushed(g)' <=> Pushed(g)
      BY DEF Claims, Pushed
    <3>. QED BY <2>1, <3>1, <3>2, OtherMsgs
  <2>. QED BY <2>2, <2>3
<1>. QED BY <1>2, <1>3, <1>4, <1>5 DEF ShimInv

(* The other side accepts an OPEN.                                           *)
LEMMA ShimAcceptedStep ==
  ASSUME ShimInv, NEW h \in Shims, ShimAccepted(h)
  PROVE  ShimInv'
<1>. DEFINE z == Up(Connects(vq[h]))
            k == instance.now = h
            c == h \in shimLog.closed
<1>1. /\ pushing = <<>> /\ vq[h].st = "OPENING" /\ Exists(h)
      /\ vq' = [vq EXCEPT ![h] = z]
      /\ UNCHANGED <<instance, shim, headers, kept, claimed, pushing, user, shimLog>>
  BY ShimStarts DEF ShimAccepted, Connects, Exists
<1>2. /\ k \in BOOLEAN /\ c \in BOOLEAN
      /\ k <=> instance.now = h
      /\ c <=> h \in shimLog.closed
  BY ShimStarts
<1>. HIDE DEF k, c
<1>3. Fit(vq[h], user[h], k, shim[h], c) /\ vq[h] \in Service
  BY <1>2, ShimStarts, FitIs
<1>4. /\ z \in Service /\ Fit(z, user[h], k, shim[h], c) /\ z.st = "OPEN"
      /\ z.closing = vq[h].closing /\ z.poll = vq[h].poll
  BY <1>1, <1>2, <1>3, AcceptedFits
<1>. HIDE DEF z
<1>5. /\ shimLog' \in [closed : SUBSET Shims, used : SUBSET Shims,
                       again : SUBSET Shims, serves : Nat]
      /\ shimLog'.closed = shimLog.closed /\ shimLog'.used \subseteq shimLog.closed
      /\ shimLog'.again = shimLog.again
  BY <1>1, ShimStarts
<1>6. vq[h].st \notin {"OPEN", "CLOSESENT", "CLOSEWAIT"}
  BY <1>1
<1>. QED BY ONLY <1>1, <1>2, <1>4, <1>5, <1>6, OpensStep, ShimInv, h \in Shims

(* It opens a service that listens.                                          *)
LEMMA ShimPeerOpensStep ==
  ASSUME ShimInv, NEW h \in Shims, ShimPeerOpens(h)
  PROVE  ShimInv'
<1>. DEFINE z == Connects(vq[h])
            k == instance.now = h
            c == h \in shimLog.closed
<1>1. /\ pushing = <<>> /\ vq[h].st = "LISTENING" /\ Exists(h)
      /\ vq' = [vq EXCEPT ![h] = z]
      /\ shimLog' = [Touched(h, shimLog) EXCEPT !.serves = @ + 1]
      /\ UNCHANGED <<instance, shim, headers, kept, claimed, pushing, user>>
  BY ShimStarts DEF ShimPeerOpens, Connects, Exists
<1>2. /\ k \in BOOLEAN /\ c \in BOOLEAN
      /\ k <=> instance.now = h
      /\ c <=> h \in shimLog.closed
  BY ShimStarts
<1>. HIDE DEF k, c
<1>3. Fit(vq[h], user[h], k, shim[h], c) /\ vq[h] \in Service
  BY <1>2, ShimStarts, FitIs
<1>4. /\ z \in Service /\ Fit(z, user[h], k, shim[h], c) /\ z.st = "OPEN"
      /\ z.closing = vq[h].closing /\ z.poll = vq[h].poll
  BY <1>1, <1>2, <1>3, OpenedFits
<1>. HIDE DEF z
<1>5. /\ shimLog' \in [closed : SUBSET Shims, used : SUBSET Shims,
                       again : SUBSET Shims, serves : Nat]
      /\ shimLog'.closed = shimLog.closed /\ shimLog'.used \subseteq shimLog.closed
      /\ shimLog'.again = shimLog.again
  <2>. DEFINE t == Touched(h, shimLog)
              n == t.serves + 1
  <2>1. /\ t \in [closed : SUBSET Shims, used : SUBSET Shims,
                  again : SUBSET Shims, serves : Nat]
        /\ t.closed = shimLog.closed /\ t.again = shimLog.again
        /\ t.used \subseteq shimLog.closed
    BY <1>1, TouchedLog
  <2>2. shimLog' = [t EXCEPT !.serves = n]
    BY <1>1
  <2>3. n \in Nat
    BY <2>1
  <2>. HIDE DEF n, t
  <2>. QED BY <2>1, <2>2, <2>3
<1>6. vq[h].st \notin {"OPEN", "CLOSESENT", "CLOSEWAIT"}
  BY <1>1
<1>. QED BY ONLY <1>1, <1>2, <1>4, <1>5, <1>6, OpensStep, ShimInv, h \in Shims

(* A header is taken from the front of a queue.                              *)
LEMMA TailOf ==
  ASSUME NEW q \in Seq(Places), q # <<>>
  PROVE  /\ Tail(q) \in Seq(Places) /\ Head(q) \in Places /\ Len(Tail(q)) <= Len(q)
         /\ Elements(q) = Elements(Tail(q)) \cup {Head(q)}
         /\ Once(q) => Once(Tail(q)) /\ Head(q) \notin Elements(Tail(q))
<1>1. /\ Tail(q) \in Seq(Places) /\ Head(q) \in Places /\ Len(Tail(q)) = Len(q) - 1
      /\ Len(q) \in Nat /\ Len(q) >= 1 /\ Head(q) = q[1] /\ 1 \in DOMAIN q
      /\ DOMAIN q = 1 .. Len(q) /\ DOMAIN Tail(q) = 1 .. Len(q) - 1
  OBVIOUS
<1>2. \A i \in DOMAIN Tail(q) : Tail(q)[i] = q[i + 1] /\ i + 1 \in DOMAIN q /\ i + 1 # 1
  BY <1>1
<1>3. \A i \in DOMAIN q : i = 1 \/ (i - 1 \in DOMAIN Tail(q) /\ q[i] = Tail(q)[i - 1])
  BY <1>1
<1>4. Elements(q) \subseteq Elements(Tail(q)) \cup {Head(q)}
  BY <1>1, <1>3 DEF Elements
<1>5. Elements(Tail(q)) \cup {Head(q)} \subseteq Elements(q)
  BY <1>1, <1>2 DEF Elements
<1>6. ASSUME Once(q) PROVE Once(Tail(q)) /\ Head(q) \notin Elements(Tail(q))
  <2>1. Head(q) \notin Elements(Tail(q))
    BY <1>1, <1>2, <1>6 DEF Elements, Once
  <2>2. ASSUME NEW i \in DOMAIN Tail(q), NEW j \in DOMAIN Tail(q), Tail(q)[i] = Tail(q)[j]
        PROVE  i = j
    <3>1. i + 1 = j + 1
      BY <1>2, <1>6, <2>2 DEF Once
    <3>. QED BY <1>1, <3>1
  <2>. QED BY <2>1, <2>2 DEF Once
<1>. QED BY <1>1, <1>4, <1>5, <1>6

(* A header is put at the end of a queue.                                    *)
LEMMA AppendOf ==
  ASSUME NEW q \in Seq(Places), NEW p \in Places
  PROVE  /\ Append(q, p) \in Seq(Places) /\ Append(q, p) # <<>>
         /\ Len(Append(q, p)) = Len(q) + 1 /\ Len(q) \in Nat
         /\ Elements(Append(q, p)) = Elements(q) \cup {p}
         /\ Once(q) /\ p \notin Elements(q) => Once(Append(q, p))
<1>. DEFINE s == Append(q, p)
<1>1. /\ s \in Seq(Places) /\ Len(s) = Len(q) + 1 /\ Len(q) \in Nat
      /\ DOMAIN q = 1 .. Len(q) /\ DOMAIN s = 1 .. Len(q) + 1
      /\ s[Len(q) + 1] = p
      /\ \A i \in 1 .. Len(q) : s[i] = q[i]
  OBVIOUS
<1>. HIDE DEF s
<1>2. \A i \in DOMAIN s : i = Len(q) + 1 \/ (i \in DOMAIN q /\ s[i] = q[i])
  BY <1>1
<1>3. \A i \in DOMAIN q : i \in DOMAIN s /\ s[i] = q[i]
  BY <1>1
<1>4. Len(q) + 1 \in DOMAIN s
  BY <1>1
<1>5. Elements(s) = Elements(q) \cup {p}
  BY <1>1, <1>2, <1>3, <1>4 DEF Elements
<1>6. Once(q) /\ p \notin Elements(q) => Once(s)
  BY <1>1, <1>2 DEF Elements, Once
<1>7. s # <<>>
  BY <1>1
<1>. QED BY <1>1, <1>5, <1>6, <1>7 DEF s

(* The headers of h, by where they are.                                      *)
LEMMA HeadersAre ==
  ASSUME NEW h
  PROVE  HeadersOf(h) = Elements(headers[h]) \cup kept[h]
                        \cup (IF Pushed(h) THEN {pushing[2]} ELSE {})
BY DEF HeadersOf, Elements, Pushed

(* A step about messages only.                                               *)
LEMMA MessageStep ==
  ASSUME ShimInv, UNCHANGED <<instance, shim, vq, user>>,
         headers' \in [Shims -> Seq(Places)],
         \A h \in Shims : Len(headers'[h]) <= HeaderQueue,
         kept' \in [Shims -> SUBSET Places],
         claimed' \in [Places -> Shims \cup {NoShim}],
         pushing' = <<>> \/ pushing' \in Shims \X Places,
         shimLog' \in [closed : SUBSET Shims, used : SUBSET Shims,
                       again : SUBSET Shims, serves : Nat],
         shimLog'.closed = shimLog.closed, shimLog'.used \subseteq shimLog.closed,
         \A h \in Shims : MsgFit(h)'
  PROVE  ShimInv'
<1>1. ShimTypes'
  BY DEF ShimInv, ShimTypes, ShimTypeOK
<1>2. OneCaller'
  BY DEF ShimInv, OneCaller, At
<1>3. BeneathFit'
  BY FitQuiet DEF ShimInv
<1>. QED BY <1>1, <1>2, <1>3 DEF ShimInv, ShimAlive

(* The messages of the service that a step about messages is about.          *)
LEMMA OwnMsgs ==
  ASSUME NEW h \in Shims, MsgFit(h), vq'[h] = vq[h], shim'[h] = shim[h],
         shimLog'.again = shimLog.again,
         Claims(h)' # {} \/ Pushed(h)' => vq[h].st = "OPEN",
         Unread(h) => \/ Unread(h)'
                      \/ vq[h].st = "OPEN" /\ shim[h] # "none" /\ h \in Readers,
         shimLog.again = {} /\ vq[h].st = "OPEN" /\ ~vq[h].closing =>
           Claims(h)' = HeadersOf(h)' /\ Sorted(h)'
  PROVE  MsgFit(h)'
<1>1. OpenOnly(h)'
  BY DEF MsgFit, OpenOnly
<1>2. ASSUME shimLog'.again = {} PROVE FirstLife(h)'
  BY <1>2 DEF MsgFit, FirstLife, Exists
<1>. QED BY <1>1, <1>2 DEF MsgFit

(* What an open service and its messages are like.                           *)
LEMMA OpenIs ==
  ASSUME ShimInv, NEW h \in Shims, vq[h].st = "OPEN"
  PROVE  Exists(h) /\ shim[h] # "none"
<1>1. Exists(h)
  BY DEF Exists
<1>2. shim[h] # "none"
  BY NothingFits DEF ShimInv, BeneathFit, Fit, OwnerFit
<1>. QED BY <1>1, <1>2

(* What is released for a service that may release is its own.               *)
LEMMA ReleasedFits ==
  ASSUME ShimInv, NEW h \in Shims, NEW p \in HeadersOf(h), p \in Places,
         claimed' = Released1(h, p)
  PROVE  /\ claimed' \in [Places -> Shims \cup {NoShim}]
         /\ Claims(h)' \subseteq Claims(h)
         /\ \A g \in Shims \ {h} : /\ Claims(g)' \subseteq Claims(g)
                                   /\ shimLog.again = {} => Claims(g)' = Claims(g)
         /\ vq[h].st = "OPEN" /\ ~vq[h].closing => Claims(h)' = Claims(h) \ {p}
<1>1. /\ claimed \in [Places -> Shims \cup {NoShim}] /\ NoShim \notin Shims /\ MsgFit(h)
  BY ShimStarts
<1>2. CASE ~MayRelease(h)
  <2>1. claimed' = claimed
    BY <1>2 DEF Released1
  <2>2. ~(vq[h].st = "OPEN" /\ ~vq[h].closing)
    BY <1>2 DEF MayRelease, Exists
  <2>. QED BY <1>1, <2>1, <2>2 DEF Claims
<1>3. CASE MayRelease(h)
  <2>1. claimed' = [claimed EXCEPT ![p] = NoShim]
    BY <1>3 DEF Released1
  <2>2. /\ claimed' \in [Places -> Shims \cup {NoShim}]
        /\ \A g \in Shims : Claims(g)' = Claims(g) \ {p}
    BY <1>1, <2>1 DEF Claims
  <2>3. ASSUME shimLog.again = {} PROVE claimed[p] = h
    <3>1. FirstLife(h) /\ ~Unread(h) /\ Exists(h) /\ ~vq[h].closing
      BY <1>1, <1>3, <2>3, HeadersAre DEF MsgFit, Unread, MayRelease, Elements
    <3>2. vq[h].st = "OPEN"
      BY <3>1 DEF FirstLife, ClosingKnown
    <3>3. p \in Claims(h)
      BY <3>1, <3>2 DEF FirstLife
    <3>. QED BY <3>3 DEF Claims
  <2>4. \A g \in Shims \ {h} : shimLog.again = {} => p \notin Claims(g)
    BY <2>3 DEF Claims
  <2>. QED BY <2>2, <2>4
<1>. QED BY <1>2, <1>3

(* The thread of a service takes a header from its queue, and releases it.   *)
LEMMA DequeueStep ==
  ASSUME ShimInv, NEW h \in Shims, Dequeue(h)
  PROVE  ShimInv'
<1>. DEFINE q == headers[h]
            p == Head(q)
<1>1. /\ q # <<>> /\ headers' = [headers EXCEPT ![h] = Tail(q)]
      /\ claimed' = Released1(h, p)
      /\ UNCHANGED <<instance, shim, vq, kept, pushing, user, shimLog>>
  BY DEF Dequeue, Reads
<1>2. /\ headers \in [Shims -> Seq(Places)] /\ kept \in [Shims -> SUBSET Places]
      /\ \A g \in Shims : Len(headers[g]) <= HeaderQueue /\ MsgFit(g)
      /\ pushing = <<>> \/ pushing \in Shims \X Places
      /\ q \in Seq(Places)
  BY DEF ShimInv, ShimTypes, ShimTypeOK
<1>3. /\ Tail(q) \in Seq(Places) /\ p \in Places /\ Len(Tail(q)) <= Len(q)
      /\ Elements(q) = Elements(Tail(q)) \cup {p}
      /\ Once(q) => Once(Tail(q)) /\ p \notin Elements(Tail(q))
  BY <1>1, <1>2, TailOf
<1>4. p \in HeadersOf(h)
  BY <1>3, HeadersAre
<1>. HIDE DEF p
<1>5. /\ claimed' \in [Places -> Shims \cup {NoShim}]
      /\ Claims(h)' \subseteq Claims(h)
      /\ \A g \in Shims \ {h} : /\ Claims(g)' \subseteq Claims(g)
                                /\ shimLog.again = {} => Claims(g)' = Claims(g)
      /\ vq[h].st = "OPEN" /\ ~vq[h].closing => Claims(h)' = Claims(h) \ {p}
  BY <1>1, <1>3, <1>4, ReleasedFits
<1>6. headers' \in [Shims -> Seq(Places)] /\ headers'[h] = Tail(q)
  BY <1>1, <1>2, <1>3
<1>7. \A g \in Shims : Len(headers'[g]) <= HeaderQueue
  <2>1. Len(Tail(q)) \in Nat /\ Len(q) \in Nat /\ HeaderQueue \in Nat /\ Len(q) <= HeaderQueue
    BY <1>2, <1>3, ShimAssumption
  <2>2. Len(Tail(q)) <= HeaderQueue
    BY <1>3, <2>1
  <2>. QED BY <1>1, <1>2, <2>2
<1>8. \A g \in Shims : Pushed(g)' <=> Pushed(g)
  BY <1>1 DEF Pushed
<1>9. ASSUME NEW g \in Shims PROVE MsgFit(g)'
  <2>1. CASE g # h
    BY <1>1, <1>2, <1>5, <1>8, <2>1, OtherMsgs
  <2>2. CASE g = h
    <3>1. ~Unread(h)
      BY <1>1 DEF Unread
    <3>2. Claims(h)' # {} \/ Pushed(h)' => vq[h].st = "OPEN"
      BY <1>2, <1>5, <1>8 DEF MsgFit, OpenOnly
    <3>3. ASSUME shimLog.again = {}, vq[h].st = "OPEN", ~vq[h].closing
          PROVE  Claims(h)' = HeadersOf(h)' /\ Sorted(h)'
      <4>1. Claims(h) = HeadersOf(h) /\ Sorted(h)
        BY <1>2, <3>3 DEF MsgFit, FirstLife
      <4>2. Sorted(h)'
        BY <1>1, <1>3, <1>6, <1>8, <4>1 DEF Sorted
      <4>3. HeadersOf(h)' = Elements(Tail(q)) \cup kept[h]
                            \cup (IF Pushed(h) THEN {pushing[2]} ELSE {})
        BY <1>1, <1>6, <1>8 DEF HeadersOf, Elements, Pushed
      <4>4. HeadersOf(h) = Elements(q) \cup kept[h]
                            \cup (IF Pushed(h) THEN {pushing[2]} ELSE {})
        BY HeadersAre
      <4>. QED BY <1>3, <1>5, <3>3, <4>1, <4>2, <4>3, <4>4 DEF Sorted
    <3>. QED BY <1>1, <1>2, <2>2, <3>1, <3>2, <3>3, OwnMsgs
  <2>. QED BY <2>1, <2>2
<1>10. /\ shimLog' \in [closed : SUBSET Shims, used : SUBSET Shims,
                        again : SUBSET Shims, serves : Nat]
       /\ shimLog'.closed = shimLog.closed /\ shimLog'.used \subseteq shimLog.closed
  BY <1>1, ShimStarts
<1>11. kept' \in [Shims -> SUBSET Places] /\ (pushing' = <<>> \/ pushing' \in Shims \X Places)
  BY <1>1, <1>2
<1>. QED BY <1>1, <1>5, <1>6, <1>7, <1>9, <1>10, <1>11, MessageStep

(* The thread of a service takes a header from its queue, and keeps it.      *)
LEMMA HoldStep ==
  ASSUME ShimInv, NEW h \in Shims, Hold(h)
  PROVE  ShimInv'
<1>. DEFINE q == headers[h]
            p == Head(q)
<1>1. /\ q # <<>> /\ headers' = [headers EXCEPT ![h] = Tail(q)]
      /\ kept' = [kept EXCEPT ![h] = @ \cup {p}]
      /\ UNCHANGED <<instance, shim, vq, claimed, pushing, user, shimLog>>
  BY DEF Hold, Reads
<1>2. /\ headers \in [Shims -> Seq(Places)] /\ kept \in [Shims -> SUBSET Places]
      /\ \A g \in Shims : Len(headers[g]) <= HeaderQueue /\ MsgFit(g)
      /\ pushing = <<>> \/ pushing \in Shims \X Places
      /\ q \in Seq(Places)
  BY DEF ShimInv, ShimTypes, ShimTypeOK
<1>3. /\ Tail(q) \in Seq(Places) /\ p \in Places /\ Len(Tail(q)) <= Len(q)
      /\ Elements(q) = Elements(Tail(q)) \cup {p}
      /\ Once(q) => Once(Tail(q)) /\ p \notin Elements(Tail(q))
  BY <1>1, <1>2, TailOf
<1>. HIDE DEF p
<1>4. headers' \in [Shims -> Seq(Places)] /\ headers'[h] = Tail(q)
  BY <1>1, <1>2, <1>3
<1>5. kept' \in [Shims -> SUBSET Places] /\ kept'[h] = kept[h] \cup {p}
  BY <1>1, <1>2, <1>3
<1>6. \A g \in Shims : Len(headers'[g]) <= HeaderQueue
  <2>1. Len(Tail(q)) \in Nat /\ Len(q) \in Nat /\ HeaderQueue \in Nat /\ Len(q) <= HeaderQueue
    BY <1>2, <1>3, ShimAssumption
  <2>2. Len(Tail(q)) <= HeaderQueue
    BY <1>3, <2>1
  <2>. QED BY <1>1, <1>2, <2>2
<1>7. \A g \in Shims : (Pushed(g)' <=> Pushed(g)) /\ Claims(g)' = Claims(g)
  BY <1>1 DEF Pushed, Claims
<1>8. ASSUME NEW g \in Shims PROVE MsgFit(g)'
  <2>1. CASE g # h
    BY <1>1, <1>2, <1>7, <2>1, OtherMsgs
  <2>2. CASE g = h
    <3>1. ~Unread(h)
      BY <1>1 DEF Unread
    <3>2. Claims(h)' # {} \/ Pushed(h)' => vq[h].st = "OPEN"
      BY <1>2, <1>7 DEF MsgFit, OpenOnly
    <3>3. ASSUME shimLog.again = {}, vq[h].st = "OPEN", ~vq[h].closing
          PROVE  Claims(h)' = HeadersOf(h)' /\ Sorted(h)'
      <4>1. Claims(h) = HeadersOf(h) /\ Sorted(h)
        BY <1>2, <3>3 DEF MsgFit, FirstLife
      <4>2. Sorted(h)'
        BY <1>1, <1>3, <1>4, <1>5, <1>7, <4>1 DEF Sorted
      <4>3. HeadersOf(h)' = Elements(Tail(q)) \cup (kept[h] \cup {p})
                            \cup (IF Pushed(h) THEN {pushing[2]} ELSE {})
        BY <1>1, <1>4, <1>5, <1>7 DEF HeadersOf, Elements, Pushed
      <4>4. HeadersOf(h) = Elements(q) \cup kept[h]
                            \cup (IF Pushed(h) THEN {pushing[2]} ELSE {})
        BY HeadersAre
      <4>. QED BY <1>3, <1>7, <4>1, <4>2, <4>3, <4>4
    <3>. QED BY <1>1, <1>2, <2>2, <3>1, <3>2, <3>3, OwnMsgs
  <2>. QED BY <2>1, <2>2
<1>9. /\ shimLog' \in [closed : SUBSET Shims, used : SUBSET Shims,
                        again : SUBSET Shims, serves : Nat]
       /\ shimLog'.closed = shimLog.closed /\ shimLog'.used \subseteq shimLog.closed
       /\ claimed' \in [Places -> Shims \cup {NoShim}]
  BY <1>1, ShimStarts
<1>10. pushing' = <<>> \/ pushing' \in Shims \X Places
  BY <1>1, <1>2
<1>. QED BY <1>1, <1>4, <1>5, <1>6, <1>8, <1>9, <1>10, MessageStep

(* It releases one that it kept.                                             *)
LEMMA HeldReleaseStep ==
  ASSUME ShimInv, NEW h \in Shims, HeldRelease(h)
  PROVE  ShimInv'
<1>1. PICK p \in kept[h] : /\ kept' = [kept EXCEPT ![h] = @ \ {p}]
                           /\ claimed' = Released1(h, p)
  BY DEF HeldRelease
<1>2. UNCHANGED <<instance, shim, vq, headers, pushing, user, shimLog>>
  BY DEF HeldRelease
<1>3. /\ headers \in [Shims -> Seq(Places)] /\ kept \in [Shims -> SUBSET Places]
      /\ \A g \in Shims : Len(headers[g]) <= HeaderQueue /\ MsgFit(g)
      /\ pushing = <<>> \/ pushing \in Shims \X Places
      /\ p \in Places
  BY DEF ShimInv, ShimTypes, ShimTypeOK
<1>4. p \in HeadersOf(h)
  BY <1>3, HeadersAre
<1>5. /\ claimed' \in [Places -> Shims \cup {NoShim}]
      /\ Claims(h)' \subseteq Claims(h)
      /\ \A g \in Shims \ {h} : /\ Claims(g)' \subseteq Claims(g)
                                /\ shimLog.again = {} => Claims(g)' = Claims(g)
      /\ vq[h].st = "OPEN" /\ ~vq[h].closing => Claims(h)' = Claims(h) \ {p}
  BY <1>1, <1>3, <1>4, ReleasedFits
<1>6. kept' \in [Shims -> SUBSET Places] /\ kept'[h] = kept[h] \ {p}
  BY <1>1, <1>3
<1>7. \A g \in Shims : Pushed(g)' <=> Pushed(g)
  BY <1>2 DEF Pushed
<1>8. ASSUME NEW g \in Shims PROVE MsgFit(g)'
  <2>1. CASE g # h
    BY <1>1, <1>2, <1>3, <1>5, <1>7, <2>1, OtherMsgs
  <2>2. CASE g = h
    <3>1. ~Unread(h)
      BY <1>1 DEF Unread
    <3>2. Claims(h)' # {} \/ Pushed(h)' => vq[h].st = "OPEN"
      BY <1>3, <1>5, <1>7 DEF MsgFit, OpenOnly
    <3>3. ASSUME shimLog.again = {}, vq[h].st = "OPEN", ~vq[h].closing
          PROVE  Claims(h)' = HeadersOf(h)' /\ Sorted(h)'
      <4>1. Claims(h) = HeadersOf(h) /\ Sorted(h)
        BY <1>3, <3>3 DEF MsgFit, FirstLife
      <4>2. Sorted(h)'
        BY <1>2, <1>6, <1>7, <4>1 DEF Sorted
      <4>3. HeadersOf(h)' = Elements(headers[h]) \cup (kept[h] \ {p})
                            \cup (IF Pushed(h) THEN {pushing[2]} ELSE {})
        BY <1>2, <1>6, <1>7 DEF HeadersOf, Elements, Pushed
      <4>4. HeadersOf(h) = Elements(headers[h]) \cup kept[h]
                            \cup (IF Pushed(h) THEN {pushing[2]} ELSE {})
        BY HeadersAre
      <4>5. p \notin Elements(headers[h]) /\ (Pushed(h) => pushing[2] # p)
        BY <1>1, <4>1 DEF Sorted
      <4>. QED BY <1>1, <1>5, <3>3, <4>1, <4>2, <4>3, <4>4, <4>5
    <3>. QED BY <1>2, <1>3, <2>2, <3>1, <3>2, <3>3, OwnMsgs
  <2>. QED BY <2>1, <2>2
<1>9. /\ shimLog' \in [closed : SUBSET Shims, used : SUBSET Shims,
                        again : SUBSET Shims, serves : Nat]
       /\ shimLog'.closed = shimLog.closed /\ shimLog'.used \subseteq shimLog.closed
  BY <1>2, ShimStarts
<1>10. /\ pushing' = <<>> \/ pushing' \in Shims \X Places
       /\ headers' \in [Shims -> Seq(Places)]
       /\ \A g \in Shims : Len(headers'[g]) <= HeaderQueue
  BY <1>2, <1>3
<1>. QED BY <1>2, <1>5, <1>6, <1>8, <1>9, <1>10, MessageStep

(* A message arrives, or one that waited goes on: the header is put into the *)
(* queue.                                                                    *)
LEMMA QueuedFits ==
  ASSUME ShimInv, NEW h \in Shims, NEW p \in Places, Len(headers[h]) < HeaderQueue,
         headers' = [headers EXCEPT ![h] = Append(@, p)]
  PROVE  /\ headers' \in [Shims -> Seq(Places)]
         /\ \A g \in Shims : Len(headers'[g]) <= HeaderQueue
         /\ headers'[h] # <<>>
         /\ Elements(headers'[h]) = Elements(headers[h]) \cup {p}
         /\ Once(headers[h]) /\ p \notin Elements(headers[h]) => Once(headers'[h])
         /\ \A g \in Shims \ {h} : headers'[g] = headers[g]
<1>. DEFINE q == headers[h]
            s == Append(q, p)
<1>1. /\ headers \in [Shims -> Seq(Places)]
      /\ \A g \in Shims : Len(headers[g]) <= HeaderQueue
      /\ q \in Seq(Places)
  BY DEF ShimInv, ShimTypes, ShimTypeOK
<1>2. /\ s \in Seq(Places) /\ s # <<>>
      /\ Len(s) = Len(q) + 1 /\ Len(q) \in Nat
      /\ Elements(s) = Elements(q) \cup {p}
      /\ Once(q) /\ p \notin Elements(q) => Once(s)
  BY <1>1, AppendOf
<1>3. headers' = [headers EXCEPT ![h] = s]
  OBVIOUS
<1>. HIDE DEF s
<1>4. Len(s) <= HeaderQueue
  BY <1>2, ShimAssumption
<1>. QED BY <1>1, <1>2, <1>3, <1>4

(* The slot handler goes on with a message that waited for the queue.        *)
LEMMA PushGoesOnStep ==
  ASSUME ShimInv, PushGoesOn
  PROVE  ShimInv'
<1>0. PICK h \in Shims, p \in Places : pushing = <<h, p>>
  BY DEF PushGoesOn, ShimInv, ShimTypes, ShimTypeOK
<1>1. /\ Len(headers[h]) < HeaderQueue
      /\ headers' = [headers EXCEPT ![h] = Append(@, p)]
      /\ shimLog' = Touched(h, shimLog)
      /\ pushing' = <<>>
      /\ UNCHANGED <<instance, shim, vq, kept, claimed, user>>
  BY <1>0 DEF PushGoesOn
<1>2. /\ kept \in [Shims -> SUBSET Places]
      /\ \A g \in Shims : MsgFit(g)
      /\ \A g \in Shims : Pushed(g) <=> g = h
      /\ pushing[2] = p
      /\ claimed \in [Places -> Shims \cup {NoShim}]
  BY <1>0 DEF ShimInv, ShimTypes, ShimTypeOK, Pushed
<1>3. vq[h].st = "OPEN" /\ h \in Readers /\ shim[h] # "none" /\ Exists(h)
  BY <1>2 DEF MsgFit, OpenOnly, Unread, Exists
<1>4. /\ shimLog' \in [closed : SUBSET Shims, used : SUBSET Shims,
                       again : SUBSET Shims, serves : Nat]
      /\ shimLog'.closed = shimLog.closed /\ shimLog'.used \subseteq shimLog.closed
      /\ shimLog'.again = shimLog.again
  BY <1>1, <1>2, <1>3, TouchedLog
<1>5. /\ headers' \in [Shims -> Seq(Places)]
      /\ \A g \in Shims : Len(headers'[g]) <= HeaderQueue
      /\ Elements(headers'[h]) = Elements(headers[h]) \cup {p}
      /\ Once(headers[h]) /\ p \notin Elements(headers[h]) => Once(headers'[h])
      /\ \A g \in Shims \ {h} : headers'[g] = headers[g]
  BY <1>1, <1>2, QueuedFits
<1>6. \A g \in Shims : ~Pushed(g)' /\ Claims(g)' = Claims(g)
  BY <1>1 DEF Pushed, Claims
<1>7. ASSUME NEW g \in Shims PROVE MsgFit(g)'
  <2>1. CASE g # h
    BY <1>1, <1>2, <1>4, <1>5, <1>6, <2>1, OtherMsgs
  <2>2. CASE g = h
    <3>1. ASSUME shimLog.again = {}, ~vq[h].closing
          PROVE  Claims(h)' = HeadersOf(h)' /\ Sorted(h)'
      <4>1. Claims(h) = HeadersOf(h) /\ Sorted(h)
        BY <1>2, <1>3, <3>1 DEF MsgFit, FirstLife
      <4>2. p \notin Elements(headers[h]) \cup kept[h]
        BY <1>2, <4>1 DEF Sorted
      <4>3. Sorted(h)'
        BY <1>1, <1>5, <1>6, <4>1, <4>2 DEF Sorted
      <4>4. HeadersOf(h)' = Elements(headers'[h]) \cup kept[h]
        BY <1>1 DEF HeadersOf, Elements
      <4>5. HeadersOf(h) = Elements(headers[h]) \cup kept[h] \cup {p}
        BY <1>2, HeadersAre
      <4>. QED BY <1>5, <1>6, <4>1, <4>3, <4>4, <4>5
    <3>. QED BY <1>1, <1>2, <1>3, <1>4, <2>2, <3>1, OwnMsgs
  <2>. QED BY <2>1, <2>2
<1>8. claimed' \in [Places -> Shims \cup {NoShim}] /\ kept' \in [Shims -> SUBSET Places]
  BY <1>1, <1>2
<1>. QED BY <1>1, <1>4, <1>5, <1>7, <1>8, MessageStep

(* A message arrives for an open service.                                    *)
LEMMA ShimMessageStep ==
  ASSUME ShimInv, NEW h \in Shims, ShimMessage(h)
  PROVE  ShimInv'
<1>1. /\ pushing = <<>> /\ vq[h].st = "OPEN"
      /\ shimLog' = Touched(h, shimLog)
      /\ UNCHANGED <<instance, shim, vq, kept, user>>
  BY DEF ShimMessage
<1>2. PICK p \in Places :
        /\ claimed[p] = NoShim
        /\ CASE h \notin Readers ->
                  /\ claimed' = IF MayRelease(h) THEN claimed
                                ELSE [claimed EXCEPT ![p] = h]
                  /\ UNCHANGED <<headers, pushing>>
             [] h \in Readers /\ Len(headers[h]) < HeaderQueue ->
                  /\ claimed' = [claimed EXCEPT ![p] = h]
                  /\ headers' = [headers EXCEPT ![h] = Append(@, p)]
                  /\ UNCHANGED pushing
             [] OTHER ->
                  /\ claimed' = [claimed EXCEPT ![p] = h]
                  /\ pushing' = <<h, p>>
                  /\ UNCHANGED headers
  BY DEF ShimMessage
<1>3. /\ headers \in [Shims -> Seq(Places)] /\ kept \in [Shims -> SUBSET Places]
      /\ \A g \in Shims : Len(headers[g]) <= HeaderQueue /\ MsgFit(g) /\ ~Pushed(g)
      /\ claimed \in [Places -> Shims \cup {NoShim}] /\ NoShim \notin Shims
  BY <1>1, ShimAssumption DEF ShimInv, ShimTypes, ShimTypeOK, Pushed
<1>4. Exists(h) /\ shim[h] # "none"
  BY <1>1, OpenIs
<1>5. /\ shimLog' \in [closed : SUBSET Shims, used : SUBSET Shims,
                       again : SUBSET Shims, serves : Nat]
      /\ shimLog'.closed = shimLog.closed /\ shimLog'.used \subseteq shimLog.closed
      /\ shimLog'.again = shimLog.again
  BY <1>1, <1>4, TouchedLog
<1>6. kept' \in [Shims -> SUBSET Places]
  BY <1>1, <1>3
<1>7. p \notin Claims(h)
  BY <1>2, <1>3 DEF Claims
<1>8. ASSUME shimLog.again = {}, ~vq[h].closing
      PROVE  /\ Claims(h) = HeadersOf(h) /\ Sorted(h)
             /\ HeadersOf(h) = Elements(headers[h]) \cup kept[h]
             /\ p \notin Elements(headers[h]) \cup kept[h]
  <2>1. Claims(h) = HeadersOf(h) /\ Sorted(h)
    BY <1>1, <1>3, <1>8 DEF MsgFit, FirstLife
  <2>2. HeadersOf(h) = Elements(headers[h]) \cup kept[h]
    BY <1>3, HeadersAre
  <2>. QED BY <1>7, <2>1, <2>2
<1>9. ASSUME claimed' = [claimed EXCEPT ![p] = h]
      PROVE  /\ claimed' \in [Places -> Shims \cup {NoShim}]
             /\ Claims(h)' = Claims(h) \cup {p}
             /\ \A g \in Shims \ {h} : Claims(g)' = Claims(g)
  BY <1>2, <1>3, <1>9 DEF Claims
<1>10. CASE h \notin Readers
  <2>1. UNCHANGED <<headers, pushing>>
    BY <1>2, <1>10
  <2>2. /\ claimed' \in [Places -> Shims \cup {NoShim}]
        /\ \A g \in Shims \ {h} : Claims(g)' = Claims(g)
        /\ ~vq[h].closing => Claims(h)' = Claims(h)
    <3>1. CASE MayRelease(h)
      BY <1>2, <1>3, <1>10, <3>1 DEF Claims
    <3>2. CASE ~MayRelease(h)
      BY <1>2, <1>4, <1>9, <1>10, <3>2 DEF MayRelease
    <3>. QED BY <3>1, <3>2
  <2>3. \A g \in Shims : ~Pushed(g)' /\ (Unread(g) => Unread(g)')
    BY <1>1, <1>3, <2>1 DEF Pushed, Unread
  <2>4. ASSUME NEW g \in Shims PROVE MsgFit(g)'
    <3>1. CASE g # h
      BY <1>1, <1>3, <1>5, <2>1, <2>2, <2>3, <3>1, OtherMsgs
    <3>2. CASE g = h
      <4>1. ASSUME shimLog.again = {}, ~vq[h].closing
            PROVE  Claims(h)' = HeadersOf(h)' /\ Sorted(h)'
        <5>1. HeadersOf(h)' = HeadersOf(h) /\ Sorted(h)'
          BY <1>1, <1>8, <2>1, <2>3, <4>1 DEF HeadersOf, Sorted
        <5>. QED BY <1>8, <2>2, <4>1, <5>1
      <4>. QED BY <1>1, <1>3, <1>5, <2>3, <3>2, <4>1, OwnMsgs
    <3>. QED BY <3>1, <3>2
  <2>5. /\ headers' \in [Shims -> Seq(Places)]
        /\ \A g \in Shims : Len(headers'[g]) <= HeaderQueue
        /\ pushing' = <<>>
    BY <1>1, <1>3, <2>1
  <2>. QED BY <1>1, <1>5, <1>6, <2>2, <2>4, <2>5, MessageStep
<1>11. CASE h \in Readers /\ Len(headers[h]) < HeaderQueue
  <2>1. /\ claimed' = [claimed EXCEPT ![p] = h]
        /\ headers' = [headers EXCEPT ![h] = Append(@, p)]
        /\ UNCHANGED pushing
    BY <1>2, <1>11
  <2>2. /\ headers' \in [Shims -> Seq(Places)]
        /\ \A g \in Shims : Len(headers'[g]) <= HeaderQueue
        /\ Elements(headers'[h]) = Elements(headers[h]) \cup {p}
        /\ Once(headers[h]) /\ p \notin Elements(headers[h]) => Once(headers'[h])
        /\ \A g \in Shims \ {h} : headers'[g] = headers[g]
    BY <1>11, <2>1, QueuedFits
  <2>3. \A g \in Shims : ~Pushed(g)'
    BY <1>1, <2>1 DEF Pushed
  <2>4. ASSUME NEW g \in Shims PROVE MsgFit(g)'
    <3>1. CASE g # h
      BY <1>1, <1>3, <1>5, <1>9, <2>1, <2>2, <2>3, <3>1, OtherMsgs
    <3>2. CASE g = h
      <4>1. ASSUME shimLog.again = {}, ~vq[h].closing
            PROVE  Claims(h)' = HeadersOf(h)' /\ Sorted(h)'
        <5>1. Sorted(h)'
          BY <1>1, <1>8, <2>2, <2>3, <4>1 DEF Sorted
        <5>2. HeadersOf(h)' = Elements(headers'[h]) \cup kept[h]
          BY <1>1, <2>1 DEF HeadersOf, Elements
        <5>. QED BY <1>8, <1>9, <2>1, <2>2, <4>1, <5>1, <5>2
      <4>. QED BY <1>1, <1>3, <1>4, <1>5, <1>11, <2>3, <3>2, <4>1, OwnMsgs
    <3>. QED BY <3>1, <3>2
  <2>5. pushing' = <<>>
    BY <1>1, <2>1
  <2>. QED BY <1>1, <1>5, <1>6, <1>9, <2>1, <2>2, <2>4, <2>5, MessageStep
<1>12. CASE h \in Readers /\ ~(Len(headers[h]) < HeaderQueue)
  <2>1. /\ claimed' = [claimed EXCEPT ![p] = h]
        /\ pushing' = <<h, p>>
        /\ UNCHANGED headers
    BY <1>2, <1>12
  <2>2. /\ headers' \in [Shims -> Seq(Places)]
        /\ \A g \in Shims : Len(headers'[g]) <= HeaderQueue
        /\ pushing' \in Shims \X Places
    BY <1>3, <2>1
  <2>3. /\ \A g \in Shims \ {h} : ~Pushed(g)'
        /\ Pushed(h)' /\ pushing'[2] = p
    BY <2>1 DEF Pushed
  <2>4. ASSUME NEW g \in Shims PROVE MsgFit(g)'
    <3>1. CASE g # h
      BY <1>1, <1>3, <1>5, <1>9, <2>1, <2>3, <3>1, OtherMsgs
    <3>2. CASE g = h
      <4>1. ASSUME shimLog.again = {}, ~vq[h].closing
            PROVE  Claims(h)' = HeadersOf(h)' /\ Sorted(h)'
        <5>1. Sorted(h)'
          BY <1>1, <1>8, <2>1, <2>3, <4>1 DEF Sorted
        <5>2. HeadersOf(h)' = Elements(headers[h]) \cup kept[h] \cup {p}
          BY <1>1, <2>1, <2>3 DEF HeadersOf, Elements, Pushed
        <5>. QED BY <1>8, <1>9, <2>1, <4>1, <5>1, <5>2
      <4>. QED BY <1>1, <1>3, <1>4, <1>5, <1>12, <2>3, <3>2, <4>1, OwnMsgs
    <3>. QED BY <3>1, <3>2
  <2>. QED BY <1>1, <1>5, <1>6, <1>9, <2>1, <2>2, <2>4, MessageStep
<1>. QED BY <1>10, <1>11, <1>12

(* A step of the instance that leaves the services alone.                    *)
LEMMA InstanceStep ==
  ASSUME ShimInv, UNCHANGED <<shim, vq, headers, kept, claimed, pushing, user, shimLog>>,
         instance' \in [st : {"none", "initialised", "connected", "shutting", "shut"},
                        left : SUBSET Shims, now : Shims \cup {NoShim}],
         instance'.now = instance.now, OneCaller'
  PROVE  ShimInv'
<1>1. ShimTypes'
  BY DEF ShimInv, ShimTypes, ShimTypeOK
<1>2. BeneathFit'
  BY FitQuiet DEF ShimInv
<1>3. ASSUME NEW g \in Shims PROVE MsgFit(g)'
  <2>1. MsgFit(g)
    BY DEF ShimInv
  <2>2. (Pushed(g)' <=> Pushed(g)) /\ Claims(g)' = Claims(g)
    BY DEF Pushed, Claims
  <2>. QED BY <2>1, <2>2, OtherMsgs
<1>. QED BY <1>1, <1>2, <1>3 DEF ShimInv, ShimAlive

(* A step of a thread, which changes the service beneath h at most.          *)
LEMMA ThreadStep ==
  ASSUME ShimInv, NEW h \in Shims, vq' \in [Shims -> Service],
         NEW k \in BOOLEAN, NEW c \in BOOLEAN,
         k <=> instance'.now = h, c <=> h \in shimLog'.closed,
         Fit(vq'[h], user'[h], k, shim'[h], c),
         instance' \in [st : {"none", "initialised", "connected", "shutting", "shut"},
                        left : SUBSET Shims, now : Shims \cup {NoShim}],
         shim' \in [Shims -> {"none", "held", "freed"}],
         user' \in [Shims -> {"idle", "opening", "refused", "closing", "destroying"}],
         headers' = headers \/ headers' = [headers EXCEPT ![h] = <<>>],
         \A g \in Shims \ {h} :
           /\ vq'[g] = vq[g] /\ user'[g] = user[g] /\ shim'[g] = shim[g]
           /\ instance'.now = g <=> instance.now = g
           /\ g \in shimLog'.closed <=> g \in shimLog.closed,
         UNCHANGED <<kept, claimed, pushing>>,
         shimLog' \in [closed : SUBSET Shims, used : SUBSET Shims,
                       again : SUBSET Shims, serves : Nat],
         shimLog.closed \subseteq shimLog'.closed,
         shimLog'.used = shimLog.used, shimLog'.again = shimLog.again,
         OneCaller', MsgFit(h)'
  PROVE  ShimInv'
<1>1. /\ vq \in [Shims -> Service] /\ BeneathFit /\ shimLog.used \subseteq shimLog.closed
      /\ headers \in [Shims -> Seq(Places)]
      /\ \A g \in Shims : Len(headers[g]) <= HeaderQueue
  BY ShimStarts DEF ShimInv, ShimTypes, ShimTypeOK
<1>2. /\ headers' \in [Shims -> Seq(Places)]
      /\ \A g \in Shims : Len(headers'[g]) <= HeaderQueue
      /\ \A g \in Shims \ {h} : headers'[g] = headers[g]
  <2>1. CASE headers' = headers
    BY <1>1, <2>1
  <2>2. CASE headers' = [headers EXCEPT ![h] = <<>>]
    <3>. DEFINE e == <<>>
    <3>1. e \in Seq(Places) /\ Len(e) <= HeaderQueue
      BY ShimAssumption
    <3>2. headers' = [headers EXCEPT ![h] = e]
      BY <2>2
    <3>. HIDE DEF e
    <3>. QED BY <1>1, <3>1, <3>2
  <2>. QED BY <2>1, <2>2
<1>3. ShimTypes'
  <2>1. \A g \in Shims : headers'[g] \in Seq(Places)
    BY <1>2
  <2>2. /\ claimed' \in [Places -> Shims \cup {NoShim}]
        /\ pushing' = <<>> \/ pushing' \in Shims \X Places
        /\ kept' \in [Shims -> SUBSET Places]
        /\ \A g \in Shims : kept'[g] \subseteq Places
    BY DEF ShimInv, ShimTypes, ShimTypeOK
  <2>. QED BY <1>2, <2>1, <2>2 DEF ShimTypes, ShimTypeOK
<1>4. BeneathFit'
  <2>1. \A g \in Shims \ {h} :
           /\ vq'[g] = vq[g] /\ user'[g] = user[g] /\ shim'[g] = shim[g]
           /\ instance'.now = g <=> instance.now = g
           /\ g \in shimLog'.closed <=> g \in shimLog.closed
    OBVIOUS
  <2>2. Fit(vq'[h], user'[h], k, shim'[h], c)
    OBVIOUS
  <2>. QED BY ONLY <1>1, <2>1, <2>2, FitStep, h \in Shims, k \in BOOLEAN, c \in BOOLEAN,
                   k <=> instance'.now = h, c <=> h \in shimLog'.closed
<1>5. ShimAlive'
  BY <1>1 DEF ShimAlive
<1>6. ASSUME NEW g \in Shims PROVE MsgFit(g)'
  <2>1. CASE g # h
    <3>1. MsgFit(g)
      BY DEF ShimInv
    <3>2. (Pushed(g)' <=> Pushed(g)) /\ Claims(g)' = Claims(g)
      BY DEF Pushed, Claims
    <3>3. /\ vq'[g] = vq[g] /\ shim'[g] = shim[g] /\ headers'[g] = headers[g]
          /\ kept'[g] = kept[g] /\ pushing' = pushing /\ shimLog'.again = shimLog.again
      BY <1>2, <2>1
    <3>. QED BY ONLY <3>1, <3>2, <3>3, OtherMsgs, g \in Shims
  <2>2. CASE g = h
    BY <2>2
  <2>. QED BY <2>1, <2>2
<1>. QED BY <1>3, <1>4, <1>5, <1>6 DEF ShimInv

(* vchi_initialise and the ends of vchi_disconnect.                          *)
LEMMA InitialiseStep ==
  ASSUME ShimInv, Initialise
  PROVE  ShimInv'
<1>1. /\ instance' \in [st : {"none", "initialised", "connected", "shutting", "shut"},
                        left : SUBSET Shims, now : Shims \cup {NoShim}]
      /\ instance'.now = instance.now /\ instance.st = "none"
      /\ instance'.st = "initialised"
      /\ UNCHANGED <<shim, vq, headers, kept, claimed, pushing, user, shimLog>>
  BY DEF Initialise, ShimInv, ShimTypes, ShimTypeOK
<1>2. OneCaller'
  BY <1>1 DEF ShimInv, OneCaller
<1>. QED BY <1>1, <1>2, InstanceStep

(* vchi_disconnect begins when no thread is in a call.                       *)
LEMMA DisconnectStep ==
  ASSUME ShimInv, Disconnect
  PROVE  ShimInv'
<1>1. /\ instance' \in [st : {"none", "initialised", "connected", "shutting", "shut"},
                        left : SUBSET Shims, now : Shims \cup {NoShim}]
      /\ instance'.now = NoShim /\ instance.st = "connected"
      /\ instance'.st = "shutting" /\ AllIdle
      /\ UNCHANGED <<shim, vq, headers, kept, claimed, pushing, user, shimLog>>
  BY DEF Disconnect, ShimInv, ShimTypes, ShimTypeOK
<1>2. instance.now = NoShim
  BY <1>1 DEF ShimInv, OneCaller
<1>3. OneCaller'
  BY <1>1 DEF OneCaller, AllIdle, At
<1>. QED BY <1>1, <1>2, <1>3, InstanceStep

(* It is done with every service.                                            *)
LEMMA DisconnectedStep ==
  ASSUME ShimInv, Disconnected
  PROVE  ShimInv'
<1>1. /\ instance' \in [st : {"none", "initialised", "connected", "shutting", "shut"},
                        left : SUBSET Shims, now : Shims \cup {NoShim}]
      /\ instance'.now = instance.now /\ instance.now = NoShim
      /\ instance'.st = "shut"
      /\ UNCHANGED <<shim, vq, headers, kept, claimed, pushing, user, shimLog>>
  BY DEF Disconnected, ShimInv, ShimTypes, ShimTypeOK
<1>2. OneCaller'
  BY <1>1 DEF OneCaller
<1>. QED BY <1>1, <1>2, InstanceStep

(* vchi_connect shows the hidden services.                                   *)
LEMMA VchiConnectStep ==
  ASSUME ShimInv, VchiConnect
  PROVE  ShimInv'
<1>1. /\ instance' \in [st : {"none", "initialised", "connected", "shutting", "shut"},
                        left : SUBSET Shims, now : Shims \cup {NoShim}]
      /\ instance'.now = instance.now /\ instance.st = "initialised"
      /\ instance'.st = "connected" /\ AllIdle
      /\ vq' = [h \in Shims |-> IF vq[h].st = "HIDDEN" THEN Shown(vq[h]) ELSE vq[h]]
      /\ UNCHANGED <<shim, headers, kept, claimed, pushing, user, shimLog>>
  BY DEF VchiConnect, Shown, ShimInv, ShimTypes, ShimTypeOK
<1>2. instance.now = NoShim /\ NoShim \notin Shims
  BY <1>1, ShimAssumption DEF ShimInv, OneCaller
<1>3. OneCaller'
  BY <1>1, <1>2 DEF OneCaller
<1>4. ASSUME NEW h \in Shims
      PROVE  /\ vq'[h] \in Service /\ MsgFit(h)'
             /\ Fit(vq'[h], user'[h], instance'.now = h, shim'[h], h \in shimLog'.closed)
  <2>. DEFINE o == vq[h]
              z == Shown(o)
              k == instance.now = h
              c == h \in shimLog.closed
  <2>1. /\ o \in Service /\ k \in BOOLEAN /\ c \in BOOLEAN /\ ~k /\ MsgFit(h)
        /\ k <=> instance.now = h
        /\ c <=> h \in shimLog.closed
        /\ BeneathFit /\ user[h] = "idle"
    BY <1>1, <1>2, ShimStarts DEF AllIdle, At
  <2>2. k <=> instance'.now = h
    BY <1>1
  <2>3. c <=> h \in shimLog'.closed
    BY <1>1
  <2>4. vq'[h] = IF o.st = "HIDDEN" THEN z ELSE o
    BY <1>1
  <2>. HIDE DEF k, c
  <2>5. Fit(o, user[h], k, shim[h], c)
    BY ONLY <2>1, FitIs, h \in Shims
  <2>6. Fit(o, "idle", k, shim[h], c)
    BY <2>1, <2>5
  <2>7. o.st = "HIDDEN" => /\ z \in Service /\ Fit(z, "idle", k, shim[h], c)
                           /\ z.st = "LISTENING" /\ z.closing = o.closing /\ z.poll = o.poll
    BY ONLY <2>1, <2>6, ShownFits
  <2>. HIDE DEF z
  <2>8. Fit(vq'[h], user'[h], k, shim'[h], c) /\ vq'[h] \in Service
    BY <1>1, <2>1, <2>4, <2>6, <2>7
  <2>9. Fit(vq'[h], user'[h], instance'.now = h, shim'[h], h \in shimLog'.closed)
    BY <2>2, <2>3, <2>8 DEF Fit, RefsFit, OpenerFit, EnderFit, OwnerFit
  <2>10. MsgFit(h)'
    <3>1. shimLog.again = {} =>
           /\ ClosingKnown(vq'[h])
           /\ Exists(h)' /\ vq'[h].st \notin {"OPEN", "CLOSESENT"} =>
                Unread(h) \/ (Exists(h) /\ vq[h].st \notin {"OPEN", "CLOSESENT"})
           /\ vq'[h].st = "OPEN" /\ ~vq'[h].closing => vq[h].st = "OPEN" /\ ~vq[h].closing
      BY <2>1, <2>4, <2>7 DEF MsgFit, FirstLife, ClosingKnown, Exists
    <3>2. vq[h].st = "OPEN" => vq'[h].st = "OPEN"
      BY <2>4
    <3>. QED BY <1>1, <2>1, <3>1, <3>2, QuietMsgs
  <2>. QED BY <2>8, <2>9, <2>10
<1>5. vq' \in [Shims -> Service]
  BY <1>1, <1>4
<1>6. BeneathFit'
  BY <1>4 DEF BeneathFit
<1>7. ShimTypes'
  BY <1>1, <1>5 DEF ShimInv, ShimTypes, ShimTypeOK
<1>. QED BY <1>1, <1>3, <1>4, <1>6, <1>7 DEF ShimInv, ShimAlive

(* vchi_disconnect goes on to the next service, and has it removed.          *)
LEMMA DisconnectNextStep ==
  ASSUME ShimInv, DisconnectNext
  PROVE  ShimInv'
<1>1. /\ instance.st = "shutting" /\ instance.now = NoShim
      /\ UNCHANGED <<shim, headers, kept, claimed, pushing, user, shimLog>>
  BY DEF DisconnectNext
<1>2. PICK h \in instance.left :
        IF Exists(h)
        THEN /\ vq' = [vq EXCEPT ![h].refs = @ + 1, ![h].closing = TRUE,
                                 ![h].poll = @ \cup {"REMOVE"}]
             /\ instance' = [instance EXCEPT !.left = @ \ {h}, !.now = h]
        ELSE instance' = [instance EXCEPT !.left = @ \ {h}] /\ UNCHANGED vq
  BY DEF DisconnectNext
<1>3. /\ instance \in [st : {"none", "initialised", "connected", "shutting", "shut"},
                       left : SUBSET Shims, now : Shims \cup {NoShim}]
      /\ shim \in [Shims -> {"none", "held", "freed"}]
      /\ user \in [Shims -> {"idle", "opening", "refused", "closing", "destroying"}]
      /\ \A g \in Shims : user[g] = "idle"
      /\ h \in Shims
  BY <1>1 DEF ShimInv, ShimTypes, ShimTypeOK, OneCaller, At
<1>. DEFINE o == vq[h]
            z == Asked(o, "REMOVE")
            j == instance.now = h
            k == instance'.now = h
            c == h \in shimLog.closed
            left == instance.left \ {h}
<1>4. /\ o \in Service /\ j \in BOOLEAN /\ c \in BOOLEAN /\ k \in BOOLEAN /\ ~j
      /\ BeneathFit /\ NoShim \notin Shims /\ MsgFit(h) /\ left \in SUBSET Shims
      /\ vq \in [Shims -> Service]
      /\ j <=> instance.now = h
      /\ c <=> h \in shimLog.closed
      /\ k <=> instance'.now = h
  BY <1>1, <1>3, ShimStarts
<1>5. c <=> h \in shimLog'.closed
  BY <1>1
<1>6. CASE ~Exists(h)
  <2>1. instance' = [instance EXCEPT !.left = left] /\ UNCHANGED vq
    BY <1>2, <1>6
  <2>. HIDE DEF left
  <2>2. /\ instance' \in [st : {"none", "initialised", "connected", "shutting", "shut"},
                          left : SUBSET Shims, now : Shims \cup {NoShim}]
        /\ instance'.now = instance.now
    BY <1>3, <1>4, <2>1
  <2>3. OneCaller'
    BY <1>1, <1>3, <2>2 DEF OneCaller, At
  <2>. QED BY <1>1, <2>1, <2>2, <2>3, InstanceStep
<1>7. CASE Exists(h)
  <2>1. instance' = [instance EXCEPT !.left = left, !.now = h]
    BY <1>2, <1>7
  <2>2. vq' = [vq EXCEPT ![h] = z]
    BY <1>2, <1>4, <1>7 DEF Asked
  <2>. HIDE DEF left
  <2>3. /\ instance' \in [st : {"none", "initialised", "connected", "shutting", "shut"},
                          left : SUBSET Shims, now : Shims \cup {NoShim}]
        /\ instance'.now = h /\ instance'.st = "shutting"
    BY <1>1, <1>3, <1>4, <2>1
  <2>4. k
    BY <2>3
  <2>. HIDE DEF k, c, j
  <2>5. Fit(o, "idle", j, shim[h], c) /\ Alive(o)
    <3>1. Fit(o, user[h], j, shim[h], c)
      BY ONLY <1>3, <1>4, FitIs
    <3>. QED BY <1>3, <1>7, <3>1 DEF Alive, Exists
  <2>6. /\ z \in Service /\ Fit(z, "idle", k, shim[h], c) /\ z.st = o.st /\ z.closing
    <3>1. /\ o \in Service /\ k \in BOOLEAN /\ j \in BOOLEAN /\ c \in BOOLEAN
          /\ ~j /\ k
      BY <1>4, <2>4
    <3>2. z = Asked(o, "REMOVE")
      OBVIOUS
    <3>. HIDE DEF o, z
    <3>. QED BY ONLY <2>5, <3>1, <3>2, AskFits
  <2>. HIDE DEF z
  <2>13. vq'[h] = z /\ vq' \in [Shims -> Service]
    BY <1>3, <1>4, <2>2, <2>6
  <2>7. Fit(vq'[h], user'[h], k, shim'[h], c)
    BY <1>1, <1>3, <2>6, <2>13
  <2>8. OneCaller'
    BY <1>1, <1>3, <2>3 DEF OneCaller, At
  <2>9. MsgFit(h)'
    <3>2. z.st = vq[h].st /\ z.closing
      BY <2>6
    <3>3. ClosingKnown(z)
      BY <3>2 DEF ClosingKnown
    <3>. QED BY <1>1, <1>3, <1>4, <2>13, <3>2, <3>3, QuietMsgs DEF Exists
  <2>10. \A g \in Shims \ {h} :
           /\ vq'[g] = vq[g] /\ user'[g] = user[g] /\ shim'[g] = shim[g]
           /\ instance'.now = g <=> instance.now = g
           /\ g \in shimLog'.closed <=> g \in shimLog.closed
    BY <1>1, <1>4, <2>2, <2>3
  <2>11. /\ headers' = headers /\ UNCHANGED <<kept, claimed, pushing>>
         /\ shim' \in [Shims -> {"none", "held", "freed"}]
         /\ user' \in [Shims -> {"idle", "opening", "refused", "closing", "destroying"}]
    BY <1>1, <1>3
  <2>12. /\ shimLog' \in [closed : SUBSET Shims, used : SUBSET Shims,
                          again : SUBSET Shims, serves : Nat]
         /\ shimLog.closed \subseteq shimLog'.closed
         /\ shimLog'.used = shimLog.used /\ shimLog'.again = shimLog.again
    BY <1>1, <1>3, ShimStarts
  <2>14. k \in BOOLEAN /\ c \in BOOLEAN /\ (k <=> instance'.now = h)
    BY <1>4
  <2>15. instance' \in [st : {"none", "initialised", "connected", "shutting", "shut"},
                        left : SUBSET Shims, now : Shims \cup {NoShim}]
    BY <2>3
  <2>16. h \in Shims
    BY <1>3
  <2>. QED BY ONLY ShimInv, <2>16, <1>5, <2>7, <2>8, <2>9, <2>10, <2>11, <2>12,
                   <2>13, <2>14, <2>15, ThreadStep
<1>. QED BY <1>6, <1>7

(* A wait for remove_event that goes on, or ends: the messages stay.         *)
LEMMA WokenMsgs ==
  ASSUME NEW h \in Shims, MsgFit(h), UNCHANGED <<headers, kept, claimed, pushing>>,
         shim'[h] = "none" => shim[h] = "none", shimLog'.again = shimLog.again,
         vq'[h].st = IF vq[h].st = "FREE" THEN "NONE" ELSE vq[h].st,
         \/ vq'[h] = NoService
         \/ vq'[h].closing = vq[h].closing /\ vq'[h].poll = vq[h].poll
  PROVE  MsgFit(h)'
<1>1. shimLog.again = {} =>
        /\ ClosingKnown(vq'[h])
        /\ Exists(h)' /\ vq'[h].st \notin {"OPEN", "CLOSESENT"} =>
             Unread(h) \/ (Exists(h) /\ vq[h].st \notin {"OPEN", "CLOSESENT"})
        /\ vq'[h].st = "OPEN" /\ ~vq'[h].closing => vq[h].st = "OPEN" /\ ~vq[h].closing
  BY NothingFits DEF MsgFit, FirstLife, ClosingKnown, Exists
<1>2. vq[h].st = "OPEN" => vq'[h].st = "OPEN"
  OBVIOUS
<1>. QED BY <1>1, <1>2, QuietMsgs

(* vchi_disconnect is woken.                                                 *)
LEMMA DisconnectWokenStep ==
  ASSUME ShimInv, DisconnectWoken
  PROVE  ShimInv'
<1>1. PICK h \in Shims : h = instance.now
  BY DEF DisconnectWoken, ShimInv, ShimTypes, ShimTypeOK
<1>2. /\ vq[h].ups > 0
      /\ IF vq[h].st \in Ended("REMOVE")
         THEN /\ vq' = [vq EXCEPT ![h] = Unlock(Downed(vq[h]))]
              /\ instance' = [instance EXCEPT !.now = NoShim]
         ELSE vq' = [vq EXCEPT ![h] = Downed(vq[h])] /\ UNCHANGED instance
      /\ UNCHANGED <<shim, headers, kept, claimed, pushing, user, shimLog>>
  <2>1. vq[h] \in Service
    BY ShimStarts
  <2>2. [vq[h] EXCEPT !.ups = @ - 1].st = vq[h].st
    BY <2>1 DEF Service
  <2>. QED BY <1>1, <2>2 DEF DisconnectWoken, Downed
<1>3. /\ instance \in [st : {"none", "initialised", "connected", "shutting", "shut"},
                       left : SUBSET Shims, now : Shims \cup {NoShim}]
      /\ shim \in [Shims -> {"none", "held", "freed"}]
      /\ user \in [Shims -> {"idle", "opening", "refused", "closing", "destroying"}]
      /\ instance.st = "shutting" /\ \A g \in Shims : user[g] = "idle"
  BY <1>1, ShimAssumption DEF ShimInv, ShimTypes, ShimTypeOK, OneCaller, At
<1>. DEFINE o == vq[h]
            k == instance.now = h
            j == instance'.now = h
            c == h \in shimLog.closed
            u == user[h]
<1>4. /\ o \in Service /\ k \in BOOLEAN /\ j \in BOOLEAN /\ c \in BOOLEAN /\ k
      /\ BeneathFit /\ NoShim \notin Shims /\ MsgFit(h)
      /\ vq \in [Shims -> Service] /\ u = "idle"
      /\ k <=> instance.now = h
      /\ c <=> h \in shimLog.closed
      /\ j <=> instance'.now = h
  BY <1>1, <1>3, ShimStarts
<1>5. c <=> h \in shimLog'.closed
  BY <1>2
<1>. HIDE DEF k, c
<1>6. Fit(o, u, k, shim[h], c) /\ o.ups > 0
  BY <1>2, <1>4, FitIs
<1>7. /\ headers' = headers /\ UNCHANGED <<kept, claimed, pushing>>
      /\ shim' \in [Shims -> {"none", "held", "freed"}]
      /\ user' \in [Shims -> {"idle", "opening", "refused", "closing", "destroying"}]
  BY <1>2, <1>3
<1>8. /\ shimLog' \in [closed : SUBSET Shims, used : SUBSET Shims,
                       again : SUBSET Shims, serves : Nat]
      /\ shimLog.closed \subseteq shimLog'.closed
      /\ shimLog'.used = shimLog.used /\ shimLog'.again = shimLog.again
  BY <1>2, <1>3, ShimStarts
<1>9. CASE vq[h].st \in Ended("REMOVE")
  <2>. DEFINE z == Unlock(Downed(o))
  <2>1. vq' = [vq EXCEPT ![h] = z] /\ instance' = [instance EXCEPT !.now = NoShim]
    BY <1>2, <1>9
  <2>2. /\ instance' \in [st : {"none", "initialised", "connected", "shutting", "shut"},
                          left : SUBSET Shims, now : Shims \cup {NoShim}]
        /\ instance'.now = NoShim /\ instance'.st = "shutting" /\ ~j
    BY <1>3, <1>4, <2>1
  <2>. HIDE DEF j
  <2>3. o.st \in Ended(KindOf(u))
    BY <1>4, <1>9 DEF KindOf
  <2>4. /\ z \in Service /\ Fit(z, "idle", j, shim[h], c)
        /\ z.st = IF o.st = "FREE" THEN "NONE" ELSE o.st
        /\ \/ z = NoService
           \/ z.closing = o.closing /\ z.poll = o.poll
    <3>1. /\ z \in Service /\ GivenBack(z)
          /\ z.st = IF o.st = "FREE" THEN "NONE" ELSE o.st
          /\ \/ z = NoService
             \/ z.closing = o.closing /\ z.poll = o.poll
          /\ shim[h] # "none" /\ (shim[h] = "freed" => (o.st \in {"NONE", "FREE"} \/ c))
      <4>1. z = Unlock(Downed(o)) /\ o \in Service /\ k \in BOOLEAN /\ c \in BOOLEAN /\ k
        BY <1>4
      <4>. HIDE DEF z, o, u
      <4>. QED BY ONLY <1>6, <2>3, <4>1, ReturnFits
    <3>2. shim[h] \in {"held", "freed"} /\ (shim[h] = "freed" => z.st = "NONE" \/ c)
      BY <1>3, <3>1, NothingFits
    <3>3. Fit(z, "idle", j, shim[h], c)
      <4>1. j \in BOOLEAN /\ ~j /\ c \in BOOLEAN
        BY <1>4, <2>2
      <4>. HIDE DEF z
      <4>. QED BY ONLY <3>1, <3>2, <4>1, EndsFits
    <3>. QED BY <3>1, <3>3
  <2>. HIDE DEF z
  <2>5. vq'[h] = z /\ vq' \in [Shims -> Service]
    BY <1>4, <2>1, <2>4
  <2>6. MsgFit(h)'
    BY <1>2, <1>4, <2>4, <2>5, WokenMsgs
  <2>7. Fit(vq'[h], user'[h], j, shim'[h], c)
    BY <1>2, <1>4, <2>4, <2>5
  <2>8. OneCaller'
    BY <1>2, <1>3, <2>2 DEF OneCaller, At
  <2>9. \A g \in Shims \ {h} :
           /\ vq'[g] = vq[g] /\ user'[g] = user[g] /\ shim'[g] = shim[g]
           /\ instance'.now = g <=> instance.now = g
           /\ g \in shimLog'.closed <=> g \in shimLog.closed
    BY <1>1, <1>2, <1>4, <2>1, <2>2
  <2>. QED BY ONLY ShimInv, h \in Shims, <1>4, <1>5, <1>7, <1>8, <2>2, <2>5, <2>6, <2>7, <2>8, <2>9,
                   ThreadStep
<1>10. CASE vq[h].st \notin Ended("REMOVE")
  <2>. DEFINE z == Downed(o)
  <2>1. vq' = [vq EXCEPT ![h] = z] /\ UNCHANGED instance
    BY <1>2, <1>10
  <2>2. k <=> instance'.now = h
    BY <1>4, <2>1
  <2>3. o.st \notin Ended(KindOf(u))
    BY <1>4, <1>10 DEF KindOf
  <2>4. /\ z \in Service /\ Fit(z, u, k, shim[h], c) /\ z.st = o.st
        /\ z.closing = o.closing /\ z.poll = o.poll
    <3>1. o \in Service /\ k \in BOOLEAN /\ c \in BOOLEAN /\ k
      BY <1>4
    <3>2. z = Downed(o)
      OBVIOUS
    <3>. HIDE DEF o, z, u
    <3>. QED BY ONLY <1>6, <2>3, <3>1, <3>2, WaitsOnFits
  <2>. HIDE DEF z
  <2>5. vq'[h] = z /\ vq' \in [Shims -> Service]
    BY <1>4, <2>1, <2>4
  <2>6. o.st # "FREE"
    BY <1>10 DEF Ended
  <2>7. MsgFit(h)'
    BY <1>2, <1>4, <2>4, <2>5, <2>6, WokenMsgs
  <2>8. Fit(vq'[h], user'[h], k, shim'[h], c)
    BY <1>2, <2>4, <2>5
  <2>9. OneCaller'
    BY <1>2, <1>3, <2>1 DEF OneCaller, At
  <2>10. \A g \in Shims \ {h} :
           /\ vq'[g] = vq[g] /\ user'[g] = user[g] /\ shim'[g] = shim[g]
           /\ instance'.now = g <=> instance.now = g
           /\ g \in shimLog'.closed <=> g \in shimLog.closed
    BY <1>2, <2>1
  <2>11. instance' \in [st : {"none", "initialised", "connected", "shutting", "shut"},
                        left : SUBSET Shims, now : Shims \cup {NoShim}]
    BY <1>3, <2>1
  <2>12. k \in BOOLEAN /\ c \in BOOLEAN
    BY <1>4
  <2>. QED BY ONLY ShimInv, h \in Shims, <1>5, <1>7, <1>8, <2>2, <2>5, <2>7, <2>8, <2>9,
                   <2>10, <2>11, <2>12, ThreadStep
<1>. QED BY <1>9, <1>10

(* What a step of a thread starts from.                                      *)
LEMMA ThreadStarts ==
  ASSUME ShimInv, NEW h \in Shims
  PROVE  /\ instance \in [st : {"none", "initialised", "connected", "shutting", "shut"},
                          left : SUBSET Shims, now : Shims \cup {NoShim}]
         /\ shim \in [Shims -> {"none", "held", "freed"}]
         /\ user \in [Shims -> {"idle", "opening", "refused", "closing", "destroying"}]
         /\ instance.st # "shutting" => instance.now # h
         /\ user[h] # "idle" => instance.st # "shutting"
         /\ shim[h] = "none" => vq[h] = NoService /\ user[h] = "idle" /\ Unread(h)
<1>1. shim[h] = "none" => vq[h] = NoService /\ user[h] = "idle"
  BY DEF ShimInv, BeneathFit, Fit, OwnerFit
<1>2. shim[h] = "none" => Unread(h)
  BY DEF ShimInv, MsgFit, OpenOnly
<1>. QED BY <1>1, <1>2, ShimAssumption DEF ShimInv, ShimTypes, ShimTypeOK, OneCaller, At

(* A call on a VCHI service goes on: only its thread, the shim service and   *)
(* the service beneath change.                                               *)
LEMMA CallStep ==
  ASSUME ShimInv, NEW h \in Shims, instance.st # "shutting",
         UNCHANGED <<instance, headers, kept, claimed, pushing, shimLog>>,
         vq' \in [Shims -> Service],
         shim' \in [Shims -> {"none", "held", "freed"}],
         user' \in [Shims -> {"idle", "opening", "refused", "closing", "destroying"}],
         \A g \in Shims \ {h} :
           vq'[g] = vq[g] /\ user'[g] = user[g] /\ shim'[g] = shim[g],
         NEW k \in BOOLEAN, NEW c \in BOOLEAN,
         k <=> instance.now = h, c <=> h \in shimLog.closed,
         Fit(vq'[h], user'[h], k, shim'[h], c), MsgFit(h)'
  PROVE  ShimInv'
<1>1. k <=> instance'.now = h
  OBVIOUS
<1>2. c <=> h \in shimLog'.closed
  OBVIOUS
<1>3. instance' \in [st : {"none", "initialised", "connected", "shutting", "shut"},
                     left : SUBSET Shims, now : Shims \cup {NoShim}]
  BY ThreadStarts
<1>4. \A g \in Shims \ {h} :
        /\ vq'[g] = vq[g] /\ user'[g] = user[g] /\ shim'[g] = shim[g]
        /\ instance'.now = g <=> instance.now = g
        /\ g \in shimLog'.closed <=> g \in shimLog.closed
  OBVIOUS
<1>5. /\ shimLog' \in [closed : SUBSET Shims, used : SUBSET Shims,
                       again : SUBSET Shims, serves : Nat]
      /\ shimLog.closed \subseteq shimLog'.closed
      /\ shimLog'.used = shimLog.used /\ shimLog'.again = shimLog.again
  BY ShimStarts
<1>6. OneCaller'
  BY DEF ShimInv, OneCaller
<1>. QED BY <1>1, <1>2, <1>3, <1>4, <1>5, <1>6, ThreadStep

(* vchi_service_open.                                                        *)
LEMMA ShimOpenStep ==
  ASSUME ShimInv, NEW h \in Shims, ShimOpen(h)
  PROVE  ShimInv'
<1>. DEFINE k == instance.now = h
            c == h \in shimLog.closed
<1>1. /\ shim[h] = "none" /\ instance.st \in {"initialised", "connected"}
      /\ UNCHANGED <<instance, headers, kept, claimed, pushing, shimLog>>
  BY DEF ShimOpen
<1>2. /\ vq \in [Shims -> Service] /\ vq[h] = NoService /\ user[h] = "idle" /\ Unread(h)
      /\ shim \in [Shims -> {"none", "held", "freed"}]
      /\ user \in [Shims -> {"idle", "opening", "refused", "closing", "destroying"}]
      /\ MsgFit(h)
  BY <1>1, ThreadStarts, ShimStarts
<1>3. k \in BOOLEAN /\ c \in BOOLEAN /\ ~k /\ instance.st # "shutting"
  BY <1>1, ThreadStarts
<1>4. k <=> instance.now = h
  OBVIOUS
<1>5. c <=> h \in shimLog.closed
  OBVIOUS
<1>. HIDE DEF k, c
<1>6. CASE instance.st = "connected"
  <2>. DEFINE z == Beneath("OPENING")
  <2>1. /\ shim' = [shim EXCEPT ![h] = "held"]
        /\ vq' = [vq EXCEPT ![h] = z]
        /\ user' = [user EXCEPT ![h] = "opening"]
    BY <1>6 DEF ShimOpen, Goes
  <2>2. /\ z \in Service /\ z.st = "OPENING" /\ z.poll = {}
        /\ Fit(z, "opening", k, "held", c)
    BY <1>3, BeneathFits
  <2>. HIDE DEF z
  <2>3. /\ vq' \in [Shims -> Service] /\ vq'[h] = z
        /\ shim' \in [Shims -> {"none", "held", "freed"}] /\ shim'[h] = "held"
        /\ user' \in [Shims -> {"idle", "opening", "refused", "closing", "destroying"}]
        /\ user'[h] = "opening"
        /\ \A g \in Shims \ {h} :
             vq'[g] = vq[g] /\ user'[g] = user[g] /\ shim'[g] = shim[g]
    BY <1>2, <2>1, <2>2
  <2>4. MsgFit(h)'
    BY <1>1, <1>2, <2>2, <2>3, NothingFits, QuietMsgs DEF ClosingKnown
  <2>. QED BY <1>1, <1>3, <1>4, <1>5, <2>2, <2>3, <2>4, CallStep
<1>7. CASE instance.st # "connected"
  <2>1. shim' = [shim EXCEPT ![h] = "freed"] /\ UNCHANGED <<vq, user>>
    BY <1>7 DEF ShimOpen
  <2>2. /\ shim' \in [Shims -> {"none", "held", "freed"}] /\ shim'[h] = "freed"
        /\ \A g \in Shims \ {h} : shim'[g] = shim[g]
        /\ vq'[h] = NoService /\ user'[h] = "idle"
    BY <1>2, <2>1
  <2>3. Fit(vq'[h], user'[h], k, shim'[h], c)
    BY <1>3, <2>2, NoneFits
  <2>4. MsgFit(h)'
    BY <1>1, <1>2, <2>1, <2>2, NothingFits, QuietMsgs DEF ClosingKnown
  <2>. QED BY <1>1, <1>2, <1>3, <1>4, <1>5, <2>1, <2>2, <2>3, <2>4, CallStep
<1>. QED BY <1>6, <1>7

(* vchi_service_create.                                                      *)
LEMMA ShimCreateStep ==
  ASSUME ShimInv, NEW h \in Shims, ShimCreate(h)
  PROVE  ShimInv'
<1>. DEFINE k == instance.now = h
            c == h \in shimLog.closed
            st == IF instance.st = "connected" THEN "LISTENING" ELSE "HIDDEN"
            z == Beneath(st)
<1>1. /\ shim[h] = "none" /\ instance.st \in {"initialised", "connected"}
      /\ shim' = [shim EXCEPT ![h] = "held"]
      /\ vq' = [vq EXCEPT ![h] = z]
      /\ UNCHANGED <<instance, headers, kept, claimed, pushing, user, shimLog>>
  BY DEF ShimCreate
<1>2. /\ vq \in [Shims -> Service] /\ vq[h] = NoService /\ user[h] = "idle" /\ Unread(h)
      /\ shim \in [Shims -> {"none", "held", "freed"}]
      /\ user \in [Shims -> {"idle", "opening", "refused", "closing", "destroying"}]
      /\ MsgFit(h)
  BY <1>1, ThreadStarts, ShimStarts
<1>3. k \in BOOLEAN /\ c \in BOOLEAN /\ ~k /\ instance.st # "shutting"
  BY <1>1, ThreadStarts
<1>4. k <=> instance.now = h
  OBVIOUS
<1>5. c <=> h \in shimLog.closed
  OBVIOUS
<1>6. st \in {"LISTENING", "HIDDEN"}
  OBVIOUS
<1>. HIDE DEF k, c, st
<1>7. /\ z \in Service /\ z.st \in {"LISTENING", "HIDDEN"} /\ z.poll = {}
      /\ Fit(z, "idle", k, "held", c)
  BY <1>3, <1>6, BeneathFits
<1>. HIDE DEF z
<1>8. /\ vq' \in [Shims -> Service] /\ vq'[h] = z
      /\ shim' \in [Shims -> {"none", "held", "freed"}] /\ shim'[h] = "held"
      /\ user' \in [Shims -> {"idle", "opening", "refused", "closing", "destroying"}]
      /\ user'[h] = "idle"
      /\ \A g \in Shims \ {h} :
           vq'[g] = vq[g] /\ user'[g] = user[g] /\ shim'[g] = shim[g]
  BY <1>1, <1>2, <1>7
<1>9. MsgFit(h)'
  BY <1>1, <1>2, <1>7, <1>8, NothingFits, QuietMsgs DEF ClosingKnown
<1>. QED BY <1>1, <1>3, <1>4, <1>5, <1>7, <1>8, <1>9, CallStep

(* What was to be opened is gone.                                            *)
LEMMA ShimOpenGoneStep ==
  ASSUME ShimInv, NEW h \in Shims, ShimOpenGone(h)
  PROVE  ShimInv'
<1>. DEFINE k == instance.now = h
            c == h \in shimLog.closed
<1>1. /\ user[h] = "opening" /\ ~Exists(h) /\ user' = [user EXCEPT ![h] = "idle"]
      /\ UNCHANGED <<instance, shim, vq, headers, kept, claimed, pushing, shimLog>>
  BY DEF ShimOpenGone, At, Goes
<1>2. /\ vq \in [Shims -> Service] /\ shim \in [Shims -> {"none", "held", "freed"}]
      /\ user \in [Shims -> {"idle", "opening", "refused", "closing", "destroying"}]
      /\ MsgFit(h) /\ BeneathFit
  BY ThreadStarts, ShimStarts
<1>3. k \in BOOLEAN /\ c \in BOOLEAN /\ ~k /\ instance.st # "shutting"
  BY <1>1, ThreadStarts
<1>4. k <=> instance.now = h
  OBVIOUS
<1>5. c <=> h \in shimLog.closed
  OBVIOUS
<1>. HIDE DEF k, c
<1>6. vq[h] = NoService
  <2>1. Fit(vq[h], user[h], k, shim[h], c)
    BY ONLY <1>2, <1>3, <1>4, <1>5, FitIs, h \in Shims
  <2>. QED BY <1>1, <2>1 DEF Fit, RefsFit, OpenerFit, Exists
<1>7. Fit(vq'[h], user'[h], k, shim'[h], c)
  BY <1>1, <1>2, <1>3, <1>6, NoneFits
<1>8. MsgFit(h)'
  BY <1>1, <1>2, <1>6, NothingFits, QuietMsgs DEF ClosingKnown, Exists
<1>9. user' \in [Shims -> {"idle", "opening", "refused", "closing", "destroying"}]
  BY <1>1, <1>2
<1>. QED BY <1>1, <1>2, <1>3, <1>4, <1>5, <1>7, <1>8, <1>9, CallStep

(* vchi_service_open is woken: it has the service, or removes it.            *)
LEMMA ShimOpenWokenStep ==
  ASSUME ShimInv, NEW h \in Shims, ShimOpenWoken(h)
  PROVE  ShimInv'
<1>. DEFINE o == vq[h]
            k == instance.now = h
            c == h \in shimLog.closed
            w == Asked(Downed(o), "REMOVE")
<1>1. /\ vq \in [Shims -> Service] /\ shim \in [Shims -> {"none", "held", "freed"}]
      /\ user \in [Shims -> {"idle", "opening", "refused", "closing", "destroying"}]
      /\ MsgFit(h) /\ BeneathFit /\ o \in Service
  BY ThreadStarts, ShimStarts
<1>2. /\ user[h] = "opening" /\ Exists(h) /\ o.ups > 0
      /\ IF o.st = "OPEN"
         THEN vq' = [vq EXCEPT ![h] = Downed(o)] /\ user' = [user EXCEPT ![h] = "idle"]
         ELSE vq' = [vq EXCEPT ![h] = w] /\ user' = [user EXCEPT ![h] = "refused"]
      /\ UNCHANGED <<instance, shim, headers, kept, claimed, pushing, shimLog>>
  <2>1. [o EXCEPT !.ups = @ - 1].st = o.st
    BY <1>1 DEF Service
  <2>. QED BY <2>1 DEF ShimOpenWoken, At, Goes, Downed, Asked
<1>3. k \in BOOLEAN /\ c \in BOOLEAN /\ instance.st # "shutting"
  BY <1>2, ThreadStarts
<1>4. k <=> instance.now = h
  OBVIOUS
<1>5. c <=> h \in shimLog.closed
  OBVIOUS
<1>. HIDE DEF k, c
<1>6. Fit(o, "opening", k, shim[h], c)
  <2>1. Fit(vq[h], user[h], k, shim[h], c)
    BY ONLY <1>1, <1>3, <1>4, <1>5, FitIs, h \in Shims
  <2>. QED BY <1>2, <2>1
<1>7. CASE o.st = "OPEN"
  <2>. DEFINE z == Downed(o)
  <2>1. /\ z \in Service /\ Fit(z, "idle", k, shim[h], c) /\ z.st = "OPEN"
        /\ z.closing = o.closing /\ z.poll = o.poll
    BY <1>1, <1>2, <1>3, <1>6, <1>7, OpenReturnFits
  <2>2. vq' = [vq EXCEPT ![h] = z] /\ user' = [user EXCEPT ![h] = "idle"]
    BY <1>2, <1>7
  <2>. HIDE DEF z
  <2>3. /\ vq' \in [Shims -> Service] /\ vq'[h] = z /\ user'[h] = "idle"
        /\ user' \in [Shims -> {"idle", "opening", "refused", "closing", "destroying"}]
        /\ \A g \in Shims \ {h} : vq'[g] = vq[g] /\ user'[g] = user[g]
    BY <1>1, <2>1, <2>2
  <2>4. MsgFit(h)'
    BY <1>1, <1>2, <1>7, <2>1, <2>3, WokenMsgs
  <2>5. Fit(vq'[h], user'[h], k, shim'[h], c)
    BY <1>2, <2>1, <2>3
  <2>. QED BY <1>1, <1>2, <1>3, <1>4, <1>5, <2>3, <2>4, <2>5, CallStep
<1>8. CASE o.st # "OPEN"
  <2>1. /\ w \in Service /\ Fit(w, "refused", k, shim[h], c)
        /\ w.st = "CLOSEWAIT" /\ w.closing /\ o.st = "CLOSEWAIT"
    <3>1. Alive(o)
      BY <1>2 DEF Alive, Exists
    <3>. QED BY <1>1, <1>2, <1>3, <1>6, <1>8, <3>1, RefusedFits
  <2>2. vq' = [vq EXCEPT ![h] = w] /\ user' = [user EXCEPT ![h] = "refused"]
    BY <1>2, <1>8
  <2>. HIDE DEF w
  <2>3. /\ vq' \in [Shims -> Service] /\ vq'[h] = w /\ user'[h] = "refused"
        /\ user' \in [Shims -> {"idle", "opening", "refused", "closing", "destroying"}]
        /\ \A g \in Shims \ {h} : vq'[g] = vq[g] /\ user'[g] = user[g]
    BY <1>1, <2>1, <2>2
  <2>4. MsgFit(h)'
    BY <1>1, <1>2, <2>1, <2>3, QuietMsgs DEF ClosingKnown, Exists
  <2>5. Fit(vq'[h], user'[h], k, shim'[h], c)
    BY <1>2, <2>1, <2>3
  <2>. QED BY <1>1, <1>2, <1>3, <1>4, <1>5, <2>3, <2>4, <2>5, CallStep
<1>. QED BY <1>7, <1>8

(* vchi_service_close and vchi_service_destroy.                              *)
LEMMA ShimEndsStep ==
  ASSUME ShimInv, NEW h \in Shims, NEW pc, NEW kind, ShimEnds(h, pc, kind),
         (pc = "closing" /\ kind = "TERMINATE") \/ (pc = "destroying" /\ kind = "REMOVE")
  PROVE  ShimInv'
<1>. DEFINE o == vq[h]
            z == Asked(o, kind)
            k == instance.now = h
            c == h \in shimLog.closed
<1>1. /\ vq \in [Shims -> Service] /\ shim \in [Shims -> {"none", "held", "freed"}]
      /\ user \in [Shims -> {"idle", "opening", "refused", "closing", "destroying"}]
      /\ MsgFit(h) /\ BeneathFit /\ o \in Service
  BY ThreadStarts, ShimStarts
<1>2. /\ shim[h] = "held" /\ user[h] = "idle" /\ instance.st # "shutting" /\ Exists(h)
      /\ o.st \notin (IF kind = "TERMINATE" THEN {"HIDDEN", "LISTENING"} ELSE {"HIDDEN"})
      /\ user' = [user EXCEPT ![h] = pc]
      /\ UNCHANGED <<instance, shim, headers, kept, claimed, pushing, shimLog>>
  BY DEF ShimEnds, MayCall, At, Goes
<1>3. vq' = [vq EXCEPT ![h] = z]
  BY <1>1 DEF ShimEnds, Asked
<1>4. k \in BOOLEAN /\ c \in BOOLEAN /\ ~k
  BY <1>2, ThreadStarts
<1>5. k <=> instance.now = h
  OBVIOUS
<1>6. c <=> h \in shimLog.closed
  OBVIOUS
<1>. HIDE DEF k, c
<1>7. Fit(o, "idle", k, "held", c) /\ Alive(o)
  <2>1. Fit(vq[h], user[h], k, shim[h], c)
    BY ONLY <1>1, <1>4, <1>5, <1>6, FitIs, h \in Shims
  <2>. QED BY <1>2, <2>1 DEF Alive, Exists
<1>8. /\ z \in Service /\ Fit(z, pc, k, "held", c) /\ z.st = o.st /\ z.closing
  <2>1. /\ kind \in {"TERMINATE", "REMOVE"} /\ o \in Service
        /\ \/ pc = "closing" /\ ~k /\ o.st \notin {"HIDDEN", "LISTENING"}
           \/ pc = "destroying" /\ ~k /\ kind = "REMOVE" /\ o.st # "HIDDEN"
           \/ pc = "idle" /\ k /\ kind = "REMOVE"
    BY <1>1, <1>2, <1>4
  <2>2. z = Asked(o, kind)
    OBVIOUS
  <2>. HIDE DEF z, o
  <2>. QED BY ONLY <1>4, <1>7, <2>1, <2>2, AskFits
<1>. HIDE DEF z
<1>9. /\ vq' \in [Shims -> Service] /\ vq'[h] = z /\ user'[h] = pc
      /\ user' \in [Shims -> {"idle", "opening", "refused", "closing", "destroying"}]
      /\ \A g \in Shims \ {h} : vq'[g] = vq[g] /\ user'[g] = user[g]
  BY <1>1, <1>2, <1>3, <1>8
<1>10. MsgFit(h)'
  BY <1>1, <1>2, <1>8, <1>9, QuietMsgs DEF ClosingKnown, Exists
<1>11. Fit(vq'[h], user'[h], k, shim'[h], c)
  BY <1>2, <1>8, <1>9
<1>. QED BY <1>1, <1>2, <1>4, <1>5, <1>6, <1>9, <1>10, <1>11, CallStep

(* vchi_service_destroy of a hidden service.                                 *)
LEMMA ShimDestroyHiddenStep ==
  ASSUME ShimInv, NEW h \in Shims, ShimDestroyHidden(h)
  PROVE  ShimInv'
<1>. DEFINE k == instance.now = h
            c == h \in shimLog.closed
<1>1. /\ vq \in [Shims -> Service] /\ shim \in [Shims -> {"none", "held", "freed"}]
      /\ user \in [Shims -> {"idle", "opening", "refused", "closing", "destroying"}]
      /\ MsgFit(h)
  BY ThreadStarts, ShimStarts
<1>2. /\ user[h] = "idle" /\ instance.st # "shutting" /\ vq[h].st = "HIDDEN"
      /\ vq' = [vq EXCEPT ![h] = NoService]
      /\ shim' = [shim EXCEPT ![h] = "freed"]
      /\ UNCHANGED <<instance, headers, kept, claimed, pushing, user, shimLog>>
  BY DEF ShimDestroyHidden, MayCall, At
<1>3. k \in BOOLEAN /\ c \in BOOLEAN /\ ~k
  BY <1>2, ThreadStarts
<1>4. k <=> instance.now = h
  OBVIOUS
<1>5. c <=> h \in shimLog.closed
  OBVIOUS
<1>. HIDE DEF k, c
<1>6. /\ vq' \in [Shims -> Service] /\ vq'[h] = NoService
      /\ shim' \in [Shims -> {"none", "held", "freed"}] /\ shim'[h] = "freed"
      /\ \A g \in Shims \ {h} : vq'[g] = vq[g] /\ shim'[g] = shim[g]
  BY <1>1, <1>2, NothingFits
<1>7. Fit(vq'[h], user'[h], k, shim'[h], c)
  BY <1>2, <1>3, <1>6, NoneFits
<1>8. MsgFit(h)'
  BY <1>1, <1>2, <1>6, NothingFits, QuietMsgs DEF ClosingKnown, Exists
<1>. QED BY <1>1, <1>2, <1>3, <1>4, <1>5, <1>6, <1>7, <1>8, CallStep

(* The shim service is freed, and its queue with it.                         *)
LEMMA FreedMsgs ==
  ASSUME NEW h \in Shims, MsgFit(h), headers \in [Shims -> Seq(Places)],
         headers' = [headers EXCEPT ![h] = <<>>], UNCHANGED <<kept, claimed, pushing>>,
         shim'[h] = "freed", shim[h] # "none", shimLog'.again = shimLog.again,
         vq[h].st # "OPEN",
         vq'[h].st = IF vq[h].st = "FREE" THEN "NONE" ELSE vq[h].st,
         \/ vq'[h] = NoService
         \/ vq'[h].closing = vq[h].closing /\ vq'[h].poll = vq[h].poll
  PROVE  MsgFit(h)'
<1>1. /\ Pushed(h)' <=> Pushed(h)
      /\ Claims(h)' = Claims(h)
      /\ Unread(h) => Unread(h)'
  BY DEF Pushed, Claims, Unread
<1>2. Claims(h) = {} /\ ~Pushed(h)
  BY DEF MsgFit, OpenOnly
<1>3. OpenOnly(h)'
  BY <1>1, <1>2 DEF MsgFit, OpenOnly
<1>4. ASSUME shimLog'.again = {} PROVE FirstLife(h)'
  <2>1. FirstLife(h)
    BY <1>4 DEF MsgFit
  <2>2. ClosingKnown(vq'[h]) /\ vq'[h].st # "OPEN"
    BY <2>1, NothingFits DEF FirstLife, ClosingKnown
  <2>3. Exists(h)' => vq'[h].st = vq[h].st /\ Exists(h)
    BY DEF Exists
  <2>. QED BY <1>1, <2>1, <2>2, <2>3 DEF FirstLife
<1>. QED BY <1>3, <1>4 DEF MsgFit

(* What vchi_service_close, _destroy or _open finds when it is woken.        *)
LEMMA EndingIs ==
  ASSUME ShimInv, NEW h \in Shims, user[h] \in {"closing", "destroying", "refused"},
         vq[h].ups > 0, vq[h].st \in Ended(KindOf(user[h]))
  PROVE  /\ Unlock(Downed(vq[h])) \in Service /\ GivenBack(Unlock(Downed(vq[h])))
         /\ Unlock(Downed(vq[h])).st = IF vq[h].st = "FREE" THEN "NONE" ELSE vq[h].st
         /\ \/ Unlock(Downed(vq[h])) = NoService
            \/ /\ Unlock(Downed(vq[h])).closing = vq[h].closing
               /\ Unlock(Downed(vq[h])).poll = vq[h].poll
         /\ shim[h] = "held"
         /\ user[h] = "refused" => vq[h].st = "FREE"
<1>. DEFINE o == vq[h]
            u == user[h]
            s == shim[h]
            k == instance.now = h
            c == h \in shimLog.closed
            z == Unlock(Downed(o))
<1>1. /\ o \in Service /\ k \in BOOLEAN /\ c \in BOOLEAN /\ BeneathFit
      /\ s \in {"none", "held", "freed"}
      /\ k <=> instance.now = h
      /\ c <=> h \in shimLog.closed
  BY ThreadStarts, ShimStarts
<1>. HIDE DEF k, c
<1>2. Fit(o, u, k, s, c)
  BY ONLY <1>1, FitIs, h \in Shims
<1>3. s = "held"
  BY <1>1, <1>2 DEF Fit, OwnerFit
<1>4. u = "refused" => o.st = "FREE"
  BY <1>2 DEF Fit, OpenerFit, Ended, KindOf
<1>5. /\ z \in Service /\ GivenBack(z)
      /\ z.st = IF o.st = "FREE" THEN "NONE" ELSE o.st
      /\ \/ z = NoService
         \/ z.closing = o.closing /\ z.poll = o.poll
  <2>1. o.ups > 0 /\ o.st \in Ended(KindOf(u)) /\ z = Unlock(Downed(o))
        /\ u \in {"closing", "destroying", "refused"}
    OBVIOUS
  <2>. HIDE DEF z, o, u, s
  <2>. QED BY ONLY <1>1, <1>2, <2>1, ReturnFits
<1>. QED BY <1>3, <1>4, <1>5

(* A thread that closes, destroys or gives up a service is woken.            *)
LEMMA ShimEndedStep ==
  ASSUME ShimInv, NEW h \in Shims, ShimEnded(h)
  PROVE  ShimInv'
<1>. DEFINE o == vq[h]
            u == user[h]
            k == instance.now = h
            c == h \in shimLog.closed
            d == h \in shimLog'.closed
            well == EndedWell(h, o.st)
<1>1. /\ vq \in [Shims -> Service] /\ shim \in [Shims -> {"none", "held", "freed"}]
      /\ user \in [Shims -> {"idle", "opening", "refused", "closing", "destroying"}]
      /\ MsgFit(h) /\ BeneathFit /\ o \in Service /\ headers \in [Shims -> Seq(Places)]
      /\ shimLog \in [closed : SUBSET Shims, used : SUBSET Shims,
                      again : SUBSET Shims, serves : Nat]
  BY ThreadStarts, ShimStarts DEF ShimInv, ShimTypes
<1>2. /\ u \in {"closing", "destroying", "refused"} /\ o.ups > 0
      /\ UNCHANGED <<instance, kept, claimed, pushing>>
      /\ IF o.st \notin Ended(KindOf(u))
         THEN vq' = [vq EXCEPT ![h] = Downed(o)] /\ UNCHANGED <<shim, user, headers, shimLog>>
         ELSE /\ vq' = [vq EXCEPT ![h] = Unlock(Downed(o))]
              /\ user' = [user EXCEPT ![h] = "idle"]
              /\ IF well
                 THEN /\ shim' = [shim EXCEPT ![h] = "freed"]
                      /\ headers' = [headers EXCEPT ![h] = <<>>]
                 ELSE UNCHANGED <<shim, headers>>
              /\ shimLog' = IF o.st = "LISTENING"
                            THEN [shimLog EXCEPT !.closed = @ \cup {h}] ELSE shimLog
  <2>1. [o EXCEPT !.ups = @ - 1].st = o.st
    BY <1>1 DEF Service
  <2>2. KindOf(u) = IF At(h, "closing") THEN "TERMINATE" ELSE "REMOVE"
    BY DEF KindOf, At
  <2>. QED BY <2>1, <2>2 DEF ShimEnded, Goes, Downed
<1>3. k \in BOOLEAN /\ c \in BOOLEAN /\ ~k /\ instance.st # "shutting"
  BY <1>2, ThreadStarts
<1>4. k <=> instance.now = h
  OBVIOUS
<1>5. c <=> h \in shimLog.closed
  OBVIOUS
<1>. HIDE DEF k, c
<1>6. CASE o.st \notin Ended(KindOf(u))
  <2>. DEFINE z == Downed(o)
  <2>1. vq' = [vq EXCEPT ![h] = z] /\ UNCHANGED <<shim, user, headers, shimLog>>
    BY <1>2, <1>6
  <2>2. Fit(o, u, k, shim[h], c)
    BY ONLY <1>1, <1>3, <1>4, <1>5, FitIs, h \in Shims
  <2>3. /\ z \in Service /\ Fit(z, u, k, shim[h], c) /\ z.st = o.st
        /\ z.closing = o.closing /\ z.poll = o.poll
    BY <1>1, <1>2, <1>3, <1>6, <2>2, WaitsOnFits
  <2>. HIDE DEF z
  <2>4. /\ vq' \in [Shims -> Service] /\ vq'[h] = z
        /\ \A g \in Shims \ {h} : vq'[g] = vq[g]
    BY <1>1, <2>1, <2>3
  <2>5. o.st # "FREE"
    BY <1>6 DEF Ended
  <2>6. MsgFit(h)'
    BY <1>1, <1>2, <2>1, <2>3, <2>4, <2>5, WokenMsgs
  <2>7. Fit(vq'[h], user'[h], k, shim'[h], c)
    BY <2>1, <2>3, <2>4
  <2>. QED BY <1>1, <1>2, <1>3, <1>4, <1>5, <2>1, <2>4, <2>6, <2>7, CallStep
<1>7. CASE o.st \in Ended(KindOf(u))
  <2>. DEFINE z == Unlock(Downed(o))
  <2>1. /\ vq' = [vq EXCEPT ![h] = z] /\ user' = [user EXCEPT ![h] = "idle"]
        /\ IF well
           THEN /\ shim' = [shim EXCEPT ![h] = "freed"]
                /\ headers' = [headers EXCEPT ![h] = <<>>]
           ELSE UNCHANGED <<shim, headers>>
        /\ shimLog' = IF o.st = "LISTENING"
                      THEN [shimLog EXCEPT !.closed = @ \cup {h}] ELSE shimLog
    BY <1>2, <1>7
  <2>2. /\ z \in Service /\ GivenBack(z)
        /\ z.st = IF o.st = "FREE" THEN "NONE" ELSE o.st
        /\ \/ z = NoService
           \/ z.closing = o.closing /\ z.poll = o.poll
        /\ shim[h] = "held" /\ (u = "refused" => o.st = "FREE")
    BY <1>2, <1>7, EndingIs
  <2>. HIDE DEF z
  <2>3. /\ vq' \in [Shims -> Service] /\ vq'[h] = z /\ user'[h] = "idle"
        /\ user' \in [Shims -> {"idle", "opening", "refused", "closing", "destroying"}]
        /\ shim' \in [Shims -> {"none", "held", "freed"}]
        /\ shim'[h] = IF well THEN "freed" ELSE "held"
        /\ \A g \in Shims \ {h} :
             vq'[g] = vq[g] /\ user'[g] = user[g] /\ shim'[g] = shim[g]
    BY <1>1, <2>1, <2>2
  <2>4. /\ shimLog' \in [closed : SUBSET Shims, used : SUBSET Shims,
                         again : SUBSET Shims, serves : Nat]
        /\ shimLog.closed \subseteq shimLog'.closed
        /\ \A g \in Shims \ {h} : g \in shimLog'.closed <=> g \in shimLog.closed
        /\ shimLog'.used = shimLog.used /\ shimLog'.again = shimLog.again
        /\ o.st = "LISTENING" => d
    <3>. DEFINE p == shimLog.closed \cup {h}
    <3>1. CASE o.st = "LISTENING"
      <4>1. shimLog' = [shimLog EXCEPT !.closed = p] /\ p \in SUBSET Shims /\ h \in p
        BY <1>1, <2>1, <3>1
      <4>2. shimLog.closed \subseteq p /\ \A g \in Shims \ {h} : g \in p <=> g \in shimLog.closed
        OBVIOUS
      <4>. HIDE DEF p
      <4>. QED BY <1>1, <4>1, <4>2
    <3>2. CASE o.st # "LISTENING"
      BY <1>1, <2>1, <3>2
    <3>. QED BY <3>1, <3>2
  <2>5. well => o.st # "OPEN" /\ (z.st = "NONE" \/ d)
    BY <2>2, <2>4 DEF EndedWell, At
  <2>6. Fit(vq'[h], user'[h], k, shim'[h], d)
    <3>1. /\ shim'[h] \in {"held", "freed"} /\ d \in BOOLEAN
          /\ shim'[h] = "freed" => z.st = "NONE" \/ d
      BY <2>3, <2>5
    <3>. HIDE DEF d
    <3>2. Fit(z, "idle", k, shim'[h], d)
      BY ONLY <1>3, <2>2, <3>1, EndsFits
    <3>. QED BY <2>3, <3>2
  <2>7. MsgFit(h)'
    <3>1. CASE well
      <4>1. headers' = [headers EXCEPT ![h] = <<>>] /\ shim'[h] = "freed" /\ vq[h].st # "OPEN"
        BY <2>1, <2>3, <2>5, <3>1
      <4>. QED BY <1>1, <1>2, <2>2, <2>3, <2>4, <4>1, FreedMsgs
    <3>2. CASE ~well
      <4>1. headers' = headers /\ shim'[h] = "held"
        BY <2>1, <2>3, <3>2
      <4>. QED BY <1>1, <1>2, <2>2, <2>3, <2>4, <4>1, WokenMsgs
    <3>. QED BY <3>1, <3>2
  <2>8. headers' = headers \/ headers' = [headers EXCEPT ![h] = <<>>]
    BY <2>1
  <2>9. /\ instance' \in [st : {"none", "initialised", "connected", "shutting", "shut"},
                          left : SUBSET Shims, now : Shims \cup {NoShim}]
        /\ OneCaller'
    BY <1>2, <1>3, ThreadStarts DEF ShimInv, OneCaller
  <2>10. \A g \in Shims \ {h} :
           /\ vq'[g] = vq[g] /\ user'[g] = user[g] /\ shim'[g] = shim[g]
           /\ instance'.now = g <=> instance.now = g
           /\ g \in shimLog'.closed <=> g \in shimLog.closed
    BY <1>2, <2>3, <2>4
  <2>11. k <=> instance'.now = h
    BY <1>2, <1>4
  <2>12. d \in BOOLEAN /\ (d <=> h \in shimLog'.closed)
    OBVIOUS
  <2>13. k \in BOOLEAN /\ UNCHANGED <<kept, claimed, pushing>> /\ h \in Shims
    BY <1>2, <1>3
  <2>. HIDE DEF d
  <2>. QED BY ONLY ShimInv, <2>3, <2>4, <2>6, <2>7, <2>8, <2>9, <2>10, <2>11, <2>12, <2>13,
                   ThreadStep
<1>. QED BY <1>6, <1>7

(* In the first state there is no service.                                   *)
LEMMA ShimStart == ShimInit => ShimInv
<1> SUFFICES ASSUME ShimInit PROVE ShimInv
  OBVIOUS
<1>. DEFINE e == <<>>
<1>1. e \in Seq(Places) /\ Len(e) <= HeaderQueue
  BY ShimAssumption
<1>2. headers = [h \in Shims |-> e]
  BY DEF ShimInit
<1>. HIDE DEF e
<1>3. ShimTypes
  BY <1>1, <1>2, NothingFits DEF ShimInit, ShimTypes, ShimTypeOK
<1>4. OneCaller /\ ShimAlive
  BY DEF ShimInit, OneCaller, ShimAlive
<1>5. ASSUME NEW h \in Shims
      PROVE  Fit(vq[h], user[h], instance.now = h, shim[h], h \in shimLog.closed)
  BY NothingFits, ShimAssumption
     DEF ShimInit, Fit, RefsFit, OpenerFit, EnderFit, OwnerFit
<1>6. ASSUME NEW h \in Shims PROVE MsgFit(h)
  <2>1. /\ vq[h] = NoService /\ headers[h] = <<>> /\ kept[h] = {} /\ ~Pushed(h)
        /\ Claims(h) = {}
    BY ShimAssumption DEF ShimInit, Pushed, Claims
  <2>2. Unread(h)
    BY <2>1 DEF Unread
  <2>. QED BY <2>1, <2>2, NothingFits DEF MsgFit, OpenOnly, FirstLife, ClosingKnown
<1>. QED BY <1>3, <1>4, <1>5, <1>6 DEF ShimInv, BeneathFit

(* Every step keeps the invariant.                                           *)
LEMMA ShimStep == ShimInv /\ [ShimNext]_shimVars => ShimInv'
<1> SUFFICES ASSUME ShimInv, [ShimNext]_shimVars PROVE ShimInv'
  OBVIOUS
<1>1. CASE PushGoesOn \/ Initialise \/ VchiConnect \/ Disconnect
  BY <1>1, PushGoesOnStep, InitialiseStep, VchiConnectStep, DisconnectStep
<1>2. CASE DisconnectGoesOn
  BY <1>2, DisconnectNextStep, DisconnectWokenStep, DisconnectedStep DEF DisconnectGoesOn
<1>3. ASSUME NEW h \in Shims, ShimPoll(h) \/ ShimAnswers(h) \/ ShimMessage(h)
                              \/ ShimPeerCloses(h) \/ ShimPeerOpens(h)
      PROVE  ShimInv'
  BY <1>3, ShimPollStep, ShimAcceptedStep, ShimClosedStep, ShimMessageStep,
     ShimPeerClosesStep, ShimPeerOpensStep DEF ShimAnswers
<1>4. ASSUME NEW h \in Shims, Dequeue(h) \/ Hold(h) \/ HeldRelease(h)
      PROVE  ShimInv'
  BY <1>4, DequeueStep, HoldStep, HeldReleaseStep
<1>5. ASSUME NEW h \in Shims, ShimOpen(h) \/ ShimCreate(h) \/ ShimClose(h) \/ ShimDestroy(h)
      PROVE  ShimInv'
  BY <1>5, ShimOpenStep, ShimCreateStep, ShimEndsStep DEF ShimClose, ShimDestroy
<1>6. ASSUME NEW h \in Shims, ShimDestroyHidden(h) \/ ShimReturns(h)
      PROVE  ShimInv'
  BY <1>6, ShimDestroyHiddenStep, ShimOpenGoneStep, ShimOpenWokenStep, ShimEndedStep
     DEF ShimReturns
<1>7. CASE UNCHANGED shimVars
  <2>1. /\ UNCHANGED <<shim, vq, headers, kept, claimed, pushing, user, shimLog>>
        /\ instance' = instance
    BY <1>7 DEF shimVars
  <2>2. /\ instance' \in [st : {"none", "initialised", "connected", "shutting", "shut"},
                          left : SUBSET Shims, now : Shims \cup {NoShim}]
        /\ OneCaller'
    BY <2>1 DEF ShimInv, ShimTypes, ShimTypeOK, OneCaller, At
  <2>. QED BY <2>1, <2>2, InstanceStep
<1>. QED BY <1>1, <1>2, <1>3, <1>4, <1>5, <1>6, <1>7 DEF ShimNext

(* The invariant says what ShimSound does.                                   *)
LEMMA ShimShows == ShimInv => ShimTypeOK /\ ShimSound
<1> SUFFICES ASSUME ShimInv PROVE ShimTypeOK /\ ShimSound
  OBVIOUS
<1>1. ShimTypeOK /\ ShimAlive
  BY DEF ShimInv, ShimTypes
<1>2. ShimMessages
  BY DEF ShimInv, MsgFit, OpenOnly, FirstLife, ShimMessages
<1>3. ShimWaiters
  <2> SUFFICES ASSUME NEW h \in Shims, ~At(h, "idle") \/ instance.now = h
               PROVE  \/ vq[h].ups > 0 \/ vq[h].poll # {}
                      \/ vq[h].st \in {"OPENING", "CLOSESENT"}
                      \/ At(h, "opening") /\ ~Exists(h)
    BY DEF ShimWaiters
  <2>1. /\ OpenerFit(vq[h], user[h]) /\ EnderFit(vq[h], user[h], instance.now = h)
    BY DEF ShimInv, BeneathFit, Fit
  <2>2. user[h] \in {"idle", "opening", "refused", "closing", "destroying"}
    BY DEF ShimInv, ShimTypes, ShimTypeOK
  <2>3. CASE user[h] = "opening"
    BY <2>1, <2>3 DEF OpenerFit, At, Exists
  <2>4. CASE user[h] = "refused"
    BY <2>1, <2>4 DEF OpenerFit
  <2>5. CASE user[h] = "closing"
    BY <2>1, <2>5 DEF EnderFit
  <2>6. CASE user[h] = "destroying" \/ instance.now = h
    BY <2>1, <2>6 DEF EnderFit
  <2>. QED BY <2>2, <2>3, <2>4, <2>5, <2>6 DEF At
<1>. QED BY <1>1, <1>2, <1>3 DEF ShimSound

(* The state of the VCHI services has its type in every behaviour.           *)
THEOREM ShimTypesKept == ShimSpec => []ShimTypeOK
<1>. QED BY ShimStart, ShimStep, ShimShows, PTL DEF ShimSpec

(* The VCHI services are sound in every behaviour.                           *)
THEOREM ShimIsSound == ShimSpec => []ShimSound
<1>. QED BY ShimStart, ShimStep, ShimShows, PTL DEF ShimSpec
=============================================================================
