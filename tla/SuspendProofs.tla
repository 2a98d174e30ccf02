---------------------------- MODULE SuspendProofs ----------------------------
(***************************************************************************)
(* Proofs about use counts, suspend and resume (SuspendResume), for every  *)
(* set of users and every number of uses, forces and messages of the peer. *)
(*                                                                         *)
(* What SuspendSound says of the two state machines depends on the power   *)
(* of the VideoCore (PowerInv) and on the force in progress (ForceInv);    *)
(* both are stated of any state a of the two, since the code computes      *)
(* several in one critical section, and each operator on the state is      *)
(* shown to keep them.  What it says of the keepalive thread depends on    *)
(* where that thread is (KaInv) and on who sends acknowledgements          *)
(* (PlaceInv, AckInv).  That the VideoCore is awake for its users depends  *)
(* on what may be requested while it is in use (AwakeInv).                 *)
(***************************************************************************)
EXTENDS SuspendResume, FiniteSetTheorems, TLAPS

(* The type of arm.                                                          *)
ArmState ==
  [suspend : FORCE_CANCELED..SUSPENDED, suspendDone : BOOLEAN,
   resume : IDLE..RESUMED, resumeDone : BOOLEAN,
   resumeBlocked : BOOLEAN, blockerDone : BOOLEAN,
   blockedCount : Nat, blockedDone : BOOLEAN,
   useCount : Nat, override : Nat]

(* The two state machines with their completion, and the power they go with: *)
(* a platform that cannot suspend stays on whatever is asked of it.          *)
PowerInv(a, p) ==
  /\ a.resumeDone <=> a.resume = RESUMED
  /\ a.suspend \in {IN_PROGRESS, SUSPENDED} => a.resume # RESUMED
  /\ p # "on" => suspends
  /\ p = "suspending" => a.suspend = IN_PROGRESS /\ a.resume \in {IDLE, REQUESTED}
  /\ p = "off" => a.suspend = SUSPENDED /\ a.resume \in {IDLE, REQUESTED}
  /\ p = "resuming" => a.resume # RESUMED
  /\ a.resume = IN_PROGRESS => p = "resuming"
  /\ a.suspend = SUSPENDED => p = "off" \/ a.resume = IN_PROGRESS

(* Resume is blocked by a force, and asked for by nobody while one is on.    *)
ForceInv(a, f) ==
  /\ a.resumeBlocked <=> ~a.blockerDone
  /\ a.resumeBlocked <=> f \in {"waiting", "held"}
  /\ f = "held" => a.suspend = SUSPENDED
  /\ f \in {"waiting", "held"} /\ a.suspend \in {IN_PROGRESS, SUSPENDED}
       => a.resume = IDLE

Blocked == {u \in Users : userAt[u] = "blocked"}

(* The keepalive thread: where it can be, and what it has still to do. What  *)
(* it releases was used first, as it takes the releases before the uses.     *)
PlaceInv ==
  /\ userAt[Keepalive] \notin {"idle", "using"}
  /\ \A u \in Users : ka.acking[u] # 0 <=> userAt[u] = "acking"

KaInv ==
  /\ ka.use + ka.uc + ka.used = ka.remote
  /\ ka.release + ka.rc + ka.released = ka.remoteReleased
  /\ ka.remoteReleased <= ka.remote
  /\ userAt[Keepalive] \in {"wait", "swapRelease", "swapUse"} => ka.uc = 0
  /\ userAt[Keepalive] \in {"wait", "swapRelease"} => ka.rc = 0
  /\ ka.released <= ka.used
  /\ ka.released + ka.rc
       <= ka.used + ka.uc + (IF userAt[Keepalive] = "swapUse" THEN ka.use ELSE 0)

AckInv ==
  IsFiniteSet(Acking) /\ ka.used = ka.acked + ka.ack + Cardinality(Acking)

-----------------------------------------------------------------------------
(* What the operators on the state leave alone.                              *)
Beside(b, a) ==
  /\ b \in ArmState
  /\ b.resumeBlocked = a.resumeBlocked /\ b.blockerDone = a.blockerDone
  /\ b.blockedCount = a.blockedCount /\ b.useCount = a.useCount
  /\ b.override = a.override

(* The values of vc_suspend_status and vc_resume_status.                     *)
LEMMA Numbers ==
  /\ FORCE_CANCELED = -3 /\ REJECTED = -2 /\ FAILED = -1 /\ IDLE = 0
  /\ REQUESTED = 1 /\ IN_PROGRESS = 2 /\ SUSPENDED = 3 /\ RESUMED = 3
BY DEF FORCE_CANCELED, REJECTED, FAILED, IDLE, REQUESTED, IN_PROGRESS, SUSPENDED,
       RESUMED

(* set_suspend_state: only FAILED and IN_PROGRESS touch the resume state.    *)
LEMMA SetSuspendSets ==
  ASSUME NEW a \in ArmState, NEW s \in FORCE_CANCELED..SUSPENDED
  PROVE  /\ Beside(SetSuspend(a, s), a)
         /\ SetSuspend(a, s).suspend = s
         /\ s = FAILED => SetSuspend(a, s).resume = RESUMED /\ SetSuspend(a, s).resumeDone
         /\ s = IN_PROGRESS => SetSuspend(a, s).resume = IDLE /\ ~SetSuspend(a, s).resumeDone
         /\ s \notin {FAILED, IN_PROGRESS} =>
              /\ SetSuspend(a, s).resume = a.resume
              /\ SetSuspend(a, s).resumeDone = a.resumeDone
<1>. DEFINE b == [a EXCEPT !.suspend = s]
<1>1. /\ b \in ArmState /\ b.suspend = s /\ b.resume = a.resume
      /\ b.resumeDone = a.resumeDone /\ Beside(b, a)
  BY DEF ArmState, Beside
<1>. HIDE DEF b
<1>2. s \in {FORCE_CANCELED, REJECTED, SUSPENDED} \/ s = FAILED \/ s = IDLE
      \/ s = REQUESTED \/ s = IN_PROGRESS
  BY Numbers
<1>3. CASE s \in {FORCE_CANCELED, REJECTED, SUSPENDED}
  <2>. DEFINE c == [b EXCEPT !.suspendDone = TRUE]
  <2>1. SetSuspend(a, s) = c
    BY <1>3, Numbers DEF SetSuspend, b
  <2>2. Beside(c, a) /\ c.suspend = s /\ c.resume = a.resume /\ c.resumeDone = a.resumeDone
    BY <1>1 DEF ArmState, Beside
  <2>3. s \notin {FAILED, IN_PROGRESS}
    BY <1>3, Numbers
  <2>. HIDE DEF c
  <2>. QED BY <2>1, <2>2, <2>3
<1>4. CASE s = FAILED
  <2>. DEFINE c == [b EXCEPT !.suspendDone = TRUE, !.resume = RESUMED, !.resumeDone = TRUE]
  <2>1. SetSuspend(a, s) = c
    BY <1>4, Numbers DEF SetSuspend, b
  <2>2. RESUMED \in IDLE..RESUMED /\ s # IN_PROGRESS
    BY <1>4, Numbers
  <2>3. Beside(c, a) /\ c.suspend = s /\ c.resume = RESUMED /\ c.resumeDone
    BY <1>1, <2>2 DEF ArmState, Beside
  <2>. HIDE DEF c
  <2>. QED BY <1>4, <2>1, <2>2, <2>3
<1>5. CASE s = IDLE
  <2>. DEFINE c == [b EXCEPT !.suspendDone = FALSE]
  <2>1. SetSuspend(a, s) = c
    BY <1>5, Numbers DEF SetSuspend, b
  <2>2. Beside(c, a) /\ c.suspend = s /\ c.resume = a.resume /\ c.resumeDone = a.resumeDone
    BY <1>1 DEF ArmState, Beside
  <2>3. s \notin {FAILED, IN_PROGRESS}
    BY <1>5, Numbers
  <2>. HIDE DEF c
  <2>. QED BY <2>1, <2>2, <2>3
<1>6. CASE s = REQUESTED
  <2>1. SetSuspend(a, s) = b
    BY <1>6, Numbers DEF SetSuspend, b
  <2>. QED BY <1>1, <1>6, <2>1, Numbers
<1>7. CASE s = IN_PROGRESS
  <2>1. SetSuspend(a, s) = [b EXCEPT !.resume = IDLE, !.resumeDone = FALSE]
    BY <1>7, Numbers DEF SetSuspend, b
  <2>2. IDLE \in IDLE..RESUMED /\ s # FAILED
    BY <1>7, Numbers
  <2>. QED BY <1>1, <1>7, <2>1, <2>2 DEF ArmState, Beside
<1>. QED BY <1>2, <1>3, <1>4, <1>5, <1>6, <1>7

(* set_resume_state: RESUMED makes the suspend state IDLE again.             *)
LEMMA SetResumeSets ==
  ASSUME NEW a \in ArmState, NEW s \in IDLE..RESUMED
  PROVE  /\ Beside(SetResume(a, s), a)
         /\ SetResume(a, s).suspend = IF s = RESUMED THEN IDLE ELSE a.suspend
         /\ SetResume(a, s).resume = s
         /\ s = RESUMED => SetResume(a, s).resumeDone
         /\ s = IDLE => ~SetResume(a, s).resumeDone
         /\ s \notin {IDLE, RESUMED} => SetResume(a, s).resumeDone = a.resumeDone
<1>. DEFINE b == [a EXCEPT !.resume = s]
<1>1. /\ b \in ArmState /\ b.suspend = a.suspend /\ b.resume = s
      /\ b.resumeDone = a.resumeDone /\ Beside(b, a)
  BY DEF ArmState, Beside
<1>. HIDE DEF b
<1>2. CASE s = IDLE
  <2>. DEFINE c == [b EXCEPT !.resumeDone = FALSE]
  <2>1. SetResume(a, s) = c
    BY <1>2, Numbers DEF SetResume, b
  <2>2. Beside(c, a) /\ c.suspend = a.suspend /\ c.resume = s /\ ~c.resumeDone
    BY <1>1 DEF ArmState, Beside
  <2>3. s # RESUMED
    BY <1>2, Numbers
  <2>. HIDE DEF c
  <2>. QED BY <1>2, <2>1, <2>2, <2>3
<1>3. CASE s = RESUMED
  <2>. DEFINE c == [b EXCEPT !.resumeDone = TRUE]
  <2>1. SetResume(a, s) = SetSuspend(c, IDLE)
    BY <1>3, Numbers DEF SetResume, b
  <2>2. c \in ArmState /\ c.resume = s /\ c.resumeDone /\ Beside(c, a)
    BY <1>1 DEF ArmState, Beside
  <2>. HIDE DEF c
  <2>3. /\ IDLE \in FORCE_CANCELED..SUSPENDED /\ IDLE \notin {FAILED, IN_PROGRESS}
        /\ s # IDLE
    BY <1>3, Numbers
  <2>. DEFINE d == SetSuspend(c, IDLE)
  <2>4. /\ Beside(d, c) /\ d.suspend = IDLE /\ d.resume = c.resume
        /\ d.resumeDone = c.resumeDone
    BY <2>2, <2>3, SetSuspendSets
  <2>. HIDE DEF d
  <2>5. Beside(d, a)
    BY <2>2, <2>4 DEF Beside
  <2>. QED BY <1>3, <2>1, <2>2, <2>3, <2>4, <2>5 DEF d
<1>4. CASE s # IDLE /\ s # RESUMED
  <2>1. SetResume(a, s) = b
    BY <1>4 DEF SetResume, b
  <2>. QED BY <1>1, <1>4, <2>1
<1>. QED BY <1>2, <1>3, <1>4

(* Suspend is requested of an idle VideoCore, or is left as it is.           *)
LEMMA VcSuspendSets ==
  ASSUME NEW a \in ArmState, a.suspend <= IDLE
  PROVE  /\ Beside(VcSuspend(a), a) /\ VcSuspend(a).suspend = REQUESTED
         /\ VcSuspend(a).resume = a.resume /\ VcSuspend(a).resumeDone = a.resumeDone
<1>1. /\ a.suspend \notin {REQUESTED, IN_PROGRESS}
      /\ {REQUESTED, IDLE} \subseteq FORCE_CANCELED..SUSPENDED
      /\ IDLE \notin {FAILED, IN_PROGRESS} /\ REQUESTED \notin {FAILED, IN_PROGRESS}
  BY Numbers DEF ArmState
<1>. DEFINE b == IF a.suspend = IDLE THEN a ELSE SetSuspend(a, IDLE)
<1>2. VcSuspend(a) = SetSuspend(b, REQUESTED)
  BY <1>1 DEF VcSuspend
<1>3. b \in ArmState /\ Beside(b, a) /\ b.resume = a.resume /\ b.resumeDone = a.resumeDone
  BY <1>1, SetSuspendSets DEF Beside
<1>. HIDE DEF b
<1>. QED BY <1>1, <1>2, <1>3, SetSuspendSets DEF Beside

Sound(a, p, f) == a \in ArmState /\ PowerInv(a, p) /\ ForceInv(a, f)

-----------------------------------------------------------------------------
(* A sleeping VideoCore is asked to resume, unless a force is on.            *)
LEMMA ResumeRequested ==
  ASSUME NEW a, NEW p, NEW f, Sound(a, p, f), f \notin {"waiting", "held"}, NeedResume(a)
  PROVE  LET b == SetResume(a, REQUESTED) IN
         Sound(b, p, f) /\ b.resumeDone = a.resumeDone /\ Beside(b, a)
<1>. DEFINE b == SetResume(a, REQUESTED)
<1>1. a \in ArmState /\ a.suspend > IDLE /\ a.resume < REQUESTED
  BY DEF Sound, NeedResume
<1>2. a.resume = IDLE /\ a.suspend \in FORCE_CANCELED..SUSPENDED
  BY <1>1, Numbers DEF ArmState
<1>3. REQUESTED \in IDLE..RESUMED /\ REQUESTED \notin {IDLE, RESUMED}
  BY Numbers
<1>4. /\ Beside(b, a) /\ b.suspend = a.suspend /\ b.resume = REQUESTED
      /\ b.resumeDone = a.resumeDone
  BY <1>1, <1>3, SetResumeSets
<1>. HIDE DEF b
<1>5. PowerInv(b, p)
  BY <1>2, <1>3, <1>4, Numbers DEF Sound, PowerInv
<1>6. ForceInv(b, f)
  BY <1>4 DEF Sound, ForceInv, Beside
<1>. QED BY <1>4, <1>5, <1>6 DEF Sound, Beside, b

(* The end of the critical section of a use. A force that waits for idleness *)
(* finds none.                                                               *)
LEMMA UseCounted ==
  ASSUME NEW a, Sound(a, power, forcer), NEW u \in Users, CountUse(u, a),
         ~a.resumeBlocked \/ a.suspend <= IDLE,
         uses \in [Users -> Nat], pollAsked \in BOOLEAN
  PROVE  /\ Sound(arm', power, forcer) /\ arm'.blockedCount = a.blockedCount
         /\ uses' \in [Users -> Nat] /\ pollAsked' \in BOOLEAN
         /\ \E place \in {"ack", "resumeWait"} : userAt' = [userAt EXCEPT ![u] = place]
<1>. DEFINE b == [a EXCEPT !.useCount = @ + 1]
            c == IF b.suspend <= REQUESTED THEN SetSuspend(b, IDLE) ELSE b
<1>1. /\ uses' = [uses EXCEPT ![u] = @ + 1]
      /\ arm' = IF NeedResume(c) THEN SetResume(c, REQUESTED) ELSE c
      /\ pollAsked' = (pollAsked \/ NeedResume(c))
      /\ userAt' = [userAt EXCEPT ![u] = IF c.resumeDone THEN "ack" ELSE "resumeWait"]
  BY DEF CountUse
<1>2. /\ b \in ArmState /\ b.suspend = a.suspend /\ b.resume = a.resume
      /\ b.resumeDone = a.resumeDone /\ b.blockedCount = a.blockedCount
      /\ b.resumeBlocked = a.resumeBlocked /\ b.blockerDone = a.blockerDone
  BY DEF Sound, ArmState
<1>. HIDE DEF b
<1>3. IDLE \in FORCE_CANCELED..SUSPENDED /\ IDLE \notin {FAILED, IN_PROGRESS}
  BY Numbers
<1>4. /\ c \in ArmState /\ c.resume = a.resume /\ c.resumeDone = a.resumeDone
      /\ c.blockedCount = a.blockedCount
      /\ c.resumeBlocked = a.resumeBlocked /\ c.blockerDone = a.blockerDone
      /\ c.suspend = IF a.suspend <= REQUESTED THEN IDLE ELSE a.suspend
  BY <1>2, <1>3, SetSuspendSets DEF Beside
<1>. HIDE DEF c
<1>5. a.suspend \in FORCE_CANCELED..SUSPENDED /\ a.resume \in IDLE..RESUMED
  BY DEF Sound, ArmState
<1>6. PowerInv(c, power)
  BY <1>4, <1>5, Numbers DEF Sound, PowerInv
<1>7. ForceInv(c, forcer)
  <2>1. forcer # "held"
    BY <1>5, Numbers DEF Sound, ForceInv
  <2>. QED BY <1>4, <1>5, <2>1, Numbers DEF Sound, ForceInv
<1>8. NeedResume(c) => forcer \notin {"waiting", "held"}
  BY <1>4, <1>5, Numbers DEF NeedResume, Sound, ForceInv
<1>9. Sound(arm', power, forcer) /\ arm'.blockedCount = a.blockedCount
  <2>1. CASE NeedResume(c)
    BY <1>1, <1>4, <1>6, <1>7, <1>8, <2>1, ResumeRequested DEF Sound, Beside
  <2>2. CASE ~NeedResume(c)
    BY <1>1, <1>4, <1>6, <1>7, <2>2 DEF Sound
  <2>. QED BY <2>1, <2>2
<1>10. uses' \in [Users -> Nat] /\ pollAsked' \in BOOLEAN
  BY <1>1 DEF NeedResume
<1>. QED BY <1>1, <1>9, <1>10

(* One turn of the loop of vchiq_use_internal: the use is counted, or its    *)
(* user joins those who wait on the blocker.                                 *)
LEMMA UseTried ==
  ASSUME NEW a, Sound(a, power, forcer), NEW u \in Users, TryUse(u, a),
         uses \in [Users -> Nat], pollAsked \in BOOLEAN
  PROVE  /\ Sound(arm', power, forcer)
         /\ uses' \in [Users -> Nat] /\ pollAsked' \in BOOLEAN
         /\ \/ /\ arm'.blockedCount = a.blockedCount
               /\ \E place \in {"ack", "resumeWait"} : userAt' = [userAt EXCEPT ![u] = place]
            \/ /\ arm'.blockedCount = a.blockedCount + 1 /\ a.resumeBlocked
               /\ userAt' = [userAt EXCEPT ![u] = "blocked"]
<1>1. CASE a.resumeBlocked /\ a.suspend = IDLE
  <2>. DEFINE b == SetSuspend(a, FORCE_CANCELED)
  <2>1. CountUse(u, b)
    BY <1>1 DEF TryUse
  <2>2. /\ FORCE_CANCELED \in FORCE_CANCELED..SUSPENDED
        /\ FORCE_CANCELED \notin {FAILED, IN_PROGRESS} /\ a \in ArmState
    BY Numbers DEF Sound
  <2>3. /\ Beside(b, a) /\ b.suspend = FORCE_CANCELED /\ b.resume = a.resume
        /\ b.resumeDone = a.resumeDone
    BY <2>2, SetSuspendSets
  <2>. HIDE DEF b
  <2>4. PowerInv(b, power)
    BY <1>1, <2>3, Numbers DEF Sound, PowerInv
  <2>5. ForceInv(b, forcer)
    BY <1>1, <2>3, Numbers DEF Sound, ForceInv, Beside
  <2>6. Sound(b, power, forcer) /\ b.suspend <= IDLE
    BY <2>3, <2>4, <2>5, Numbers DEF Sound, Beside
  <2>. QED BY <2>1, <2>3, <2>6, UseCounted DEF Beside
<1>2. CASE a.resumeBlocked /\ a.suspend # IDLE
  <2>1. /\ arm' = [a EXCEPT !.blockedCount = @ + 1]
        /\ userAt' = [userAt EXCEPT ![u] = "blocked"] /\ uses' = uses /\ pollAsked' = pollAsked
    BY <1>2 DEF TryUse
  <2>. DEFINE b == [a EXCEPT !.blockedCount = @ + 1]
  <2>2. /\ b \in ArmState /\ b.suspend = a.suspend /\ b.resume = a.resume
        /\ b.resumeDone = a.resumeDone /\ b.blockedCount = a.blockedCount + 1
        /\ b.resumeBlocked = a.resumeBlocked /\ b.blockerDone = a.blockerDone
    BY DEF Sound, ArmState
  <2>3. arm' = b
    BY <2>1
  <2>. HIDE DEF b
  <2>4. Sound(b, power, forcer)
    BY <2>2 DEF Sound, PowerInv, ForceInv
  <2>. QED BY <1>2, <2>1, <2>2, <2>3, <2>4
<1>3. CASE ~a.resumeBlocked
  <2>1. CountUse(u, a)
    BY <1>3 DEF TryUse
  <2>. QED BY <1>3, <2>1, UseCounted
<1>. QED BY <1>1, <1>2, <1>3

(* A release asks for nothing: the use it counts on keeps the VideoCore      *)
(* wanted.                                                                   *)
LEMMA ReleasesNothing ==
  ASSUME NEW u, ReleaseInternal(u)
  PROVE  arm' = arm /\ pollAsked' = pollAsked
BY DEF ReleaseInternal, Wanted

-----------------------------------------------------------------------------
(* The caller of vchiq_arm_force_suspend.                                    *)
LEMMA Unblocked ==
  ASSUME NEW a, NEW p, a \in ArmState, PowerInv(a, p), NEW f,
         f \notin {"waiting", "held"}
  PROVE  /\ Sound(UnblockResume(a), p, f)
         /\ UnblockResume(a).blockedCount = a.blockedCount
         /\ UnblockResume(a).resumeDone = a.resumeDone
<1>. DEFINE b == UnblockResume(a)
<1>1. /\ b \in ArmState /\ b.suspend = a.suspend /\ b.resume = a.resume
      /\ b.resumeDone = a.resumeDone /\ b.blockedCount = a.blockedCount
      /\ ~b.resumeBlocked /\ b.blockerDone
  BY DEF ArmState, UnblockResume
<1>. HIDE DEF b
<1>2. Sound(b, p, f)
  BY <1>1 DEF Sound, PowerInv, ForceInv
<1>. QED BY <1>1, <1>2 DEF b

(* The request of vchiq_arm_force_suspend, once block_resume is through: no  *)
(* resume is under way, so that none is asked for while resume is blocked.   *)
LEMMA ForceRequests ==
  ASSUME NEW a, Sound(a, power, forcer), forcer \notin {"waiting", "held"},
         a.resume \notin {REQUESTED, IN_PROGRESS}, pollAsked \in BOOLEAN, ForceRequest(a)
  PROVE  /\ Sound(arm', power, forcer') /\ arm'.blockedCount = a.blockedCount
         /\ forcer' \in {"waiting", "held"} /\ pollAsked' \in BOOLEAN
<1>. DEFINE b == [a EXCEPT !.blockerDone = FALSE, !.resumeBlocked = TRUE]
            ask == b.suspend <= IDLE /\ (~Wanted(b) \/ b.override >= ForceFailMax)
<1>1. /\ arm' = IF ask THEN VcSuspend(b) ELSE b
      /\ pollAsked' = (pollAsked \/ ask)
      /\ forcer' = IF b.suspend = SUSPENDED THEN "held" ELSE "waiting"
  BY DEF ForceRequest
<1>2. /\ b \in ArmState /\ b.suspend = a.suspend /\ b.resume = a.resume
      /\ b.resumeDone = a.resumeDone /\ b.blockedCount = a.blockedCount
      /\ b.resumeBlocked /\ ~b.blockerDone
  BY DEF Sound, ArmState
<1>3. ask \in BOOLEAN /\ (ask => b.suspend <= IDLE)
  OBVIOUS
<1>. HIDE DEF b, ask
<1>4. a.suspend \in FORCE_CANCELED..SUSPENDED /\ a.resume \in IDLE..RESUMED
  BY DEF Sound, ArmState
<1>5. b.suspend \in {IN_PROGRESS, SUSPENDED} => b.resume = IDLE
  BY <1>2, <1>4, Numbers DEF Sound, PowerInv
<1>6. CASE ask
  <2>. DEFINE c == VcSuspend(b)
  <2>1. /\ Beside(c, b) /\ c.suspend = REQUESTED /\ c.resume = b.resume
        /\ c.resumeDone = b.resumeDone
    BY <1>2, <1>3, <1>6, VcSuspendSets
  <2>2. arm' = c /\ forcer' = "waiting"
    BY <1>1, <1>3, <1>6, Numbers
  <2>. HIDE DEF c
  <2>3. PowerInv(c, power)
    BY <1>2, <1>3, <1>4, <1>6, <2>1, Numbers DEF Sound, PowerInv
  <2>4. ForceInv(c, "waiting")
    BY <1>2, <2>1, Numbers DEF ForceInv, Beside
  <2>. QED BY <1>1, <1>2, <1>3, <2>1, <2>2, <2>3, <2>4 DEF Sound, Beside
<1>7. CASE ~ask
  <2>1. PowerInv(b, power)
    BY <1>2 DEF Sound, PowerInv
  <2>2. ForceInv(b, forcer')
    BY <1>1, <1>2, <1>5 DEF ForceInv
  <2>. QED BY <1>1, <1>2, <1>3, <1>7, <2>1, <2>2 DEF Sound
<1>. QED BY <1>6, <1>7

(* block_resume gives up, waits on, or blocks and requests.                  *)
LEMMA ResumeBlocks ==
  ASSUME NEW a, Sound(a, power, forcer), forcer \notin {"waiting", "held"},
         pollAsked \in BOOLEAN, NEW waited, BlockResume(a, waited)
  PROVE  /\ Sound(arm', power, forcer') /\ arm'.blockedCount = a.blockedCount
         /\ forcer' \in {"idle", "resuming", "waiting", "held"} /\ pollAsked' \in BOOLEAN
<1>1. CASE a.resume \in {REQUESTED, IN_PROGRESS}
  <2>1. arm' = a /\ pollAsked' = pollAsked /\ forcer' \in {"idle", "resuming"}
    BY <1>1 DEF BlockResume
  <2>. QED BY <2>1 DEF Sound, ForceInv
<1>2. CASE a.resume \notin {REQUESTED, IN_PROGRESS}
  BY <1>2, ForceRequests DEF BlockResume
<1>. QED BY <1>1, <1>2

(* Every step of the caller of vchiq_arm_force_suspend and allow_resume.     *)
LEMMA ForcerKeeps ==
  ASSUME Sound(arm, power, forcer), pollAsked \in BOOLEAN, ForceSuspend \/ ForcerStep
  PROVE  /\ Sound(arm', power', forcer') /\ arm'.blockedCount = arm.blockedCount
         /\ forcer' \in {"idle", "draining", "resuming", "waiting", "held", "allowing"}
         /\ pollAsked' \in BOOLEAN
<1>0. arm \in ArmState /\ PowerInv(arm, power) /\ ForceInv(arm, forcer)
  BY DEF Sound
<1>1. CASE ForceSuspend
  <2>1. forcer = "idle" /\ power' = power
    BY <1>1 DEF ForceSuspend
  <2>2. CASE arm.blockedCount > 0
    <3>. DEFINE b == [arm EXCEPT !.blockedDone = FALSE]
    <3>1. arm' = b /\ forcer' = "draining" /\ pollAsked' = pollAsked
      BY <1>1, <2>2 DEF ForceSuspend
    <3>2. /\ b \in ArmState /\ b.suspend = arm.suspend /\ b.resume = arm.resume
          /\ b.resumeDone = arm.resumeDone /\ b.blockedCount = arm.blockedCount
          /\ b.resumeBlocked = arm.resumeBlocked /\ b.blockerDone = arm.blockerDone
      BY <1>0 DEF ArmState
    <3>. HIDE DEF b
    <3>. QED BY <2>1, <3>1, <3>2 DEF Sound, PowerInv, ForceInv
  <2>3. CASE ~(arm.blockedCount > 0)
    <3>1. BlockResume(arm, 0)
      BY <1>1, <2>3 DEF ForceSuspend
    <3>. QED BY <2>1, <3>1, ResumeBlocks
  <2>. QED BY <2>2, <2>3
<1>2. CASE ForceDrained
  BY <1>2, ResumeBlocks DEF ForceDrained
<1>3. CASE ForceResumed
  <2>1. BlockResume(arm, tries.resume + 1) /\ forcer = "resuming" /\ power' = power
    BY <1>3 DEF ForceResumed
  <2>. QED BY <2>1, ResumeBlocks
<1>4. CASE BlockTimeout
  <2>1. /\ arm' = arm /\ pollAsked' = pollAsked /\ power' = power /\ forcer' = "idle"
        /\ forcer \in {"draining", "resuming"}
    BY <1>4 DEF BlockTimeout, ForcerGoto
  <2>. QED BY <2>1 DEF Sound, ForceInv
<1>5. CASE ForceWoken
  <2>1. /\ forcer = "waiting" /\ power' = power /\ pollAsked' = pollAsked
        /\ forcer' = IF arm.suspend = SUSPENDED THEN "held" ELSE "idle"
        /\ arm' = CASE arm.suspend = SUSPENDED -> arm
                    [] arm.suspend < IDLE -> UnblockResume(SetSuspend(arm, IDLE))
                    [] OTHER -> UnblockResume(arm)
    BY <1>5 DEF ForceWoken, ForcerGoto
  <2>2. CASE arm.suspend = SUSPENDED
    <3>1. arm' = arm /\ forcer' = "held"
      BY <2>1, <2>2, Numbers
    <3>2. ForceInv(arm, "held")
      BY <1>0, <2>1, <2>2 DEF ForceInv
    <3>. QED BY <1>0, <2>1, <3>1, <3>2 DEF Sound
  <2>3. CASE arm.suspend # SUSPENDED /\ arm.suspend < IDLE
    <3>. DEFINE b == SetSuspend(arm, IDLE)
    <3>1. arm' = UnblockResume(b) /\ forcer' = "idle"
      BY <2>1, <2>3
    <3>2. IDLE \in FORCE_CANCELED..SUSPENDED /\ IDLE \notin {FAILED, IN_PROGRESS}
      BY Numbers
    <3>3. /\ Beside(b, arm) /\ b.suspend = IDLE /\ b.resume = arm.resume
          /\ b.resumeDone = arm.resumeDone
      BY <1>0, <3>2, SetSuspendSets
    <3>. HIDE DEF b
    <3>4. PowerInv(b, power)
      BY <1>0, <2>3, <3>3, Numbers DEF PowerInv
    <3>. QED BY <2>1, <3>1, <3>3, <3>4, Unblocked DEF Beside
  <2>4. CASE arm.suspend # SUSPENDED /\ ~(arm.suspend < IDLE)
    <3>1. arm' = UnblockResume(arm) /\ forcer' = "idle"
      BY <2>1, <2>4
    <3>. QED BY <1>0, <2>1, <3>1, Unblocked
  <2>. QED BY <2>2, <2>3, <2>4
<1>6. CASE ForceTimeout
  <2>1. forcer = "waiting" /\ power' = power /\ pollAsked' = pollAsked
    BY <1>6 DEF ForceTimeout
  <2>2. CASE arm.suspend > IDLE /\ ~tries.repeated
    BY <1>6, <2>1, <2>2 DEF ForceTimeout
  <2>3. CASE ~(arm.suspend > IDLE /\ ~tries.repeated)
    <3>. DEFINE b == [arm EXCEPT !.override = @ + 1]
    <3>1. arm' = UnblockResume(b) /\ forcer' = "idle"
      BY <1>6, <2>3 DEF ForceTimeout
    <3>2. /\ b \in ArmState /\ b.suspend = arm.suspend /\ b.resume = arm.resume
          /\ b.resumeDone = arm.resumeDone /\ b.blockedCount = arm.blockedCount
      BY <1>0 DEF ArmState
    <3>. HIDE DEF b
    <3>3. PowerInv(b, power)
      BY <1>0, <3>2 DEF PowerInv
    <3>. QED BY <2>1, <3>1, <3>2, <3>3, Unblocked
  <2>. QED BY <2>2, <2>3
<1>7. CASE AllowResume
  <2>. DEFINE a == UnblockResume(arm)
  <2>1. /\ power' = power
        /\ pollAsked' = (pollAsked \/ NeedResume(a))
        /\ forcer' = IF NeedResume(a) THEN "allowing" ELSE "idle"
        /\ arm' = IF NeedResume(a) THEN SetResume(a, REQUESTED) ELSE a
    BY <1>7 DEF AllowResume, ForcerGoto
  <2>2. /\ Sound(a, power, "idle") /\ Sound(a, power, "allowing")
        /\ a.blockedCount = arm.blockedCount
    BY <1>0, Unblocked
  <2>3. NeedResume(a) \in BOOLEAN
    BY DEF NeedResume
  <2>. HIDE DEF a
  <2>4. CASE NeedResume(a)
    BY <2>1, <2>2, <2>3, <2>4, ResumeRequested DEF Beside
  <2>5. CASE ~NeedResume(a)
    BY <2>1, <2>2, <2>3, <2>5
  <2>. QED BY <2>4, <2>5
<1>8. CASE AllowDone
  <2>1. /\ arm' = arm /\ pollAsked' = pollAsked /\ power' = power /\ forcer' = "idle"
        /\ forcer = "allowing"
    BY <1>8 DEF AllowDone, ForcerGoto
  <2>. QED BY <2>1 DEF Sound, ForceInv
<1>. QED BY <1>1, <1>2, <1>3, <1>4, <1>5, <1>6, <1>7, <1>8 DEF ForcerStep

-----------------------------------------------------------------------------
(* The slot handler and the platform.                                        *)
LEMMA PlatformKeeps ==
  ASSUME Sound(arm, power, forcer), pollAsked \in BOOLEAN, suspends \in BOOLEAN,
         power \in {"on", "suspending", "off", "resuming"},
         PollSuspend \/ PlatformStep
  PROVE  /\ Sound(arm', power', forcer') /\ arm'.blockedCount = arm.blockedCount
         /\ power' \in {"on", "suspending", "off", "resuming"} /\ pollAsked' \in BOOLEAN
<1>0. /\ arm \in ArmState /\ PowerInv(arm, power) /\ ForceInv(arm, forcer)
      /\ arm.suspend \in FORCE_CANCELED..SUSPENDED /\ arm.resume \in IDLE..RESUMED
  BY DEF Sound, ArmState
<1>1. forcer' = forcer /\ suspends' = suspends
  BY DEF PollSuspend, PlatformStep, CheckResume, PlatformResumed, PlatformReports
<1>2. CASE PollSuspend
  <2>1. CASE arm.suspend = REQUESTED /\ arm.resume = RESUMED
    <3>. DEFINE b == SetSuspend(arm, IN_PROGRESS)
    <3>1. /\ arm' = b /\ power' = IF suspends THEN "suspending" ELSE power
          /\ pollAsked' = FALSE
      BY <1>2, <2>1 DEF PollSuspend
    <3>2. IN_PROGRESS \in FORCE_CANCELED..SUSPENDED
      BY Numbers
    <3>3. /\ Beside(b, arm) /\ b.suspend = IN_PROGRESS /\ b.resume = IDLE /\ ~b.resumeDone
      BY <1>0, <3>2, SetSuspendSets
    <3>. HIDE DEF b
    <3>4. PowerInv(b, power')
      BY <1>0, <1>1, <2>1, <3>1, <3>3, Numbers DEF PowerInv
    <3>5. ForceInv(b, forcer)
      BY <1>0, <2>1, <3>3, Numbers DEF ForceInv, Beside
    <3>. QED BY <1>1, <3>1, <3>3, <3>4, <3>5 DEF Sound, Beside
  <2>2. CASE ~(arm.suspend = REQUESTED /\ arm.resume = RESUMED)
    BY <1>1, <1>2, <2>2 DEF PollSuspend, Sound, PowerInv
  <2>. QED BY <2>1, <2>2
<1>3. CASE CheckResume
  <2>. DEFINE b == SetResume(arm, IN_PROGRESS)
  <2>1. /\ arm' = b /\ power' = "resuming" /\ power = "off" /\ arm.resume = REQUESTED
        /\ pollAsked' = pollAsked
    BY <1>3 DEF CheckResume
  <2>2. IN_PROGRESS \in IDLE..RESUMED /\ IN_PROGRESS \notin {IDLE, RESUMED}
    BY Numbers
  <2>3. /\ Beside(b, arm) /\ b.suspend = arm.suspend /\ b.resume = IN_PROGRESS
        /\ b.resumeDone = arm.resumeDone
    BY <1>0, <2>2, SetResumeSets
  <2>. HIDE DEF b
  <2>4. PowerInv(b, "resuming")
    BY <1>0, <2>1, <2>3, Numbers DEF PowerInv
  <2>5. ForceInv(b, forcer)
    BY <1>0, <2>1, <2>3, Numbers DEF PowerInv, ForceInv, Beside
  <2>. QED BY <1>1, <2>1, <2>3, <2>4, <2>5 DEF Sound, Beside
<1>4. CASE PlatformResumed
  <2>. DEFINE b == SetResume(arm, RESUMED)
  <2>1. arm' = b /\ power' = "on" /\ power = "resuming" /\ pollAsked' = pollAsked
    BY <1>4 DEF PlatformResumed
  <2>2. RESUMED \in IDLE..RESUMED
    BY Numbers
  <2>3. /\ Beside(b, arm) /\ b.suspend = IDLE /\ b.resume = RESUMED /\ b.resumeDone
    BY <1>0, <2>2, SetResumeSets
  <2>. HIDE DEF b
  <2>4. PowerInv(b, "on")
    BY <2>3, Numbers DEF PowerInv
  <2>5. forcer # "held"
    BY <1>0, <2>1, Numbers DEF PowerInv, ForceInv
  <2>6. ForceInv(b, forcer)
    BY <1>0, <2>3, <2>5, Numbers DEF ForceInv, Beside
  <2>. QED BY <1>1, <2>1, <2>3, <2>4, <2>6 DEF Sound, Beside
<1>5. ASSUME NEW s \in {SUSPENDED, REJECTED, FAILED}, PlatformReports(s)
      PROVE  /\ Sound(arm', power', forcer') /\ arm'.blockedCount = arm.blockedCount
             /\ power' \in {"on", "suspending", "off", "resuming"} /\ pollAsked' \in BOOLEAN
  <2>. DEFINE b == SetSuspend(arm, s)
  <2>1. /\ arm' = b /\ power = "suspending" /\ pollAsked' = pollAsked
        /\ power' = CASE s = SUSPENDED -> "off" [] s = REJECTED -> "resuming" [] OTHER -> "on"
    BY <1>5 DEF PlatformReports
  <2>2. s \in FORCE_CANCELED..SUSPENDED /\ s # IN_PROGRESS
    BY <1>5, Numbers
  <2>3. /\ Beside(b, arm) /\ b.suspend = s
        /\ s = FAILED => b.resume = RESUMED /\ b.resumeDone
        /\ s # FAILED => b.resume = arm.resume /\ b.resumeDone = arm.resumeDone
    BY <1>0, <2>2, SetSuspendSets
  <2>. HIDE DEF b
  <2>4. /\ s = SUSPENDED => power' = "off" /\ s # FAILED
        /\ s = REJECTED => power' = "resuming" /\ s # FAILED /\ s # SUSPENDED
        /\ s = FAILED => power' = "on"
    BY <2>1, Numbers
  <2>5. /\ power = "suspending" /\ suspends /\ arm.resume \in {IDLE, REQUESTED}
        /\ arm.suspend = IN_PROGRESS /\ (arm.resumeDone <=> arm.resume = RESUMED)
    BY <1>0, <2>1 DEF PowerInv
  <2>6. PowerInv(b, power')
    BY <1>5, <2>3, <2>4, <2>5, Numbers DEF PowerInv
  <2>7. ForceInv(b, forcer)
    BY <1>0, <1>5, <2>3, <2>5, Numbers DEF ForceInv, Beside
  <2>. QED BY <1>1, <1>5, <2>1, <2>3, <2>4, <2>6, <2>7 DEF Sound, Beside
<1>. QED BY <1>2, <1>3, <1>4, <1>5 DEF PlatformStep

-----------------------------------------------------------------------------
(* The users that wait on the blocker.                                       *)
Places == {"idle", "wait", "swapRelease", "swapUse", "loop", "blocked",
           "resumeWait", "ack", "acking", "using"}

(* One thread moves: those that wait on the blocker change by it alone.      *)
LEMMA BlockedMoves ==
  ASSUME userAt \in [Users -> Places], NEW u \in Users, NEW p \in Places,
         userAt' = [userAt EXCEPT ![u] = p]
  PROVE  /\ userAt' \in [Users -> Places] /\ Cardinality(Blocked) \in Nat
         /\ p # "blocked" /\ userAt[u] # "blocked" => Blocked' = Blocked
         /\ p = "blocked" /\ userAt[u] # "blocked" =>
              Cardinality(Blocked') = Cardinality(Blocked) + 1
         /\ p # "blocked" /\ userAt[u] = "blocked" =>
              Cardinality(Blocked') = Cardinality(Blocked) - 1 /\ Cardinality(Blocked) # 0
<1>1. IsFiniteSet(Blocked)
  <2>1. Blocked \in SUBSET Users
    BY DEF Blocked
  <2>. QED BY <2>1, FS_Subset, SuspendAssumption
<1>2. Cardinality(Blocked) \in Nat
  BY <1>1, FS_CardinalityType
<1>3. userAt' \in [Users -> Places]
  OBVIOUS
<1>4. p # "blocked" /\ userAt[u] # "blocked" => Blocked' = Blocked
  BY DEF Blocked
<1>5. ASSUME p = "blocked", userAt[u] # "blocked"
      PROVE  Cardinality(Blocked') = Cardinality(Blocked) + 1
  <2>1. Blocked' = Blocked \cup {u} /\ u \notin Blocked
    BY <1>5 DEF Blocked
  <2>. QED BY <1>1, <2>1, FS_AddElement
<1>6. ASSUME p # "blocked", userAt[u] = "blocked"
      PROVE  Cardinality(Blocked') = Cardinality(Blocked) - 1 /\ Cardinality(Blocked) # 0
  <2>1. Blocked' = Blocked \ {u} /\ u \in Blocked
    BY <1>6 DEF Blocked
  <2>2. Cardinality(Blocked) # 0
    BY <1>1, <2>1, FS_EmptySet
  <2>. QED BY <1>1, <2>1, <2>2, FS_RemoveElement
<1>. QED BY <1>2, <1>3, <1>4, <1>5, <1>6

(* The acknowledgements that are being sent, when one thread's change.       *)
Rows(f) == UNION {{u} \X (1..f[u]) : u \in Users}

(* One thread has other acknowledgements to send: their number in all.       *)
LEMMA RowChanges ==
  ASSUME NEW f \in [Users -> Nat], NEW g \in [Users -> Nat], NEW u \in Users,
         \A v \in Users : v # u => g[v] = f[v], IsFiniteSet(Rows(f))
  PROVE  /\ IsFiniteSet(Rows(g)) /\ Cardinality(Rows(f)) \in Nat
         /\ Cardinality(Rows(g)) = Cardinality(Rows(f)) - f[u] + g[u]
         /\ f[u] <= Cardinality(Rows(f))
<1>. DEFINE rest == UNION {{v} \X (1..f[v]) : v \in Users \ {u}}
            row(h) == {u} \X (1..h[u])
<1>1. \A h \in {f, g} : IsFiniteSet(row(h)) /\ Cardinality(row(h)) = h[u]
  <2>. SUFFICES ASSUME NEW h \in [Users -> Nat]
                PROVE  IsFiniteSet(row(h)) /\ Cardinality(row(h)) = h[u]
    OBVIOUS
  <2>1. h[u] \in Nat /\ h[u] \in Int /\ 1 \in Int
    OBVIOUS
  <2>2. IsFiniteSet(1..h[u]) /\ Cardinality(1..h[u]) = h[u]
    BY <2>1, FS_Interval
  <2>3. IsFiniteSet({u}) /\ Cardinality({u}) = 1
    BY FS_Singleton
  <2>4. IsFiniteSet(row(h)) /\ Cardinality(row(h)) = Cardinality({u}) * Cardinality(1..h[u])
    BY <2>2, <2>3, FS_Product
  <2>. HIDE DEF row
  <2>. QED BY <2>1, <2>2, <2>3, <2>4
<1>2. Rows(f) = rest \cup row(f) /\ rest \cap row(f) = {}
  BY DEF Rows
<1>3. Rows(g) = rest \cup row(g) /\ rest \cap row(g) = {}
  <2>1. \A v \in Users \ {u} : {v} \X (1..f[v]) = {v} \X (1..g[v])
    OBVIOUS
  <2>2. rest = UNION {{v} \X (1..g[v]) : v \in Users \ {u}}
    BY <2>1
  <2>. QED BY <2>2 DEF Rows
<1>4. IsFiniteSet(rest)
  <2>1. rest \in SUBSET Rows(f)
    BY <1>2
  <2>. QED BY <2>1, FS_Subset
<1>. HIDE DEF rest, row
<1>5. f[u] \in Nat /\ g[u] \in Nat
  OBVIOUS
<1>6. /\ Cardinality(rest) \in Nat /\ Cardinality({}) = 0
      /\ Cardinality(Rows(f)) = Cardinality(rest) + f[u]
      /\ IsFiniteSet(Rows(g)) /\ Cardinality(Rows(g)) = Cardinality(rest) + g[u]
  <2>1. Cardinality(rest) \in Nat /\ Cardinality({}) = 0
    BY <1>4, FS_CardinalityType, FS_EmptySet
  <2>2. \A h \in {f, g} :
          /\ IsFiniteSet(rest \cup row(h))
          /\ Cardinality(rest \cup row(h))
               = Cardinality(rest) + Cardinality(row(h)) - Cardinality(rest \cap row(h))
    BY <1>1, <1>4, FS_Union
  <2>3. /\ Cardinality(Rows(f)) = Cardinality(rest) + f[u] - 0
        /\ IsFiniteSet(Rows(g)) /\ Cardinality(Rows(g)) = Cardinality(rest) + g[u] - 0
    BY <1>1, <1>2, <1>3, <2>1, <2>2
  <2>. QED BY ONLY <1>5, <2>1, <2>3
<1>. QED BY ONLY <1>5, <1>6

(* The type of ka.                                                           *)
KaState ==
  [event : Nat, use : Nat, release : Nat, uc : Nat, rc : Nat,
   used : Nat, released : Nat, ack : Nat, acked : Nat,
   acking : [Users -> Nat], remote : Nat, remoteReleased : Nat]

(* All that is said of the keepalive thread.                                 *)
KaSound == ka \in KaState /\ PlaceInv /\ KaInv /\ AckInv

(* A step of a thread outside the loop of the keepalive, which changes none  *)
(* of its counts.                                                            *)
LEMMA KaRests ==
  ASSUME userAt \in [Users -> Places], KaSound, NEW u \in Users, NEW p \in Places,
         userAt' = [userAt EXCEPT ![u] = p], ka' = ka,
         userAt[u] # "acking", p # "acking",
         u = Keepalive =>
           /\ userAt[u] \notin {"wait", "swapRelease", "swapUse"}
           /\ p \notin {"idle", "using", "swapRelease", "swapUse"}
           /\ p = "wait" => ka.uc = 0 /\ ka.rc = 0
  PROVE  KaSound'
<1>1. PlaceInv'
  BY DEF KaSound, PlaceInv
<1>2. KaInv'
  <2>1. /\ userAt'[Keepalive] \in {"wait", "swapRelease", "swapUse"}
             => \/ userAt'[Keepalive] = userAt[Keepalive]
                \/ userAt'[Keepalive] = "wait" /\ ka.uc = 0 /\ ka.rc = 0
        /\ (userAt'[Keepalive] = "swapUse") <=> (userAt[Keepalive] = "swapUse")
    BY SuspendAssumption
  <2>. QED BY <2>1 DEF KaSound, KaInv
<1>3. AckInv'
  BY DEF KaSound, AckInv, Acking
<1>. QED BY <1>1, <1>2, <1>3 DEF KaSound

(* The counts of the keepalive change, no acknowledgement is being sent.     *)
LEMMA AckRests ==
  ASSUME KaSound, ka' \in KaState, ka'.acking = ka.acking,
         \E n \in {0, 1} : ka'.used = ka.used + n /\ ka'.acked + ka'.ack = ka.acked + ka.ack + n
  PROVE  AckInv'
<1>1. Acking' = Acking
  BY DEF Acking
<1>2. IsFiniteSet(Acking) /\ ka.used = ka.acked + ka.ack + Cardinality(Acking)
  BY DEF KaSound, AckInv
<1>3. Cardinality(Acking) \in Nat
  BY <1>2, FS_CardinalityType
<1>4. /\ ka.acked \in Nat /\ ka.ack \in Nat /\ ka.used \in Nat
      /\ ka'.acked \in Nat /\ ka'.ack \in Nat /\ ka'.used \in Nat
  BY DEF KaSound, KaState
<1>5. ka'.used = ka'.acked + ka'.ack + Cardinality(Acking)
  BY ONLY <1>2, <1>3, <1>4,
     \E n \in {0, 1} : ka'.used = ka.used + n /\ ka'.acked + ka'.ack = ka.acked + ka.ack + n
<1>. QED BY <1>1, <1>2, <1>5 DEF AckInv

(* The acknowledgements are taken, sent, or given back.                      *)
LEMMA AckMoves ==
  ASSUME userAt \in [Users -> Places], KaSound, NEW u \in Users, NEW p \in Places,
         userAt' = [userAt EXCEPT ![u] = p],
         userAt[u] \in {"ack", "acking"}, p = "acking" \/ p = AfterUse(u),
         ka' \in KaState,
         ka' = [ka EXCEPT !.ack = ka'.ack, !.acked = ka'.acked, !.acking = ka'.acking],
         \A v \in Users : v # u => ka'.acking[v] = ka.acking[v],
         ka'.acking[u] # 0 <=> p = "acking",
         ka'.ack + ka'.acked + ka'.acking[u] = ka.ack + ka.acked + ka.acking[u]
  PROVE  KaSound'
<1>. DEFINE f == ka'.acking
            ack == ka'.ack
            acked == ka'.acked
<1>1. /\ ka'.use = ka.use /\ ka'.uc = ka.uc /\ ka'.used = ka.used
      /\ ka'.release = ka.release /\ ka'.rc = ka.rc /\ ka'.released = ka.released
      /\ ka'.remote = ka.remote /\ ka'.remoteReleased = ka.remoteReleased
      /\ ka.acking \in [Users -> Nat] /\ f \in [Users -> Nat] /\ ack \in Nat /\ acked \in Nat
  BY DEF KaSound, KaState
<1>2. PlaceInv'
  BY <1>1, SuspendAssumption DEF KaSound, PlaceInv, AfterUse
<1>3. KaInv'
  <2>1. userAt'[Keepalive] \notin {"wait", "swapRelease", "swapUse"} \/ userAt'[Keepalive] = userAt[Keepalive]
    BY SuspendAssumption DEF AfterUse
  <2>2. (userAt'[Keepalive] = "swapUse") <=> (userAt[Keepalive] = "swapUse")
    BY SuspendAssumption DEF AfterUse
  <2>. QED BY <1>1, <2>1, <2>2 DEF KaSound, KaInv
<1>4. AckInv'
  <2>1. IsFiniteSet(Rows(ka.acking)) /\ ka.used = ka.acked + ka.ack + Cardinality(Rows(ka.acking))
    BY DEF KaSound, AckInv, Acking, Rows
  <2>2. /\ IsFiniteSet(Rows(f)) /\ Cardinality(Rows(ka.acking)) \in Nat
        /\ Cardinality(Rows(f)) = Cardinality(Rows(ka.acking)) - ka.acking[u] + f[u]
    BY <1>1, <2>1, RowChanges
  <2>3. /\ ka.acked \in Nat /\ ka.ack \in Nat /\ ka.used \in Nat
        /\ ka.acking[u] \in Nat /\ f[u] \in Nat /\ ack \in Nat /\ acked \in Nat
        /\ ack + acked + f[u] = ka.ack + ka.acked + ka.acking[u]
    BY <1>1 DEF KaSound, KaState
  <2>. HIDE DEF f, ack, acked
  <2>4. ka.used = acked + ack + Cardinality(Rows(f))
    BY ONLY <2>1, <2>2, <2>3
  <2>. USE DEF f, ack, acked
  <2>5. Acking' = Rows(f)
    BY <1>1 DEF Acking, Rows
  <2>. QED BY <1>1, <2>2, <2>4, <2>5 DEF AckInv
<1>. QED BY <1>1, <1>2, <1>3, <1>4 DEF KaSound

(* A thread takes what is owed to the peer, sends one, or fails to.          *)
LEMMA AckSteps ==
  ASSUME userAt \in [Users -> Places], KaSound, NEW u \in Users,
         TakeAcks(u) \/ SendAck(u) \/ AckFails(u)
  PROVE  /\ KaSound'
         /\ \E p \in Places : p # "blocked" /\ userAt' = [userAt EXCEPT ![u] = p]
         /\ userAt[u] # "blocked"
<1>1. /\ ka.ack \in Nat /\ ka.acked \in Nat /\ ka.acking \in [Users -> Nat]
      /\ ka.acking[u] \in Nat /\ ka \in KaState
      /\ AfterUse(u) \in Places /\ AfterUse(u) # "blocked" /\ "acking" \in Places
      /\ AfterUse(u) # "acking"
      /\ ka.acking[u] # 0 <=> userAt[u] = "acking"
  BY DEF KaSound, KaState, AfterUse, Places, PlaceInv
<1>2. CASE TakeAcks(u)
  <2>. DEFINE p == IF ka.ack = 0 THEN AfterUse(u) ELSE "acking"
              f == [ka.acking EXCEPT ![u] = ka.ack]
  <2>1. /\ userAt[u] = "ack" /\ userAt' = [userAt EXCEPT ![u] = p]
        /\ ka' = [ka EXCEPT !.ack = 0, !.acking[u] = ka.ack]
    BY <1>2 DEF TakeAcks
  <2>2. /\ ka' \in KaState /\ ka'.ack = 0 /\ ka'.acked = ka.acked /\ ka'.acking = f
        /\ ka' = [ka EXCEPT !.ack = ka'.ack, !.acked = ka'.acked, !.acking = ka'.acking]
    <3>1. ka' = [ka EXCEPT !.ack = 0, !.acking = f]
      BY <1>1, <2>1 DEF KaState
    <3>2. f \in [Users -> Nat]
      BY <1>1
    <3>. HIDE DEF f
    <3>. QED BY <1>1, <3>1, <3>2 DEF KaState
  <2>3. /\ f \in [Users -> Nat] /\ f[u] = ka.ack /\ \A v \in Users : v # u => f[v] = ka.acking[v]
        /\ p \in Places /\ p # "blocked" /\ (p = "acking" \/ p = AfterUse(u))
        /\ ka.ack # 0 <=> p = "acking"
    BY <1>1
  <2>4. ka.acking[u] = 0
    BY <1>1, <2>1
  <2>. HIDE DEF p, f
  <2>5. 0 + ka.acked + f[u] = ka.ack + ka.acked + ka.acking[u]
    BY <1>1, <2>3, <2>4
  <2>6. KaSound'
    BY <1>1, <2>1, <2>2, <2>3, <2>5, AckMoves
  <2>. QED BY <2>1, <2>3, <2>6
<1>3. CASE SendAck(u)
  <2>. DEFINE p == IF ka.acking[u] = 1 THEN AfterUse(u) ELSE "acking"
              f == [ka.acking EXCEPT ![u] = @ - 1]
  <2>1. /\ userAt[u] = "acking" /\ ka.acking[u] # 0
        /\ userAt' = [userAt EXCEPT ![u] = p]
        /\ ka' = [ka EXCEPT !.acking[u] = @ - 1, !.acked = @ + 1]
    BY <1>1, <1>3 DEF SendAck
  <2>2. /\ ka' \in KaState /\ ka'.ack = ka.ack /\ ka'.acked = ka.acked + 1 /\ ka'.acking = f
        /\ ka' = [ka EXCEPT !.ack = ka'.ack, !.acked = ka'.acked, !.acking = ka'.acking]
    <3>1. ka' = [ka EXCEPT !.acked = ka.acked + 1, !.acking = f]
      BY <1>1, <2>1 DEF KaState
    <3>2. f \in [Users -> Nat] /\ ka.acked + 1 \in Nat
      BY <1>1, <2>1
    <3>. DEFINE n == ka.acked + 1
    <3>3. ka' = [ka EXCEPT !.acked = n, !.acking = f] /\ n \in Nat
      BY <3>1, <3>2
    <3>. HIDE DEF f, n
    <3>4. ka' \in KaState /\ ka'.ack = ka.ack /\ ka'.acked = n /\ ka'.acking = f
      BY <1>1, <3>2, <3>3 DEF KaState
    <3>5. ka' = [ka EXCEPT !.ack = ka'.ack, !.acked = ka'.acked, !.acking = ka'.acking]
      BY <1>1, <3>3, <3>4 DEF KaState
    <3>. QED BY <3>4, <3>5 DEF n
  <2>3. /\ f \in [Users -> Nat] /\ f[u] = ka.acking[u] - 1
        /\ \A v \in Users : v # u => f[v] = ka.acking[v]
        /\ p \in Places /\ p # "blocked" /\ (p = "acking" \/ p = AfterUse(u))
        /\ f[u] # 0 <=> p = "acking"
    BY <1>1, <2>1
  <2>. HIDE DEF p, f
  <2>5. ka.ack + (ka.acked + 1) + f[u] = ka.ack + ka.acked + ka.acking[u]
    BY <1>1, <2>3
  <2>6. KaSound'
    BY <1>1, <2>1, <2>2, <2>3, <2>5, AckMoves
  <2>. QED BY <2>1, <2>3, <2>6
<1>4. CASE AckFails(u)
  <2>. DEFINE f == [ka.acking EXCEPT ![u] = 0]
  <2>1. /\ userAt[u] = "acking" /\ userAt' = [userAt EXCEPT ![u] = AfterUse(u)]
        /\ ka' = [ka EXCEPT !.acking[u] = 0, !.ack = @ + ka.acking[u]]
    BY <1>4 DEF AckFails
  <2>2. /\ ka' \in KaState /\ ka'.ack = ka.ack + ka.acking[u] /\ ka'.acked = ka.acked
        /\ ka'.acking = f
        /\ ka' = [ka EXCEPT !.ack = ka'.ack, !.acked = ka'.acked, !.acking = ka'.acking]
    <3>. DEFINE n == ka.ack + ka.acking[u]
    <3>1. ka' = [ka EXCEPT !.ack = n, !.acking = f]
      BY <1>1, <2>1 DEF KaState
    <3>2. f \in [Users -> Nat] /\ n \in Nat
      BY <1>1
    <3>. HIDE DEF f, n
    <3>3. ka' \in KaState /\ ka'.ack = n /\ ka'.acked = ka.acked /\ ka'.acking = f
      BY <1>1, <3>1, <3>2 DEF KaState
    <3>4. ka' = [ka EXCEPT !.ack = ka'.ack, !.acked = ka'.acked, !.acking = ka'.acking]
      BY <1>1, <3>1, <3>3 DEF KaState
    <3>. QED BY <3>3, <3>4 DEF n
  <2>3. /\ f \in [Users -> Nat] /\ f[u] = 0 /\ \A v \in Users : v # u => f[v] = ka.acking[v]
    BY <1>1
  <2>. HIDE DEF f
  <2>5. (ka.ack + ka.acking[u]) + ka.acked + f[u] = ka.ack + ka.acked + ka.acking[u]
    BY <1>1, <2>3
  <2>6. KaSound'
    BY <1>1, <2>1, <2>2, <2>3, <2>5, AckMoves
  <2>. QED BY <1>1, <2>1, <2>6
<1>. QED BY <1>2, <1>3, <1>4

(* What the types of the keepalive's counts are, for arithmetic.             *)
LEMMA KaTyped ==
  ASSUME ka \in KaState
  PROVE  /\ ka.event \in Nat /\ ka.use \in Nat /\ ka.release \in Nat /\ ka.uc \in Nat
         /\ ka.rc \in Nat /\ ka.used \in Nat /\ ka.released \in Nat /\ ka.ack \in Nat
         /\ ka.acked \in Nat /\ ka.remote \in Nat /\ ka.remoteReleased \in Nat
BY DEF KaState

(* The peer's messages are counted; the release follows its use.             *)
LEMMA RemoteKeeps ==
  ASSUME userAt \in [Users -> Places], KaSound, RemoteUse \/ RemoteRelease
  PROVE  KaSound'
<1>0. ka \in KaState /\ userAt' = userAt /\ PlaceInv /\ KaInv
  BY DEF KaSound, RemoteUse, RemoteRelease
<1>1. CASE RemoteUse
  <2>1. /\ ka' \in KaState /\ ka'.acking = ka.acking /\ ka'.uc = ka.uc /\ ka'.rc = ka.rc
        /\ ka'.used = ka.used /\ ka'.ack = ka.ack /\ ka'.acked = ka.acked
        /\ ka'.released = ka.released /\ ka'.release = ka.release
        /\ ka'.remoteReleased = ka.remoteReleased
        /\ ka'.use = ka.use + 1 /\ ka'.remote = ka.remote + 1
    <3>. DEFINE m == ka.use + 1
               n == ka.remote + 1
               e == ka.event + 1
    <3>1. ka' = [ka EXCEPT !.remote = n, !.use = m, !.event = e]
      BY <1>1 DEF RemoteUse
    <3>2. m \in Nat /\ n \in Nat /\ e \in Nat
      BY <1>0, KaTyped
    <3>. HIDE DEF m, n, e
    <3>3. /\ ka' \in KaState /\ ka'.acking = ka.acking /\ ka'.uc = ka.uc /\ ka'.rc = ka.rc
          /\ ka'.used = ka.used /\ ka'.ack = ka.ack /\ ka'.acked = ka.acked
          /\ ka'.released = ka.released /\ ka'.release = ka.release
          /\ ka'.remoteReleased = ka.remoteReleased
          /\ ka'.use = m /\ ka'.remote = n
      BY <1>0, <3>1, <3>2 DEF KaState
    <3>. QED BY <3>3 DEF m, n, e
  <2>2. PlaceInv'
    BY <1>0, <2>1 DEF PlaceInv
  <2>3. KaInv'
    BY <1>0, <2>1, KaTyped DEF KaInv
  <2>4. AckInv'
    <3>1. 0 \in {0, 1} /\ ka'.used = ka.used + 0 /\ ka'.acked + ka'.ack = ka.acked + ka.ack + 0
      BY <1>0, <2>1, KaTyped
    <3>. QED BY <2>1, <3>1, AckRests
  <2>. QED BY <2>1, <2>2, <2>3, <2>4 DEF KaSound
<1>2. CASE RemoteRelease
  <2>1. /\ ka' \in KaState /\ ka'.acking = ka.acking /\ ka'.uc = ka.uc /\ ka'.rc = ka.rc
        /\ ka'.used = ka.used /\ ka'.ack = ka.ack /\ ka'.acked = ka.acked
        /\ ka'.released = ka.released /\ ka'.use = ka.use /\ ka'.remote = ka.remote
        /\ ka'.release = ka.release + 1 /\ ka'.remoteReleased = ka.remoteReleased + 1
        /\ ka.remoteReleased < ka.remote
    <3>. DEFINE m == ka.release + 1
               n == ka.remoteReleased + 1
               e == ka.event + 1
    <3>1. /\ ka.remoteReleased < ka.remote
          /\ ka' = [ka EXCEPT !.remoteReleased = n, !.release = m, !.event = e]
      BY <1>2 DEF RemoteRelease
    <3>2. m \in Nat /\ n \in Nat /\ e \in Nat
      BY <1>0, KaTyped
    <3>. HIDE DEF m, n, e
    <3>3. /\ ka' \in KaState /\ ka'.acking = ka.acking /\ ka'.uc = ka.uc /\ ka'.rc = ka.rc
          /\ ka'.used = ka.used /\ ka'.ack = ka.ack /\ ka'.acked = ka.acked
          /\ ka'.released = ka.released /\ ka'.use = ka.use /\ ka'.remote = ka.remote
          /\ ka'.release = m /\ ka'.remoteReleased = n
          /\ ka.remoteReleased < ka.remote
      BY <1>0, <3>1, <3>2 DEF KaState
    <3>. QED BY <3>3, <3>1 DEF m, n, e
  <2>2. PlaceInv'
    BY <1>0, <2>1 DEF PlaceInv
  <2>3. KaInv'
    BY <1>0, <2>1, KaTyped DEF KaInv
  <2>4. AckInv'
    <3>1. 0 \in {0, 1} /\ ka'.used = ka.used + 0 /\ ka'.acked + ka'.ack = ka.acked + ka.ack + 0
      BY <1>0, <2>1, KaTyped
    <3>. QED BY <2>1, <3>1, AckRests
  <2>. QED BY <2>1, <2>2, <2>3, <2>4 DEF KaSound
<1>. QED BY <1>1, <1>2

(* Where the keepalive thread goes, it is among the places and sends nothing.*)
LEMMA KaPlaces ==
  ASSUME userAt \in [Users -> Places], KaSound, NEW p \in Places,
         userAt[Keepalive] # "acking", p \notin {"acking", "idle", "using"},
         userAt' = [userAt EXCEPT ![Keepalive] = p], ka'.acking = ka.acking
  PROVE  PlaceInv' /\ userAt'[Keepalive] = p
BY SuspendAssumption DEF KaSound, PlaceInv

(* The keepalive thread wakes up and takes the releases, then the uses: a    *)
(* release that it takes has its use taken or still to be taken.             *)
LEMMA KaWaits ==
  ASSUME userAt \in [Users -> Places], KaSound, KaWait \/ KaSwap
  PROVE  /\ KaSound'
         /\ \E p \in Places : p # "blocked" /\ userAt' = [userAt EXCEPT ![Keepalive] = p]
         /\ userAt[Keepalive] # "blocked"
<1>0. /\ ka \in KaState /\ KaInv /\ {"swapRelease", "swapUse", "loop"} \subseteq Places
      /\ "swapRelease" # "blocked" /\ "swapUse" # "blocked" /\ "loop" # "blocked"
  BY DEF KaSound, Places
<1>1. CASE KaWait
  <2>1. /\ userAt[Keepalive] = "wait"
        /\ userAt' = [userAt EXCEPT ![Keepalive] = "swapRelease"]
        /\ ka.event > 0 /\ ka' = [ka EXCEPT !.event = @ - 1]
    BY <1>1 DEF KaWait, KaGoto
  <2>2. /\ ka' \in KaState /\ ka'.acking = ka.acking /\ ka'.uc = ka.uc /\ ka'.rc = ka.rc
        /\ ka'.used = ka.used /\ ka'.ack = ka.ack /\ ka'.acked = ka.acked
        /\ ka'.released = ka.released /\ ka'.use = ka.use /\ ka'.remote = ka.remote
        /\ ka'.release = ka.release /\ ka'.remoteReleased = ka.remoteReleased
    BY <1>0, <2>1 DEF KaState
  <2>3. PlaceInv' /\ userAt'[Keepalive] = "swapRelease"
    BY <1>0, <2>1, <2>2, KaPlaces
  <2>4. KaInv'
    BY <1>0, <2>1, <2>2, <2>3, KaTyped DEF KaInv
  <2>5. AckInv'
    <3>1. 0 \in {0, 1} /\ ka'.used = ka.used + 0 /\ ka'.acked + ka'.ack = ka.acked + ka.ack + 0
      BY <1>0, <2>2, KaTyped
    <3>. QED BY <2>2, <3>1, AckRests
  <2>. QED BY <1>0, <2>1, <2>2, <2>3, <2>4, <2>5 DEF KaSound
<1>2. CASE KaGoto("swapRelease", "swapUse") /\ KaSwapRelease
  <2>1. /\ userAt[Keepalive] = "swapRelease"
        /\ userAt' = [userAt EXCEPT ![Keepalive] = "swapUse"]
        /\ ka' = [ka EXCEPT !.rc = ka.release, !.release = 0]
    BY <1>2 DEF KaSwapRelease, KaGoto
  <2>2. /\ ka' \in KaState /\ ka'.acking = ka.acking /\ ka'.uc = ka.uc
        /\ ka'.used = ka.used /\ ka'.ack = ka.ack /\ ka'.acked = ka.acked
        /\ ka'.released = ka.released /\ ka'.use = ka.use /\ ka'.remote = ka.remote
        /\ ka'.remoteReleased = ka.remoteReleased
        /\ ka'.rc = ka.release /\ ka'.release = 0
    BY <1>0, <2>1 DEF KaState
  <2>3. PlaceInv' /\ userAt'[Keepalive] = "swapUse"
    BY <1>0, <2>1, <2>2, KaPlaces
  <2>4. KaInv'
    BY <1>0, <2>1, <2>2, <2>3, KaTyped DEF KaInv
  <2>5. AckInv'
    <3>1. 0 \in {0, 1} /\ ka'.used = ka.used + 0 /\ ka'.acked + ka'.ack = ka.acked + ka.ack + 0
      BY <1>0, <2>2, KaTyped
    <3>. QED BY <2>2, <3>1, AckRests
  <2>. QED BY <1>0, <2>1, <2>2, <2>3, <2>4, <2>5 DEF KaSound
<1>3. CASE KaGoto("swapUse", "loop") /\ KaSwapUse
  <2>1. /\ userAt[Keepalive] = "swapUse"
        /\ userAt' = [userAt EXCEPT ![Keepalive] = "loop"]
        /\ ka' = [ka EXCEPT !.uc = ka.use, !.use = 0]
    BY <1>3 DEF KaSwapUse, KaGoto
  <2>2. /\ ka' \in KaState /\ ka'.acking = ka.acking /\ ka'.rc = ka.rc
        /\ ka'.used = ka.used /\ ka'.ack = ka.ack /\ ka'.acked = ka.acked
        /\ ka'.released = ka.released /\ ka'.remote = ka.remote
        /\ ka'.release = ka.release /\ ka'.remoteReleased = ka.remoteReleased
        /\ ka'.uc = ka.use /\ ka'.use = 0
    BY <1>0, <2>1 DEF KaState
  <2>3. PlaceInv' /\ userAt'[Keepalive] = "loop"
    BY <1>0, <2>1, <2>2, KaPlaces
  <2>4. KaInv'
    BY <1>0, <2>1, <2>2, <2>3, KaTyped DEF KaInv
  <2>5. AckInv'
    <3>1. 0 \in {0, 1} /\ ka'.used = ka.used + 0 /\ ka'.acked + ka'.ack = ka.acked + ka.ack + 0
      BY <1>0, <2>2, KaTyped
    <3>. QED BY <2>2, <3>1, AckRests
  <2>. QED BY <1>0, <2>1, <2>2, <2>3, <2>4, <2>5 DEF KaSound
<1>. QED BY <1>1, <1>2, <1>3 DEF KaSwap

(* A use for the peer: counted, and its acknowledgement owed.                *)
LEMMA KaUses ==
  ASSUME userAt \in [Users -> Places], KaSound, userAt[Keepalive] = "loop", ka.uc > 0,
         ka' = [ka EXCEPT !.uc = @ - 1, !.ack = @ + 1, !.used = @ + 1],
         NEW p \in {"ack", "resumeWait", "blocked"},
         userAt' = [userAt EXCEPT ![Keepalive] = p]
  PROVE  KaSound'
<1>0. /\ ka \in KaState /\ KaInv /\ p \in Places /\ p \notin {"acking", "idle", "using"}
      /\ p \notin {"wait", "swapRelease", "swapUse"}
  BY DEF KaSound, Places
<1>2. /\ ka' \in KaState /\ ka'.acking = ka.acking /\ ka'.rc = ka.rc
      /\ ka'.acked = ka.acked /\ ka'.use = ka.use
      /\ ka'.released = ka.released /\ ka'.remote = ka.remote
      /\ ka'.release = ka.release /\ ka'.remoteReleased = ka.remoteReleased
      /\ ka'.uc = ka.uc - 1 /\ ka'.used = ka.used + 1 /\ ka'.ack = ka.ack + 1
  <2>. DEFINE l == ka.uc - 1
             m == ka.used + 1
             n == ka.ack + 1
  <2>1. ka' = [ka EXCEPT !.uc = l, !.ack = n, !.used = m]
    BY <1>0
  <2>2. l \in Nat /\ m \in Nat /\ n \in Nat
    BY <1>0, KaTyped
  <2>. HIDE DEF l, m, n
  <2>3. /\ ka' \in KaState /\ ka'.acking = ka.acking /\ ka'.rc = ka.rc
        /\ ka'.acked = ka.acked /\ ka'.use = ka.use
        /\ ka'.released = ka.released /\ ka'.remote = ka.remote
        /\ ka'.release = ka.release /\ ka'.remoteReleased = ka.remoteReleased
        /\ ka'.uc = l /\ ka'.used = m /\ ka'.ack = n
    BY <1>0, <2>1, <2>2 DEF KaState
  <2>. QED BY <2>3 DEF l, m, n
<1>3. PlaceInv' /\ userAt'[Keepalive] = p
  BY <1>0, <1>2, KaPlaces
<1>4. KaInv'
  <2>1. userAt'[Keepalive] \notin {"wait", "swapRelease", "swapUse"}
    BY <1>0, <1>3
  <2>. QED BY <1>0, <1>2, <2>1, KaTyped DEF KaInv
<1>5. AckInv'
  <2>1. 1 \in {0, 1} /\ ka'.used = ka.used + 1 /\ ka'.acked + ka'.ack = ka.acked + ka.ack + 1
    BY <1>0, <1>2, KaTyped
  <2>. QED BY <1>2, <2>1, AckRests
<1>. QED BY <1>2, <1>3, <1>4, <1>5 DEF KaSound

(* A release by the keepalive thread, when all its uses are made.            *)
LEMMA KaReleases ==
  ASSUME userAt \in [Users -> Places], KaSound, KaRelease
  PROVE  KaSound' /\ userAt' = userAt
<1>0. ka \in KaState /\ KaInv /\ "loop" \in Places
  BY DEF KaSound, Places
<1>1. /\ userAt[Keepalive] = "loop" /\ ka.rc > 0 /\ ka.uc = 0
      /\ userAt' = [userAt EXCEPT ![Keepalive] = "loop"]
      /\ ka' = [ka EXCEPT !.rc = @ - 1, !.released = @ + 1]
  BY DEF KaRelease, KaGoto
<1>2. /\ ka' \in KaState /\ ka'.acking = ka.acking /\ ka'.uc = ka.uc
      /\ ka'.used = ka.used /\ ka'.ack = ka.ack /\ ka'.acked = ka.acked
      /\ ka'.use = ka.use /\ ka'.remote = ka.remote
      /\ ka'.release = ka.release /\ ka'.remoteReleased = ka.remoteReleased
      /\ ka'.rc = ka.rc - 1 /\ ka'.released = ka.released + 1
  <2>. DEFINE m == ka.rc - 1
             n == ka.released + 1
  <2>1. ka' = [ka EXCEPT !.rc = m, !.released = n]
    BY <1>1
  <2>2. m \in Nat /\ n \in Nat
    BY <1>0, <1>1, KaTyped
  <2>. HIDE DEF m, n
  <2>3. /\ ka' \in KaState /\ ka'.acking = ka.acking /\ ka'.uc = ka.uc
        /\ ka'.used = ka.used /\ ka'.ack = ka.ack /\ ka'.acked = ka.acked
        /\ ka'.use = ka.use /\ ka'.remote = ka.remote
        /\ ka'.release = ka.release /\ ka'.remoteReleased = ka.remoteReleased
        /\ ka'.rc = m /\ ka'.released = n
    BY <1>0, <2>1, <2>2 DEF KaState
  <2>. QED BY <2>3 DEF m, n
<1>3. PlaceInv' /\ userAt'[Keepalive] = "loop"
  BY <1>0, <1>1, <1>2, KaPlaces
<1>4. KaInv'
  BY <1>0, <1>1, <1>2, <1>3, KaTyped DEF KaInv
<1>5. AckInv'
  <2>1. 0 \in {0, 1} /\ ka'.used = ka.used + 0 /\ ka'.acked + ka'.ack = ka.acked + ka.ack + 0
    BY <1>0, <1>2, KaTyped
  <2>. QED BY <1>2, <2>1, AckRests
<1>. QED BY <1>1, <1>2, <1>3, <1>4, <1>5, SuspendAssumption DEF KaSound

(* The types of the other variables.                                         *)
Typed ==
  /\ power \in {"on", "suspending", "off", "resuming"} /\ suspends \in BOOLEAN
  /\ pollAsked \in BOOLEAN
  /\ userAt \in [Users -> Places] /\ uses \in [Users -> Nat]
  /\ forcer \in {"idle", "draining", "resuming", "waiting", "held", "allowing"}
  /\ tries \in [resume : Nat, repeated : BOOLEAN, calls : Nat]

(* The users that wait on the blocker are those counted.                     *)
BlockedInv == arm.blockedCount = Cardinality(Blocked)

(* The inductive invariant.                                                  *)
IInv == Typed /\ Sound(arm, power, forcer) /\ BlockedInv /\ KaSound

(* The primed invariant from what the lemmas give: suspends never changes.   *)
LEMMA Keeps ==
  ASSUME Sound(arm', power', forcer'), suspends' = suspends, Typed', BlockedInv', KaSound'
  PROVE  IInv'
<1>1. Sound(arm, power, forcer)'
  BY DEF Sound, PowerInv, ForceInv
<1>. QED BY <1>1 DEF IInv

(* The parts of the invariant that the steps of a user need.                 *)
LEMMA UserTyped ==
  ASSUME IInv
  PROVE  /\ userAt \in [Users -> Places]
         /\ uses \in [Users -> Nat] /\ pollAsked \in BOOLEAN
         /\ "blocked" \in Places /\ "ack" \in Places /\ "resumeWait" \in Places
         /\ "idle" \in Places /\ "wait" \in Places /\ KaSound
         /\ Sound(arm, power, forcer) /\ Typed /\ BlockedInv
BY DEF IInv, Typed, Places

(* A user that waits on the blocker is counted.                              *)
LEMMA BlockedCounted ==
  ASSUME userAt \in [Users -> Places], NEW u \in Users, userAt[u] = "blocked"
  PROVE  Cardinality(Blocked) \in Nat /\ Cardinality(Blocked) # 0
<1>1. Blocked \in SUBSET Users /\ u \in Blocked
  BY DEF Blocked
<1>2. IsFiniteSet(Blocked)
  BY <1>1, FS_Subset, SuspendAssumption
<1>. QED BY <1>1, <1>2, FS_CardinalityType, FS_EmptySet

-----------------------------------------------------------------------------
(* A client uses its service: vchiq_use_service.                             *)
LEMMA UseServiceKeeps ==
  ASSUME IInv, NEW u \in Users, UseService(u)
  PROVE  IInv'
<1>1. /\ u # Keepalive /\ userAt[u] = "idle" /\ TryUse(u, arm)
      /\ power' = power /\ suspends' = suspends /\ forcer' = forcer /\ tries' = tries
      /\ ka' = ka
  BY DEF UseService
<1>2. /\ Sound(arm', power, forcer) /\ uses' \in [Users -> Nat] /\ pollAsked' \in BOOLEAN
      /\ \/ /\ arm'.blockedCount = arm.blockedCount
            /\ \E place \in {"ack", "resumeWait"} : userAt' = [userAt EXCEPT ![u] = place]
         \/ /\ arm'.blockedCount = arm.blockedCount + 1
            /\ userAt' = [userAt EXCEPT ![u] = "blocked"]
  BY <1>1, UserTyped, UseTried
<1>3. PICK p \in Places :
        /\ p \in {"ack", "resumeWait", "blocked"} /\ userAt' = [userAt EXCEPT ![u] = p]
        /\ p # "blocked" => arm'.blockedCount = arm.blockedCount
        /\ p = "blocked" => arm'.blockedCount = arm.blockedCount + 1
  BY <1>2, UserTyped
<1>4. KaSound'
  BY <1>1, <1>3, UserTyped, KaRests
<1>5. BlockedInv'
  BY <1>1, <1>3, UserTyped, BlockedMoves DEF BlockedInv
<1>6. Typed'
  BY <1>1, <1>2, <1>3, UserTyped DEF Typed
<1>. QED BY <1>1, <1>2, <1>4, <1>5, <1>6, Keeps

(* What a user woken by unblock_resume finds when it has counted itself out: *)
(* resume is not blocked.                                                    *)
LEMMA LetGo ==
  ASSUME IInv, NEW u \in Users, userAt[u] = "blocked", arm.blockerDone
  PROVE  LET a == [arm EXCEPT !.blockedCount = @ - 1,
                              !.blockedDone = @ \/ arm.blockedCount = 1]
         IN  Sound(a, power, forcer) /\ ~a.resumeBlocked
             /\ a.blockedCount = arm.blockedCount - 1
<1>. DEFINE a == [arm EXCEPT !.blockedCount = @ - 1,
                             !.blockedDone = @ \/ arm.blockedCount = 1]
<1>2. arm.blockedCount - 1 \in Nat
  BY UserTyped, BlockedCounted DEF BlockedInv
<1>3. /\ a \in ArmState /\ a.suspend = arm.suspend /\ a.resume = arm.resume
      /\ a.resumeDone = arm.resumeDone /\ a.blockedCount = arm.blockedCount - 1
      /\ a.resumeBlocked = arm.resumeBlocked /\ a.blockerDone = arm.blockerDone
  <2>. DEFINE n == arm.blockedCount - 1
              d == arm.blockedDone \/ arm.blockedCount = 1
  <2>1. arm \in ArmState
    BY UserTyped DEF Sound
  <2>2. n \in Nat /\ d \in BOOLEAN /\ a = [arm EXCEPT !.blockedCount = n, !.blockedDone = d]
    BY <1>2, <2>1 DEF ArmState
  <2>. HIDE DEF n, d, a
  <2>3. /\ a \in ArmState /\ a.suspend = arm.suspend /\ a.resume = arm.resume
        /\ a.resumeDone = arm.resumeDone /\ a.blockedCount = n
        /\ a.resumeBlocked = arm.resumeBlocked /\ a.blockerDone = arm.blockerDone
    BY <2>1, <2>2 DEF ArmState
  <2>. QED BY <2>3 DEF n
<1>. HIDE DEF a
<1>4. Sound(a, power, forcer) /\ ~a.resumeBlocked
  BY <1>3, UserTyped DEF Sound, PowerInv, ForceInv
<1>. QED BY <1>3, <1>4 DEF a

(* A user woken by unblock_resume: resume is not blocked, so it is counted   *)
(* at once and waits no second time.                                         *)
LEMMA UseUnblockedKeeps ==
  ASSUME IInv, NEW u \in Users, UseUnblocked(u)
  PROVE  IInv'
<1>. DEFINE a == [arm EXCEPT !.blockedCount = @ - 1,
                             !.blockedDone = @ \/ arm.blockedCount = 1]
<1>1. /\ userAt[u] = "blocked" /\ arm.blockerDone /\ TryUse(u, a)
      /\ power' = power /\ suspends' = suspends /\ forcer' = forcer /\ tries' = tries
      /\ ka' = ka
  BY DEF UseUnblocked
<1>. HIDE DEF a
<1>4. Sound(a, power, forcer) /\ ~a.resumeBlocked /\ a.blockedCount = arm.blockedCount - 1
  BY <1>1, LetGo DEF a
<1>5. /\ Sound(arm', power, forcer) /\ uses' \in [Users -> Nat] /\ pollAsked' \in BOOLEAN
      /\ arm'.blockedCount = arm.blockedCount - 1
      /\ \E place \in {"ack", "resumeWait"} : userAt' = [userAt EXCEPT ![u] = place]
  BY <1>1, <1>4, UserTyped, UseTried
<1>6. PICK p \in Places :
        p \in {"ack", "resumeWait"} /\ userAt' = [userAt EXCEPT ![u] = p]
  BY <1>5, UserTyped
<1>7. KaSound'
  BY <1>1, <1>6, UserTyped, KaRests
<1>8. BlockedInv'
  BY <1>1, <1>5, <1>6, UserTyped, BlockedMoves DEF BlockedInv
<1>9. Typed'
  BY <1>1, <1>5, <1>6, UserTyped DEF Typed
<1>. QED BY <1>1, <1>5, <1>7, <1>8, <1>9, Keeps

(* The steps of a user that leave the state of the VideoCore alone.          *)
LEMMA UserRests ==
  ASSUME IInv, NEW u \in Users, NEW p \in Places,
         userAt[u] # "blocked", p # "blocked", userAt' = [userAt EXCEPT ![u] = p],
         arm' = arm, pollAsked' = pollAsked, uses' = uses, KaSound',
         power' = power, suspends' = suspends, forcer' = forcer, tries' = tries
  PROVE  IInv'
<1>1. BlockedInv'
  BY UserTyped, BlockedMoves DEF BlockedInv
<1>2. Typed'
  BY UserTyped DEF Typed
<1>. QED BY <1>1, <1>2, UserTyped, Keeps

(* The other steps of a user.                                                *)
LEMMA UserKeeps ==
  ASSUME IInv, NEW u \in Users, ReleaseService(u) \/ UserStep(u)
  PROVE  IInv'
<1>1. CASE ReleaseService(u)
  <2>1. /\ userAt[u] = "using" /\ userAt' = [userAt EXCEPT ![u] = "idle"]
        /\ arm' = arm /\ pollAsked' = pollAsked /\ uses' = uses /\ ka' = ka
        /\ power' = power /\ suspends' = suspends /\ forcer' = forcer /\ tries' = tries
    BY <1>1, ReleasesNothing DEF ReleaseService
  <2>2. u # Keepalive
    BY <2>1, UserTyped DEF KaSound, PlaceInv
  <2>3. KaSound'
    BY <2>1, <2>2, UserTyped, KaRests
  <2>. QED BY <2>1, <2>3, UserTyped, UserRests
<1>2. CASE UseUnblocked(u)
  BY <1>2, UseUnblockedKeeps
<1>3. CASE ResumeWait(u)
  <2>1. /\ userAt[u] = "resumeWait" /\ userAt' = [userAt EXCEPT ![u] = "ack"]
        /\ arm' = arm /\ pollAsked' = pollAsked /\ uses' = uses /\ ka' = ka
        /\ power' = power /\ suspends' = suspends /\ forcer' = forcer /\ tries' = tries
    BY <1>3 DEF ResumeWait
  <2>2. KaSound'
    BY <2>1, UserTyped, KaRests
  <2>. QED BY <2>1, <2>2, UserTyped, UserRests
<1>4. CASE TakeAcks(u) \/ SendAck(u) \/ AckFails(u)
  <2>1. /\ KaSound' /\ userAt[u] # "blocked"
        /\ \E p \in Places : p # "blocked" /\ userAt' = [userAt EXCEPT ![u] = p]
    BY <1>4, UserTyped, AckSteps
  <2>2. /\ arm' = arm /\ pollAsked' = pollAsked /\ uses' = uses
        /\ power' = power /\ suspends' = suspends /\ forcer' = forcer /\ tries' = tries
    BY <1>4 DEF TakeAcks, SendAck, AckFails
  <2>. QED BY <2>1, <2>2, UserRests
<1>. QED BY <1>1, <1>2, <1>3, <1>4 DEF UserStep

(* The keepalive thread, and the messages of the peer that it serves.        *)
LEMMA KaKeeps ==
  ASSUME IInv, RemoteUse \/ RemoteRelease \/ KaStep
  PROVE  IInv'
<1>1. CASE RemoteUse \/ RemoteRelease
  <2>1. /\ arm' = arm /\ pollAsked' = pollAsked /\ uses' = uses /\ userAt' = userAt
        /\ power' = power /\ suspends' = suspends /\ forcer' = forcer /\ tries' = tries
    BY <1>1 DEF RemoteUse, RemoteRelease
  <2>2. KaSound'
    BY <1>1, UserTyped, RemoteKeeps
  <2>3. BlockedInv' /\ Typed'
    BY <2>1, UserTyped DEF BlockedInv, Typed, Blocked
  <2>. QED BY <2>1, <2>2, <2>3, UserTyped, Keeps
<1>2. CASE KaWait \/ KaSwap
  <2>1. /\ KaSound' /\ userAt[Keepalive] # "blocked"
        /\ \E p \in Places : p # "blocked" /\ userAt' = [userAt EXCEPT ![Keepalive] = p]
    BY <1>2, UserTyped, KaWaits
  <2>2. /\ arm' = arm /\ pollAsked' = pollAsked /\ uses' = uses
        /\ power' = power /\ suspends' = suspends /\ forcer' = forcer /\ tries' = tries
    BY <1>2 DEF KaWait, KaSwap, KaSwapRelease, KaSwapUse, KaGoto
  <2>. QED BY <2>1, <2>2, UserRests, SuspendAssumption
<1>3. CASE KaUse
  <2>1. /\ userAt[Keepalive] = "loop" /\ ka.uc > 0 /\ TryUse(Keepalive, arm)
        /\ ka' = [ka EXCEPT !.uc = @ - 1, !.ack = @ + 1, !.used = @ + 1]
        /\ power' = power /\ suspends' = suspends /\ forcer' = forcer /\ tries' = tries
    BY <1>3 DEF KaUse
  <2>2. /\ Sound(arm', power, forcer) /\ uses' \in [Users -> Nat] /\ pollAsked' \in BOOLEAN
        /\ \/ /\ arm'.blockedCount = arm.blockedCount
              /\ \E place \in {"ack", "resumeWait"} : userAt' = [userAt EXCEPT ![Keepalive] = place]
           \/ /\ arm'.blockedCount = arm.blockedCount + 1
              /\ userAt' = [userAt EXCEPT ![Keepalive] = "blocked"]
    BY <2>1, UserTyped, UseTried, SuspendAssumption
  <2>3. PICK p \in Places :
          /\ p \in {"ack", "resumeWait", "blocked"} /\ userAt' = [userAt EXCEPT ![Keepalive] = p]
          /\ p # "blocked" => arm'.blockedCount = arm.blockedCount
          /\ p = "blocked" => arm'.blockedCount = arm.blockedCount + 1
    BY <2>2, UserTyped
  <2>4. KaSound'
    BY <2>1, <2>3, UserTyped, KaUses
  <2>5. BlockedInv'
    BY <2>1, <2>3, UserTyped, BlockedMoves, SuspendAssumption DEF BlockedInv
  <2>6. Typed'
    BY <2>1, <2>2, <2>3, UserTyped DEF Typed
  <2>. QED BY <2>1, <2>2, <2>4, <2>5, <2>6, Keeps
<1>4. CASE KaRelease
  <2>1. /\ arm' = arm /\ pollAsked' = pollAsked /\ uses' = uses
        /\ power' = power /\ suspends' = suspends /\ forcer' = forcer /\ tries' = tries
    BY <1>4, ReleasesNothing DEF KaRelease, KaGoto
  <2>2. KaSound' /\ userAt' = userAt
    BY <1>4, UserTyped, KaReleases
  <2>3. BlockedInv' /\ Typed'
    BY <2>1, <2>2, UserTyped DEF BlockedInv, Typed, Blocked
  <2>. QED BY <2>1, <2>2, <2>3, UserTyped, Keeps
<1>5. CASE KaDone
  <2>1. /\ userAt[Keepalive] = "loop" /\ userAt' = [userAt EXCEPT ![Keepalive] = "wait"]
        /\ ka.uc = 0 /\ ka.rc = 0 /\ ka' = ka
        /\ arm' = arm /\ pollAsked' = pollAsked /\ uses' = uses
        /\ power' = power /\ suspends' = suspends /\ forcer' = forcer /\ tries' = tries
    BY <1>5 DEF KaDone, KaGoto
  <2>2. KaSound'
    BY <2>1, UserTyped, KaRests, SuspendAssumption
  <2>. QED BY <2>1, <2>2, UserTyped, UserRests, SuspendAssumption
<1>. QED BY <1>1, <1>2, <1>3, <1>4, <1>5 DEF KaStep

(* The force and the platform move no user.                                  *)
LEMMA OthersKeep ==
  ASSUME IInv, ForceSuspend \/ ForcerStep \/ PollSuspend \/ PlatformStep
  PROVE  IInv'
<1>1. userAt' = userAt /\ uses' = uses /\ ka' = ka /\ suspends' = suspends
  BY DEF ForceSuspend, ForcerStep, ForceDrained, ForceResumed, BlockTimeout, ForceWoken,
         ForceTimeout, AllowResume, AllowDone, ForcerGoto, PollSuspend, PlatformStep,
         CheckResume, PlatformResumed, PlatformReports
<1>2. KaSound'
  BY <1>1, UserTyped DEF KaSound, PlaceInv, KaInv, AckInv, Acking
<1>3. Blocked' = Blocked
  BY <1>1 DEF Blocked
<1>4. CASE ForceSuspend \/ ForcerStep
  <2>1. /\ Sound(arm', power', forcer') /\ arm'.blockedCount = arm.blockedCount
        /\ forcer' \in {"idle", "draining", "resuming", "waiting", "held", "allowing"}
        /\ pollAsked' \in BOOLEAN
    BY <1>4, UserTyped, ForcerKeeps
  <2>2. power' = power
    BY <1>4 DEF ForceSuspend, ForcerStep, ForceDrained, ForceResumed, BlockTimeout,
       ForceWoken, ForceTimeout, AllowResume, AllowDone, ForcerGoto
  <2>3. tries' \in [resume : Nat, repeated : BOOLEAN, calls : Nat]
    <3>1. tries \in [resume : Nat, repeated : BOOLEAN, calls : Nat]
      BY UserTyped DEF Typed
    <3>2. \/ tries' = tries
          \/ tries' = [calls |-> tries.calls + 1, resume |-> 0, repeated |-> FALSE]
          \/ tries' = [tries EXCEPT !.resume = @ + 1]
          \/ tries' = [tries EXCEPT !.repeated = TRUE]
      BY <1>4 DEF ForceSuspend, ForcerStep, ForceDrained, ForceResumed, BlockTimeout,
         ForceWoken, ForceTimeout, AllowResume, AllowDone, ForcerGoto
    <3>3. tries.calls + 1 \in Nat /\ tries.resume + 1 \in Nat /\ tries.repeated \in BOOLEAN
      BY <3>1
    <3>. DEFINE n == tries.calls + 1
                m == tries.resume + 1
    <3>4. n \in Nat /\ m \in Nat
      BY <3>3
    <3>5. \/ tries' = tries
          \/ tries' = [calls |-> n, resume |-> 0, repeated |-> FALSE]
          \/ tries' = [tries EXCEPT !.resume = m]
          \/ tries' = [tries EXCEPT !.repeated = TRUE]
      BY <3>2
    <3>. HIDE DEF n, m
    <3>6. CASE tries' = tries
      BY <3>1, <3>6
    <3>7. CASE tries' = [calls |-> n, resume |-> 0, repeated |-> FALSE]
      BY <3>4, <3>7
    <3>8. CASE tries' = [tries EXCEPT !.resume = m]
      BY <3>1, <3>4, <3>8
    <3>9. CASE tries' = [tries EXCEPT !.repeated = TRUE]
      BY <3>1, <3>9
    <3>. QED BY <3>5, <3>6, <3>7, <3>8, <3>9
  <2>4. Typed' /\ BlockedInv'
    BY <1>1, <1>3, <2>1, <2>2, <2>3, UserTyped DEF Typed, BlockedInv
  <2>. QED BY <1>1, <1>2, <2>1, <2>4, Keeps
<1>5. CASE PollSuspend \/ PlatformStep
  <2>1. /\ Sound(arm', power', forcer') /\ arm'.blockedCount = arm.blockedCount
        /\ power' \in {"on", "suspending", "off", "resuming"} /\ pollAsked' \in BOOLEAN
    BY <1>5, UserTyped, PlatformKeeps DEF Typed
  <2>2. forcer' = forcer /\ tries' = tries
    BY <1>5 DEF PollSuspend, PlatformStep, CheckResume, PlatformResumed, PlatformReports
  <2>3. Typed' /\ BlockedInv'
    BY <1>1, <1>3, <2>1, <2>2, UserTyped DEF Typed, BlockedInv
  <2>. QED BY <1>1, <1>2, <2>1, <2>3, Keeps
<1>. QED BY <1>4, <1>5

-----------------------------------------------------------------------------
(* The initial states.                                                       *)
LEMMA SuspendStarts == SuspendInit => IInv
<1>. SUFFICES ASSUME SuspendInit PROVE IInv
  OBVIOUS
<1>1. Blocked = {} /\ Acking = {}
  <2>1. \A u \in Users : userAt[u] # "blocked" /\ ka.acking[u] = 0
    BY DEF SuspendInit
  <2>2. Acking \subseteq {}
    <3>1. \A u \in Users : 1..ka.acking[u] = {}
      BY <2>1
    <3>. QED BY <3>1 DEF Acking
  <2>. QED BY <2>1, <2>2 DEF Blocked
<1>2. IsFiniteSet({}) /\ Cardinality({}) = 0
  BY FS_EmptySet
<1>3. /\ arm \in ArmState /\ PowerInv(arm, power) /\ ForceInv(arm, forcer)
  BY Numbers DEF SuspendInit, ArmState, PowerInv, ForceInv
<1>4. Typed
  BY DEF SuspendInit, Typed, Places
<1>5. KaSound
  <2>1. ka \in KaState
    BY DEF SuspendInit, KaState
  <2>2. PlaceInv
    BY SuspendAssumption DEF SuspendInit, PlaceInv
  <2>3. KaInv
    BY SuspendAssumption DEF SuspendInit, KaInv
  <2>4. AckInv
    BY <1>1, <1>2 DEF SuspendInit, AckInv
  <2>. QED BY <2>1, <2>2, <2>3, <2>4 DEF KaSound
<1>6. BlockedInv
  BY <1>1, <1>2 DEF BlockedInv, SuspendInit
<1>. QED BY <1>3, <1>4, <1>5, <1>6 DEF IInv, Sound

(* Every step keeps the invariant.                                           *)
LEMMA SuspendSteps == IInv /\ [SuspendNext]_suspendVars => IInv'
<1>. SUFFICES ASSUME IInv, [SuspendNext]_suspendVars PROVE IInv'
  OBVIOUS
<1>1. ASSUME NEW u \in Users, UseService(u) \/ ReleaseService(u) \/ UserStep(u)
      PROVE  IInv'
  BY <1>1, UseServiceKeeps, UserKeeps
<1>2. CASE RemoteUse \/ RemoteRelease \/ KaStep
  BY <1>2, KaKeeps
<1>3. CASE ForceSuspend \/ ForcerStep \/ PollSuspend \/ PlatformStep
  BY <1>3, OthersKeep
<1>4. CASE UNCHANGED suspendVars
  BY <1>4 DEF suspendVars, IInv, Typed, Sound, PowerInv, ForceInv, BlockedInv, Blocked,
              KaSound, PlaceInv, KaInv, AckInv, Acking
<1>. QED BY <1>1, <1>2, <1>3, <1>4 DEF SuspendNext

-----------------------------------------------------------------------------
(* The VideoCore is awake for its users.  A user is counted from the end of  *)
(* its critical section on and no count is given back, so that suspend is    *)
(* not requested any more until FORCE_SUSPEND_FAIL_MAX attempts have failed; *)
(* a request made before is dropped by the user, and one that is already     *)
(* being served is what the user waits for.                                  *)
NeededInv(a) == a.override < ForceFailMax /\ a.useCount > 0 => a.suspend # REQUESTED

Counted(u) == InUse(u) \/ userAt[u] = "resumeWait"

AwakeInv ==
  /\ NeededInv(arm)
  /\ \A u \in Users : Counted(u) => arm.useCount > 0
  /\ \A u \in Users : InUse(u) /\ arm.override < ForceFailMax => arm.resume = RESUMED

(* How a step takes the state from a to b and leaves those in use awake.     *)
StaysAwake(b, a) ==
  /\ b.override >= a.override /\ b.useCount >= a.useCount
  /\ NeededInv(a) => NeededInv(b)
  /\ NeededInv(a) /\ a.useCount > 0 /\ b.override < ForceFailMax /\ a.resume = RESUMED
       => b.resume = RESUMED

LEMMA AwakeKeeps ==
  ASSUME IInv, AwakeInv, arm' \in ArmState, StaysAwake(arm', arm),
         \A u \in Users : InUse(u)' =>
           InUse(u) \/ (arm'.useCount > 0 /\ arm'.resume = RESUMED),
         \A u \in Users : Counted(u)' => Counted(u) \/ arm'.useCount > 0
  PROVE  AwakeInv'
<1>1. /\ arm \in ArmState /\ ForceFailMax \in Nat
      /\ arm.override \in Nat /\ arm'.override \in Nat
      /\ arm.useCount \in Nat /\ arm'.useCount \in Nat
  BY SuspendAssumption DEF IInv, Sound, ArmState
<1>2. NeededInv(arm)'
  BY DEF AwakeInv, StaysAwake, NeededInv
<1>3. ASSUME NEW u \in Users, Counted(u)' PROVE arm'.useCount > 0
  BY <1>1, <1>3 DEF AwakeInv, StaysAwake
<1>4. ASSUME NEW u \in Users, InUse(u)', arm'.override < ForceFailMax
      PROVE  arm'.resume = RESUMED
  <2>1. CASE InUse(u)
    <3>1. Counted(u) /\ arm.override < ForceFailMax
      BY <1>1, <1>4, <2>1 DEF StaysAwake, Counted
    <3>2. arm.useCount > 0 /\ arm.resume = RESUMED /\ NeededInv(arm)
      BY <2>1, <3>1 DEF AwakeInv
    <3>. QED BY <1>4, <3>2 DEF StaysAwake
  <2>. QED BY <1>4, <2>1
<1>. QED BY <1>2, <1>3, <1>4 DEF AwakeInv

(* A use that is counted drops a request that is not being served, and       *)
(* returns at once only to an awake VideoCore.                               *)
LEMMA UseAwake ==
  ASSUME NEW a, Sound(a, power, forcer), NEW u \in Users, CountUse(u, a)
  PROVE  /\ StaysAwake(arm', a) /\ arm'.useCount > 0
         /\ \/ userAt' = [userAt EXCEPT ![u] = "ack"] /\ arm'.resume = RESUMED
            \/ userAt' = [userAt EXCEPT ![u] = "resumeWait"]
<1>. DEFINE b == [a EXCEPT !.useCount = @ + 1]
            c == IF b.suspend <= REQUESTED THEN SetSuspend(b, IDLE) ELSE b
            d == SetResume(c, REQUESTED)
<1>1. /\ arm' = IF NeedResume(c) THEN d ELSE c
      /\ userAt' = [userAt EXCEPT ![u] = IF c.resumeDone THEN "ack" ELSE "resumeWait"]
  BY DEF CountUse
<1>2. /\ b \in ArmState /\ b.suspend = a.suspend /\ b.resume = a.resume
      /\ b.resumeDone = a.resumeDone /\ b.useCount = a.useCount + 1
      /\ b.override = a.override
  BY DEF Sound, ArmState
<1>. HIDE DEF b
<1>3. IDLE \in FORCE_CANCELED..SUSPENDED /\ IDLE \notin {FAILED, IN_PROGRESS}
  BY Numbers
<1>4. /\ c \in ArmState /\ c.resume = a.resume /\ c.resumeDone = a.resumeDone
      /\ c.useCount = a.useCount + 1 /\ c.override = a.override
      /\ c.suspend = IF a.suspend <= REQUESTED THEN IDLE ELSE a.suspend
  BY <1>2, <1>3, SetSuspendSets DEF Beside
<1>. HIDE DEF c
<1>5. REQUESTED \in IDLE..RESUMED /\ REQUESTED \notin {IDLE, RESUMED}
  BY Numbers
<1>6. Beside(d, c) /\ d.suspend = c.suspend /\ d.resume = REQUESTED
  BY <1>4, <1>5, SetResumeSets
<1>. HIDE DEF d
<1>7. /\ a.suspend \in FORCE_CANCELED..SUSPENDED /\ a.useCount \in Nat /\ a.override \in Nat
      /\ (a.resumeDone <=> a.resume = RESUMED)
  BY DEF Sound, ArmState, PowerInv
<1>8. /\ arm'.suspend = c.suspend /\ arm'.useCount = a.useCount + 1
      /\ arm'.override = a.override
      /\ a.resume = RESUMED => arm'.resume = RESUMED
  <2>1. CASE NeedResume(c)
    <3>1. a.resume # RESUMED
      BY <1>4, <2>1, Numbers DEF NeedResume
    <3>. QED BY <1>1, <1>4, <1>6, <2>1, <3>1 DEF Beside
  <2>2. CASE ~NeedResume(c)
    BY <1>1, <1>4, <2>2
  <2>. QED BY <2>1, <2>2
<1>9. c.suspend # REQUESTED
  BY <1>4, <1>7, Numbers
<1>10. StaysAwake(arm', a) /\ arm'.useCount > 0
  BY <1>7, <1>8, <1>9 DEF StaysAwake, NeededInv
<1>. QED BY <1>1, <1>4, <1>7, <1>8, <1>10

LEMMA TryAwake ==
  ASSUME NEW a, Sound(a, power, forcer), NEW u \in Users, TryUse(u, a)
  PROVE  /\ StaysAwake(arm', a)
         /\ \/ /\ userAt' = [userAt EXCEPT ![u] = "ack"]
               /\ arm'.resume = RESUMED /\ arm'.useCount > 0
            \/ userAt' = [userAt EXCEPT ![u] = "resumeWait"] /\ arm'.useCount > 0
            \/ userAt' = [userAt EXCEPT ![u] = "blocked"]
<1>0. a \in ArmState /\ a.override \in Nat /\ a.useCount \in Nat
  BY DEF Sound, ArmState
<1>1. CASE a.resumeBlocked /\ a.suspend = IDLE
  <2>. DEFINE b == SetSuspend(a, FORCE_CANCELED)
  <2>1. CountUse(u, b)
    BY <1>1 DEF TryUse
  <2>2. /\ FORCE_CANCELED \in FORCE_CANCELED..SUSPENDED
        /\ FORCE_CANCELED \notin {FAILED, IN_PROGRESS}
    BY Numbers
  <2>3. /\ Beside(b, a) /\ b.suspend = FORCE_CANCELED /\ b.resume = a.resume
        /\ b.resumeDone = a.resumeDone
    BY <1>0, <2>2, SetSuspendSets
  <2>. HIDE DEF b
  <2>4. Sound(b, power, forcer)
    BY <1>1, <2>3, Numbers DEF Sound, PowerInv, ForceInv, Beside
  <2>5. StaysAwake(arm', b) /\ NeededInv(b)
    BY <2>1, <2>3, <2>4, UseAwake, Numbers DEF NeededInv
  <2>6. StaysAwake(arm', a)
    BY <2>3, <2>5 DEF StaysAwake, Beside
  <2>. QED BY <2>1, <2>4, <2>6, UseAwake
<1>2. CASE a.resumeBlocked /\ a.suspend # IDLE
  <2>1. /\ arm' = [a EXCEPT !.blockedCount = @ + 1]
        /\ userAt' = [userAt EXCEPT ![u] = "blocked"]
    BY <1>2 DEF TryUse
  <2>2. /\ arm'.override = a.override /\ arm'.useCount = a.useCount
        /\ arm'.suspend = a.suspend /\ arm'.resume = a.resume
    BY <1>0, <2>1 DEF ArmState
  <2>. QED BY <1>0, <2>1, <2>2 DEF StaysAwake, NeededInv
<1>3. CASE ~a.resumeBlocked
  BY <1>3, UseAwake DEF TryUse
<1>. QED BY <1>1, <1>2, <1>3

(* A step that leaves the two states, the count and the override alone.      *)
LEMMA AwakeSame ==
  ASSUME NEW a \in ArmState, NEW b, b.suspend = a.suspend, b.resume = a.resume,
         b.useCount = a.useCount, b.override = a.override
  PROVE  StaysAwake(b, a)
BY DEF StaysAwake, NeededInv, ArmState

(* The force asks for suspend of a VideoCore without users, or after too     *)
(* many failures.                                                            *)
LEMMA BlocksAwake ==
  ASSUME NEW a \in ArmState, NEW waited, BlockResume(a, waited)
  PROVE  StaysAwake(arm', a)
<1>1. CASE a.resume \in {REQUESTED, IN_PROGRESS}
  <2>1. arm' = a
    BY <1>1 DEF BlockResume
  <2>. QED BY <2>1, AwakeSame
<1>2. CASE a.resume \notin {REQUESTED, IN_PROGRESS}
  <2>. DEFINE b == [a EXCEPT !.blockerDone = FALSE, !.resumeBlocked = TRUE]
              c == VcSuspend(b)
  <2>1. arm' = IF b.suspend <= IDLE /\ (~Wanted(b) \/ b.override >= ForceFailMax)
               THEN c ELSE b
    BY <1>2 DEF BlockResume, ForceRequest
  <2>2. /\ b \in ArmState /\ b.suspend = a.suspend /\ b.resume = a.resume
        /\ b.useCount = a.useCount /\ b.override = a.override
        /\ b.useCount \in Nat /\ b.override \in Nat /\ ForceFailMax \in Nat
    BY SuspendAssumption DEF ArmState
  <2>. HIDE DEF b
  <2>3. CASE b.suspend <= IDLE /\ (~Wanted(b) \/ b.override >= ForceFailMax)
    <3>1. Beside(c, b) /\ c.resume = b.resume
      BY <2>2, <2>3, VcSuspendSets
    <3>2. arm' = c
      BY <2>1, <2>3
    <3>. HIDE DEF c
    <3>3. arm'.override >= ForceFailMax \/ ~(arm'.useCount > 0)
      BY <2>2, <2>3, <3>1, <3>2 DEF Wanted, Beside
    <3>4. /\ arm'.override = a.override /\ arm'.useCount = a.useCount
          /\ arm'.resume = a.resume
      BY <2>2, <3>1, <3>2 DEF Beside
    <3>. QED BY <2>2, <3>3, <3>4 DEF StaysAwake, NeededInv
  <2>4. CASE ~(b.suspend <= IDLE /\ (~Wanted(b) \/ b.override >= ForceFailMax))
    BY <2>1, <2>2, <2>4, AwakeSame
  <2>. QED BY <2>3, <2>4
<1>. QED BY <1>1, <1>2

LEMMA ForcerAwake ==
  ASSUME IInv, ForceSuspend \/ ForcerStep
  PROVE  StaysAwake(arm', arm)
<1>0. arm \in ArmState
  BY DEF IInv, Sound
<1>1. CASE ForceSuspend
  <2>1. CASE arm.blockedCount > 0
    <3>1. arm' = [arm EXCEPT !.blockedDone = FALSE]
      BY <1>1, <2>1 DEF ForceSuspend
    <3>. QED BY <1>0, <3>1, AwakeSame DEF ArmState
  <2>2. CASE ~(arm.blockedCount > 0)
    <3>1. BlockResume(arm, 0)
      BY <1>1, <2>2 DEF ForceSuspend
    <3>. QED BY <1>0, <3>1, BlocksAwake
  <2>. QED BY <2>1, <2>2
<1>2. CASE ForceDrained
  BY <1>0, <1>2, BlocksAwake DEF ForceDrained
<1>3. CASE ForceResumed
  <2>1. BlockResume(arm, tries.resume + 1)
    BY <1>3 DEF ForceResumed
  <2>. QED BY <1>0, <2>1, BlocksAwake
<1>4. CASE BlockTimeout \/ AllowDone
  <2>1. arm' = arm
    BY <1>4 DEF BlockTimeout, AllowDone
  <2>. QED BY <1>0, <2>1, AwakeSame
<1>5. CASE ForceWoken
  <2>1. arm' = CASE arm.suspend = SUSPENDED -> arm
                 [] arm.suspend < IDLE -> UnblockResume(SetSuspend(arm, IDLE))
                 [] OTHER -> UnblockResume(arm)
    BY <1>5 DEF ForceWoken
  <2>2. CASE arm.suspend = SUSPENDED
    <3>1. arm' = arm
      BY <2>1, <2>2, Numbers
    <3>. QED BY <1>0, <3>1, AwakeSame
  <2>3. CASE arm.suspend # SUSPENDED /\ arm.suspend < IDLE
    <3>. DEFINE b == SetSuspend(arm, IDLE)
    <3>1. arm' = UnblockResume(b)
      BY <2>1, <2>3
    <3>2. IDLE \in FORCE_CANCELED..SUSPENDED /\ IDLE \notin {FAILED, IN_PROGRESS}
      BY Numbers
    <3>3. Beside(b, arm) /\ b.suspend = IDLE /\ b.resume = arm.resume
      BY <1>0, <3>2, SetSuspendSets
    <3>. HIDE DEF b
    <3>4. /\ arm'.suspend # REQUESTED /\ arm'.resume = arm.resume
          /\ arm'.useCount = arm.useCount /\ arm'.override = arm.override
      BY <3>1, <3>3, Numbers DEF UnblockResume, Beside, ArmState
    <3>. QED BY <1>0, <3>4 DEF StaysAwake, NeededInv, ArmState
  <2>4. CASE arm.suspend # SUSPENDED /\ ~(arm.suspend < IDLE)
    <3>1. arm' = UnblockResume(arm)
      BY <2>1, <2>4
    <3>. QED BY <1>0, <3>1, AwakeSame DEF UnblockResume, ArmState
  <2>. QED BY <2>2, <2>3, <2>4
<1>6. CASE ForceTimeout
  <2>1. arm' = arm \/ arm' = UnblockResume([arm EXCEPT !.override = @ + 1])
    BY <1>6 DEF ForceTimeout
  <2>2. CASE arm' = arm
    BY <1>0, <2>2, AwakeSame
  <2>3. CASE arm' = UnblockResume([arm EXCEPT !.override = @ + 1])
    <3>1. /\ arm'.suspend = arm.suspend /\ arm'.resume = arm.resume
          /\ arm'.useCount = arm.useCount /\ arm'.override = arm.override + 1
      BY <1>0, <2>3 DEF UnblockResume, ArmState
    <3>2. arm.override \in Nat /\ arm.useCount \in Nat /\ ForceFailMax \in Nat
      BY <1>0, SuspendAssumption DEF ArmState
    <3>. QED BY <3>1, <3>2 DEF StaysAwake, NeededInv
  <2>. QED BY <2>1, <2>2, <2>3
<1>7. CASE AllowResume
  <2>. DEFINE a == UnblockResume(arm)
              b == SetResume(a, REQUESTED)
  <2>1. arm' = IF NeedResume(a) THEN b ELSE a
    BY <1>7 DEF AllowResume
  <2>2. /\ a \in ArmState /\ a.suspend = arm.suspend /\ a.resume = arm.resume
        /\ a.useCount = arm.useCount /\ a.override = arm.override
    BY <1>0 DEF UnblockResume, ArmState
  <2>. HIDE DEF a
  <2>3. CASE NeedResume(a)
    <3>1. REQUESTED \in IDLE..RESUMED /\ REQUESTED \notin {IDLE, RESUMED}
      BY Numbers
    <3>2. Beside(b, a) /\ b.suspend = a.suspend
      BY <2>2, <3>1, SetResumeSets
    <3>3. arm.resume # RESUMED
      BY <2>2, <2>3, Numbers DEF NeedResume
    <3>. HIDE DEF b
    <3>. QED BY <1>0, <2>1, <2>2, <2>3, <3>2, <3>3
            DEF StaysAwake, NeededInv, Beside, ArmState
  <2>4. CASE ~NeedResume(a)
    BY <1>0, <2>1, <2>2, <2>4, AwakeSame
  <2>. QED BY <2>3, <2>4
<1>. QED BY <1>1, <1>2, <1>3, <1>4, <1>5, <1>6, <1>7 DEF ForcerStep

(* A suspend is begun only on request: of nobody's use, as long as the       *)
(* failures are few.                                                         *)
LEMMA PlatformAwake ==
  ASSUME IInv, PollSuspend \/ PlatformStep
  PROVE  StaysAwake(arm', arm)
<1>0. /\ arm \in ArmState /\ arm.override \in Nat /\ arm.useCount \in Nat
      /\ ForceFailMax \in Nat /\ PowerInv(arm, power)
  BY SuspendAssumption DEF IInv, Sound, ArmState
<1>1. CASE PollSuspend
  <2>1. CASE arm.suspend = REQUESTED /\ arm.resume = RESUMED
    <3>1. arm' = SetSuspend(arm, IN_PROGRESS)
      BY <1>1, <2>1 DEF PollSuspend
    <3>2. IN_PROGRESS \in FORCE_CANCELED..SUSPENDED
      BY Numbers
    <3>3. Beside(arm', arm) /\ arm'.suspend = IN_PROGRESS
      BY <1>0, <3>1, <3>2, SetSuspendSets
    <3>. QED BY <1>0, <2>1, <3>3, Numbers DEF StaysAwake, NeededInv, Beside
  <2>2. CASE ~(arm.suspend = REQUESTED /\ arm.resume = RESUMED)
    <3>1. arm' = arm
      BY <1>1, <2>2 DEF PollSuspend
    <3>. QED BY <1>0, <3>1, AwakeSame
  <2>. QED BY <2>1, <2>2
<1>2. CASE CheckResume
  <2>1. arm' = SetResume(arm, IN_PROGRESS) /\ arm.resume = REQUESTED
    BY <1>2 DEF CheckResume
  <2>2. /\ IN_PROGRESS \in IDLE..RESUMED /\ IN_PROGRESS \notin {IDLE, RESUMED}
        /\ REQUESTED # RESUMED
    BY Numbers
  <2>3. Beside(arm', arm) /\ arm'.suspend = arm.suspend
    BY <1>0, <2>1, <2>2, SetResumeSets
  <2>. QED BY <1>0, <2>1, <2>2, <2>3 DEF StaysAwake, NeededInv, Beside
<1>3. CASE PlatformResumed
  <2>1. arm' = SetResume(arm, RESUMED)
    BY <1>3 DEF PlatformResumed
  <2>2. RESUMED \in IDLE..RESUMED /\ IDLE # REQUESTED
    BY Numbers
  <2>3. Beside(arm', arm) /\ arm'.suspend = IDLE /\ arm'.resume = RESUMED
    BY <1>0, <2>1, <2>2, SetResumeSets
  <2>. QED BY <1>0, <2>2, <2>3 DEF StaysAwake, NeededInv, Beside
<1>4. ASSUME NEW s \in {SUSPENDED, REJECTED, FAILED}, PlatformReports(s)
      PROVE  StaysAwake(arm', arm)
  <2>1. arm' = SetSuspend(arm, s) /\ power = "suspending"
    BY <1>4 DEF PlatformReports
  <2>2. s \in FORCE_CANCELED..SUSPENDED /\ s # REQUESTED /\ IDLE # RESUMED /\ REQUESTED # RESUMED
    BY <1>4, Numbers
  <2>3. Beside(arm', arm) /\ arm'.suspend = s
    BY <1>0, <2>1, <2>2, SetSuspendSets
  <2>4. arm.resume # RESUMED
    BY <1>0, <2>1, <2>2 DEF PowerInv
  <2>. QED BY <1>0, <2>2, <2>3, <2>4 DEF StaysAwake, NeededInv, Beside
<1>. QED BY <1>1, <1>2, <1>3, <1>4 DEF PlatformStep

(* A step of one user is a step of no other.                                 *)
LEMMA OthersRest ==
  ASSUME IInv, NEW u \in Users, NEW p, userAt' = [userAt EXCEPT ![u] = p],
         u = Keepalive \/ (ka'.used = ka.used /\ ka'.released = ka.released),
         NEW v \in Users, v # u
  PROVE  (InUse(v)' => InUse(v)) /\ (Counted(v)' => Counted(v))
<1>1. userAt'[v] = userAt[v]
  BY DEF IInv, Typed
<1>. QED BY <1>1 DEF InUse, Counted

(* A user comes to be in use counted, and finds the VideoCore awake.         *)
LEMMA TriesAwake ==
  ASSUME IInv, AwakeInv, arm' \in ArmState, NEW u \in Users, NEW a,
         Sound(a, power, forcer), TryUse(u, a), a.suspend = arm.suspend,
         a.resume = arm.resume, a.useCount = arm.useCount, a.override = arm.override,
         u = Keepalive \/ (ka'.used = ka.used /\ ka'.released = ka.released)
  PROVE  AwakeInv'
<1>0. arm \in ArmState /\ userAt \in [Users -> Places]
  BY DEF IInv, Sound, Typed
<1>1. /\ StaysAwake(arm', a)
      /\ \/ /\ userAt' = [userAt EXCEPT ![u] = "ack"]
            /\ arm'.resume = RESUMED /\ arm'.useCount > 0
         \/ userAt' = [userAt EXCEPT ![u] = "resumeWait"] /\ arm'.useCount > 0
         \/ userAt' = [userAt EXCEPT ![u] = "blocked"]
  BY TryAwake
<1>2. StaysAwake(arm', arm)
  BY <1>1 DEF StaysAwake, NeededInv
<1>3. PICK p : /\ userAt' = [userAt EXCEPT ![u] = p]
               /\ \/ p = "ack" /\ arm'.resume = RESUMED /\ arm'.useCount > 0
                  \/ p = "resumeWait" /\ arm'.useCount > 0
                  \/ p = "blocked"
  BY <1>1
<1>4. userAt'[u] = p
  BY <1>0, <1>3
<1>5. ASSUME NEW v \in Users
      PROVE  /\ InUse(v)' => InUse(v) \/ (arm'.useCount > 0 /\ arm'.resume = RESUMED)
             /\ Counted(v)' => Counted(v) \/ arm'.useCount > 0
  <2>1. CASE v = u
    BY <1>3, <1>4, <2>1 DEF InUse, Counted
  <2>2. CASE v # u
    BY <1>3, <2>2, OthersRest
  <2>. QED BY <2>1, <2>2
<1>. QED BY <1>2, <1>5, AwakeKeeps

(* A step of a user that leaves the state of the VideoCore alone.            *)
LEMMA MovesAwake ==
  ASSUME IInv, AwakeInv, arm' = arm, NEW u \in Users, NEW p,
         userAt' = [userAt EXCEPT ![u] = p],
         u = Keepalive \/ (ka'.used = ka.used /\ ka'.released = ka.released),
         InUse(u)' => InUse(u) \/ (Counted(u) /\ arm.resume = RESUMED),
         Counted(u)' => Counted(u)
  PROVE  AwakeInv'
<1>0. arm \in ArmState
  BY DEF IInv, Sound
<1>1. StaysAwake(arm', arm)
  BY <1>0, AwakeSame
<1>2. Counted(u) => arm'.useCount > 0
  BY DEF AwakeInv
<1>3. ASSUME NEW v \in Users
      PROVE  /\ InUse(v)' => InUse(v) \/ (arm'.useCount > 0 /\ arm'.resume = RESUMED)
             /\ Counted(v)' => Counted(v) \/ arm'.useCount > 0
  <2>1. CASE v = u
    BY <1>2, <2>1
  <2>2. CASE v # u
    BY <2>2, OthersRest
  <2>. QED BY <2>1, <2>2
<1>. QED BY <1>0, <1>1, <1>3, AwakeKeeps

LEMMA UsersAwake ==
  ASSUME IInv, AwakeInv, arm' \in ArmState, NEW u \in Users,
         UseService(u) \/ ReleaseService(u) \/ UserStep(u)
  PROVE  AwakeInv'
<1>0. /\ arm \in ArmState /\ Sound(arm, power, forcer) /\ PowerInv(arm, power)
      /\ userAt \in [Users -> Places] /\ PlaceInv /\ ka \in KaState
  BY DEF IInv, Sound, Typed, KaSound
<1>1. CASE UseService(u)
  <2>1. TryUse(u, arm) /\ ka' = ka
    BY <1>1 DEF UseService
  <2>. QED BY <1>0, <2>1, TriesAwake
<1>2. CASE UseUnblocked(u)
  <2>. DEFINE a == [arm EXCEPT !.blockedCount = @ - 1,
                               !.blockedDone = @ \/ arm.blockedCount = 1]
  <2>1. userAt[u] = "blocked" /\ arm.blockerDone /\ TryUse(u, a) /\ ka' = ka
    BY <1>2 DEF UseUnblocked
  <2>2. Sound(a, power, forcer)
    BY <2>1, LetGo
  <2>3. /\ a.suspend = arm.suspend /\ a.resume = arm.resume
        /\ a.useCount = arm.useCount /\ a.override = arm.override
    BY <1>0 DEF ArmState
  <2>. HIDE DEF a
  <2>. QED BY <2>1, <2>2, <2>3, TriesAwake
<1>3. CASE ReleaseService(u)
  <2>1. arm' = arm /\ userAt' = [userAt EXCEPT ![u] = "idle"] /\ ka' = ka
    BY <1>3, ReleasesNothing DEF ReleaseService
  <2>2. userAt'[u] = "idle"
    BY <1>0, <2>1
  <2>. QED BY <2>1, <2>2, MovesAwake DEF InUse, Counted
<1>4. CASE ResumeWait(u)
  <2>1. /\ userAt[u] = "resumeWait" /\ arm.resumeDone /\ arm' = arm /\ ka' = ka
        /\ userAt' = [userAt EXCEPT ![u] = "ack"]
    BY <1>4 DEF ResumeWait
  <2>2. arm.resume = RESUMED /\ Counted(u)
    BY <1>0, <2>1 DEF PowerInv, Counted
  <2>. QED BY <2>1, <2>2, MovesAwake
<1>5. CASE TakeAcks(u) \/ SendAck(u) \/ AckFails(u)
  <2>1. /\ userAt[u] \in {"ack", "acking"} /\ arm' = arm
        /\ \E p : userAt' = [userAt EXCEPT ![u] = p]
    BY <1>5 DEF TakeAcks, SendAck, AckFails
  <2>2. ka'.used = ka.used /\ ka'.released = ka.released
    BY <1>0, <1>5 DEF TakeAcks, SendAck, AckFails, KaState
  <2>3. InUse(u) /\ Counted(u)
    BY <2>1 DEF InUse, Counted
  <2>. QED BY <2>1, <2>2, <2>3, MovesAwake
<1>. QED BY <1>1, <1>2, <1>3, <1>4, <1>5 DEF UserStep

(* The keepalive thread's use is in effect from one release to the next.     *)
LEMMA KaAwake ==
  ASSUME IInv, AwakeInv, arm' \in ArmState, RemoteUse \/ RemoteRelease \/ KaStep
  PROVE  AwakeInv'
<1>0. /\ arm \in ArmState /\ Sound(arm, power, forcer) /\ Keepalive \in Users
      /\ userAt \in [Users -> Places] /\ ka \in KaState
      /\ ka.used \in Nat /\ ka.released \in Nat
  BY SuspendAssumption, KaTyped DEF IInv, Sound, Typed, KaSound
<1>1. CASE RemoteUse \/ RemoteRelease
  <2>1. /\ arm' = arm /\ userAt' = userAt /\ ka'.used = ka.used
        /\ ka'.released = ka.released
    BY <1>0, <1>1 DEF RemoteUse, RemoteRelease, KaState
  <2>. QED BY <2>1 DEF AwakeInv, NeededInv, Counted, InUse
<1>2. CASE KaWait \/ KaSwap \/ KaDone
  <2>1. /\ userAt[Keepalive] \in {"loop", "wait", "swapRelease", "swapUse"} /\ arm' = arm
        /\ \E p \in {"loop", "wait", "swapRelease", "swapUse"} :
             userAt' = [userAt EXCEPT ![Keepalive] = p]
    BY <1>2 DEF KaWait, KaSwap, KaDone, KaGoto, KaSwapRelease, KaSwapUse
  <2>2. ka'.used = ka.used /\ ka'.released = ka.released
    BY <1>0, <1>2 DEF KaWait, KaSwap, KaDone, KaSwapRelease, KaSwapUse, KaState
  <2>3. PICK p \in {"loop", "wait", "swapRelease", "swapUse"} :
          userAt' = [userAt EXCEPT ![Keepalive] = p]
    BY <2>1
  <2>4. userAt'[Keepalive] = p
    BY <1>0, <2>3
  <2>5. /\ InUse(Keepalive)' => InUse(Keepalive)
        /\ Counted(Keepalive)' => Counted(Keepalive)
    BY <2>1, <2>2, <2>4 DEF InUse, Counted
  <2>. QED BY <1>0, <2>1, <2>3, <2>5, MovesAwake
<1>3. CASE KaUse
  <2>1. TryUse(Keepalive, arm)
    BY <1>3 DEF KaUse
  <2>. QED BY <1>0, <2>1, TriesAwake
<1>4. CASE KaRelease
  <2>1. /\ arm' = arm /\ userAt[Keepalive] = "loop"
        /\ userAt' = [userAt EXCEPT ![Keepalive] = "loop"]
        /\ ka' = [ka EXCEPT !.rc = @ - 1, !.released = @ + 1]
    BY <1>4, ReleasesNothing DEF KaRelease, KaGoto
  <2>2. /\ ka'.used = ka.used /\ ka'.released = ka.released + 1
        /\ userAt'[Keepalive] = "loop"
    BY <1>0, <2>1 DEF KaState
  <2>3. /\ InUse(Keepalive)' => InUse(Keepalive)
        /\ Counted(Keepalive)' => Counted(Keepalive)
    BY <1>0, <2>1, <2>2 DEF InUse, Counted
  <2>. QED BY <1>0, <2>1, <2>3, MovesAwake
<1>. QED BY <1>1, <1>2, <1>3, <1>4 DEF KaStep

(* Every step leaves the VideoCore awake for its users.                      *)
LEMMA AwakeSteps == IInv /\ AwakeInv /\ [SuspendNext]_suspendVars => AwakeInv'
<1>. SUFFICES ASSUME IInv, AwakeInv, [SuspendNext]_suspendVars PROVE AwakeInv'
  OBVIOUS
<1>1. arm' \in ArmState
  BY SuspendSteps DEF IInv, Sound
<1>2. ASSUME NEW u \in Users, UseService(u) \/ ReleaseService(u) \/ UserStep(u)
      PROVE  AwakeInv'
  BY <1>1, <1>2, UsersAwake
<1>3. CASE RemoteUse \/ RemoteRelease \/ KaStep
  BY <1>1, <1>3, KaAwake
<1>4. CASE ForceSuspend \/ ForcerStep \/ PollSuspend \/ PlatformStep
  <2>1. userAt' = userAt /\ ka' = ka
    BY <1>4 DEF ForceSuspend, ForcerStep, ForceDrained, ForceResumed, BlockTimeout,
       ForceWoken, ForceTimeout, AllowResume, AllowDone, ForcerGoto, PollSuspend,
       PlatformStep, CheckResume, PlatformResumed, PlatformReports
  <2>2. StaysAwake(arm', arm)
    BY <1>4, ForcerAwake, PlatformAwake
  <2>3. \A u \in Users : (InUse(u)' => InUse(u)) /\ (Counted(u)' => Counted(u))
    BY <2>1 DEF InUse, Counted
  <2>. QED BY <1>1, <2>2, <2>3, AwakeKeeps
<1>5. CASE UNCHANGED suspendVars
  BY <1>5 DEF suspendVars, AwakeInv, NeededInv, Counted, InUse
<1>. QED BY <1>2, <1>3, <1>4, <1>5 DEF SuspendNext

(* What the invariant says of the state.                                     *)
LEMMA SuspendShows == IInv /\ AwakeInv => SuspendTypeOK /\ SuspendSound
<1>. SUFFICES ASSUME IInv, AwakeInv PROVE SuspendTypeOK /\ SuspendSound
  OBVIOUS
<1>1. SuspendTypeOK
  BY DEF IInv, Typed, Sound, KaSound, ArmState, KaState, Places, SuspendTypeOK
<1>2. SuspendInStep
  <2>1. arm.blockedCount = Cardinality({u \in Users : userAt[u] = "blocked"})
    BY DEF IInv, BlockedInv, Blocked
  <2>2. /\ arm.resumeDone \in BOOLEAN /\ arm.resumeBlocked \in BOOLEAN
        /\ arm.blockerDone \in BOOLEAN /\ arm.resume \in IDLE..RESUMED
    BY DEF IInv, Sound, ArmState
  <2>3. PowerInv(arm, power) /\ ForceInv(arm, forcer)
    BY DEF IInv, Sound
  <2>4. forcer = "held" => arm.suspend = SUSPENDED /\ arm.resume = IDLE /\ power = "off"
    BY <2>3, Numbers DEF PowerInv, ForceInv
  <2>5. arm.resumeDone <=> arm.resume = RESUMED
    BY <2>3 DEF PowerInv
  <2>6. arm.suspend \in {IN_PROGRESS, SUSPENDED} => arm.resume # RESUMED
    BY <2>3 DEF PowerInv
  <2>7. /\ arm.resumeBlocked <=> ~arm.blockerDone
        /\ arm.resumeBlocked <=> forcer \in {"waiting", "held"}
    BY <2>3 DEF ForceInv
  <2>8. /\ arm.resumeDone = (arm.resume = RESUMED)
        /\ arm.resumeBlocked = ~arm.blockerDone
        /\ arm.resumeBlocked = (forcer \in {"waiting", "held"})
    BY <2>2, <2>5, <2>7
  <2>. QED BY <2>1, <2>4, <2>6, <2>8 DEF SuspendInStep
<1>3. KaBalanced
  <2>1. ka.released <= ka.used
    BY DEF IInv, KaSound, KaInv
  <2>. QED BY <2>1 DEF IInv, KaSound, AckInv, KaBalanced
<1>4. AwakeForUsers
  <2>1. power \in {"on", "suspending", "off", "resuming"} /\ PowerInv(arm, power)
    BY DEF IInv, Typed, Sound
  <2>2. arm.resume = RESUMED => power = "on"
    BY <2>1, Numbers DEF PowerInv
  <2>. QED BY <2>2 DEF AwakeInv, AwakeForUsers
<1>. QED BY <1>1, <1>2, <1>3, <1>4 DEF SuspendSound

(* The VideoCore is awake for its users until FORCE_SUSPEND_FAIL_MAX forces  *)
(* have failed, the completions keep in step with the two state machines,    *)
(* the VideoCore sleeps from the success of vchiq_arm_force_suspend to       *)
(* vchiq_arm_allow_resume, the users that wait are those counted, and what   *)
(* the keepalive thread used and acknowledged for the peer adds up: for      *)
(* every number of users, uses, forces and messages, on a platform that can  *)
(* suspend and on one that cannot.                                           *)
THEOREM SuspendSoundAlways == SuspendSpec => [](SuspendTypeOK /\ SuspendSound)
<1>1. SuspendInit => IInv /\ AwakeInv
  <2>1. SuspendInit => AwakeInv
    <3>. SUFFICES ASSUME SuspendInit PROVE AwakeInv
      OBVIOUS
    <3>1. /\ arm.suspend = IDLE /\ ka.used = 0 /\ ka.released = 0
          /\ \A u \in Users : userAt[u] \in {"wait", "idle"}
      BY DEF SuspendInit
    <3>2. \A u \in Users : ~InUse(u) /\ ~Counted(u)
      BY <3>1 DEF InUse, Counted
    <3>. QED BY <3>1, <3>2, Numbers DEF AwakeInv, NeededInv
  <2>. QED BY <2>1, SuspendStarts
<1>2. IInv /\ AwakeInv /\ [SuspendNext]_suspendVars => (IInv /\ AwakeInv)'
  BY SuspendSteps, AwakeSteps
<1>3. IInv /\ AwakeInv => SuspendTypeOK /\ SuspendSound
  BY SuspendShows
<1>. QED BY <1>1, <1>2, <1>3, PTL DEF SuspendSpec

=============================================================================
