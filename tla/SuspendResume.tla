---------------------------- MODULE SuspendResume ----------------------------
(***************************************************************************)
(* Use counts, suspend and resume of the VideoCore (vchiq_arm.c).  Threads *)
(* use and release services, the keepalive thread does so for the peer, a  *)
(* caller of vchiq_arm_force_suspend tries to put the VideoCore to sleep   *)
(* and lets it wake up again, the slot handler starts what was requested.  *)
(*                                                                         *)
(* A thread gives up the processor where it waits, never under            *)
(* susp_res_lock: what it does between two waits is one step.  A           *)
(* completion that is only ever completed for all is a BOOLEAN.            *)
(***************************************************************************)
EXTENDS Integers, FiniteSets

CONSTANTS
  Users,         (* threads that use a service each                          *)
  Keepalive,     (* the keepalive thread, one of them                        *)
  ForceFailMax,  (* FORCE_SUSPEND_FAIL_MAX                                   *)
  MaxUses,       (* bound: uses by the threads other than the keepalive      *)
  MaxForces,     (* bound: calls of vchiq_arm_force_suspend                  *)
  MaxRemoteUses  (* bound: REMOTE_USE messages of the peer                   *)

ASSUME SuspendAssumption ==
  /\ Keepalive \in Users /\ IsFiniteSet(Users)
  /\ {ForceFailMax, MaxUses, MaxForces, MaxRemoteUses} \subseteq Nat

(* enum vc_suspend_status and enum vc_resume_status: compared by order.      *)
FORCE_CANCELED == -3
REJECTED       == -2
FAILED         == -1
IDLE           == 0
REQUESTED      == 1
IN_PROGRESS    == 2
SUSPENDED      == 3
RESUMED        == 3

VARIABLES
  arm,       (* VCHIQ_ARM_STATE_T                                            *)
  power,     (* the VideoCore, as the platform's code knows it               *)
  suspends,  (* the platform can suspend; BCM2835 cannot                     *)
  pollAsked, (* request_poll: state->poll_needed                             *)
  userAt,    (* where each user is                                           *)
  uses,      (* uses of each service: service_use_count                      *)
  forcer,    (* where the caller of force_suspend and allow_resume is        *)
  tries,     (* its counters: resume_count, repeat, and its calls so far     *)
  ka         (* keepalive: counters shared with the slot handler, its own uc *)
             (* and rc, what it did in all, and acknowledgements             *)

suspendVars == <<arm, power, suspends, pollAsked, userAt, uses, forcer,
                 tries, ka>>

(* vchiq_arm_init_state                                                      *)
SuspendInit ==
  /\ arm = [suspend |-> IDLE, suspendDone |-> FALSE,
            resume |-> RESUMED, resumeDone |-> TRUE,
            resumeBlocked |-> FALSE, blockerDone |-> TRUE,
            blockedCount |-> 0, blockedDone |-> TRUE,
            useCount |-> 0, override |-> 0]
  /\ power = "on" /\ suspends \in BOOLEAN
  /\ pollAsked = FALSE
  /\ userAt = [u \in Users |-> IF u = Keepalive THEN "wait" ELSE "idle"]
  /\ uses = [u \in Users |-> 0]
  /\ forcer = "idle"
  /\ tries = [resume |-> 0, repeated |-> FALSE, calls |-> 0]
  /\ ka = [event |-> 0, use |-> 0, release |-> 0, uc |-> 0, rc |-> 0,
           used |-> 0, released |-> 0, ack |-> 0, acked |-> 0,
           acking |-> [u \in Users |-> 0], remote |-> 0, remoteReleased |-> 0]

-----------------------------------------------------------------------------
(* set_suspend_state and set_resume_state keep the two states in step.       *)

SetSuspend(a, s) ==
  LET b == [a EXCEPT !.suspend = s] IN
  CASE s \in {FORCE_CANCELED, REJECTED, SUSPENDED} ->
         [b EXCEPT !.suspendDone = TRUE]
    [] s = FAILED ->
         [b EXCEPT !.suspendDone = TRUE, !.resume = RESUMED, !.resumeDone = TRUE]
    [] s = IDLE -> [b EXCEPT !.suspendDone = FALSE]
    [] s = REQUESTED -> b
    [] s = IN_PROGRESS -> [b EXCEPT !.resume = IDLE, !.resumeDone = FALSE]

SetResume(a, s) ==
  LET b == [a EXCEPT !.resume = s] IN
  CASE s = IDLE    -> [b EXCEPT !.resumeDone = FALSE]
    [] s = RESUMED -> SetSuspend([b EXCEPT !.resumeDone = TRUE], IDLE)
    [] OTHER       -> b

(* vchiq_videocore_wanted; vchiq_platform_videocore_wanted says always on a  *)
(* platform without autosuspend.                                             *)
Wanted(a) ==
  \/ a.blockedCount > 0
  \/ a.useCount > 0
  \/ ~a.resumeBlocked /\ ~suspends

NeedResume(a) == a.suspend > IDLE /\ a.resume < REQUESTED /\ Wanted(a)

(* vchiq_arm_vcsuspend: suspend is requested unless it already is.           *)
VcSuspend(a) ==
  CASE a.suspend \in {REQUESTED, IN_PROGRESS} -> a
    [] a.suspend = IDLE -> SetSuspend(a, REQUESTED)
    [] OTHER -> SetSuspend(SetSuspend(a, IDLE), REQUESTED)

(* Variant for mutation: the flag is cleared, the waiting users stay asleep. *)
UnblockFlagOnly(a) == [a EXCEPT !.resumeBlocked = FALSE]

UnblockResume(a) == [a EXCEPT !.blockerDone = TRUE, !.resumeBlocked = FALSE]

-----------------------------------------------------------------------------
(* vchiq_use_internal                                                        *)

(* The end of the critical section: the use is counted, a request that is    *)
(* not being served is dropped, and a sleeping VideoCore asked to resume.    *)
CountUse(u, a) ==
  LET b == [a EXCEPT !.useCount = @ + 1]
      c == IF b.suspend <= REQUESTED THEN SetSuspend(b, IDLE) ELSE b
  IN /\ uses' = [uses EXCEPT ![u] = @ + 1]
     /\ arm' = IF NeedResume(c) THEN SetResume(c, REQUESTED) ELSE c
     /\ pollAsked' = (pollAsked \/ NeedResume(c))
     /\ userAt' = [userAt EXCEPT ![u] =
                     IF c.resumeDone THEN "ack" ELSE "resumeWait"]

(* The loop under the lock: while resume is blocked the user cancels the     *)
(* force that waits for idleness, or else waits itself.                      *)
TryUse(u, a) ==
  CASE a.resumeBlocked /\ a.suspend = IDLE ->
         CountUse(u, SetSuspend(a, FORCE_CANCELED))
    [] a.resumeBlocked /\ a.suspend # IDLE ->
         /\ arm' = [a EXCEPT !.blockedCount = @ + 1]
         /\ userAt' = [userAt EXCEPT ![u] = "blocked"]
         /\ UNCHANGED <<uses, pollAsked>>
    [] OTHER -> CountUse(u, a)

(* vchiq_use_service by a client.                                            *)
UseService(u) ==
  /\ u # Keepalive /\ userAt[u] = "idle"
  /\ uses[u] < MaxUses
  /\ TryUse(u, arm)
  /\ UNCHANGED <<power, suspends, forcer, tries, ka>>

(* Woken by unblock_resume, back into the loop under the lock.               *)
UseUnblocked(u) ==
  /\ userAt[u] = "blocked" /\ arm.blockerDone
  /\ TryUse(u, [arm EXCEPT !.blockedCount = @ - 1,
                           !.blockedDone = @ \/ arm.blockedCount = 1])
  /\ UNCHANGED <<power, suspends, forcer, tries, ka>>

ResumeWait(u) ==
  /\ userAt[u] = "resumeWait" /\ arm.resumeDone
  /\ userAt' = [userAt EXCEPT ![u] = "ack"]
  /\ UNCHANGED <<arm, power, suspends, pollAsked, uses, forcer, tries, ka>>

AfterUse(u) == IF u = Keepalive THEN "loop" ELSE "using"

(* The acknowledgements owed to the peer are taken by whoever comes by.      *)
TakeAcks(u) ==
  /\ userAt[u] = "ack"
  /\ userAt' = [userAt EXCEPT ![u] = IF ka.ack = 0 THEN AfterUse(u) ELSE "acking"]
  /\ ka' = [ka EXCEPT !.ack = 0, !.acking[u] = ka.ack]
  /\ UNCHANGED <<arm, power, suspends, pollAsked, uses, forcer, tries>>

(* vchiq_send_remote_use_active                                              *)
SendAck(u) ==
  /\ userAt[u] = "acking"
  /\ ka' = [ka EXCEPT !.acking[u] = @ - 1, !.acked = @ + 1]
  /\ userAt' = [userAt EXCEPT ![u] = IF ka.acking[u] = 1 THEN AfterUse(u) ELSE @]
  /\ UNCHANGED <<arm, power, suspends, pollAsked, uses, forcer, tries>>

(* The message could not be queued: the rest stays owed.                     *)
AckFails(u) ==
  /\ userAt[u] = "acking"
  /\ ka' = [ka EXCEPT !.acking[u] = 0, !.ack = @ + ka.acking[u]]
  /\ userAt' = [userAt EXCEPT ![u] = AfterUse(u)]
  /\ UNCHANGED <<arm, power, suspends, pollAsked, uses, forcer, tries>>

(* vchiq_release_internal: the counts are not given back (their decrements   *)
(* are commented out), so suspend would be requested only without any use.   *)
ReleaseInternal(u) ==
  IF arm.useCount > 0 /\ uses[u] > 0 /\ ~Wanted(arm)
  THEN arm' = VcSuspend(arm) /\ pollAsked' = TRUE
  ELSE UNCHANGED <<arm, pollAsked>>

ReleaseService(u) ==
  /\ userAt[u] = "using"
  /\ ReleaseInternal(u)
  /\ userAt' = [userAt EXCEPT ![u] = "idle"]
  /\ UNCHANGED <<power, suspends, uses, forcer, tries, ka>>

UserStep(u) ==
  \/ UseUnblocked(u) \/ ResumeWait(u)
  \/ TakeAcks(u) \/ SendAck(u) \/ AckFails(u)

-----------------------------------------------------------------------------
(* The keepalive thread uses and releases its service as often as the peer   *)
(* sent REMOTE_USE and REMOTE_RELEASE.                                       *)

(* vchiq_on_remote_use and vchiq_on_remote_release, in the slot handler; the *)
(* peer releases what it used.                                               *)
RemoteUse ==
  /\ ka.remote < MaxRemoteUses
  /\ ka' = [ka EXCEPT !.remote = @ + 1, !.use = @ + 1, !.event = @ + 1]
  /\ UNCHANGED <<arm, power, suspends, pollAsked, userAt, uses, forcer, tries>>

RemoteRelease ==
  /\ ka.remoteReleased < ka.remote
  /\ ka' = [ka EXCEPT !.remoteReleased = @ + 1, !.release = @ + 1,
                      !.event = @ + 1]
  /\ UNCHANGED <<arm, power, suspends, pollAsked, userAt, uses, forcer, tries>>

KaGoto(here, next) ==
  /\ userAt[Keepalive] = here
  /\ userAt' = [userAt EXCEPT ![Keepalive] = next]
  /\ UNCHANGED <<power, suspends, forcer, tries>>

KaWait ==
  /\ ka.event > 0
  /\ KaGoto("wait", "swapRelease")
  /\ ka' = [ka EXCEPT !.event = @ - 1]
  /\ UNCHANGED <<arm, pollAsked, uses>>

KaSwapRelease ==
  /\ ka' = [ka EXCEPT !.rc = ka.release, !.release = 0]
  /\ UNCHANGED <<arm, pollAsked, uses>>

KaSwapUse ==
  /\ ka' = [ka EXCEPT !.uc = ka.use, !.use = 0]
  /\ UNCHANGED <<arm, pollAsked, uses>>

KaSwap ==
  \/ KaGoto("swapRelease", "swapUse") /\ KaSwapRelease
  \/ KaGoto("swapUse", "loop") /\ KaSwapUse

KaUse ==
  /\ userAt[Keepalive] = "loop" /\ ka.uc > 0
  /\ ka' = [ka EXCEPT !.uc = @ - 1, !.ack = @ + 1, !.used = @ + 1]
  /\ TryUse(Keepalive, arm)
  /\ UNCHANGED <<power, suspends, forcer, tries>>

KaRelease ==
  /\ ka.uc = 0 /\ ka.rc > 0
  /\ KaGoto("loop", "loop")
  /\ ka' = [ka EXCEPT !.rc = @ - 1, !.released = @ + 1]
  /\ ReleaseInternal(Keepalive)
  /\ UNCHANGED uses

KaDone ==
  /\ ka.uc = 0 /\ ka.rc = 0
  /\ KaGoto("loop", "wait")
  /\ UNCHANGED <<ka, arm, pollAsked, uses>>

KaStep == KaWait \/ KaSwap \/ KaUse \/ KaRelease \/ KaDone

-----------------------------------------------------------------------------
(* vchiq_arm_force_suspend and vchiq_arm_allow_resume, by one caller.        *)

ForcerGoto(here, next) ==
  /\ forcer = here
  /\ forcer' = next
  /\ UNCHANGED <<power, suspends, userAt, uses, ka>>

(* Variant for mutation: suspend is asked for whoever uses the VideoCore.    *)
ForceAnyway(a) ==
  LET b == [a EXCEPT !.blockerDone = FALSE, !.resumeBlocked = TRUE]
      ask == b.suspend <= IDLE
  IN /\ arm' = IF ask THEN VcSuspend(b) ELSE b
     /\ pollAsked' = (pollAsked \/ ask)
     /\ forcer' = IF b.suspend = SUSPENDED THEN "held" ELSE "waiting"

(* The end of block_resume, and the request if nobody uses the VideoCore or  *)
(* too many polite attempts failed; then the wait.                           *)
ForceRequest(a) ==
  LET b == [a EXCEPT !.blockerDone = FALSE, !.resumeBlocked = TRUE]
      ask == b.suspend <= IDLE /\ (~Wanted(b) \/ b.override >= ForceFailMax)
  IN /\ arm' = IF ask THEN VcSuspend(b) ELSE b
     /\ pollAsked' = (pollAsked \/ ask)
     /\ forcer' = IF b.suspend = SUSPENDED THEN "held" ELSE "waiting"

(* block_resume waits for a resume in progress, twice at most.               *)
BlockResume(a, waited) ==
  IF a.resume \in {REQUESTED, IN_PROGRESS}
  THEN /\ forcer' = IF waited > 1 THEN "idle" ELSE "resuming"
       /\ arm' = a
       /\ UNCHANGED pollAsked
  ELSE ForceRequest(a)

ForceSuspend ==
  /\ forcer = "idle" /\ tries.calls < MaxForces
  /\ tries' = [calls |-> tries.calls + 1, resume |-> 0, repeated |-> FALSE]
  /\ IF arm.blockedCount > 0
     THEN /\ arm' = [arm EXCEPT !.blockedDone = FALSE]
          /\ forcer' = "draining"
          /\ UNCHANGED pollAsked
     ELSE BlockResume(arm, 0)
  /\ UNCHANGED <<power, suspends, userAt, uses, ka>>

(* The users blocked by the last force have gone on.                         *)
ForceDrained ==
  /\ forcer = "draining" /\ arm.blockedDone
  /\ BlockResume(arm, 0)
  /\ UNCHANGED <<power, suspends, userAt, uses, tries, ka>>

ForceResumed ==
  /\ forcer = "resuming" /\ arm.resumeDone
  /\ tries' = [tries EXCEPT !.resume = @ + 1]
  /\ BlockResume(arm, tries.resume + 1)
  /\ UNCHANGED <<power, suspends, userAt, uses, ka>>

(* Either wait of block_resume times out: an error, nothing is blocked.      *)
BlockTimeout ==
  /\ \/ ForcerGoto("draining", "idle") /\ ~arm.blockedDone
     \/ ForcerGoto("resuming", "idle") /\ ~arm.resumeDone
  /\ UNCHANGED <<arm, pollAsked, tries>>

(* vc_suspend_complete is done: suspended, or a failure to be reported.      *)
ForceWoken ==
  /\ arm.suspendDone
  /\ ForcerGoto("waiting", IF arm.suspend = SUSPENDED THEN "held" ELSE "idle")
  /\ arm' = CASE arm.suspend = SUSPENDED -> arm
              [] arm.suspend < IDLE -> UnblockResume(SetSuspend(arm, IDLE))
              [] OTHER -> UnblockResume(arm)
  /\ UNCHANGED <<pollAsked, tries>>

(* 200 ms have passed: once more if a suspend is under way, else give up.    *)
ForceTimeout ==
  /\ forcer = "waiting" /\ ~arm.suspendDone
  /\ IF arm.suspend > IDLE /\ ~tries.repeated
     THEN tries' = [tries EXCEPT !.repeated = TRUE] /\ UNCHANGED <<arm, forcer>>
     ELSE /\ arm' = UnblockResume([arm EXCEPT !.override = @ + 1])
          /\ forcer' = "idle"
          /\ UNCHANGED tries
  /\ UNCHANGED <<power, suspends, pollAsked, userAt, uses, ka>>

AllowResume ==
  /\ LET a == UnblockResume(arm)
         resume == NeedResume(a)
     IN /\ ForcerGoto("held", IF resume THEN "allowing" ELSE "idle")
        /\ arm' = IF resume THEN SetResume(a, REQUESTED) ELSE a
        /\ pollAsked' = (pollAsked \/ resume)
  /\ UNCHANGED tries

AllowDone ==
  /\ arm.resumeDone
  /\ ForcerGoto("allowing", "idle")
  /\ UNCHANGED <<arm, pollAsked, tries>>

ForcerStep ==
  \/ ForceDrained \/ ForceResumed \/ BlockTimeout
  \/ ForceWoken \/ ForceTimeout \/ AllowResume \/ AllowDone

-----------------------------------------------------------------------------
(* The slot handler, and the code of a platform that can suspend: the hooks  *)
(* of BCM2835 do nothing.                                                    *)

(* vchiq_platform_check_suspend, then poll_needed is cleared.  Such a        *)
(* platform checks for a resume here too (vchiq_platform_check_resume).      *)
PollSuspend ==
  /\ pollAsked
  /\ pollAsked' = FALSE
  /\ IF arm.suspend = REQUESTED /\ arm.resume = RESUMED
     THEN /\ arm' = SetSuspend(arm, IN_PROGRESS)
          /\ power' = IF suspends THEN "suspending" ELSE power
     ELSE UNCHANGED <<arm, power>>
  /\ UNCHANGED <<suspends, userAt, uses, forcer, tries, ka>>

CheckResume ==
  /\ suspends /\ power = "off"
  /\ arm.resume = REQUESTED
  /\ arm' = SetResume(arm, IN_PROGRESS)
  /\ power' = "resuming"
  /\ UNCHANGED <<suspends, pollAsked, userAt, uses, forcer, tries, ka>>

(* The platform reports the outcome; a rejecting VideoCore resumes itself.   *)
PlatformReports(s) ==
  /\ power = "suspending"
  /\ power' = CASE s = SUSPENDED -> "off" [] s = REJECTED -> "resuming"
               [] OTHER -> "on"
  /\ arm' = SetSuspend(arm, s)
  /\ UNCHANGED <<suspends, pollAsked, userAt, uses, forcer, tries, ka>>

PlatformResumed ==
  /\ power = "resuming"
  /\ power' = "on"
  /\ arm' = SetResume(arm, RESUMED)
  /\ UNCHANGED <<suspends, pollAsked, userAt, uses, forcer, tries, ka>>

PlatformStep ==
  \/ CheckResume \/ PlatformResumed
  \/ \E s \in {SUSPENDED, REJECTED, FAILED} : PlatformReports(s)

SuspendNext ==
  \/ \E u \in Users : UseService(u) \/ ReleaseService(u) \/ UserStep(u)
  \/ RemoteUse \/ RemoteRelease \/ KaStep
  \/ ForceSuspend \/ ForcerStep
  \/ PollSuspend \/ PlatformStep

SuspendSpec == SuspendInit /\ [][SuspendNext]_suspendVars

(* Threads are scheduled, waits time out, and whoever forced a suspend       *)
(* allows the resume in the end.                                             *)
SuspendFairness ==
  /\ \A u \in Users : WF_suspendVars(UserStep(u))
  /\ WF_suspendVars(KaStep) /\ WF_suspendVars(ForcerStep)
  /\ WF_suspendVars(PollSuspend) /\ WF_suspendVars(PlatformStep)

-----------------------------------------------------------------------------
SuspendTypeOK ==
  /\ arm \in [suspend : FORCE_CANCELED..SUSPENDED, suspendDone : BOOLEAN,
              resume : IDLE..RESUMED, resumeDone : BOOLEAN,
              resumeBlocked : BOOLEAN, blockerDone : BOOLEAN,
              blockedCount : Nat, blockedDone : BOOLEAN,
              useCount : Nat, override : Nat]
  /\ power \in {"on", "suspending", "off", "resuming"} /\ suspends \in BOOLEAN
  /\ pollAsked \in BOOLEAN
  /\ userAt \in [Users -> {"idle", "wait", "swapRelease", "swapUse", "loop",
                          "blocked", "resumeWait", "ack", "acking",
                          "using"}]
  /\ uses \in [Users -> Nat]
  /\ forcer \in {"idle", "draining", "resuming", "waiting", "held", "allowing"}
  /\ tries \in [resume : Nat, repeated : BOOLEAN, calls : Nat]
  /\ ka \in [event : Nat, use : Nat, release : Nat, uc : Nat, rc : Nat,
             used : Nat, released : Nat, ack : Nat, acked : Nat,
             acking : [Users -> Nat], remote : Nat, remoteReleased : Nat]

(* The two state machines and their completions keep in step: a thread that  *)
(* waits for the resume sleeps exactly while the VideoCore is not resumed,   *)
(* the users that wait on the blocker are those counted, and the blocker is  *)
(* shut exactly while resume is blocked, which only a force in progress does.*)
(* From the success of force_suspend to allow_resume the VideoCore stays     *)
(* asleep: whoever comes in between waits, and asks for nothing.             *)
SuspendInStep ==
  /\ arm.resumeDone = (arm.resume = RESUMED)
  /\ arm.suspend \in {IN_PROGRESS, SUSPENDED} => arm.resume # RESUMED
  /\ arm.blockedCount =
       Cardinality({u \in Users : userAt[u] = "blocked"})
  /\ arm.resumeBlocked = ~arm.blockerDone
  /\ arm.resumeBlocked = (forcer \in {"waiting", "held"})
  /\ forcer = "held" =>
       arm.suspend = SUSPENDED /\ arm.resume = IDLE /\ power = "off"

(* The acknowledgements that threads are sending, each numbered by its own.  *)
Acking == UNION {{u} \X (1..ka.acking[u]) : u \in Users}

(* The keepalive thread never releases more than it used, and every use it   *)
(* made for the peer is acknowledged, owed, or being acknowledged.           *)
KaBalanced ==
  /\ ka.released <= ka.used
  /\ ka.used = ka.acked + ka.ack + Cardinality(Acking)

(* Whose use is in effect: vchiq_use_internal has returned to it, or is only *)
(* acknowledging uses, and it has not released.                              *)
InUse(u) ==
  \/ userAt[u] \in {"ack", "acking", "using"}
  \/ /\ u = Keepalive /\ ka.released < ka.used
     /\ userAt[u] \in {"loop", "wait", "swapRelease", "swapUse"}

(* The VideoCore is awake for whoever uses it.  After FORCE_SUSPEND_FAIL_MAX *)
(* failures force_suspend asks for it to sleep although it is in use, with a *)
(* comment that it does not actually force.                                  *)
AwakeForUsers ==
  arm.override < ForceFailMax => \A u \in Users : InUse(u) => power = "on"

(* The VideoCore is awake for whoever uses it, asleep for a force that has   *)
(* succeeded, users wait for what will wake them, and the keepalive counts   *)
(* add up: AwakeForUsers, SuspendInStep, KaBalanced.                         *)
SuspendSound == AwakeForUsers /\ SuspendInStep /\ KaBalanced

(* On a platform that can suspend, a use always returns, whatever force was  *)
(* on: blocked users are let go and the VideoCore is asked to resume.  Only  *)
(* after FORCE_SUSPEND_FAIL_MAX failures, when the VideoCore is suspended    *)
(* under its users, may one that has just been resumed sleep on.             *)
UseReturns ==
  \A u \in Users :
    suspends /\ userAt[u] \in {"blocked", "resumeWait"}
      ~> \/ userAt[u] \notin {"blocked", "resumeWait"}
         \/ arm.override >= ForceFailMax
=============================================================================
