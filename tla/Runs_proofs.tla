----------------------------- MODULE Runs_proofs -----------------------------
(***************************************************************************)
(* Proofs about what is run, for every value of the constants: the test    *)
(* controller, the loads of the background, the run contract, the dispatch *)
(* to a host's own agents and the command line.  A section declares what   *)
(* its component has that no earlier one has, and takes an instance of it. *)
(***************************************************************************)
EXTENDS Integers, Sequences, FiniteSets, FiniteSetTheorems, TLAPS

-----------------------------------------------------------------------------
(* The test controller.                                                     *)

CONSTANTS MaxKids, MaxKills, MaxRuns
VARIABLES task, run, lock, boot, seen, code, errors, reaper, ctl, kids, ledger, blamed,
          kills

Control == INSTANCE TestController

ControlTypeOK ==
    /\ run \in Nat /\ kids \in Nat
    /\ task = "bind" \/ boot # "none" => run > 0

(* Tests run in the group that the lock names; the lock is not given up as  *)
(* long as it is alive.                                                     *)
Guarded ==
    /\ task \in {"idle", "passed"} => ~Control!GroupAlive
    /\ task \in {"watch", "wait"} => Control!Bound
    /\ Control!Members => Control!Bound
    /\ boot = "judge" /\ seen = {run} => Control!Bound
    /\ boot \notin {"none", "poll", "judge", "ended"} => Control!Bound

(* An exit without errors comes after the controller's and after the reaper *)
(* has removed the output directory.                                        *)
Earned ==
    /\ boot \in {"report", "exit"} /\ ~errors => reaper = "removed"
    /\ boot = "exit" /\ ledger = "ok" => ctl = "zero"
    /\ boot = "ended" /\ code = "zero" /\ ledger = "ok" => ctl = "zero" /\ reaper = "removed"
    /\ task = "wait" => boot = "ended"
    /\ task = "passed" => ctl = "zero" /\ reaper = "removed" /\ Control!Bound

ControlInv == ControlTypeOK /\ Guarded /\ Earned

LEMMA ControlInvStep ==
  ASSUME ControlInv, [Control!ControllerNext]_Control!vars
  PROVE  ControlInv'
<1> USE DEF ControlInv, ControlTypeOK, Guarded, Earned, Control!TaskGone, Control!Members,
            Control!GroupAlive, Control!Bound, Control!taskVars, Control!bootVars, Control!groupVars
<1>1. CASE Control!SpawnBootstrap
  BY <1>1 DEF Control!SpawnBootstrap
<1>2. CASE Control!BindGroup
  BY <1>2 DEF Control!BindGroup
<1>3. CASE Control!TaskGivesUp
  BY <1>3 DEF Control!TaskGivesUp
<1>4. CASE Control!SeesExit
  BY <1>4 DEF Control!SeesExit
<1>5. CASE Control!TimesOut
  BY <1>5 DEF Control!TimesOut
<1>6. CASE Control!Join
  BY <1>6 DEF Control!Join
<1>7. CASE Control!ReleaseSession
  BY <1>7 DEF Control!ReleaseSession, Control!Leave
<1>8. CASE Control!Interrupted
  BY <1>8 DEF Control!Interrupted, Control!Leave
<1>9. CASE Control!RecoverLock
  BY <1>9 DEF Control!RecoverLock
<1>10. CASE Control!ReadOwner
  BY <1>10 DEF Control!ReadOwner
<1>11. CASE Control!JudgeOwner
  BY <1>11 DEF Control!JudgeOwner, Control!Exits, Control!Orphaned, Control!Thrown
<1>12. CASE Control!BootstrapGivesUp
  BY <1>12 DEF Control!BootstrapGivesUp, Control!Exits, Control!Thrown
<1>13. CASE Control!SpawnReaper
  BY <1>13 DEF Control!SpawnReaper
<1>14. CASE Control!StartController
  BY <1>14 DEF Control!StartController
<1>15. CASE Control!MeetError
  BY <1>15 DEF Control!MeetError
<1>16. CASE Control!SeesControllerExit
  BY <1>16 DEF Control!SeesControllerExit
<1>17. CASE Control!JoinReaper
  BY <1>17 DEF Control!JoinReaper
<1>18. CASE Control!DisposeReaper
  BY <1>18 DEF Control!DisposeReaper
<1>19. CASE Control!BuryReaper
  BY <1>19 DEF Control!BuryReaper
<1>20. CASE Control!ReportCompletion
  BY <1>20 DEF Control!ReportCompletion, Control!Ok
<1>21. CASE Control!ExitWithResult
  BY <1>21 DEF Control!ExitWithResult, Control!Ok, Control!Exits
<1>22. CASE Control!BeginTermination
  BY <1>22 DEF Control!BeginTermination, Control!Bereft
<1>23. CASE Control!FindGroupEmpty
  BY <1>23 DEF Control!FindGroupEmpty
<1>24. CASE Control!KillMembers
  BY <1>24 DEF Control!KillMembers
<1>25. CASE Control!FindGroupLive
  BY <1>25 DEF Control!FindGroupLive
<1>26. CASE Control!RemoveOutputDirectory
  BY <1>26 DEF Control!RemoveOutputDirectory, Control!Bereft
<1>27. CASE Control!Fork
  BY <1>27 DEF Control!Fork
<1>28. CASE Control!KidExits
  BY <1>28 DEF Control!KidExits
<1>29. CASE Control!ControllerExits
  BY <1>29 DEF Control!ControllerExits
<1>30. CASE Control!Kill
  BY <1>30 DEF Control!Kill
<1>31. CASE UNCHANGED Control!vars
  BY <1>31 DEF Control!vars
<1> QED
  BY <1>1, <1>2, <1>3, <1>4, <1>5, <1>6, <1>7, <1>8, <1>9, <1>10, <1>11, <1>12, <1>13, <1>14,
     <1>15, <1>16, <1>17, <1>18, <1>19, <1>20, <1>21, <1>22, <1>23, <1>24, <1>25, <1>26, <1>27,
     <1>28, <1>29, <1>30, <1>31
     DEF Control!ControllerNext

(* No test outlives the hold on the repository: a lock that was released or *)
(* recovered leaves none of the session's tests running.  And a task that   *)
(* reports a pass ran its tests to a clean end, with nothing of the group   *)
(* left behind: whatever is killed, forks or gives up at any point          *)
(* (task.mjs, test-controller-bootstrap.mjs, test-controller-reaper.mjs).   *)
THEOREM NoTestOutlivesItsLock ==
  Control!ControllerSpec => []Control!NoneOutlivesTheLock
<1>1. Control!ControllerInit => ControlInv
  BY DEF Control!ControllerInit, ControlInv, ControlTypeOK, Guarded, Earned, Control!Members,
         Control!GroupAlive, Control!Bound
<1>2. ControlInv /\ [Control!ControllerNext]_Control!vars => ControlInv'
  BY ControlInvStep
<1>3. ControlInv => Control!NoneOutlivesTheLock
  BY DEF ControlInv, ControlTypeOK, Guarded, Earned, Control!NoneOutlivesTheLock, Control!Members,
         Control!GroupAlive, Control!Bound
<1> QED
  BY <1>1, <1>2, <1>3, PTL DEF Control!ControllerSpec

-----------------------------------------------------------------------------
(* The background loads.                                                    *)

CONSTANTS Group, Purpose, Pid, Dereg, Overlapping, MaxLines, MaxSpawns, MaxTorn
VARIABLES registry, process, owed, dereg, detect, answer, spawns, torn

Guard == INSTANCE SpawnGuard

(* What is owed is registered, in the file, in what a deregistration is     *)
(* about to replace it by, and in what a detection has read of it.          *)
RegistryInv ==
    /\ owed \subseteq registry
    /\ \A l \in owed : l.pgid # 0

ReplacementInv ==
    /\ DOMAIN dereg = Dereg
    /\ \A d \in Dereg : dereg[d].at = "rename" =>
         \A l \in owed : ~Guard!Names(dereg[d], l) => l \in dereg[d].kept

DetectionInv ==
    detect.at = "table" => \A l \in detect.owed :
        detect.purposes = {} \/ l.purpose \in detect.purposes => l \in detect.registered

GuardInv == RegistryInv /\ ReplacementInv /\ DetectionInv /\ Guard!LoadsAreReported

LEMMA GuardInvStep ==
  ASSUME 0 \notin Group, Overlapping = FALSE,
         GuardInv, [Guard!GuardNext]_Guard!vars
  PROVE  GuardInv'
<1> USE DEF GuardInv, RegistryInv, ReplacementInv, DetectionInv, Guard!LoadsAreReported,
            Guard!Idle, Guard!Names
<1>1. CASE Guard!Spawn
  BY <1>1 DEF Guard!Spawn
<1>2. CASE Guard!Turn
  BY <1>2 DEF Guard!Turn
<1>3. CASE Guard!Register
  BY <1>3 DEF Guard!Register, Guard!Entry
<1>4. CASE Guard!Tear
  BY <1>4 DEF Guard!Tear
<1>5. CASE Guard!BeginDeregister
  BY <1>5 DEF Guard!BeginDeregister
<1>6. CASE Guard!LookTerminal
  BY <1>6 DEF Guard!LookTerminal
<1>7. CASE Guard!ReadRegistry
  BY <1>7 DEF Guard!ReadRegistry, Guard!Lenient, Guard!Torn, Guard!Entry
<1>8. CASE Guard!Replace
  BY <1>8 DEF Guard!Replace
<1>9. CASE Guard!BeginDetect
  BY <1>9 DEF Guard!BeginDetect
<1>10. CASE Guard!Detect
  BY <1>10 DEF Guard!Detect, Guard!Residue, Guard!Live
<1>11. CASE UNCHANGED Guard!vars
  BY <1>11 DEF Guard!vars
<1> QED
  BY <1>1, <1>2, <1>3, <1>4, <1>5, <1>6, <1>7, <1>8, <1>9, <1>10, <1>11
     DEF Guard!GuardNext

(* A report names every process of a group that was registered when it      *)
(* began and that nobody who owns it had deregistered, whatever other       *)
(* owners deregistered meanwhile and whatever lines were torn, if no        *)
(* registration falls between the reading and the replacement of a          *)
(* deregistration (spawn-guard.mjs, background-resource.ts).                *)
THEOREM LoadsReported ==
  ASSUME 0 \notin Group, Overlapping = FALSE
  PROVE  Guard!GuardSpec => []Guard!LoadsAreReported
<1>1. Guard!GuardInit => GuardInv
  BY DEF Guard!GuardInit, GuardInv, RegistryInv, ReplacementInv, DetectionInv,
         Guard!LoadsAreReported, Guard!Idle
<1>2. GuardInv /\ [Guard!GuardNext]_Guard!vars => GuardInv'
  BY GuardInvStep
<1>3. GuardInv => Guard!LoadsAreReported
  BY DEF GuardInv
<1> QED
  BY <1>1, <1>2, <1>3, PTL DEF Guard!GuardSpec

-----------------------------------------------------------------------------
(* The run contract.                                                        *)

CONSTANTS Session, Codex, Unset, Ending, Cap, TTL, MaxTime, MaxUses, MaxStarts, Bindings
VARIABLES pact, hook, uses, streak, answered, time, starts

Pact == INSTANCE StopPact

Status == {"running", "expired"} \cup Ending
Pacts == [active : BOOLEAN, status : Status, session : Session \cup {Unset}, work : Bindings,
          expires : Nat, count : 0..Cap, last : Nat \cup {Unset}, history : Seq(Status)]

PactTypeOK ==
    /\ pact \in Pacts \cup {Unset}
    /\ streak \in [Session -> Nat] /\ uses \in [Session -> Nat]
    /\ answered \in Seq(Status) /\ time \in Nat
    /\ DOMAIN hook = Session
    /\ \A s \in Session : hook[s].pc # "idle" =>
           hook[s].saw \in Pacts /\ hook[s].continuation \in BOOLEAN

(* The blocks of a session in a row show in the pact that it may be blocked *)
(* by: they are in its count, or were before its work could be read.        *)
Accounts(p, s) ==
    p.session \in {Unset, s} =>
        \/ streak[s] <= p.count
        \/ p.last # Unset /\ uses[s] <= p.last /\ streak[s] <= Cap + p.count

(* It says what the commands answered; once expired, it runs no more.       *)
Answers(p) ==
    /\ p.history \in {answered, Append(answered, "expired")}
    /\ p.active => p.history = answered /\ answered[Len(answered)] = "running"

Traced(p, s) == Accounts(p, s) /\ Answers(p)

PactInv ==
    /\ PactTypeOK
    /\ pact = Unset <=> answered = <<>>
    /\ \A s \in Session : streak[s] <= 2 * Cap
    /\ pact # Unset => Answers(pact) /\ (pact.active => \A s \in Session : Accounts(pact, s))
    /\ \A s \in Session : hook[s].pc # "idle" =>
          hook[s].saw.active /\ Traced(hook[s].saw, s) /\ pact # Unset

(* What a firing may leave of the pact it read.                             *)
Spared(s, next) ==
    \/ streak[s] + 1 <= next.count
    \/ next.last # Unset /\ uses[s] <= next.last /\ streak[s] + 1 <= Cap + next.count

(* The fields of a pact, and what is set of them.                            *)
LEMMA PactFields ==
  ASSUME NEW p \in Pacts
  PROVE  /\ p = [active |-> p.active, status |-> p.status, session |-> p.session, work |-> p.work,
                 expires |-> p.expires, count |-> p.count, last |-> p.last, history |-> p.history]
         /\ p.active \in BOOLEAN /\ p.status \in Status /\ p.session \in Session \cup {Unset}
         /\ p.work \in Bindings /\ p.expires \in Nat /\ p.count \in 0..Cap
         /\ p.last \in Nat \cup {Unset} /\ p.history \in Seq(Status)
BY DEF Pacts

LEMMA BoundIs ==
  ASSUME NEW p \in Pacts, NEW s \in Session
  PROVE  LET q == [p EXCEPT !.session = s]
         IN  /\ q \in Pacts /\ q.history = p.history /\ q.active = p.active
             /\ q.session = s /\ q.last = p.last /\ q.count = p.count
BY DEF Pacts

LEMMA CountIs ==
  ASSUME NEW p \in Pacts, NEW c \in 0..Cap
  PROVE  LET q == [p EXCEPT !.count = c]
         IN  /\ q \in Pacts /\ q.history = p.history /\ q.active = p.active
             /\ q.session = p.session /\ q.last = p.last /\ q.count = c
BY DEF Pacts

LEMMA LastIs ==
  ASSUME NEW p \in Pacts, NEW l \in Nat \cup {Unset}
  PROVE  LET q == [p EXCEPT !.last = l]
         IN  /\ q \in Pacts /\ q.history = p.history /\ q.active = p.active
             /\ q.session = p.session /\ q.last = l /\ q.count = p.count
BY DEF Pacts

LEMMA MigratedIs ==
  ASSUME NEW p \in Pacts, NEW status \in Status
  PROVE  LET q == Pact!Migrated(p, status)
         IN  /\ q \in Pacts /\ q.active = FALSE /\ q.history = Append(p.history, status)
<1>1. p.history \in Seq(Status)
  BY PactFields
<1>2. Append(p.history, status) \in Seq(Status)
  BY <1>1
<1>3. /\ [p EXCEPT !.history = Append(p.history, status)] \in Pacts
      /\ [p EXCEPT !.history = Append(p.history, status)].history = Append(p.history, status)
  <2> DEFINE h == Append(p.history, status)
  <2>1. h \in Seq(Status)
    BY <1>2
  <2> HIDE DEF h
  <2>2. [p EXCEPT !.history = h] \in Pacts /\ [p EXCEPT !.history = h].history = h
    BY <2>1 DEF Pacts
  <2> QED
    BY <2>2 DEF h
<1>4. ASSUME NEW r \in Pacts
      PROVE  /\ [r EXCEPT !.status = status, !.active = FALSE] \in Pacts
             /\ [r EXCEPT !.status = status, !.active = FALSE].active = FALSE
             /\ [r EXCEPT !.status = status, !.active = FALSE].history = r.history
  BY <1>4 DEF Pacts
<1> DEFINE r == [p EXCEPT !.history = Append(p.history, status)]
<1>5. Pact!Migrated(p, status) = [r EXCEPT !.status = status, !.active = FALSE]
  <2> DEFINE h == Append(p.history, status)
  <2> HIDE DEF h
  <2>1. [p EXCEPT !.status = status, !.active = FALSE, !.history = h]
          = [[p EXCEPT !.history = h] EXCEPT !.status = status, !.active = FALSE]
    BY DEF Pacts
  <2> QED
    BY <2>1 DEF h, Pact!Migrated
<1> HIDE DEF r
<1> QED
  BY <1>3, <1>4, <1>5 DEF r

LEMMA VerdictIs ==
  ASSUME Cap \in Nat \ {0}, Unset \notin Nat, PactTypeOK,
         NEW s \in Session, NEW p \in Pacts, p.active, Traced(p, s),
         NEW mode, NEW known \in BOOLEAN, NEW continuation \in BOOLEAN
  PROVE  LET v == Pact!Verdict(s, p, mode, known, continuation)
             next == Pact!Written(v, p)
         IN  /\ next # p => next \in Pacts /\ Answers(next) /\ (next.active => next.session = s)
             /\ v.block => next # p /\ streak[s] < 2 * Cap /\ Spared(s, next)
<1> DEFINE worked == Pact!Worked(s, p, known)
           v == Pact!Verdict(s, p, mode, known, continuation)
           next == Pact!Written(v, p)
           bound == [p EXCEPT !.session = s]
<1>c. /\ p.count \in 0..Cap /\ p.last \in Nat \cup {Unset} /\ p.active \in BOOLEAN
      /\ uses[s] \in Nat /\ streak[s] \in Nat /\ 0 \in 0..Cap
  BY PactFields DEF PactTypeOK
<1>a. p.history = answered /\ answered[Len(answered)] = "running"
  BY DEF Traced, Answers
<1>0. bound \in Pacts /\ bound.history = answered /\ bound.active /\ bound.session = s
  BY <1>a, BoundIs
<1>1. CASE Pact!Others(p, s)
  <2>1. v.code = "OTHER_SESSION" /\ v.block = FALSE
    BY <1>1 DEF Pact!Verdict
  <2>2. next = p
    BY <2>1 DEF Pact!Written
  <2> QED
    BY <2>1, <2>2
<1>2. CASE ~Pact!Others(p, s) /\ time >= p.expires
  <2> DEFINE q == Pact!Migrated(p, "expired")
  <2>1. v.code = "PACT_EXPIRED" /\ v.block = FALSE /\ v.pact = q
    BY <1>2 DEF Pact!Verdict
  <2>2. next = q
    BY <2>1 DEF Pact!Written
  <2>3. q \in Pacts /\ Answers(q) /\ ~q.active
    <3>1. q \in Pacts /\ q.active = FALSE /\ q.history = Append(answered, "expired")
      BY <1>a, MigratedIs DEF Status
    <3> QED
      BY <3>1 DEF Answers
  <2> QED
    BY <2>1, <2>2, <2>3
<1>3. CASE ~Pact!Others(p, s) /\ ~(time >= p.expires) /\ continuation
  <2>1. v.code = "STOP_HOOK_ACTIVE" /\ v.block = FALSE /\ v.pact = p
    BY <1>3 DEF Pact!Verdict
  <2> QED
    BY <2>1 DEF Pact!Written
<1>4. CASE ~Pact!Others(p, s) /\ ~(time >= p.expires) /\ ~continuation /\ mode = "observe"
  <2>1. v.code = "OBSERVE_WOULD_BLOCK" /\ v.block = FALSE /\ v.pact = bound
    BY <1>4 DEF Pact!Verdict
  <2> QED
    BY <2>1, <1>0, <1>a DEF Pact!Written, Answers
<1>5. CASE /\ ~Pact!Others(p, s) /\ ~(time >= p.expires) /\ ~continuation /\ mode # "observe"
           /\ ~worked /\ p.count >= Cap
  <2> DEFINE q == [bound EXCEPT !.count = 0]
  <2>1. v.code = "ESCALATION_RELEASE" /\ v.block = FALSE /\ v.pact = q
    BY <1>5 DEF Pact!Verdict
  <2>2. q \in Pacts /\ q.history = answered /\ q.active /\ q.session = s
    <3> HIDE DEF bound
    <3> QED
      BY <1>0, <1>c, CountIs
  <2>3. Answers(q)
    BY <1>a, <2>2 DEF Answers
  <2> QED
    BY <2>1, <2>2, <2>3 DEF Pact!Written
<1>6. CASE /\ ~Pact!Others(p, s) /\ ~(time >= p.expires) /\ ~continuation /\ mode # "observe"
           /\ worked \/ p.count < Cap
  <2> DEFINE q == [bound EXCEPT !.count = IF worked THEN 1 ELSE p.count + 1,
                                !.last = IF known THEN uses[s] ELSE @]
  <2>0. ~(~worked /\ p.count >= Cap)
    BY <1>6, <1>c
  <2>1. v.code = "BLOCK_RUNNING" /\ v.block = TRUE /\ v.pact = q
    <3>1. v = [code |-> "BLOCK_RUNNING", block |-> TRUE, pact |-> q]
      BY <1>6, <2>0, Zenon DEF Pact!Verdict
    <3> HIDE DEF v, q
    <3> QED
      BY <3>1
  <2>2. next = q
    BY <2>1 DEF Pact!Written
  <2>3. /\ uses[s] \in Nat /\ streak[s] \in Nat /\ p.count \in 0..Cap
        /\ p.last \in Nat \cup {Unset}
    BY <1>c
  <2>4. /\ (IF worked THEN 1 ELSE p.count + 1) \in 0..Cap
        /\ (IF known THEN uses[s] ELSE p.last) \in Nat \cup {Unset}
    <3>1. (IF worked THEN 1 ELSE p.count + 1) \in 0..Cap
      BY <1>6, <2>3
    <3>2. (IF known THEN uses[s] ELSE p.last) \in Nat \cup {Unset}
      BY <2>3
    <3> QED
      BY <3>1, <3>2
  <2> DEFINE c == IF worked THEN 1 ELSE p.count + 1
             l == IF known THEN uses[s] ELSE p.last
             r == [bound EXCEPT !.count = c]
  <2>5. /\ r \in Pacts /\ r.history = answered /\ r.active /\ r.session = s
        /\ r.count = c /\ r.last = p.last
    <3>1. bound.last = p.last
      BY BoundIs
    <3> HIDE DEF bound, c
    <3> QED
      BY <1>0, <2>4, <3>1, CountIs DEF c
  <2>6. /\ q \in Pacts /\ q.history = answered /\ q.active /\ q.session = s
        /\ q.count = c /\ q.last = l
    <3>1. q = [r EXCEPT !.last = l]
      BY <2>5
    <3> HIDE DEF q, r, l
    <3> QED
      BY <2>4, <2>5, <3>1, LastIs DEF l
  <2>7. \/ streak[s] <= p.count
        \/ p.last # Unset /\ uses[s] <= p.last /\ streak[s] <= Cap + p.count
    BY <1>6 DEF Traced, Accounts, Pact!Others
  <2>8. worked <=> known /\ (p.last = Unset \/ uses[s] > p.last)
    BY DEF Pact!Worked
  <2>10. Answers(q)
    BY <1>a, <2>6 DEF Answers
  <2> HIDE DEF worked, q
  <2>9. q # p /\ streak[s] < 2 * Cap /\ Spared(s, q)
    <3>1. CASE worked
      <4>1. q.count = 1 /\ q.last = uses[s] /\ q.last # p.last /\ streak[s] <= p.count
        BY <3>1, <2>3, <2>6, <2>7, <2>8
      <4> QED
        BY <4>1, <2>3 DEF Spared
    <3>2. CASE ~worked
      <4>1. q.count = p.count + 1 /\ p.count < Cap
        BY <3>2, <2>6, <1>6
      <4>2. p.last # Unset /\ uses[s] <= p.last => q.last # Unset /\ uses[s] <= q.last
        BY <2>3, <2>6
      <4> QED
        BY <4>1, <4>2, <2>3, <2>7 DEF Spared
    <3> QED
      BY <3>1, <3>2
  <2> QED
    BY <2>1, <2>2, <2>6, <2>9, <2>10
<1> QED
  <2> HIDE DEF worked
  <2>1. p.count \in 0..Cap
    BY <1>c
  <2> QED
    BY <1>1, <1>2, <1>3, <1>4, <1>5, <1>6, <2>1

(* A firing that ends and leaves the pact alone.                            *)
LEMMA StreakIs ==
  ASSUME PactTypeOK, NEW s \in Session
  PROVE  /\ Pact!Allow(s) => /\ streak' \in [Session -> Nat] /\ streak'[s] = 0
                             /\ \A x \in Session \ {s} : streak'[x] = streak[x]
         /\ Pact!Block(s, TRUE) => /\ streak' \in [Session -> Nat] /\ streak'[s] = streak[s] + 1
                                   /\ \A x \in Session \ {s} : streak'[x] = streak[x]
         /\ Pact!Block(s, FALSE) => streak' = streak
<1>1. streak \in [Session -> Nat]
  BY DEF PactTypeOK
<1> QED
  BY <1>1 DEF Pact!Allow, Pact!Block

LEMMA FiringEnds ==
  ASSUME Cap \in Nat, PactInv, NEW s \in Session, Pact!Allow(s) \/ Pact!Block(s, FALSE),
         UNCHANGED <<pact, uses, answered, time, starts>>
  PROVE  PactInv'
<1>1. /\ DOMAIN hook' = Session
      /\ \A x \in Session : hook'[x].pc # "idle" => hook'[x] = hook[x]
  BY DEF Pact!Allow, Pact!Block, Pact!Idle, PactInv, PactTypeOK
<1>2. /\ streak' \in [Session -> Nat]
      /\ \A x \in Session : streak'[x] <= streak[x]
  <2>1. PactTypeOK /\ streak \in [Session -> Nat]
    BY DEF PactInv, PactTypeOK
  <2>2. \A x \in Session : streak[x] \in Nat /\ streak[x] <= streak[x] /\ 0 <= streak[x]
    BY <2>1
  <2>3. CASE Pact!Allow(s)
    BY <2>1, <2>2, <2>3, StreakIs
  <2>4. CASE Pact!Block(s, FALSE)
    BY <2>1, <2>2, <2>4, StreakIs
  <2> QED
    BY <2>3, <2>4
<1>3. \A x \in Session : streak[x] \in Nat /\ uses[x] \in Nat /\ streak'[x] \in Nat
  BY <1>2 DEF PactInv, PactTypeOK
<1>4. PactTypeOK'
  BY <1>1, <1>2 DEF PactInv, PactTypeOK
<1>5. ASSUME NEW x \in Session, NEW p \in Pacts, Accounts(p, x)
      PROVE  Accounts(p, x)'
  <2>1. p.count \in Int /\ streak'[x] <= streak[x] /\ streak[x] \in Nat /\ streak'[x] \in Nat
    BY <1>2, <1>3, PactFields
  <2> QED
    BY <2>1, <1>5 DEF Accounts
<1>6. \A p : Answers(p)' <=> Answers(p)
  BY DEF Answers
<1>7. \A x \in Session : streak'[x] <= 2 * Cap
  BY <1>2, <1>3 DEF PactInv
<1>8. pact # Unset => pact \in Pacts
  BY DEF PactInv, PactTypeOK
<1>9. ASSUME NEW x \in Session, hook'[x].pc # "idle"
      PROVE  hook'[x].saw.active /\ Traced(hook[x].saw, x)' /\ pact # Unset
  BY <1>1, <1>5, <1>6, <1>9 DEF PactInv, PactTypeOK, Traced
<1> QED
  BY <1>4, <1>5, <1>6, <1>7, <1>8, <1>9 DEF PactInv

LEMMA PactInvStep ==
  ASSUME Cap \in Nat \ {0}, TTL \in Nat, Unset \notin Nat \cup Session \cup Pacts,
         Overlapping = FALSE,
         PactInv, [Pact!PactNext]_Pact!vars
  PROVE  PactInv'
<1>1. ASSUME NEW force \in BOOLEAN, NEW session \in Session \cup {Unset}, NEW work \in Bindings,
             Pact!StartRun(force, session, work)
      PROVE  PactInv'
  <2>1. \A x \in Session : hook[x].pc = "idle"
    BY <1>1 DEF Pact!StartRun, Pact!Commands
  <2>2. pact' \in Pacts /\ pact'.active /\ pact'.history = <<"running">>
    BY <1>1 DEF Pact!StartRun, Pact!NewPact, Pacts, Status, PactInv, PactTypeOK
  <2>3. answered' = <<"running">> /\ answered' \in Seq(Status) /\ answered' # <<>>
    BY <1>1 DEF Pact!StartRun, Status
  <2>4. streak' = [x \in Session |-> 0] /\ UNCHANGED <<hook, uses, time>>
    BY <1>1 DEF Pact!StartRun
  <2>5. PactTypeOK'
    BY <2>1, <2>2, <2>3, <2>4 DEF PactInv, PactTypeOK
  <2>6. Answers(pact)'
    BY <2>2, <2>3 DEF Answers
  <2>7. \A x \in Session : Accounts(pact, x)' /\ streak'[x] <= 2 * Cap
    BY <2>2, <2>4 DEF Accounts, Pacts
  <2> QED
    BY <2>1, <2>2, <2>3, <2>4, <2>5, <2>6, <2>7 DEF PactInv
<1>2. ASSUME NEW status \in Ending, Pact!Migrate(status)
      PROVE  PactInv'
  <2>1. \A x \in Session : hook[x].pc = "idle"
    BY <1>2 DEF Pact!Migrate, Pact!Commands
  <2>2. pact \in Pacts /\ pact.active /\ pact.history = answered
    BY <1>2 DEF Pact!Migrate, Pact!Active, PactInv, PactTypeOK, Answers
  <2>3. /\ pact' \in Pacts /\ ~pact'.active
        /\ pact'.history = Append(answered, status)
    BY <1>2, <2>2, MigratedIs DEF Pact!Migrate, Status
  <2>4. answered' = Append(answered, status) /\ answered' \in Seq(Status) /\ answered' # <<>>
    BY <1>2 DEF Pact!Migrate, PactInv, PactTypeOK, Status
  <2>5. UNCHANGED <<hook, uses, streak, time>>
    BY <1>2 DEF Pact!Migrate
  <2> QED
    BY <2>1, <2>3, <2>4, <2>5 DEF PactInv, PactTypeOK, Answers
<1>3. ASSUME NEW s \in Session,
             Pact!PassOver(s) \/ Pact!Incomplete(s) \/ Pact!Unreadable(s) \/ Pact!RunVerification(s)
               \/ Pact!HostKills(s)
      PROVE  PactInv'
  BY <1>3, FiringEnds DEF Pact!PassOver, Pact!Incomplete, Pact!Unreadable, Pact!RunVerification,
                          Pact!HostKills
<1>4. ASSUME NEW s \in Session, Pact!FindCommand(s)
      PROVE  PactInv'
  <2>1. /\ DOMAIN hook' = Session
        /\ \A x \in Session : /\ hook'[x].pc # "idle" => hook[x].pc # "idle"
                              /\ hook'[x].saw = hook[x].saw /\ hook'[x].continuation = hook[x].continuation
    BY <1>4 DEF Pact!FindCommand, PactInv, PactTypeOK
  <2>2. UNCHANGED <<pact, uses, streak, answered, time>>
    BY <1>4 DEF Pact!FindCommand
  <2>a. \A p, x : (Accounts(p, x)' <=> Accounts(p, x)) /\ (Answers(p)' <=> Answers(p))
    BY <2>2 DEF Accounts, Answers
  <2>b. \A p, x : Traced(p, x)' <=> Traced(p, x)
    BY <2>a DEF Traced
  <2>c. PactTypeOK'
    BY <2>1, <2>2 DEF PactInv, PactTypeOK
  <2> QED
    BY <2>1, <2>2, <2>a, <2>b, <2>c DEF PactInv
<1>5. ASSUME NEW s \in Session, NEW mode, NEW known \in BOOLEAN, Pact!Conclude(s, mode, known)
      PROVE  PactInv'
  <2> DEFINE saw == hook[s].saw
             v == Pact!Verdict(s, saw, mode, known, hook[s].continuation)
             next == Pact!Written(v, saw)
  <2>0. hook[s].continuation \in BOOLEAN
    BY <1>5 DEF Pact!Conclude, PactInv, PactTypeOK
  <2>1. saw \in Pacts /\ saw.active /\ Traced(saw, s) /\ pact \in Pacts /\ PactTypeOK
    BY <1>5 DEF Pact!Conclude, PactInv, PactTypeOK
  <2>2. /\ next # saw => next \in Pacts /\ Answers(next) /\ (next.active => next.session = s)
        /\ v.block => next # saw /\ streak[s] < 2 * Cap /\ Spared(s, next)
    BY <2>1, <2>0, VerdictIs
  <2>3. /\ pact' = IF next # saw THEN next ELSE pact
        /\ IF v.block THEN Pact!Block(s, TRUE) ELSE Pact!Allow(s)
        /\ UNCHANGED <<uses, answered, time, starts>>
    BY <1>5 DEF Pact!Conclude
  <2> HIDE DEF v, next
  <2>4. /\ DOMAIN hook' = Session /\ hook'[s].pc = "idle"
        /\ \A x \in Session \ {s} : hook'[x] = hook[x]
    BY <2>1, <2>3 DEF Pact!Block, Pact!Allow, Pact!Idle, PactTypeOK
  <2>5. /\ streak' \in [Session -> Nat] /\ streak'[s] = IF v.block THEN streak[s] + 1 ELSE 0
        /\ \A x \in Session \ {s} : streak'[x] = streak[x]
    BY <2>1, <2>3, StreakIs
  <2>6. pact' \in Pacts /\ Answers(pact)'
    BY <2>1, <2>2, <2>3 DEF PactInv, Answers
  <2>7. PactTypeOK'
    BY <2>1, <2>3, <2>4, <2>5, <2>6 DEF PactTypeOK
  <2>8. ASSUME NEW x \in Session \ {s}, NEW p \in Pacts
        PROVE  Accounts(p, x)' <=> Accounts(p, x)
    BY <2>3, <2>5, <2>8 DEF Accounts
  <2>9. pact'.active => \A x \in Session : Accounts(pact, x)'
    <3> SUFFICES ASSUME pact'.active, NEW x \in Session PROVE Accounts(pact, x)'
      OBVIOUS
    <3>1. CASE next # saw
      <4>1. pact' = next /\ next.session = s
        BY <2>2, <2>3, <3>1
      <4>2. CASE x # s
        BY <4>1, <4>2 DEF Accounts
      <4>3. CASE x = s /\ v.block
        BY <2>2, <2>3, <2>5, <4>1, <4>3 DEF Accounts, Spared
      <4>4. CASE x = s /\ ~v.block
        BY <2>5, <2>6, <4>4 DEF Accounts, Pacts
      <4> QED
        BY <4>2, <4>3, <4>4
    <3>2. CASE next = saw
      <4>1. pact' = pact /\ ~v.block
        BY <2>2, <2>3, <3>2
      <4>2. CASE x # s
        BY <2>1, <2>8, <4>1, <4>2 DEF PactInv
      <4>3. CASE x = s
        BY <2>5, <2>6, <4>1, <4>3 DEF Accounts, Pacts
      <4> QED
        BY <4>2, <4>3
    <3> QED
      BY <3>1, <3>2
  <2>10. \A x \in Session : streak'[x] <= 2 * Cap
    <3>1. \A x \in Session : streak[x] \in Nat /\ streak[x] <= 2 * Cap
      BY DEF PactInv, PactTypeOK
    <3> QED
      BY <2>2, <2>5, <3>1
  <2>11. ASSUME NEW x \in Session, hook'[x].pc # "idle"
         PROVE  hook'[x].saw.active /\ Traced(hook[x].saw, x)'
    <3>1. x # s /\ hook'[x] = hook[x] /\ hook[x].saw \in Pacts
      BY <2>1, <2>4, <2>11 DEF PactTypeOK
    <3> QED
      BY <2>3, <2>8, <2>11, <3>1 DEF PactInv, Traced, Answers
  <2> QED
    BY <2>1, <2>3, <2>6, <2>7, <2>9, <2>10, <2>11 DEF PactInv
<1>6. ASSUME NEW s \in Session, Pact!Work(s)
      PROVE  PactInv'
  <2>1. \A x \in Session : /\ streak[x] \in Nat /\ uses[x] \in Nat
                           /\ x # s => streak'[x] = streak[x] /\ uses'[x] = uses[x]
    BY <1>6 DEF Pact!Work, PactInv, PactTypeOK
  <2>2. streak'[s] = 0 /\ hook[s].pc = "idle" /\ UNCHANGED <<pact, hook, answered, time>>
    BY <1>6 DEF Pact!Work, PactInv, PactTypeOK
  <2>3. PactTypeOK'
    BY <1>6, <2>2 DEF Pact!Work, PactInv, PactTypeOK
  <2>4. ASSUME NEW x \in Session, NEW p \in Pacts, Accounts(p, x)
        PROVE  Accounts(p, x)'
    BY <2>1, <2>2, <2>4 DEF Accounts, Pacts
  <2>5. \A x \in Session : streak'[x] <= 2 * Cap
    BY <2>1, <2>2 DEF PactInv
  <2> QED
    BY <2>2, <2>3, <2>4, <2>5 DEF PactInv, PactTypeOK, Traced, Answers
<1>7. ASSUME NEW s \in Session, NEW continuation \in BOOLEAN, Pact!Fire(s, continuation)
      PROVE  PactInv'
  <2>1. /\ DOMAIN hook' = Session /\ hook'[s].saw = pact /\ hook'[s].continuation \in BOOLEAN
        /\ \A x \in Session \ {s} : hook'[x] = hook[x]
    BY <1>7 DEF Pact!Fire, PactInv, PactTypeOK
  <2>2. pact \in Pacts /\ pact # Unset /\ pact.active
    BY <1>7 DEF Pact!Fire, Pact!Active, PactInv, PactTypeOK
  <2>3. UNCHANGED <<pact, uses, streak, answered, time>>
    BY <1>7 DEF Pact!Fire
  <2>a. \A p, x : (Accounts(p, x)' <=> Accounts(p, x)) /\ (Answers(p)' <=> Answers(p))
    BY <2>3 DEF Accounts, Answers
  <2>b. \A p, x : Traced(p, x)' <=> Traced(p, x)
    BY <2>a DEF Traced
  <2>c. PactTypeOK'
    BY <2>1, <2>2, <2>3 DEF PactInv, PactTypeOK
  <2>d. ASSUME NEW x \in Session, hook'[x].pc # "idle"
        PROVE  hook'[x].saw.active /\ Traced(hook'[x].saw, x) /\ pact # Unset
    <3>1. CASE x = s
      BY <2>1, <2>2, <3>1 DEF PactInv, Traced
    <3>2. CASE x # s
      BY <2>1, <2>d, <3>2 DEF PactInv
    <3> QED
      BY <3>1, <3>2
  <2> QED
    BY <2>2, <2>3, <2>a, <2>b, <2>c, <2>d DEF PactInv
<1>8. CASE Pact!Tick
  BY <1>8 DEF Pact!Tick, PactInv, PactTypeOK, Accounts, Answers, Traced
<1>9. CASE UNCHANGED Pact!vars
  BY <1>9 DEF Pact!vars, PactInv, PactTypeOK, Accounts, Answers, Traced
<1> QED
  BY <1>1, <1>2, <1>3, <1>4, <1>5, <1>6, <1>7, <1>8, <1>9
     DEF Pact!PactNext, Pact!Decide, Pact!DecideCodex

(* No run traps a session: the decider lets it stop after Cap blocks in a   *)
(* row, or at most twice as many, and a run the commands answered for is as *)
(* they answered, if no command falls within the firing of a hook           *)
(* (pact.mjs, hook.mjs, codex-executor.mjs).                                *)
THEOREM NoRunTraps ==
  ASSUME Cap \in Nat \ {0}, TTL \in Nat, Unset \notin Nat \cup Session \cup Pacts,
         Overlapping = FALSE
  PROVE  Pact!PactSpec => []Pact!PactReleases
<1>1. Pact!PactInit => PactInv
  BY DEF Pact!PactInit, PactInv, PactTypeOK, Pact!Idle
<1>2. PactInv /\ [Pact!PactNext]_Pact!vars => PactInv'
  BY PactInvStep
<1>3. PactInv => Pact!PactReleases
  BY DEF PactInv, PactTypeOK, Answers, Pact!PactReleases, Pact!Last
<1> QED
  BY <1>1, <1>2, <1>3, PTL DEF Pact!PactSpec

-----------------------------------------------------------------------------
(* The dispatch of a task to a host's own agents.                           *)

CONSTANTS Host, Class, Mode, Value, Work, Agent, Tiers, Default, Rows, MaxChanges
VARIABLES config, work, prepared, spawn, check, valid, changes

Dispatch == INSTANCE NativeDispatch

(* The call is given the model of the resolution it was built from; a        *)
(* judgement is of that resolution, which is why a setting changed since     *)
(* ends it.                                                                 *)
DispatchInv ==
    /\ spawn # Unset => prepared # Unset /\ spawn.value = prepared.res.value
    /\ check # Unset => /\ spawn # Unset /\ check.res = prepared.res
                        /\ Dispatch!Dispatchable(spawn.life, check.res)
    /\ Dispatch!DispatchIsBound

(* What Codex is shown contradicts nothing that was declared, and what was   *)
(* declared keeps the rules of its phase.                                   *)
LEMMA EvidenceBinds ==
  ASSUME Unset \notin {"none", "all", "yes", "no"}, NEW l, NEW o, o # Unset,
         Dispatch!Problems(l) = {}, Dispatch!Evidence(l, o) # "red"
  PROVE  /\ ~\E f \in Dispatch!Compared : Dispatch!Differ(l, o, f)
         /\ Dispatch!Fresh(l) =>
              /\ o.fork # "all" /\ o.new # "no"
              /\ l.before # Unset => ~l.before.running /\ l.before.agent # l.agent
<1>1. ~\E f \in Dispatch!Compared : Dispatch!Differ(l, o, f)
  BY DEF Dispatch!Evidence
<1>2. ASSUME Dispatch!Fresh(l)
      PROVE  l.fork = "none" /\ l.new = "yes"
  BY <1>2 DEF Dispatch!Problems
<1>3. ASSUME Dispatch!Fresh(l)
      PROVE  o.fork # "all" /\ o.new # "no"
  <2>1. ~Dispatch!Differ(l, o, "fork") /\ ~Dispatch!Differ(l, o, "new")
    BY <1>1 DEF Dispatch!Compared
  <2> QED
    BY <1>2, <1>3, <2>1 DEF Dispatch!Differ
<1>4. ASSUME Dispatch!Fresh(l), l.before # Unset
      PROVE  ~l.before.running /\ l.before.agent # l.agent
  BY <1>4 DEF Dispatch!Problems
<1> QED
  BY <1>1, <1>3, <1>4

LEMMA DispatchInvStep ==
  ASSUME Unset \notin {"none", "all", "yes", "no"}, DispatchInv, [Dispatch!DispatchNext]_Dispatch!vars
  PROVE  DispatchInv'
<1> USE DEF DispatchInv
<1>1. ASSUME NEW c, Dispatch!Changed(c)
      PROVE  DispatchInv'
  BY <1>1 DEF Dispatch!Changed, Dispatch!DispatchIsBound
<1>2. ASSUME NEW w, NEW s, NEW x, Dispatch!ChangeWork(w, s, x)
      PROVE  DispatchInv'
  BY <1>2 DEF Dispatch!ChangeWork, Dispatch!DispatchIsBound
<1>3. ASSUME NEW h, NEW c, NEW m, Dispatch!Prepare(h, c, m)
      PROVE  DispatchInv'
  BY <1>3 DEF Dispatch!Prepare, Dispatch!DispatchIsBound
<1>4. ASSUME NEW l, Dispatch!Build(l)
      PROVE  DispatchInv'
  BY <1>4 DEF Dispatch!Build, Dispatch!DispatchIsBound
<1>5. ASSUME NEW v, NEW w, NEW x, Dispatch!Begin(v, w, x)
      PROVE  DispatchInv'
  BY <1>5 DEF Dispatch!Begin, Dispatch!MatchesCurrent, Dispatch!DispatchIsBound
<1>6. ASSUME NEW o, Dispatch!Conclude(o)
      PROVE  DispatchInv'
  <2> DEFINE l == Dispatch!Declared(spawn.life, check.res)
  <2>1. check.res.host = "codex" => Dispatch!Problems(l) = {}
    BY <1>6 DEF Dispatch!Conclude, Dispatch!Dispatchable
  <2>2. check.res.value = spawn.value
    BY <1>6 DEF Dispatch!Conclude
  <2>3. check.res.host = "codex" /\ o # Unset =>
          /\ ~\E f \in Dispatch!Compared : Dispatch!Differ(l, o, f)
          /\ Dispatch!Fresh(l) =>
              /\ o.fork # "all" /\ o.new # "no"
              /\ l.before # Unset => ~l.before.running /\ l.before.agent # l.agent
    BY <1>6, <2>1, EvidenceBinds DEF Dispatch!Conclude
  <2>4. /\ valid'.value = valid'.given
        /\ valid'.item.status \in {"ready", "active"} /\ valid'.told \in {Unset, valid'.item.scope}
        /\ valid'.seen = o
        /\ valid'.life = IF check.res.host = "codex" THEN l ELSE Unset
    BY <1>6, <2>2 DEF Dispatch!Conclude, Dispatch!Live
  <2>5. Dispatch!DispatchIsBound'
    <3> HIDE DEF l
    <3> QED
      BY <2>3, <2>4 DEF Dispatch!DispatchIsBound, Dispatch!Fresh, Dispatch!Differ
  <2> QED
    BY <1>6, <2>5 DEF Dispatch!Conclude
<1>7. CASE Dispatch!Abandon
  BY <1>7 DEF Dispatch!Abandon, Dispatch!DispatchIsBound
<1>8. CASE UNCHANGED Dispatch!vars
  BY <1>8 DEF Dispatch!vars, Dispatch!DispatchIsBound
<1> QED
  BY <1>1, <1>2, <1>3, <1>4, <1>5, <1>6, <1>7, <1>8
     DEF Dispatch!DispatchNext, Dispatch!SetClass, Dispatch!SetTiers, Dispatch!SetMode,
         Dispatch!NameMode, Dispatch!RemoveSetting

(* A call that is judged valid ran the model it was handed, about an item   *)
(* that could be worked on and whose scope is the one it was told; under    *)
(* Codex nothing that was observed of it contradicts what was declared.     *)
(* Settings and work may change at any moment of it                         *)
(* (dispatch-adapter.mjs, dispatch-config.ts).                              *)
THEOREM DispatchStaysBound ==
  ASSUME Unset \notin {"none", "all", "yes", "no"}
  PROVE  Dispatch!DispatchSpec => []Dispatch!DispatchIsBound
<1>1. Dispatch!DispatchInit => DispatchInv
  BY DEF Dispatch!DispatchInit, DispatchInv, Dispatch!DispatchIsBound
<1>2. DispatchInv /\ [Dispatch!DispatchNext]_Dispatch!vars => DispatchInv'
  BY DispatchInvStep
<1>3. DispatchInv => Dispatch!DispatchIsBound
  BY DEF DispatchInv
<1> QED
  BY <1>1, <1>2, <1>3, PTL DEF Dispatch!DispatchSpec

-----------------------------------------------------------------------------
(* The command line.                                                        *)

CONSTANTS Process, Verb, MaxCalls, MaxEvents, MaxFaults, None
VARIABLES chain, residue, views, healthy, receipts, marker, claim, broken, lease, cmd,
          told, calls, faults

Line == INSTANCE CommandLine

(* The verbs that answer without an append, each a step of its own.         *)
Quiet == {"recover", "artifact", "snapshot", "capture", "rebase", "init", "unclaim",
          "validated", "materialized"}
Known == Quiet \cup {"project", "work", "delete", "batch", "conference", "close", "distill",
                     "gate", "settings", "template", "dispatch"}
Reasons == Line!Before \cup {"KNOWLEDGE_REFUSED"}

LineOK ==
    /\ Overlapping = FALSE /\ Verb \subseteq Known
    /\ None \notin Nat \cup Process \cup Reasons \cup {"left"}
    /\ None \notin [head : Nat, version : Nat] /\ "left" \notin Process

(* What the dispatcher knows of a verb.                                     *)
LEMMA Arms ==
  ASSUME NEW v \in Known
  PROVE  /\ Line!Arm(v).adds \in 0..2
         /\ Line!Arm(v).adds = 0 <=> v \in Quiet
         /\ Line!Arm(v).attests => Line!Arm(v).adds > 0
         /\ ~Line!Arm(v).leased => v \in Quiet \ {"recover", "artifact", "snapshot"}
<1>1. v \notin Quiet => \E n \in {1, 2}, b \in BOOLEAN : Line!Arm(v) = Line!Governed(n, b)
  BY DEF Known, Quiet, Line!Arm, Line!ProjectArm, Line!WorkArm, Line!WorkDeleteArm, Line!BatchArm,
     Line!ConferenceArm, Line!CloseArm, Line!DistillArm, Line!GateArm, Line!SettingsArm,
     Line!TemplateArm, Line!DispatchArm
<1>2. v = "recover" => Line!Arm(v) = Line!RecoverArm
  BY DEF Line!Arm
<1>3. v \in {"artifact", "snapshot"} => Line!Arm(v) = Line!Leased
  BY DEF Line!Arm, Line!ArtifactArm, Line!SnapshotArm
<1>4. v \in Quiet \ {"recover", "artifact", "snapshot"} => Line!Arm(v) = Line!Unleased
  BY DEF Quiet, Line!Arm, Line!KnowledgeArm, Line!ReadArm
<1>5. \A n \in {1, 2}, b \in BOOLEAN :
         Line!Governed(n, b).adds = n /\ Line!Governed(n, b).leased
  BY DEF Line!Governed
<1>6. /\ Line!Leased.adds = 0 /\ Line!Leased.leased /\ ~Line!Leased.attests
      /\ Line!Unleased.adds = 0 /\ ~Line!Unleased.attests
      /\ Line!RecoverArm.adds = 0 /\ Line!RecoverArm.leased /\ ~Line!RecoverArm.attests
  BY DEF Line!Leased, Line!Unleased, Line!RecoverArm
<1>7. CASE v \notin Quiet
  BY <1>1, <1>5, <1>7
<1>8. CASE v \in Quiet
  BY <1>2, <1>3, <1>4, <1>6, <1>8 DEF Quiet
<1> QED
  BY <1>7, <1>8

Parts == {"pc", "verb", "id", "given", "attest", "before", "basis", "expected", "at", "behind",
          "error"}

(* A command of a governed verb. *)
Adding(c) == Line!Arm(c.verb).adds > 0

(* Which steps a command takes. *)
IsCommand(c) ==
    /\ DOMAIN c = Parts
    /\ c.verb \in Known /\ c.id \in Nat /\ c.attest \in BOOLEAN /\ c.behind \in BOOLEAN
    /\ c.pc \notin {"idle", "marker"}
    /\ c.error \in Reasons \cup {None}
    /\ c.pc # "release" => c.error = None
    /\ c.pc \in Quiet \cup {"claimed"} => ~Adding(c)
    /\ c.pc \in {"basis", "resolve", "append", "distill"} => Adding(c)
    /\ c.attest => Adding(c)
    /\ c.pc = "attest" => c.attest

FileTypes ==
    /\ chain \in Seq(Nat) /\ calls \in Nat /\ views \in Nat
    /\ receipts \subseteq 1..Len(chain)
    /\ marker \in {None} \cup [head : Nat, version : Nat]
    /\ marker # None => marker.head <= Len(chain)

LineTypes ==
    /\ FileTypes
    /\ DOMAIN cmd = Process /\ DOMAIN told = Process
    /\ \A p \in Process : cmd[p] = Line!Idle \/ IsCommand(cmd[p])

(* A number belongs to one command, which is running or has answered.       *)
Numbered ==
    /\ \A e \in 1..Len(chain) : chain[e] <= calls
    /\ \A p \in Process : cmd[p] # Line!Idle => cmd[p].id \in 1..calls
    /\ \A p, q \in Process :
           p # q /\ cmd[p] # Line!Idle /\ cmd[q] # Line!Idle => cmd[p].id # cmd[q].id
    /\ \A p \in Process : told[p] # None => told[p].id \in 1..calls
    /\ \A p, q \in Process : told[p] # None /\ cmd[q] # Line!Idle => told[p].id # cmd[q].id

Landed(id, n, at) == at \in n..Len(chain) /\ Line!EventsOf(id) = (at - n + 1)..at

UnderLease == {"before", "basis", "resolve", "append", "distill", "bound", "autorebase",
               "recover", "artifact", "snapshot", "release"}

Early(c) ==
    \/ c.pc \in {"lease", "before", "basis", "resolve", "append"}
    \/ c.pc = "release" /\ c.error \in Line!Before
Late(c) ==
    \/ c.pc \in {"distill", "bound", "autorebase", "attest"}
    \/ c.pc = "release" /\ c.error \notin Line!Before

(* What each command can rely on, with the others between any two steps.    *)
Excludes(p) == cmd[p].pc \in UnderLease => lease = p

Absent(p) == Adding(cmd[p]) /\ Early(cmd[p]) => Line!EventsOf(cmd[p].id) = {}

Present(p) ==
    LET c == cmd[p]
    IN  Adding(c) /\ Late(c) =>
          /\ Landed(c.id, Line!Arm(c.verb).adds, c.at)
          /\ Line!EventsOf(c.id) \cap receipts = {}
          /\ Line!Arm(c.verb).notes /\ ~c.behind => views >= c.at

HeadRead(p) ==
    LET c == cmd[p]
    IN  /\ c.pc \in {"basis", "resolve", "append"} =>
             c.before = Len(chain) \/ (c.before = None /\ residue /\ c.pc # "append")
        /\ c.pc = "append" /\ c.given = None => c.expected = Len(chain)
        /\ c.pc = "release" /\ c.error = "WORKSPACE_VERSION_CONFLICT" => c.given # None

Ahead(p) ==
    LET c == cmd[p]
    IN  Adding(c) /\ c.pc \in {"distill", "bound", "autorebase"} =>
             c.before \in Nat /\ c.before < Len(chain)

CaughtUp(p) ==
    LET c == cmd[p]
    IN  /\ Adding(c) /\ marker # None
        /\ c.pc = "attest" \/ (c.pc = "release" /\ c.error = None)
        => marker.head >= c.at

Claims(p) ==
    LET c == cmd[p]
    IN  c.pc = "claimed" => /\ claim = p /\ marker # None
                            /\ c.basis \in Nat /\ marker.head <= c.basis /\ c.basis <= Len(chain)

(* A command that goes on to rebase has seen a store, and a store stays.    *)
Stored(p) ==
    LET c == cmd[p]
    IN  /\ c.pc \in {"autorebase", "distill"} => marker # None
        /\ c.pc \in {"resolve", "append"} /\ c.verb = "distill" => marker # None

Facts(p) ==
    /\ Excludes(p) /\ Absent(p) /\ Present(p) /\ HeadRead(p) /\ Ahead(p) /\ CaughtUp(p)
    /\ Claims(p) /\ Stored(p)

(* What an answer says stays true. *)
Honest(t) ==
    LET n == Line!Arm(t.verb).adds
    IN  n > 0 =>
        /\ t.verb \in Known
        /\ t.reason \in Line!Before => Line!EventsOf(t.id) = {}
        /\ ~(t.reason = "WORKSPACE_VERSION_CONFLICT" /\ t.given = None)
        /\ t.reason = "ATTESTATION_RECEIPT_UNWRITTEN" =>
              Line!EventsOf(t.id) # {} /\ Line!EventsOf(t.id) \cap receipts = {}
        /\ t.reason = "completed" =>
              \E at \in Nat : /\ Landed(t.id, n, at)
                              /\ t.attest => at \in receipts
                              /\ marker # None => marker.head >= at
                              /\ Line!Arm(t.verb).notes /\ ~t.behind => views >= at

LineInv ==
    /\ LineTypes /\ Numbered
    /\ \A p \in Process : cmd[p] # Line!Idle => Facts(p)
    /\ \A p \in Process : told[p] # None => Honest(told[p])

(* What a step of p may do to what others rely on.                          *)
Shared(p) ==
    /\ Len(chain) <= Len(chain')
    /\ \A id \in Nat : cmd[p] = Line!Idle \/ id # cmd[p].id =>
                           Line!EventsOf(id)' = Line!EventsOf(id)
    /\ chain' # chain \/ residue' # residue => lease = p
    /\ lease' = lease \/ lease = p \/ lease = None
    /\ \A e \in receipts' \ receipts : cmd[p] # Line!Idle /\ e \in Line!EventsOf(cmd[p].id)
    /\ views' = views \/ views' >= Len(chain)
    /\ views' \in Nat /\ receipts \subseteq receipts'
    /\ marker' = marker \/ marker = None \/ claim = None \/ claim = p
    /\ marker # None => marker' # None /\ marker'.head >= marker.head
    /\ marker = None /\ marker' # None => marker'.head >= Len(chain)
    /\ claim' = claim \/ claim \in {None, p, "left"}

(* The facts of another command hold on.                                    *)
LEMMA OthersKeep ==
  ASSUME LineOK, LineInv, NEW p \in Process, NEW q \in Process, q # p, cmd[q] # Line!Idle,
         Shared(p), cmd'[q] = cmd[q], LineTypes'
  PROVE  Facts(q)'
<1> DEFINE c == cmd[q]
<1>1. /\ Facts(q) /\ IsCommand(c) /\ c.id \in Nat
      /\ cmd[p] = Line!Idle \/ c.id # cmd[p].id
  BY DEF LineInv, LineTypes, FileTypes, Numbered, IsCommand
<1>2. Line!EventsOf(c.id)' = Line!EventsOf(c.id)
  BY <1>1 DEF Shared, Line!EventsOf
<1>3. Len(chain) \in Nat /\ Len(chain') \in Nat
  BY DEF LineInv, LineTypes, FileTypes
<1>4. Excludes(q)'
  BY <1>1 DEF Shared, Facts, Excludes, LineOK
<1>5. Absent(q)'
  BY <1>1, <1>2 DEF Facts, Absent, Adding, Early
<1>6. Present(q)'
  <2> SUFFICES ASSUME Adding(c), Late(c)
               PROVE  /\ Landed(c.id, Line!Arm(c.verb).adds, c.at)'
                      /\ Line!EventsOf(c.id)' \cap receipts' = {}
                      /\ Line!Arm(c.verb).notes /\ ~c.behind => views' >= c.at
    BY DEF Present, Adding, Late
  <2>1. /\ Landed(c.id, Line!Arm(c.verb).adds, c.at)
        /\ Line!EventsOf(c.id) \cap receipts = {}
        /\ Line!Arm(c.verb).notes /\ ~c.behind => views >= c.at
    BY <1>1 DEF Facts, Present
  <2>2. Line!Arm(c.verb).adds \in Nat
    BY <1>1, Arms DEF IsCommand
  <2>3. Landed(c.id, Line!Arm(c.verb).adds, c.at)'
    BY <1>2, <1>3, <2>1, <2>2 DEF Landed, Shared
  <2>4. Line!EventsOf(c.id) \cap receipts' = {}
    BY <1>1, <2>1 DEF Shared, Line!EventsOf
  <2>5. c.at \in Nat /\ c.at <= Len(chain)
    BY <2>1, <2>2, <1>3 DEF Landed
  <2> QED
    BY <1>2, <1>3, <2>1, <2>3, <2>4, <2>5 DEF Shared, LineInv, LineTypes, FileTypes
<1>7. HeadRead(q)'
  BY <1>1 DEF Shared, Facts, HeadRead, Excludes, UnderLease
<1>8. Ahead(q)'
  BY <1>1, <1>3 DEF Shared, Facts, Ahead, Adding
<1>9. CaughtUp(q)'
  <2> SUFFICES ASSUME Adding(c), marker' # None,
                      c.pc = "attest" \/ (c.pc = "release" /\ c.error = None)
               PROVE  marker'.head >= c.at
    BY DEF CaughtUp, Adding
  <2>1. Late(c) /\ Line!Arm(c.verb).adds \in Nat
    BY <1>1, Arms DEF IsCommand, Late, LineOK, Reasons
  <2>2. c.at \in Nat /\ c.at <= Len(chain)
    BY <1>1, <1>3, <2>1 DEF Facts, Present, Landed
  <2>3. marker' \in [head : Nat, version : Nat]
    BY DEF LineTypes, FileTypes
  <2>4. CASE marker = None
    BY <1>3, <2>2, <2>3, <2>4 DEF Shared
  <2>5. CASE marker # None
    <3>1. marker \in [head : Nat, version : Nat] /\ marker.head >= c.at
      BY <1>1, <2>5 DEF Facts, CaughtUp, LineInv, LineTypes, FileTypes
    <3> QED
      BY <2>2, <2>3, <2>5, <3>1 DEF Shared
  <2> QED
    BY <2>4, <2>5
<1>10. Claims(q)'
  <2> SUFFICES ASSUME c.pc = "claimed"
               PROVE  /\ claim' = q /\ marker' # None
                      /\ c.basis \in Nat /\ marker'.head <= c.basis /\ c.basis <= Len(chain')
    BY DEF Claims
  <2>1. /\ claim = q /\ marker # None
        /\ c.basis \in Nat /\ marker.head <= c.basis /\ c.basis <= Len(chain)
    BY <1>1 DEF Facts, Claims
  <2> QED
    BY <1>3, <2>1 DEF Shared, LineOK
<1>11. Stored(q)'
  BY <1>1 DEF Shared, Facts, Stored
<1> QED
  BY <1>4, <1>5, <1>6, <1>7, <1>8, <1>9, <1>10, <1>11 DEF Facts

(* So does what has been answered.                                          *)
LEMMA AnswersKeep ==
  ASSUME LineOK, LineInv, NEW p \in Process, NEW q \in Process, told[q] # None,
         Shared(p), told'[q] = told[q], LineTypes'
  PROVE  Honest(told[q])'
<1> DEFINE t == told[q]
           n == Line!Arm(t.verb).adds
<1>1. Honest(t) /\ t.id \in Nat /\ (cmd[p] = Line!Idle \/ t.id # cmd[p].id)
  BY DEF LineInv, LineTypes, FileTypes, Numbered
<1>2. Line!EventsOf(t.id)' = Line!EventsOf(t.id)
  BY <1>1 DEF Shared, Line!EventsOf
<1>3. Len(chain) \in Nat /\ Len(chain') \in Nat
  BY DEF LineInv, LineTypes, FileTypes
<1> SUFFICES ASSUME n > 0
             PROVE  /\ t.verb \in Known
                    /\ t.reason \in Line!Before => Line!EventsOf(t.id)' = {}
                    /\ ~(t.reason = "WORKSPACE_VERSION_CONFLICT" /\ t.given = None)
                    /\ t.reason = "ATTESTATION_RECEIPT_UNWRITTEN" =>
                          Line!EventsOf(t.id)' # {} /\ Line!EventsOf(t.id)' \cap receipts' = {}
                    /\ t.reason = "completed" =>
                          \E at \in Nat : /\ Landed(t.id, n, at)'
                                          /\ t.attest => at \in receipts'
                                          /\ marker' # None => marker'.head >= at
                                          /\ Line!Arm(t.verb).notes /\ ~t.behind => views' >= at
  BY DEF Honest
<1>4. /\ t.verb \in Known /\ n \in Nat
      /\ ~(t.reason = "WORKSPACE_VERSION_CONFLICT" /\ t.given = None)
      /\ t.reason \in Line!Before => Line!EventsOf(t.id)' = {}
  BY <1>1, <1>2, Arms DEF Honest
<1>5. ASSUME t.reason = "ATTESTATION_RECEIPT_UNWRITTEN"
      PROVE  Line!EventsOf(t.id)' # {} /\ Line!EventsOf(t.id)' \cap receipts' = {}
  <2>1. Line!EventsOf(t.id) # {} /\ Line!EventsOf(t.id) \cap receipts = {}
    BY <1>1, <1>5 DEF Honest
  <2>2. Line!EventsOf(t.id) \cap receipts' = {}
    BY <1>1, <2>1 DEF Shared, Line!EventsOf
  <2> QED
    BY <1>2, <2>1, <2>2
<1>6. ASSUME t.reason = "completed"
      PROVE  \E at \in Nat : /\ Landed(t.id, n, at)'
                             /\ t.attest => at \in receipts'
                             /\ marker' # None => marker'.head >= at
                             /\ Line!Arm(t.verb).notes /\ ~t.behind => views' >= at
  <2>1. PICK at \in Nat : /\ Landed(t.id, n, at)
                          /\ t.attest => at \in receipts
                          /\ marker # None => marker.head >= at
                          /\ Line!Arm(t.verb).notes /\ ~t.behind => views >= at
    BY <1>1, <1>6 DEF Honest
  <2>2. Landed(t.id, n, at)' /\ at <= Len(chain)
    BY <1>2, <1>3, <1>4, <2>1 DEF Landed, Shared
  <2>3. marker' # None => marker'.head >= at
    <3>1. marker' # None => marker'.head \in Nat
      BY DEF LineTypes, FileTypes
    <3>2. marker # None => marker.head \in Nat
      BY DEF LineInv, LineTypes, FileTypes
    <3> QED
      BY <1>3, <2>1, <2>2, <3>1, <3>2 DEF Shared
  <2>4. Line!Arm(t.verb).notes /\ ~t.behind => views' >= at
    BY <1>3, <2>1, <2>2 DEF Shared, LineInv, LineTypes, FileTypes
  <2>5. t.attest => at \in receipts'
    BY <2>1 DEF Shared
  <2> QED
    BY <2>2, <2>3, <2>4, <2>5
<1> QED
  BY <1>4, <1>5, <1>6

(* A step on the way of p, and one that answers.                            *)
LEMMA GoesOn ==
  ASSUME LineOK, LineInv, NEW p \in Process, cmd[p] # Line!Idle, FileTypes', Shared(p),
         DOMAIN cmd' = DOMAIN cmd, \A q \in Process \ {p} : cmd'[q] = cmd[q],
         IsCommand(cmd'[p]), cmd'[p].id = cmd[p].id, UNCHANGED <<told, calls>>,
         \A e \in 1..Len(chain') : chain'[e] <= calls, Facts(p)'
  PROVE  LineInv'
<1>1. LineTypes'
  BY DEF LineInv, LineTypes, IsCommand, Adding
<1>2. cmd'[p] # Line!Idle
  BY DEF IsCommand, Line!Idle
<1>3. Numbered'
  BY <1>2 DEF LineInv, Numbered
<1>4. \A q \in Process : cmd'[q] # Line!Idle => Facts(q)'
  BY <1>1, OthersKeep
<1>5. \A q \in Process : told'[q] # None => Honest(told[q])'
  BY <1>1, AnswersKeep
<1> QED
  BY <1>1, <1>3, <1>4, <1>5 DEF LineInv, Line!Idle

LEMMA Answered ==
  ASSUME LineOK, LineInv, NEW p \in Process, cmd[p] # Line!Idle, FileTypes', Shared(p),
         UNCHANGED <<chain, calls>>, NEW reason, Line!Answer(p, reason),
         Adding(cmd[p]) =>
           /\ reason \in Line!Before => Line!EventsOf(cmd[p].id) = {}
           /\ ~(reason = "WORKSPACE_VERSION_CONFLICT" /\ cmd[p].given = None)
           /\ reason = "ATTESTATION_RECEIPT_UNWRITTEN" =>
                 Line!EventsOf(cmd[p].id) # {} /\ Line!EventsOf(cmd[p].id) \cap receipts' = {}
           /\ reason = "completed" =>
                 /\ Landed(cmd[p].id, Line!Arm(cmd[p].verb).adds, cmd[p].at)
                 /\ cmd[p].attest => cmd[p].at \in receipts'
                 /\ marker' # None => marker'.head >= cmd[p].at
                 /\ Line!Arm(cmd[p].verb).notes /\ ~cmd[p].behind => views' >= cmd[p].at
  PROVE  LineInv'
<1>a. PICK c : c = cmd[p]
  OBVIOUS
<1>b. PICK t : t = [id |-> c.id, verb |-> c.verb, attest |-> c.attest, given |-> c.given,
                    reason |-> reason, behind |-> c.behind]
  OBVIOUS
<1>1. /\ told' = [told EXCEPT ![p] = t] /\ cmd' = [cmd EXCEPT ![p] = Line!Idle]
      /\ DOMAIN told = Process /\ DOMAIN cmd = Process /\ IsCommand(c)
  BY <1>a, <1>b DEF Line!Answer, Line!Told, LineInv, LineTypes
<1>2. /\ told'[p] = t /\ \A q \in Process \ {p} : told'[q] = told[q]
      /\ cmd'[p] = Line!Idle /\ \A q \in Process \ {p} : cmd'[q] = cmd[q]
      /\ DOMAIN told' = Process /\ DOMAIN cmd' = Process
  BY <1>1
<1>3. /\ t.id = c.id /\ t.verb = c.verb /\ t.attest = c.attest /\ t.given = c.given
      /\ t.reason = reason /\ t.behind = c.behind
  BY <1>b
<1>4. LineTypes'
  BY <1>2 DEF LineInv, LineTypes, IsCommand, Adding
<1>5. Numbered'
  BY <1>a, <1>2, <1>3 DEF LineInv, Numbered
<1>6. \A q \in Process : cmd'[q] # Line!Idle => Facts(q)'
  <2> SUFFICES ASSUME NEW q \in Process, cmd'[q] # Line!Idle PROVE Facts(q)'
    OBVIOUS
  <2>1. q # p /\ cmd'[q] = cmd[q]
    BY <1>2
  <2> QED
    BY <1>4, <2>1, OthersKeep
<1>7. \A q \in Process \ {p} : told'[q] # None => Honest(told[q])'
  <2> SUFFICES ASSUME NEW q \in Process \ {p}, told'[q] # None PROVE Honest(told[q])'
    OBVIOUS
  <2>1. told'[q] = told[q]
    BY <1>2
  <2> QED
    BY <1>4, <2>1, AnswersKeep
<1>8. Honest(told[p])'
  <2>1. Line!EventsOf(c.id)' = Line!EventsOf(c.id)
    BY DEF Line!EventsOf, Line!Top
  <2>2. c.at \in Nat \/ ~Landed(c.id, Line!Arm(c.verb).adds, c.at)
    <3>1. Line!Arm(c.verb).adds \in 0..2
      BY <1>1, Arms DEF IsCommand
    <3> QED
      BY <3>1 DEF Landed
  <2>3. Line!Arm(c.verb).adds > 0 =>
           /\ reason \in Line!Before => Line!EventsOf(c.id)' = {}
           /\ ~(reason = "WORKSPACE_VERSION_CONFLICT" /\ c.given = None)
           /\ reason = "ATTESTATION_RECEIPT_UNWRITTEN" =>
                 Line!EventsOf(c.id)' # {} /\ Line!EventsOf(c.id)' \cap receipts' = {}
           /\ reason = "completed" =>
                 /\ c.at \in Nat /\ Landed(c.id, Line!Arm(c.verb).adds, c.at)'
                 /\ c.attest => c.at \in receipts'
                 /\ marker' # None => marker'.head >= c.at
                 /\ Line!Arm(c.verb).notes /\ ~c.behind => views' >= c.at
    BY <1>a, <2>1, <2>2 DEF Adding, Landed
  <2>4. Honest(t)'
    BY <1>1, <1>3, <2>3 DEF Honest, IsCommand
  <2> QED
    BY <1>2, <2>4 DEF Honest
<1> QED
  BY <1>4, <1>5, <1>6, <1>7, <1>8 DEF LineInv

(* Every part of a command's record but these is as it was.                 *)
Rest(p, changed) ==
    /\ DOMAIN cmd' = DOMAIN cmd /\ \A q \in Process \ {p} : cmd'[q] = cmd[q]
    /\ DOMAIN cmd'[p] = Parts
    /\ cmd'[p].verb = cmd[p].verb /\ cmd'[p].id = cmd[p].id /\ cmd'[p].given = cmd[p].given
    /\ cmd'[p].attest = cmd[p].attest
    /\ "before" \notin changed => cmd'[p].before = cmd[p].before
    /\ "basis" \notin changed => cmd'[p].basis = cmd[p].basis
    /\ "expected" \notin changed => cmd'[p].expected = cmd[p].expected
    /\ "at" \notin changed => cmd'[p].at = cmd[p].at
    /\ "behind" \notin changed => cmd'[p].behind = cmd[p].behind
    /\ "error" \notin changed => cmd'[p].error = cmd[p].error

(* What going on and refusing do to the record of a command.                *)
LEMMA Gone ==
  ASSUME LineTypes, NEW p \in Process, cmd[p] # Line!Idle, NEW next, Line!Go(p, next)
  PROVE  Rest(p, {}) /\ cmd'[p].pc = next
BY DEF LineTypes, IsCommand, Line!Go, Rest, Parts

LEMMA RefusedIs ==
  ASSUME LineTypes, NEW p \in Process, cmd[p] # Line!Idle, NEW reason, Line!Refused(p, reason)
  PROVE  Rest(p, {"error"}) /\ cmd'[p].pc = "release" /\ cmd'[p].error = reason
BY DEF LineTypes, IsCommand, Line!Refused, Rest, Parts

(* Nothing that others rely on changes.                                     *)
LEMMA Alone ==
  ASSUME LineInv, NEW p \in Process,
         UNCHANGED <<chain, residue, views, receipts, marker, claim, calls>>,
         lease' = lease \/ lease = p \/ lease = None
  PROVE  Shared(p) /\ FileTypes' /\ \A e \in 1..Len(chain') : chain'[e] <= calls
<1>1. /\ \A id \in Nat : Line!EventsOf(id)' = Line!EventsOf(id)
      /\ Len(chain') = Len(chain) /\ Len(chain) \in Nat
  <2>1. Len(chain') = Len(chain) /\ Len(chain) \in Nat
    BY DEF LineInv, LineTypes, FileTypes
  <2> QED
    BY <2>1 DEF Line!EventsOf, Line!Top
<1>2. FileTypes'
  BY DEF LineInv, LineTypes, FileTypes
<1>3. \A e \in 1..Len(chain') : chain'[e] <= calls
  BY DEF LineInv, Numbered
<1>4. views' \in Nat /\ (marker # None => marker.head \in Nat)
  BY DEF LineInv, LineTypes, FileTypes
<1> QED
  BY <1>1, <1>2, <1>3, <1>4 DEF Shared

(* A command is numbered when it starts.                                    *)
LEMMA CallStep ==
  ASSUME LineOK, LineInv, NEW p \in Process, Line!Calls(p)
  PROVE  LineInv'
<1>1. PICK verb \in Verb, attest \in BOOLEAN :
        \E asked \in IF verb \in {"capture", "rebase"} THEN Line!StoreVersions
                     ELSE Line!Spellings(verb) : Line!Call(p, verb, asked, attest)
  BY DEF Line!Calls
<1>2. PICK asked \in Nat \cup {None} : Line!Call(p, verb, asked, attest)
  <2>1. Line!StoreVersions \subseteq Nat
    BY DEF Line!StoreVersions, Line!HasStore, LineInv, LineTypes, FileTypes
  <2>2. Line!Spellings(verb) \subseteq Nat \cup {None}
    BY DEF Line!Spellings, Line!Top, LineInv, LineTypes, FileTypes
  <2> QED
    BY <1>1, <2>1, <2>2
<1>3. PICK c : c = [pc |-> IF Line!Arm(verb).leased THEN "lease" ELSE verb, verb |-> verb,
                    id |-> calls + 1, given |-> asked, attest |-> attest, before |-> None,
                    basis |-> None, expected |-> 0, at |-> 0, behind |-> FALSE, error |-> None]
  OBVIOUS
<1>4. /\ attest => Line!Arm(verb).attests
      /\ calls' = calls + 1
      /\ IF attest /\ ~healthy THEN Line!Told(p, c, "ATTESTATION_STORE_INCONSISTENT")
         ELSE cmd' = [cmd EXCEPT ![p] = c] /\ told' = [told EXCEPT ![p] = None]
      /\ UNCHANGED <<chain, residue, views, receipts, marker, claim, lease>>
  BY <1>2, <1>3 DEF Line!Call
<1>5. /\ c.verb = verb /\ c.id = calls + 1 /\ c.attest = attest /\ c.error = None
      /\ c.pc = IF Line!Arm(verb).leased THEN "lease" ELSE verb
      /\ DOMAIN c = Parts /\ c.behind \in BOOLEAN /\ c.given = asked
  BY <1>3 DEF Parts
<1>6. verb \in Known /\ cmd[p] = Line!Idle
  <2>1. cmd[p].pc = "idle"
    BY DEF Line!Calls, Line!At
  <2> QED
    BY <2>1 DEF LineOK, LineInv, LineTypes, IsCommand
<1>7. IsCommand(c)
  <2>1. ~Line!Arm(verb).leased => verb \in Quiet /\ Line!Arm(verb).adds = 0
    BY <1>6, Arms
  <2>2. attest => Line!Arm(verb).adds > 0
    BY <1>4, <1>6, Arms
  <2>3. c.id \in Nat
    BY <1>5 DEF LineInv, LineTypes, FileTypes
  <2> QED
    BY <1>5, <1>6, <2>1, <2>2, <2>3 DEF IsCommand, Quiet, Adding, Reasons
<1>8. Shared(p) /\ FileTypes'
  <2>1. \A id \in Nat : Line!EventsOf(id)' = Line!EventsOf(id)
    BY <1>4 DEF Line!EventsOf, Line!Top
  <2>2. FileTypes' /\ Len(chain) \in Nat /\ (marker # None => marker.head \in Nat)
    BY <1>4 DEF LineInv, LineTypes, FileTypes
  <2> QED
    BY <1>4, <2>1, <2>2 DEF Shared, FileTypes
<1>9. Line!EventsOf(calls + 1) = {}
  BY DEF Line!EventsOf, Line!Top, LineInv, LineTypes, FileTypes, Numbered
<1>10. CASE attest /\ ~healthy
  <2>1. PICK t : t = [id |-> c.id, verb |-> c.verb, attest |-> c.attest, given |-> c.given,
                      reason |-> "ATTESTATION_STORE_INCONSISTENT", behind |-> c.behind]
    OBVIOUS
  <2>2. told' = [told EXCEPT ![p] = t] /\ cmd' = [cmd EXCEPT ![p] = Line!Idle]
    BY <1>4, <1>10, <2>1 DEF Line!Told
  <2>3. /\ told'[p] = t /\ \A q \in Process \ {p} : told'[q] = told[q]
        /\ \A q \in Process : cmd'[q] = cmd[q]
        /\ DOMAIN told' = Process /\ DOMAIN cmd' = Process
    BY <1>6, <2>2 DEF LineInv, LineTypes
  <2>4. t.id = c.id /\ t.verb = c.verb /\ t.reason = "ATTESTATION_STORE_INCONSISTENT"
    BY <2>1
  <2>5. LineTypes'
    BY <1>8, <2>3 DEF LineInv, LineTypes, IsCommand, Adding
  <2>6. Numbered'
    BY <1>4, <1>5, <2>3, <2>4 DEF LineInv, LineTypes, FileTypes, Numbered
  <2>7. \A q \in Process : cmd'[q] # Line!Idle => Facts(q)'
    <3> SUFFICES ASSUME NEW q \in Process, cmd'[q] # Line!Idle PROVE Facts(q)'
      OBVIOUS
    <3> QED
      BY <1>6, <1>8, <2>3, <2>5, OthersKeep
  <2>8. \A q \in Process \ {p} : told'[q] # None => Honest(told[q])'
    <3> SUFFICES ASSUME NEW q \in Process \ {p}, told'[q] # None PROVE Honest(told[q])'
      OBVIOUS
    <3> QED
      BY <1>8, <2>3, <2>5, AnswersKeep
  <2>9. Line!EventsOf(t.id)' = {}
    BY <1>4, <1>5, <1>9, <2>4 DEF Line!EventsOf, Line!Top
  <2>10. Honest(told[p])'
    BY <1>5, <1>6, <2>3, <2>4, <2>9 DEF Honest
  <2> QED
    BY <2>5, <2>6, <2>7, <2>8, <2>10 DEF LineInv
<1>11. CASE ~(attest /\ ~healthy)
  <2>1. /\ told'[p] = None /\ \A q \in Process \ {p} : told'[q] = told[q]
        /\ cmd'[p] = c /\ \A q \in Process \ {p} : cmd'[q] = cmd[q]
        /\ DOMAIN told' = Process /\ DOMAIN cmd' = Process
    BY <1>4, <1>11 DEF LineInv, LineTypes
  <2>2. LineTypes'
    BY <1>7, <1>8, <2>1 DEF LineInv, LineTypes, IsCommand, Adding
  <2>3. Numbered'
    <3>1. /\ calls \in Nat /\ calls' = calls + 1 /\ c.id = calls + 1 /\ chain' = chain
          /\ \A e \in 1..Len(chain) : chain[e] \in Nat /\ chain[e] <= calls
      BY <1>4, <1>5 DEF LineInv, LineTypes, FileTypes, Numbered
    <3>2. \A i : i \in 1..calls => i \in 1..calls' /\ i # calls + 1
      BY <3>1
    <3>a. \A q \in Process : cmd'[q] # Line!Idle => cmd'[q].id \in 1..calls'
      <4> SUFFICES ASSUME NEW q \in Process, cmd'[q] # Line!Idle PROVE cmd'[q].id \in 1..calls'
        OBVIOUS
      <4>1. CASE q = p
        BY <2>1, <3>1, <4>1
      <4>2. CASE q # p
        <5>1. cmd'[q] = cmd[q]
          BY <2>1, <4>2
        <5>2. cmd[q].id \in 1..calls
          BY <5>1 DEF LineInv, Numbered
        <5> QED
          BY <3>2, <5>1, <5>2
      <4> QED
        BY <4>1, <4>2
    <3>b. \A q \in Process : told'[q] # None => told'[q].id \in 1..calls'
      <4> SUFFICES ASSUME NEW q \in Process, told'[q] # None PROVE told'[q].id \in 1..calls'
        OBVIOUS
      <4>1. told'[q] = told[q]
        BY <2>1
      <4>2. told[q].id \in 1..calls
        BY <4>1 DEF LineInv, Numbered
      <4> QED
        BY <3>2, <4>1, <4>2
    <3>4. \A e \in 1..Len(chain') : chain'[e] <= calls'
      BY <3>1
    <3>5. \A q, r \in Process :
             q # r /\ cmd'[q] # Line!Idle /\ cmd'[r] # Line!Idle => cmd'[q].id # cmd'[r].id
      BY <2>1, <3>1, <3>2 DEF LineInv, Numbered
    <3>6. \A q, r \in Process :
             told'[q] # None /\ cmd'[r] # Line!Idle => told'[q].id # cmd'[r].id
      BY <2>1, <3>1, <3>2 DEF LineInv, Numbered
    <3> QED
      BY <3>a, <3>b, <3>4, <3>5, <3>6 DEF Numbered, Line!Idle
  <2>4. \A q \in Process \ {p} : cmd'[q] # Line!Idle => Facts(q)'
    <3> SUFFICES ASSUME NEW q \in Process \ {p}, cmd'[q] # Line!Idle PROVE Facts(q)'
      OBVIOUS
    <3> QED
      BY <1>8, <2>1, <2>2, OthersKeep
  <2>5. \A q \in Process \ {p} : told'[q] # None => Honest(told[q])'
    <3> SUFFICES ASSUME NEW q \in Process \ {p}, told'[q] # None PROVE Honest(told[q])'
      OBVIOUS
    <3> QED
      BY <1>8, <2>1, <2>2, AnswersKeep
  <2>6. c.pc \in {"lease"} \cup (Quiet \ {"recover", "artifact", "snapshot"})
    BY <1>5, <1>6, Arms
  <2>7. Line!EventsOf(c.id)' = {}
    BY <1>4, <1>5, <1>9 DEF Line!EventsOf, Line!Top
  <2>8. Facts(p)'
    BY <2>1, <2>6, <2>7 DEF Facts, Excludes, Absent, Present, HeadRead, Ahead, CaughtUp, Claims,
       Stored, UnderLease, Early, Late, Quiet
  <2> QED
    BY <2>1, <2>2, <2>3, <2>4, <2>5, <2>8 DEF LineInv
<1> QED
  BY <1>10, <1>11

(* What is known of a command on its way.                                   *)
LEMMA Underway ==
  ASSUME LineInv, NEW p \in Process, cmd[p].pc # "idle"
  PROVE  cmd[p] # Line!Idle /\ IsCommand(cmd[p]) /\ Facts(p) /\ LineTypes
BY DEF LineInv, LineTypes, Line!Idle

(* No event appears or goes while the chain is as it was.                   *)
LEMMA SameEvents ==
  ASSUME UNCHANGED chain
  PROVE  \A id : Line!EventsOf(id)' = Line!EventsOf(id)
BY DEF Line!EventsOf, Line!Top

(* The steps that read.                                                     *)
LEMMA TakeLeaseStep ==
  ASSUME LineOK, LineInv, NEW p \in Process, Line!TakeLease(p)
  PROVE  LineInv'
<1>1. cmd[p] # Line!Idle /\ IsCommand(cmd[p]) /\ Facts(p) /\ LineTypes /\ cmd[p].pc = "lease"
  BY Underway DEF Line!TakeLease, Line!At
<1>2. UNCHANGED <<chain, residue, views, receipts, marker, claim, calls>>
  BY DEF Line!TakeLease
<1>3. CASE lease = None
  <2>1. lease' = p /\ Line!Go(p, "before") /\ UNCHANGED told
    BY <1>3 DEF Line!TakeLease
  <2>2. Shared(p) /\ FileTypes' /\ \A e \in 1..Len(chain') : chain'[e] <= calls
    BY <1>2, <1>3, <2>1, Alone
  <2>3. Rest(p, {}) /\ cmd'[p].pc = "before"
    BY <1>1, <2>1, Gone
  <2>4. IsCommand(cmd'[p])
    BY <1>1, <2>3 DEF IsCommand, Rest, Adding, Quiet
  <2>5. Facts(p)'
    BY <1>1, <1>2, <2>1, <2>3, SameEvents DEF Rest, Facts, Excludes, Absent, Present,
     HeadRead, Ahead, CaughtUp, Claims, Stored, UnderLease, Early, Late, Adding, Landed, Quiet,
     Reasons, Line!Before
  <2> QED
    BY <1>1, <1>2, <2>1, <2>2, <2>3, <2>4, <2>5, GoesOn DEF Rest
<1>4. CASE lease # None
  <2>1. Line!Answer(p, "WORKSPACE_LOCKED") /\ UNCHANGED lease
    BY <1>4 DEF Line!TakeLease
  <2>2. Shared(p) /\ FileTypes'
    BY <1>2, <2>1, Alone
  <2> QED
    BY <1>1, <1>2, <2>1, <2>2, Answered DEF Facts, Absent, Early
<1> QED
  BY <1>3, <1>4

LEMMA ReadBeforeStep ==
  ASSUME LineOK, LineInv, NEW p \in Process, Line!ReadBefore(p)
  PROVE  LineInv'
<1> DEFINE to == IF cmd[p].verb = "distill" THEN "basis"
                 ELSE IF Line!Arm(cmd[p].verb).adds > 0 THEN "resolve" ELSE cmd[p].verb
<1>1. cmd[p] # Line!Idle /\ IsCommand(cmd[p]) /\ Facts(p) /\ LineTypes /\ cmd[p].pc = "before"
  BY Underway DEF Line!ReadBefore, Line!At
<1>2. UNCHANGED <<chain, residue, views, receipts, marker, claim, calls, lease, told>>
  BY DEF Line!ReadBefore
<1>3. Shared(p) /\ FileTypes' /\ \A e \in 1..Len(chain') : chain'[e] <= calls
  BY <1>2, Alone
<1>4. /\ Rest(p, {"before"}) /\ cmd'[p].pc = to
      /\ cmd'[p].before = IF residue THEN None ELSE Len(chain)
  BY <1>1 DEF LineTypes, IsCommand, Line!ReadBefore, Line!Top, Rest, Parts
<1>5. /\ Line!Arm(cmd[p].verb).adds \in 0..2
      /\ Line!Arm(cmd[p].verb).adds = 0 <=> cmd[p].verb \in Quiet
  BY <1>1, Arms DEF IsCommand
<1>6. \/ to \in {"basis", "resolve"} /\ Adding(cmd[p])
      \/ to \in Quiet /\ ~Adding(cmd[p])
  BY <1>5 DEF Adding, Quiet
<1>a. to = "resolve" => cmd[p].verb # "distill"
  OBVIOUS
<1> HIDE DEF to
<1>7. IsCommand(cmd'[p])
  BY <1>1, <1>4, <1>6 DEF IsCommand, Rest, Adding, Quiet
<1>8. Facts(p)'
  BY <1>1, <1>2, <1>4, <1>6, <1>a, SameEvents DEF Rest, Facts, Excludes, Absent, Present,
     HeadRead, Ahead, CaughtUp, Claims, Stored, UnderLease, Early, Late, Adding, Landed, Quiet,
     Reasons, Line!Before
<1> QED
  BY <1>1, <1>2, <1>3, <1>4, <1>7, <1>8, GoesOn DEF Rest

(* What the store of knowledge and the views may do in a step of p.         *)
LEMMA Moved ==
  ASSUME LineOK, LineInv, NEW p \in Process, UNCHANGED <<chain, receipts, calls>>,
         residue' = residue \/ lease = p,
         views' = views \/ views' = Len(chain),
         lease' = lease \/ lease = p \/ lease = None,
         claim' = claim \/ claim \in {None, p, "left"},
         marker' = marker
           \/ /\ marker = None \/ claim \in {None, p}
              /\ marker' \in [head : Nat, version : Nat]
              /\ marker'.head <= Len(chain)
              /\ marker'.head = Len(chain) \/ (marker # None /\ marker'.head >= marker.head)
  PROVE  Shared(p) /\ FileTypes' /\ \A e \in 1..Len(chain') : chain'[e] <= calls
<1>1. /\ chain \in Seq(Nat) /\ Len(chain) \in Nat /\ views \in Nat /\ calls \in Nat
      /\ receipts \subseteq 1..Len(chain) /\ marker \in {None} \cup [head : Nat, version : Nat]
      /\ marker # None => marker.head <= Len(chain)
      /\ \A e \in 1..Len(chain) : chain[e] <= calls
  BY DEF LineInv, LineTypes, FileTypes, Numbered
<1>2. \A id \in Nat : Line!EventsOf(id)' = Line!EventsOf(id)
  BY SameEvents
<1>3. marker # None => marker.head \in Nat
  BY <1>1
<1>4. /\ marker # None => marker' # None /\ marker'.head >= marker.head
      /\ marker = None /\ marker' # None => marker'.head >= Len(chain)
      /\ marker' = marker \/ marker = None \/ claim = None \/ claim = p
      /\ marker' \in {None} \cup [head : Nat, version : Nat]
      /\ marker' # None => marker'.head <= Len(chain)
  <2>1. CASE marker' = marker
    BY <1>1, <1>3, <2>1
  <2>2. CASE marker' # marker
    BY <1>1, <1>3, <2>2 DEF LineOK
  <2> QED
    BY <2>1, <2>2
<1>5. views' \in Nat /\ (views' = views \/ views' >= Len(chain))
  BY <1>1
<1>6. FileTypes' /\ \A e \in 1..Len(chain') : chain'[e] <= calls
  BY <1>1, <1>4, <1>5 DEF FileTypes
<1> QED
  BY <1>1, <1>2, <1>4, <1>5, <1>6 DEF Shared

(* The store is bound to the head by a command that has its version.        *)
MarkerRebased(p) ==
    /\ claim = None /\ marker.version = cmd[p].basis
    /\ \E n \in 1..2 : marker' = [head |-> Len(chain), version |-> marker.version + n]

LEMMA Rebased ==
  ASSUME LineOK, LineInv, NEW p \in Process, marker # None, MarkerRebased(p),
         UNCHANGED <<chain, residue, receipts, calls, lease, claim, views>>
  PROVE  /\ Shared(p) /\ FileTypes' /\ \A e \in 1..Len(chain') : chain'[e] <= calls
         /\ marker' # None /\ marker'.head = Len(chain)
<1>1. marker \in [head : Nat, version : Nat] /\ Len(chain) \in Nat
  BY DEF LineInv, LineTypes, FileTypes
<1>2. /\ claim = None /\ marker' \in [head : Nat, version : Nat]
      /\ marker'.head = Len(chain) /\ marker'.head <= Len(chain)
  BY <1>1 DEF MarkerRebased
<1>3. marker' # None
  BY <1>2 DEF LineOK
<1>4. Shared(p) /\ FileTypes' /\ \A e \in 1..Len(chain') : chain'[e] <= calls
  BY <1>2, Moved
<1> QED
  BY <1>2, <1>3, <1>4

LEMMA Words ==
  /\ Line!Before \subseteq Reasons /\ "KNOWLEDGE_REFUSED" \in Reasons \ Line!Before
  /\ {"KNOWLEDGE_REFUSED_BEFORE", "WORKSPACE_UNREADABLE", "WORKSPACE_VERSION_CONFLICT"}
       \subseteq Line!Before
BY DEF Reasons, Line!Before

(* A refusal under the lease, before the append or after it.                *)
MayRefuse(p, reason) ==
    /\ reason \in Reasons
    /\ \/ /\ cmd[p].pc \in {"basis", "resolve", "append", "artifact", "snapshot"}
          /\ reason \in Line!Before
       \/ cmd[p].pc \in {"distill", "bound", "autorebase"} /\ reason = "KNOWLEDGE_REFUSED"
    /\ reason = "WORKSPACE_VERSION_CONFLICT" => cmd[p].given # None

LEMMA RefusedStep ==
  ASSUME LineOK, LineInv, NEW p \in Process, NEW reason, Line!Refused(p, reason),
         MayRefuse(p, reason),
         marker' = marker \/ (cmd[p].pc \in {"distill", "autorebase"} /\ MarkerRebased(p)),
         UNCHANGED <<chain, residue, views, receipts, claim, calls, lease, told>>
  PROVE  LineInv'
<1>1. cmd[p] # Line!Idle /\ IsCommand(cmd[p]) /\ Facts(p) /\ LineTypes
  BY Underway DEF MayRefuse
<1>2. Shared(p) /\ FileTypes' /\ \A e \in 1..Len(chain') : chain'[e] <= calls
  <2>1. CASE marker' = marker
    BY <2>1, Alone
  <2>2. CASE cmd[p].pc \in {"distill", "autorebase"} /\ MarkerRebased(p)
    <3>1. marker # None
      BY <1>1, <2>2 DEF Facts, Stored
    <3> QED
      BY <2>2, <3>1, Rebased
  <2> QED
    BY <2>1, <2>2
<1>3. Rest(p, {"error"}) /\ cmd'[p].pc = "release" /\ cmd'[p].error = reason
  BY <1>1, RefusedIs
<1>4. IsCommand(cmd'[p])
  BY <1>1, <1>3 DEF IsCommand, Rest, Adding, Quiet, MayRefuse
<1>5. reason # None
  BY DEF LineOK, MayRefuse
<1>a. PICK id, n, at : id = cmd[p].id /\ n = Line!Arm(cmd[p].verb).adds /\ at = cmd[p].at
  OBVIOUS
<1>6. /\ Line!EventsOf(id)' = Line!EventsOf(id) /\ (Landed(id, n, at)' <=> Landed(id, n, at))
      /\ cmd'[p].id = id /\ n = Line!Arm(cmd'[p].verb).adds /\ at = cmd'[p].at
  BY <1>a, <1>3, SameEvents DEF Landed, Rest
<1>7. Excludes(p)' /\ HeadRead(p)' /\ Ahead(p)' /\ CaughtUp(p)' /\ Claims(p)' /\ Stored(p)'
  <2>1. lease = p
    BY <1>1 DEF MayRefuse, Facts, Excludes, UnderLease
  <2> QED
    BY <1>3, <1>5, <2>1 DEF MayRefuse, Rest, Excludes, HeadRead, Ahead, CaughtUp, Claims, Stored
<1>8. Absent(p)'
  <2>1. CASE n > 0 /\ reason \in Line!Before
    <3>1. Adding(cmd[p]) /\ cmd[p].pc \in {"basis", "resolve", "append"}
      BY <1>1, <1>a, <2>1, Words DEF MayRefuse, IsCommand, Adding, Quiet
    <3>2. Line!EventsOf(id) = {}
      BY <1>1, <1>a, <3>1 DEF Facts, Absent, Early
    <3> QED
      BY <1>6, <3>2 DEF Absent
  <2>2. CASE ~(n > 0 /\ reason \in Line!Before)
    BY <1>3, <1>6, <2>2 DEF Absent, Early, Adding
  <2> QED
    BY <2>1, <2>2
<1>9. Present(p)'
  <2>1. CASE n > 0 /\ reason \notin Line!Before
    <3>1. /\ Landed(id, n, at) /\ Line!EventsOf(id) \cap receipts = {}
          /\ Line!Arm(cmd[p].verb).notes /\ ~cmd[p].behind => views >= at
      BY <1>1, <1>a, <2>1 DEF MayRefuse, Facts, Present, Late, Adding
    <3> QED
      BY <1>3, <1>6, <3>1 DEF Present, Rest
  <2>2. CASE ~(n > 0 /\ reason \notin Line!Before)
    BY <1>3, <1>6, <2>2 DEF Present, Late, Adding
  <2> QED
    BY <2>1, <2>2
<1>10. Facts(p)'
  BY <1>7, <1>8, <1>9 DEF Facts
<1> QED
  BY <1>1, <1>2, <1>3, <1>4, <1>10, GoesOn DEF Rest

LEMMA ReadBasisStep ==
  ASSUME LineOK, LineInv, NEW p \in Process, Line!ReadBasis(p)
  PROVE  LineInv'
<1>1. cmd[p] # Line!Idle /\ IsCommand(cmd[p]) /\ Facts(p) /\ LineTypes /\ cmd[p].pc = "basis"
  BY Underway DEF Line!ReadBasis, Line!At
<1>2. UNCHANGED <<chain, residue, views, receipts, marker, claim, calls, lease, told>>
  BY DEF Line!ReadBasis
<1>3. CASE Line!Strict
  <2>1. Shared(p) /\ FileTypes' /\ \A e \in 1..Len(chain') : chain'[e] <= calls
    BY <1>2, Alone
  <2>2. Rest(p, {"basis"}) /\ cmd'[p].pc = "resolve"
    BY <1>1, <1>3 DEF LineTypes, IsCommand, Line!ReadBasis, Rest, Parts
  <2>3. IsCommand(cmd'[p])
    BY <1>1, <2>2 DEF IsCommand, Rest, Adding, Quiet
  <2>a. marker # None
    BY <1>3 DEF Line!Strict, Line!HasStore
  <2>4. Facts(p)'
    BY <1>1, <1>2, <2>2, <2>a, SameEvents DEF Rest, Facts, Excludes, Absent, Present,
     HeadRead, Ahead, CaughtUp, Claims, Stored, UnderLease, Early, Late, Adding, Landed, Quiet,
     Reasons, Line!Before
  <2> QED
    BY <1>1, <1>2, <2>1, <2>2, <2>3, <2>4, GoesOn DEF Rest
<1>4. CASE ~Line!Strict
  <2>1. MayRefuse(p, "KNOWLEDGE_REFUSED_BEFORE")
    BY <1>1, Words DEF MayRefuse
  <2>2. Line!Refused(p, "KNOWLEDGE_REFUSED_BEFORE")
    BY <1>4 DEF Line!ReadBasis
  <2> QED
    BY <1>2, <2>1, <2>2, RefusedStep
<1> QED
  BY <1>3, <1>4

LEMMA ResolveStep ==
  ASSUME LineOK, LineInv, NEW p \in Process, Line!Resolve(p)
  PROVE  LineInv'
<1>1. cmd[p] # Line!Idle /\ IsCommand(cmd[p]) /\ Facts(p) /\ LineTypes /\ cmd[p].pc = "resolve"
  BY Underway DEF Line!Resolve, Line!At
<1>2. UNCHANGED <<chain, residue, views, receipts, marker, claim, calls, lease, told>>
  BY DEF Line!Resolve
<1>3. CASE ~residue
  <2>1. Shared(p) /\ FileTypes' /\ \A e \in 1..Len(chain') : chain'[e] <= calls
    BY <1>2, Alone
  <2>2. /\ Rest(p, {"expected"}) /\ cmd'[p].pc = "append"
        /\ cmd[p].given = None => cmd'[p].expected = Len(chain)
    BY <1>1, <1>3 DEF LineTypes, IsCommand, Line!Resolve, Line!Resolved, Line!Top, Rest, Parts
  <2>3. IsCommand(cmd'[p])
    BY <1>1, <2>2 DEF IsCommand, Rest, Adding, Quiet
  <2>4. Facts(p)'
    BY <1>1, <1>2, <1>3, <2>2, SameEvents DEF Rest, Facts, Excludes, Absent, Present,
     HeadRead, Ahead, CaughtUp, Claims, Stored, UnderLease, Early, Late, Adding, Landed, Quiet,
     Reasons, Line!Before
  <2> QED
    BY <1>1, <1>2, <2>1, <2>2, <2>3, <2>4, GoesOn DEF Rest
<1>4. CASE residue
  <2>1. MayRefuse(p, "WORKSPACE_UNREADABLE")
    BY <1>1, Words DEF MayRefuse
  <2>2. Line!Refused(p, "WORKSPACE_UNREADABLE")
    BY <1>4 DEF Line!Resolve
  <2> QED
    BY <1>2, <2>1, <2>2, RefusedStep
<1> QED
  BY <1>3, <1>4

(* What an append does to the numbers on the chain.                         *)
LEMMA AppendedEvents ==
  ASSUME chain \in Seq(Nat), NEW id \in Nat, NEW n \in 0..2,
         chain' = chain \o [i \in 1..n |-> id], Line!EventsOf(id) = {}
  PROVE  /\ chain' \in Seq(Nat) /\ Len(chain') = Len(chain) + n
         /\ \A e \in 1..Len(chain) : chain'[e] = chain[e]
         /\ \A j \in Nat \ {id} : Line!EventsOf(j)' = Line!EventsOf(j)
         /\ Line!EventsOf(id)' = (Len(chain) + 1)..(Len(chain) + n)
<1> DEFINE new == [i \in 1..n |-> id]
<1>1. new \in Seq(Nat) /\ Len(new) = n
  OBVIOUS
<1>2. \A i \in 1..n : new[i] = id
  OBVIOUS
<1> HIDE DEF new
<1>3. /\ chain' \in Seq(Nat) /\ Len(chain') = Len(chain) + n /\ Len(chain) \in Nat
      /\ \A e \in 1..Len(chain) : chain'[e] = chain[e]
      /\ \A e \in (Len(chain) + 1)..(Len(chain) + n) : chain'[e] = new[e - Len(chain)]
  BY <1>1 DEF new
<1>4. \A e \in (Len(chain) + 1)..(Len(chain) + n) : chain'[e] = id
  BY <1>2, <1>3
<1>5. \A e \in 1..Len(chain') : e \in 1..Len(chain) \/ e \in (Len(chain) + 1)..(Len(chain) + n)
  BY <1>3
<1>6. \A e \in 1..Len(chain) : chain[e] # id
  BY DEF Line!EventsOf, Line!Top
<1>7. \A j \in Nat \ {id} : Line!EventsOf(j)' = Line!EventsOf(j)
  BY <1>3, <1>4, <1>5 DEF Line!EventsOf, Line!Top
<1>8. Line!EventsOf(id)' = (Len(chain) + 1)..(Len(chain) + n)
  BY <1>3, <1>4, <1>5, <1>6 DEF Line!EventsOf, Line!Top
<1> QED
  BY <1>3, <1>7, <1>8

(* The append itself: the events of the command are the last of the chain.  *)
LEMMA AppendStep ==
  ASSUME LineOK, LineInv, NEW p \in Process, NEW shown \in BOOLEAN, Line!AppendEvents(p, shown)
  PROVE  LineInv'
<1>1. cmd[p] # Line!Idle /\ IsCommand(cmd[p]) /\ Facts(p) /\ LineTypes /\ cmd[p].pc = "append"
  BY Underway DEF Line!AppendEvents, Line!At
<1>2. CASE residue \/ cmd[p].expected # Line!Top
  <2>1. /\ UNCHANGED <<chain, residue, views, receipts, marker, claim, calls, lease, told>>
        /\ Line!Refused(p, IF residue THEN "WORKSPACE_UNREADABLE" ELSE "WORKSPACE_VERSION_CONFLICT")
    BY <1>2 DEF Line!AppendEvents
  <2>2. ~residue => cmd[p].given # None
    BY <1>1, <1>2 DEF Facts, HeadRead, Line!Top
  <2>3. CASE residue
    <3>1. Line!Refused(p, "WORKSPACE_UNREADABLE")
      BY <2>1, <2>3
    <3>2. MayRefuse(p, "WORKSPACE_UNREADABLE")
      BY <1>1, Words DEF MayRefuse
    <3> QED
      BY <2>1, <3>1, <3>2, RefusedStep
  <2>4. CASE ~residue
    <3>1. Line!Refused(p, "WORKSPACE_VERSION_CONFLICT")
      BY <2>1, <2>4
    <3>2. MayRefuse(p, "WORKSPACE_VERSION_CONFLICT")
      BY <1>1, <2>2, <2>4, Words DEF MayRefuse
    <3> QED
      BY <2>1, <3>1, <3>2, RefusedStep
  <2> QED
    BY <2>3, <2>4
<1>3. CASE ~(residue \/ cmd[p].expected # Line!Top)
  <2> DEFINE to == IF cmd[p].verb = "distill" THEN "distill" ELSE "bound"
  <2>1. PICK n \in 1..2, id \in Nat : n = Line!Arm(cmd[p].verb).adds /\ id = cmd[p].id
    BY <1>1, Arms DEF IsCommand, Adding, Quiet
  <2>2. /\ chain' = chain \o [i \in 1..n |-> id]
        /\ views' = IF shown THEN Len(chain) + n ELSE views
        /\ UNCHANGED <<residue, receipts, marker, claim, lease, told, calls>>
    BY <1>3, <2>1 DEF Line!AppendEvents, Line!Top
  <2>3. /\ Rest(p, {"at", "behind"}) /\ cmd'[p].pc = to /\ cmd'[p].at = Len(chain) + n
        /\ cmd'[p].behind = ~shown
    BY <1>1, <1>3, <2>1 DEF LineTypes, IsCommand, Line!AppendEvents, Line!Top, Rest, Parts
  <2>4. /\ Line!EventsOf(id) = {} /\ cmd[p].before = Len(chain) /\ Adding(cmd[p]) /\ lease = p
    BY <1>1, <2>1 DEF Facts, Absent, Early, HeadRead, IsCommand, Excludes, UnderLease
  <2>5. /\ chain \in Seq(Nat) /\ Len(chain) \in Nat /\ views \in Nat
        /\ receipts \subseteq 1..Len(chain) /\ n \in 0..2
        /\ marker \in {None} \cup [head : Nat, version : Nat]
        /\ marker # None => marker.head <= Len(chain)
    BY <1>1 DEF LineTypes, FileTypes
  <2>6. /\ chain' \in Seq(Nat) /\ Len(chain') = Len(chain) + n
        /\ \A e \in 1..Len(chain) : chain'[e] = chain[e]
        /\ \A j \in Nat \ {id} : Line!EventsOf(j)' = Line!EventsOf(j)
        /\ Line!EventsOf(id)' = (Len(chain) + 1)..(Len(chain) + n)
    BY <2>2, <2>4, <2>5, AppendedEvents
  <2>7. FileTypes'
    BY <1>1, <2>2, <2>5, <2>6 DEF LineTypes, FileTypes
  <2>8. Shared(p)
    <3>1. \A i \in Nat : cmd[p] = Line!Idle \/ i # cmd[p].id =>
                            Line!EventsOf(i)' = Line!EventsOf(i)
      BY <1>1, <2>1, <2>6
    <3>2. Len(chain) <= Len(chain') /\ (views' = views \/ views' >= Len(chain)) /\ views' \in Nat
      BY <2>2, <2>5, <2>6
    <3> QED
      BY <2>2, <2>4, <2>5, <3>1, <3>2 DEF Shared
  <2>9. \A e \in 1..Len(chain') : chain'[e] <= calls
    <3> SUFFICES ASSUME NEW e \in 1..Len(chain') PROVE chain'[e] <= calls
      OBVIOUS
    <3>1. CASE e \in 1..Len(chain)
      BY <2>6, <3>1 DEF LineInv, Numbered
    <3>2. CASE e \notin 1..Len(chain)
      <4>1. e \in Line!EventsOf(id)'
        BY <2>5, <2>6, <3>2
      <4>2. chain'[e] = id
        BY <4>1 DEF Line!EventsOf
      <4>3. id \in 1..calls
        BY <1>1, <2>1 DEF LineInv, Numbered
      <4> QED
        BY <4>2, <4>3 DEF LineInv, LineTypes, FileTypes
    <3> QED
      BY <3>1, <3>2
  <2>10. IsCommand(cmd'[p])
    BY <1>1, <2>3, <2>4 DEF IsCommand, Rest, Adding, Quiet
  <2>11. Excludes(p)' /\ Absent(p)' /\ HeadRead(p)' /\ CaughtUp(p)' /\ Claims(p)' /\ Stored(p)'
    BY <1>1, <2>2, <2>3, <2>4 DEF Rest, Facts, Excludes, Absent, HeadRead, CaughtUp, Claims, Stored,
       Early
  <2>12. Ahead(p)'
    BY <2>3, <2>4, <2>5, <2>6 DEF Rest, Ahead
  <2>13. Present(p)'
    <3>1. PICK at \in Nat : at = Len(chain) + n
      BY <2>5
    <3>2. Landed(id, n, at)'
      BY <2>5, <2>6, <3>1 DEF Landed
    <3>3. Line!EventsOf(id)' \cap receipts' = {}
      BY <2>2, <2>5, <2>6
    <3>4. shown => views' >= at
      BY <2>2, <2>5, <3>1
    <3>5. /\ cmd'[p].id = id /\ cmd'[p].at = at /\ Line!Arm(cmd'[p].verb).adds = n
          /\ cmd'[p].behind = ~shown
      BY <2>1, <2>3, <3>1 DEF Rest
    <3> QED
      BY <3>2, <3>3, <3>4, <3>5 DEF Present, Landed
  <2>14. Facts(p)'
    BY <2>11, <2>12, <2>13 DEF Facts
  <2> QED
    BY <1>1, <2>2, <2>3, <2>7, <2>8, <2>9, <2>10, <2>14, GoesOn DEF Rest
<1> QED
  BY <1>2, <1>3

(* A step after the append that refuses nothing and moves no event.         *)
MovesOn(p, next) ==
    /\ Rest(p, {"basis"}) /\ cmd'[p].pc = next
    /\ \/ /\ cmd[p].pc \in {"distill", "bound", "autorebase"}
          /\ next \in {"bound", "autorebase", "release"}
       \/ cmd[p].pc = "release" /\ cmd[p].error = None /\ cmd[p].attest /\ next = "attest"
    /\ next = "autorebase" => marker' # None
    /\ next # "attest" => lease' = p
    /\ Adding(cmd[p]) /\ next \in {"release", "attest"} /\ marker' # None
         => marker'.head >= cmd[p].at

LEMMA LateStep ==
  ASSUME LineOK, LineInv, NEW p \in Process, cmd[p] # Line!Idle, NEW next, MovesOn(p, next),
         Shared(p), FileTypes', \A e \in 1..Len(chain') : chain'[e] <= calls,
         UNCHANGED <<chain, views, receipts, calls, told>>
  PROVE  LineInv'
<1> USE DEF MovesOn
<1>a. PICK c : c = cmd[p]
  OBVIOUS
<1>b. PICK id, n, at : id = c.id /\ n = Line!Arm(c.verb).adds /\ at = c.at
  OBVIOUS
<1>1. /\ IsCommand(c) /\ Facts(p) /\ LineTypes
      /\ c.pc \in {"distill", "bound", "autorebase", "release"}
  BY <1>a DEF LineInv, LineTypes
<1>2. /\ Line!EventsOf(id)' = Line!EventsOf(id) /\ (Landed(id, n, at)' <=> Landed(id, n, at))
      /\ cmd'[p].id = id /\ n = Line!Arm(cmd'[p].verb).adds /\ at = cmd'[p].at
      /\ cmd'[p].verb = c.verb /\ cmd'[p].behind = c.behind /\ cmd'[p].before = c.before
      /\ cmd'[p].error = c.error /\ cmd'[p].given = c.given /\ cmd'[p].attest = c.attest
  BY <1>a, <1>b, SameEvents DEF Landed, Rest
<1>3. c.error = None
  BY <1>a, <1>1 DEF IsCommand
<1>4. IsCommand(cmd'[p])
  BY <1>a, <1>1, <1>2, <1>3 DEF IsCommand, Rest, Adding, Quiet
<1>5. Excludes(p)' /\ HeadRead(p)' /\ Claims(p)' /\ Stored(p)' /\ Absent(p)'
  <2>1. /\ next \in {"bound", "autorebase", "release", "attest"} /\ cmd'[p].pc = next
        /\ next # "attest" => lease' = p
        /\ next = "autorebase" => marker' # None
    OBVIOUS
  <2>2. None \notin Line!Before /\ None # "WORKSPACE_VERSION_CONFLICT"
    BY DEF LineOK, Reasons, Line!Before
  <2> HIDE DEF MovesOn
  <2>3. Excludes(p)' /\ HeadRead(p)' /\ Claims(p)' /\ Stored(p)'
    BY <1>2, <1>3, <2>1, <2>2 DEF Excludes, HeadRead, Claims, Stored, UnderLease
  <2>4. ~Early(cmd[p])'
    BY <1>2, <1>3, <2>1, <2>2 DEF Early
  <2> QED
    BY <2>3, <2>4 DEF Absent
<1>6. Ahead(p)'
  <2>1. CASE next = "attest"
    BY <2>1 DEF Ahead
  <2>2. CASE next # "attest"
    <3>1. c.pc \in {"distill", "bound", "autorebase"} /\ Len(chain') = Len(chain)
      BY <1>a, <2>2
    <3>2. Adding(c) => c.before \in Nat /\ c.before < Len(chain)
      BY <1>1, <1>a, <3>1 DEF Facts, Ahead
    <3> QED
      BY <1>2, <3>1, <3>2 DEF Ahead, Adding
  <2> QED
    BY <2>1, <2>2
<1>7. CaughtUp(p)'
  <2>1. n > 0 /\ next \in {"release", "attest"} /\ marker' # None => marker'.head >= at
    BY <1>a, <1>b DEF Adding
  <2> QED
    BY <1>2, <2>1 DEF CaughtUp, Adding
<1>8. Present(p)'
  <2>1. CASE n > 0
    <3>1. Late(c) /\ Adding(c)
      BY <1>1, <1>3, <1>b, <2>1 DEF Late, LineOK, Reasons, Adding
    <3>2. /\ Landed(id, n, at) /\ Line!EventsOf(id) \cap receipts = {}
          /\ Line!Arm(c.verb).notes /\ ~c.behind => views >= at
      BY <1>1, <1>a, <1>b, <3>1 DEF Facts, Present
    <3> QED
      BY <1>2, <3>2 DEF Present
  <2>2. CASE ~(n > 0)
    BY <1>2, <2>2 DEF Present, Adding
  <2> QED
    BY <2>1, <2>2
<1>9. Facts(p)'
  BY <1>5, <1>6, <1>7, <1>8 DEF Facts
<1> QED
  BY <1>a, <1>1, <1>2, <1>4, <1>9, GoesOn DEF Rest

LEMMA DistillStep ==
  ASSUME LineOK, LineInv, NEW p \in Process, NEW captured \in BOOLEAN, Line!Distill(p, captured)
  PROVE  LineInv'
<1>1. cmd[p] # Line!Idle /\ IsCommand(cmd[p]) /\ Facts(p) /\ LineTypes /\ cmd[p].pc = "distill"
  BY Underway DEF Line!Distill, Line!At
<1>2. /\ UNCHANGED <<chain, residue, views, receipts, claim, calls, lease, told>>
      /\ marker # None /\ lease = p
  BY <1>1 DEF Line!Distill, Facts, Stored, Excludes, UnderLease
<1>3. CASE Line!Rebases(p, FALSE) /\ captured
  <2>1. Line!Go(p, "bound") /\ MarkerRebased(p)
    BY <1>3 DEF Line!Distill, MarkerRebased, Line!Top, Line!Rebases
  <2>2. Shared(p) /\ FileTypes' /\ \A e \in 1..Len(chain') : chain'[e] <= calls
    BY <1>2, <2>1, Rebased
  <2>3. Rest(p, {}) /\ cmd'[p].pc = "bound"
    BY <1>1, <2>1, Gone
  <2>4. MovesOn(p, "bound")
    BY <1>1, <1>2, <2>3 DEF MovesOn, Rest
  <2> QED
    BY <1>1, <1>2, <2>2, <2>4, LateStep
<1>4. CASE ~(Line!Rebases(p, FALSE) /\ captured)
  <2>1. Line!Refused(p, "KNOWLEDGE_REFUSED") /\ (marker' = marker \/ MarkerRebased(p))
    BY <1>4 DEF Line!Distill, MarkerRebased, Line!Top, Line!Rebases
  <2>2. MayRefuse(p, "KNOWLEDGE_REFUSED")
    BY <1>1, Words DEF MayRefuse
  <2> QED
    BY <1>1, <1>2, <2>1, <2>2, RefusedStep
<1> QED
  BY <1>3, <1>4

LEMMA ReadMarkerStep ==
  ASSUME LineOK, LineInv, NEW p \in Process, Line!ReadMarker(p)
  PROVE  LineInv'
<1>1. cmd[p] # Line!Idle /\ IsCommand(cmd[p]) /\ Facts(p) /\ LineTypes /\ cmd[p].pc = "bound"
  BY Underway DEF Line!ReadMarker, Line!At
<1>2. /\ UNCHANGED <<chain, residue, views, receipts, marker, claim, calls, lease, told>>
      /\ lease = p
  BY <1>1 DEF Line!ReadMarker, Facts, Excludes, UnderLease
<1>3. Shared(p) /\ FileTypes' /\ \A e \in 1..Len(chain') : chain'[e] <= calls
  BY <1>2, Alone
<1>4. CASE ~Line!NeedsRebase(p)
  <2>1. Line!Go(p, "release")
    BY <1>4 DEF Line!ReadMarker
  <2>2. Rest(p, {}) /\ cmd'[p].pc = "release"
    BY <1>1, <2>1, Gone
  <2>3. Adding(cmd[p]) /\ marker # None => marker.head >= cmd[p].at
    <3> SUFFICES ASSUME Adding(cmd[p]), marker # None PROVE marker.head >= cmd[p].at
      OBVIOUS
    <3>1. cmd[p].before \in Nat /\ cmd[p].before < Len(chain) /\ Len(chain) \in Nat
      BY <1>1 DEF Facts, Ahead, LineTypes, FileTypes
    <3>2. marker.head = Len(chain)
      BY <1>4, <3>1 DEF Line!NeedsRebase, Line!HasStore, Line!Top, LineOK
    <3>3. Line!Arm(cmd[p].verb).adds \in 0..2
      BY <1>1, Arms DEF IsCommand
    <3>4. cmd[p].at \in Nat /\ cmd[p].at <= Len(chain)
      BY <1>1, <3>1, <3>3 DEF Facts, Present, Late, Landed
    <3> QED
      BY <3>1, <3>2, <3>4
  <2>4. MovesOn(p, "release")
    BY <1>1, <1>2, <2>2, <2>3 DEF MovesOn, Rest
  <2> QED
    BY <1>1, <1>2, <1>3, <2>4, LateStep
<1>5. CASE Line!NeedsRebase(p) /\ claim = None /\ ~broken /\ ~residue
  <2>1. Rest(p, {"basis"}) /\ cmd'[p].pc = "autorebase"
    BY <1>1, <1>5 DEF LineTypes, IsCommand, Line!ReadMarker, Rest, Parts
  <2>2. marker' # None
    BY <1>2, <1>5 DEF Line!NeedsRebase, Line!HasStore
  <2>3. MovesOn(p, "autorebase")
    BY <1>1, <1>2, <2>1, <2>2 DEF MovesOn
  <2> QED
    BY <1>1, <1>2, <1>3, <2>3, LateStep
<1>6. CASE Line!NeedsRebase(p) /\ ~(claim = None /\ ~broken /\ ~residue)
  <2>1. Line!Refused(p, "KNOWLEDGE_REFUSED")
    BY <1>6 DEF Line!ReadMarker
  <2>2. MayRefuse(p, "KNOWLEDGE_REFUSED")
    BY <1>1, Words DEF MayRefuse
  <2> QED
    BY <1>2, <2>1, <2>2, RefusedStep
<1> QED
  BY <1>4, <1>5, <1>6

LEMMA AutoRebaseStep ==
  ASSUME LineOK, LineInv, NEW p \in Process, Line!AutoRebase(p)
  PROVE  LineInv'
<1>1. cmd[p] # Line!Idle /\ IsCommand(cmd[p]) /\ Facts(p) /\ LineTypes /\ cmd[p].pc = "autorebase"
  BY Underway DEF Line!AutoRebase, Line!At
<1>2. /\ UNCHANGED <<chain, residue, views, receipts, claim, calls, lease, told>>
      /\ marker # None /\ lease = p
  BY <1>1 DEF Line!AutoRebase, Facts, Stored, Excludes, UnderLease
<1>3. CASE Line!Rebases(p, FALSE)
  <2>1. Line!Go(p, "release") /\ MarkerRebased(p)
    BY <1>3 DEF Line!AutoRebase, MarkerRebased, Line!Top, Line!Rebases
  <2>2. /\ Shared(p) /\ FileTypes' /\ \A e \in 1..Len(chain') : chain'[e] <= calls
        /\ marker'.head = Len(chain)
    BY <1>2, <2>1, Rebased
  <2>3. Rest(p, {}) /\ cmd'[p].pc = "release"
    BY <1>1, <2>1, Gone
  <2>4. Adding(cmd[p]) => marker'.head >= cmd[p].at
    <3>1. Line!Arm(cmd[p].verb).adds \in 0..2 /\ Len(chain) \in Nat
      BY <1>1, Arms DEF IsCommand, LineTypes, FileTypes
    <3>2. Adding(cmd[p]) => cmd[p].at \in Nat /\ cmd[p].at <= Len(chain)
      BY <1>1, <3>1 DEF Facts, Present, Late, Landed
    <3> QED
      BY <2>2, <3>1, <3>2
  <2>5. MovesOn(p, "release")
    BY <1>1, <1>2, <2>3, <2>4 DEF MovesOn, Rest
  <2> QED
    BY <1>1, <1>2, <2>2, <2>5, LateStep
<1>4. CASE ~Line!Rebases(p, FALSE)
  <2>1. Line!Refused(p, "KNOWLEDGE_REFUSED") /\ marker' = marker
    BY <1>4 DEF Line!AutoRebase
  <2>2. MayRefuse(p, "KNOWLEDGE_REFUSED")
    BY <1>1, Words DEF MayRefuse
  <2> QED
    BY <1>2, <2>1, <2>2, RefusedStep
<1> QED
  BY <1>3, <1>4

LEMMA RecoverStep ==
  ASSUME LineOK, LineInv, NEW p \in Process, NEW shown \in BOOLEAN, Line!Recover(p, shown)
  PROVE  LineInv'
<1>1. cmd[p] # Line!Idle /\ IsCommand(cmd[p]) /\ Facts(p) /\ LineTypes /\ cmd[p].pc = "recover"
  BY Underway DEF Line!Recover, Line!At
<1>2. /\ UNCHANGED <<chain, receipts, marker, claim, calls, lease, told>>
      /\ lease = p /\ ~Adding(cmd[p]) /\ (views' = views \/ views' = Len(chain))
  BY <1>1 DEF Line!Recover, Facts, Excludes, UnderLease, IsCommand, Quiet, Line!Top
<1>3. Shared(p) /\ FileTypes' /\ \A e \in 1..Len(chain') : chain'[e] <= calls
  BY <1>2, Moved
<1>4. Rest(p, {"behind"}) /\ cmd'[p].pc = "bound" /\ cmd'[p].behind = ~shown
  BY <1>1 DEF LineTypes, IsCommand, Line!Recover, Rest, Parts
<1>5. ~Adding(cmd'[p])
  BY <1>2, <1>4 DEF Rest, Adding
<1>6. IsCommand(cmd'[p])
  BY <1>1, <1>4, <1>5 DEF IsCommand, Rest, Quiet
<1>7. Facts(p)'
  BY <1>2, <1>4, <1>5 DEF Facts, Excludes, Absent, Present, HeadRead, Ahead, CaughtUp, Claims,
     Stored
<1> QED
  BY <1>1, <1>2, <1>3, <1>4, <1>6, <1>7, GoesOn DEF Rest

LEMMA WorkQuietlyStep ==
  ASSUME LineOK, LineInv, NEW p \in Process, Line!WorkQuietly(p)
  PROVE  LineInv'
<1>1. /\ cmd[p].pc \in {"artifact", "snapshot"}
      /\ UNCHANGED <<chain, residue, views, receipts, marker, claim, calls, lease, told>>
  BY DEF Line!WorkQuietly
<1>2. cmd[p] # Line!Idle /\ IsCommand(cmd[p]) /\ Facts(p) /\ LineTypes
  BY <1>1, Underway
<1>3. CASE residue
  <2>1. Line!Refused(p, "WORKSPACE_UNREADABLE")
    BY <1>3 DEF Line!WorkQuietly
  <2>2. MayRefuse(p, "WORKSPACE_UNREADABLE")
    BY <1>1, Words DEF MayRefuse
  <2> QED
    BY <1>1, <2>1, <2>2, RefusedStep
<1>4. CASE ~residue
  <2>1. Rest(p, {}) /\ cmd'[p].pc = "release"
    BY <1>2, <1>4, Gone DEF Line!WorkQuietly
  <2>2. ~Adding(cmd[p]) /\ ~Adding(cmd'[p]) /\ lease = p /\ cmd[p].error = None
    BY <1>1, <1>2, <2>1 DEF IsCommand, Quiet, Facts, Excludes, UnderLease, Rest, Adding
  <2>3. Shared(p) /\ FileTypes' /\ \A e \in 1..Len(chain') : chain'[e] <= calls
    BY <1>1, Alone
  <2>4. IsCommand(cmd'[p])
    BY <1>2, <2>1, <2>2 DEF IsCommand, Rest, Quiet
  <2>5. None # "WORKSPACE_VERSION_CONFLICT"
    BY DEF LineOK, Reasons, Line!Before
  <2>6. Facts(p)'
    BY <1>1, <2>1, <2>2, <2>5
    DEF Rest, Facts, Excludes, Absent, Present, HeadRead, Ahead, CaughtUp, Claims, Stored
  <2> QED
    BY <1>1, <1>2, <2>1, <2>3, <2>4, <2>6, GoesOn DEF Rest
<1> QED
  BY <1>3, <1>4

LEMMA ReleaseStep ==
  ASSUME LineOK, LineInv, NEW p \in Process, Line!Release(p)
  PROVE  LineInv'
<1>1. cmd[p] # Line!Idle /\ IsCommand(cmd[p]) /\ Facts(p) /\ LineTypes /\ cmd[p].pc = "release"
  BY Underway DEF Line!Release, Line!At
<1>2. /\ UNCHANGED <<chain, residue, views, receipts, marker, claim, calls>>
      /\ lease' = None /\ lease = p
  BY <1>1 DEF Line!Release, Facts, Excludes, UnderLease
<1>3. Shared(p) /\ FileTypes' /\ \A e \in 1..Len(chain') : chain'[e] <= calls
  BY <1>2, Alone
<1>4. cmd[p].error \in Reasons \cup {None} /\ None \notin Line!Before
  BY <1>1 DEF IsCommand, LineOK, Reasons
<1>5. CASE cmd[p].error # None
  <2>1. Line!Answer(p, cmd[p].error)
    BY <1>5 DEF Line!Release
  <2>2. Adding(cmd[p]) /\ cmd[p].error \in Line!Before => Line!EventsOf(cmd[p].id) = {}
    BY <1>1 DEF Facts, Absent, Early
  <2>3. ~(cmd[p].error = "WORKSPACE_VERSION_CONFLICT" /\ cmd[p].given = None)
    BY <1>1 DEF Facts, HeadRead
  <2>4. cmd[p].error # "ATTESTATION_RECEIPT_UNWRITTEN" /\ cmd[p].error # "completed"
    BY <1>4, <1>5 DEF Reasons, Line!Before
  <2> QED
    BY <1>1, <1>2, <1>3, <2>1, <2>2, <2>3, <2>4, Answered
<1>6. CASE cmd[p].error = None /\ cmd[p].attest
  <2>1. Line!Go(p, "attest") /\ UNCHANGED told
    BY <1>6 DEF Line!Release
  <2>2. Rest(p, {}) /\ cmd'[p].pc = "attest"
    BY <1>1, <2>1, Gone
  <2>3. Adding(cmd[p]) /\ marker # None => marker.head >= cmd[p].at
    BY <1>1, <1>6 DEF Facts, CaughtUp
  <2>4. MovesOn(p, "attest")
    BY <1>1, <1>2, <1>6, <2>2, <2>3 DEF MovesOn, Rest
  <2> QED
    BY <1>1, <1>2, <1>3, <2>1, <2>4, LateStep
<1>7. CASE cmd[p].error = None /\ ~cmd[p].attest
  <2>1. Line!Answer(p, "completed")
    BY <1>7 DEF Line!Release
  <2>2. ASSUME Adding(cmd[p])
        PROVE  /\ Landed(cmd[p].id, Line!Arm(cmd[p].verb).adds, cmd[p].at)
               /\ marker # None => marker.head >= cmd[p].at
               /\ Line!Arm(cmd[p].verb).notes /\ ~cmd[p].behind => views >= cmd[p].at
    BY <1>1, <1>4, <1>7, <2>2 DEF Facts, Present, CaughtUp, Late
  <2>3. "completed" \notin Line!Before
    BY DEF Line!Before
  <2> QED
    BY <1>1, <1>2, <1>3, <1>7, <2>1, <2>2, <2>3, Answered
<1> QED
  BY <1>5, <1>6, <1>7

LEMMA AttestStep ==
  ASSUME LineOK, LineInv, NEW p \in Process, Line!Attest(p)
  PROVE  LineInv'
<1>1. cmd[p] # Line!Idle /\ IsCommand(cmd[p]) /\ Facts(p) /\ LineTypes /\ cmd[p].pc = "attest"
  BY Underway DEF Line!Attest, Line!At
<1>2. UNCHANGED <<chain, residue, views, marker, claim, calls, lease>>
  BY DEF Line!Attest
<1>3. PICK id, n, at : id = cmd[p].id /\ n = Line!Arm(cmd[p].verb).adds /\ at = cmd[p].at
  OBVIOUS
<1>4. /\ n \in 1..2 /\ Landed(id, n, at) /\ Line!EventsOf(id) \cap receipts = {}
      /\ Line!Arm(cmd[p].verb).notes /\ ~cmd[p].behind => views >= at
      /\ marker # None => marker.head >= at
  <2>1. Adding(cmd[p]) /\ n \in 0..2
    BY <1>1, <1>3, Arms DEF IsCommand
  <2>2. n \in 1..2
    BY <1>3, <2>1 DEF Adding
  <2> QED
    BY <1>1, <1>3, <2>1, <2>2 DEF Facts, Present, Late, CaughtUp
<1>5. /\ at \in 1..Len(chain) /\ at \in Line!EventsOf(id) /\ Len(chain) \in Nat
      /\ receipts \subseteq 1..Len(chain) /\ chain \in Seq(Nat)
  BY <1>1, <1>4 DEF Landed, LineTypes, FileTypes
<1>6. "completed" \notin Line!Before /\ "ATTESTATION_RECEIPT_UNWRITTEN" \notin Line!Before
  BY DEF Line!Before
<1>7. CASE healthy
  <2>1. receipts' = receipts \cup {at} /\ Line!Answer(p, "completed")
    BY <1>3, <1>7 DEF Line!Attest, Line!Receipted
  <2>2. FileTypes'
    BY <1>1, <1>2, <1>5, <2>1 DEF LineTypes, FileTypes
  <2>3. /\ \A i \in Nat : Line!EventsOf(i)' = Line!EventsOf(i)
        /\ \A e \in receipts' \ receipts : e \in Line!EventsOf(cmd[p].id)
        /\ marker # None => marker.head \in Nat
        /\ views \in Nat
    BY <1>1, <1>2, <1>3, <1>5, <2>1, SameEvents DEF LineTypes, FileTypes
  <2>4. Shared(p)
    BY <1>1, <1>2, <1>5, <2>1, <2>3 DEF Shared
  <2> QED
    BY <1>1, <1>2, <1>3, <1>4, <1>6, <2>1, <2>2, <2>4, Answered
<1>8. CASE ~healthy
  <2>1. receipts' = receipts /\ Line!Answer(p, "ATTESTATION_RECEIPT_UNWRITTEN")
    BY <1>8 DEF Line!Attest
  <2>2. Shared(p) /\ FileTypes'
    BY <1>2, <2>1, Alone
  <2>3. Line!EventsOf(cmd[p].id) # {} /\ Line!EventsOf(cmd[p].id) \cap receipts' = {}
    BY <1>3, <1>4, <1>5, <2>1
  <2> QED
    BY <1>1, <1>2, <1>6, <2>1, <2>2, <2>3, Answered
<1> QED
  BY <1>7, <1>8

(* The verbs without a lease.                                               *)
LEMMA QuietAnswer ==
  ASSUME LineOK, LineInv, NEW p \in Process, cmd[p].pc \in Quiet \cup {"claimed"},
         FileTypes', Shared(p), UNCHANGED <<chain, calls>>, NEW reason, Line!Answer(p, reason)
  PROVE  LineInv'
<1>1. cmd[p] # Line!Idle /\ ~Adding(cmd[p])
  <2>1. cmd[p].pc # "idle"
    BY DEF Quiet
  <2> QED
    BY <2>1, Underway DEF IsCommand
<1> QED
  BY <1>1, Answered

LEMMA ReadStep ==
  ASSUME LineOK, LineInv, NEW p \in Process, Line!Read(p)
  PROVE  LineInv'
<1>1. /\ UNCHANGED <<chain, residue, views, receipts, marker, claim, calls, lease>>
      /\ cmd[p].pc \in Quiet
      /\ \E reason : Line!Answer(p, reason)
  BY DEF Line!Read, Quiet
<1>2. Shared(p) /\ FileTypes'
  BY <1>1, Alone
<1> QED
  BY <1>1, <1>2, QuietAnswer

LEMMA ReadForInitStep ==
  ASSUME LineOK, LineInv, NEW p \in Process, Line!ReadForInit(p)
  PROVE  LineInv'
<1>1. /\ UNCHANGED <<chain, residue, views, receipts, claim, calls, lease>>
      /\ cmd[p].pc \in Quiet
  BY DEF Line!ReadForInit, Line!At, Quiet
<1>2. PICK reason :
        /\ Line!Answer(p, reason)
        /\ marker' = marker \/ (marker = None /\ marker' = [head |-> Len(chain), version |-> 0])
  BY DEF Line!ReadForInit, LineOK, Line!HasStore, Line!Top
<1>3. Len(chain) \in Nat
  BY DEF LineInv, LineTypes, FileTypes
<1>4. /\ [head |-> Len(chain), version |-> 0] \in [head : Nat, version : Nat]
      /\ [head |-> Len(chain), version |-> 0].head = Len(chain)
  BY <1>3
<1>5. Shared(p) /\ FileTypes'
  <2>1. CASE marker' = marker
    BY <1>1, <2>1, Alone
  <2>2. CASE marker = None /\ marker' = [head |-> Len(chain), version |-> 0]
    <3>1. /\ marker' \in [head : Nat, version : Nat] /\ marker'.head = Len(chain)
          /\ marker'.head <= Len(chain)
      BY <1>3, <1>4, <2>2
    <3> QED
      BY <1>1, <2>2, <3>1, Moved
  <2> QED
    BY <1>2, <2>1, <2>2
<1> QED
  BY <1>1, <1>2, <1>5, QuietAnswer

LEMMA WriteMarkerStep ==
  ASSUME LineInv, NEW p \in Process, Line!WriteMarker(p)
  PROVE  FALSE
<1>1. cmd[p].pc = "marker"
  BY DEF Line!WriteMarker, Line!At
<1> QED
  BY <1>1, Underway DEF IsCommand

LEMMA TakeClaimStep ==
  ASSUME LineOK, LineInv, NEW p \in Process, Line!TakeClaim(p)
  PROVE  LineInv'
<1>1. /\ cmd[p].pc \in {"capture", "rebase"}
      /\ UNCHANGED <<chain, residue, views, receipts, marker, calls, lease>>
  BY DEF Line!TakeClaim
<1>2. cmd[p] # Line!Idle /\ IsCommand(cmd[p]) /\ Facts(p) /\ LineTypes
  BY <1>1, Underway
<1> DEFINE free == IF cmd[p].verb = "capture" THEN Line!Strict
                   ELSE Line!HasStore /\ claim = None /\ ~residue
<1>3. CASE free
  <2>1. /\ claim = None /\ marker # None /\ claim' = p /\ UNCHANGED told
        /\ cmd' = [cmd EXCEPT ![p].basis = Line!Top, ![p].pc = "claimed"]
    BY <1>3 DEF Line!TakeClaim, Line!Strict, Line!HasStore
  <2>2. Rest(p, {"basis"}) /\ cmd'[p].pc = "claimed" /\ cmd'[p].basis = Len(chain)
    BY <1>2, <2>1 DEF LineTypes, IsCommand, Line!Top, Rest, Parts
  <2>3. Shared(p) /\ FileTypes' /\ \A e \in 1..Len(chain') : chain'[e] <= calls
    BY <1>1, <2>1, Moved
  <2>4. ~Adding(cmd[p]) /\ ~Adding(cmd'[p])
    BY <1>1, <1>2, <2>2 DEF IsCommand, Quiet, Rest, Adding
  <2>5. IsCommand(cmd'[p])
    BY <1>1, <1>2, <2>2, <2>4 DEF IsCommand, Rest, Quiet
  <2>6. Len(chain) \in Nat /\ marker.head <= Len(chain)
    BY <1>2, <2>1 DEF LineTypes, FileTypes
  <2>7. Facts(p)'
    BY <1>1, <2>1, <2>2, <2>4, <2>6
    DEF Facts, Excludes, UnderLease, Absent, Present, HeadRead, Ahead, CaughtUp, Claims, Stored
  <2> QED
    BY <1>1, <1>2, <2>1, <2>2, <2>3, <2>5, <2>7, GoesOn DEF Rest
<1>4. CASE ~free
  <2>1. Line!Answer(p, "KNOWLEDGE_REFUSED") /\ UNCHANGED claim
    BY <1>4 DEF Line!TakeClaim
  <2>2. Shared(p) /\ FileTypes' /\ cmd[p].pc \in Quiet
    BY <1>1, <2>1, Alone DEF Quiet
  <2> QED
    BY <1>1, <2>1, <2>2, QuietAnswer
<1> QED
  BY <1>3, <1>4

LEMMA WriteStoreStep ==
  ASSUME LineOK, LineInv, NEW p \in Process, Line!WriteStore(p)
  PROVE  LineInv'
<1>1. /\ cmd[p].pc = "claimed" /\ claim' = None
      /\ UNCHANGED <<chain, residue, views, receipts, calls, lease>>
  BY DEF Line!WriteStore, Line!At
<1>2. /\ claim = p /\ marker # None /\ cmd[p].basis \in Nat
      /\ marker.head <= cmd[p].basis /\ cmd[p].basis <= Len(chain)
  BY <1>1, Underway DEF Facts, Claims
<1>a. PICK reason : Line!Answer(p, reason)
  BY DEF Line!WriteStore
<1>3. PICK head \in {marker.head, cmd[p].basis} :
        marker' = marker \/ marker' = [head |-> head, version |-> marker.version + 1]
  BY DEF Line!WriteStore
<1>4. marker \in [head : Nat, version : Nat] /\ Len(chain) \in Nat /\ marker.head <= Len(chain)
  BY <1>2 DEF LineInv, LineTypes, FileTypes
<1>5. marker' = marker
        \/ /\ marker' \in [head : Nat, version : Nat] /\ marker'.head <= Len(chain)
           /\ marker'.head >= marker.head
  BY <1>2, <1>3, <1>4
<1>6. Shared(p) /\ FileTypes'
  BY <1>1, <1>2, <1>5, Moved
<1> QED
  BY <1>1, <1>a, <1>6, QuietAnswer

LEMMA UnclaimStep ==
  ASSUME LineOK, LineInv, NEW p \in Process, Line!Unclaim(p)
  PROVE  LineInv'
<1>1. /\ cmd[p].pc \in Quiet
      /\ UNCHANGED <<chain, residue, views, receipts, marker, calls, lease>>
      /\ claim' = claim \/ claim = "left"
      /\ \E reason : Line!Answer(p, reason)
  BY DEF Line!Unclaim, Line!At, Quiet
<1>2. Shared(p) /\ FileTypes'
  BY <1>1, Moved
<1> QED
  BY <1>1, <1>2, QuietAnswer

LEMMA KillStep ==
  ASSUME LineOK, LineInv, NEW p \in Process, Line!Kill(p)
  PROVE  LineInv'
<1>1. /\ UNCHANGED <<chain, views, receipts, marker, calls, told>>
      /\ cmd[p].pc # "idle" /\ cmd' = [cmd EXCEPT ![p] = Line!Idle]
      /\ lease' = lease \/ lease = p
      /\ claim' = claim \/ claim = p
      /\ residue' = residue \/ cmd[p].pc = "append"
  BY DEF Line!Kill, Line!At
<1>2. cmd[p] # Line!Idle /\ IsCommand(cmd[p]) /\ Facts(p) /\ LineTypes
  BY <1>1, Underway
<1>3. residue' = residue \/ lease = p
  BY <1>1, <1>2 DEF Facts, Excludes, UnderLease
<1>4. Shared(p) /\ FileTypes' /\ \A e \in 1..Len(chain') : chain'[e] <= calls
  BY <1>1, <1>3, Moved
<1>5. /\ cmd'[p] = Line!Idle /\ \A q \in Process \ {p} : cmd'[q] = cmd[q]
      /\ DOMAIN cmd' = Process
  BY <1>1, <1>2 DEF LineTypes
<1>6. LineTypes'
  BY <1>1, <1>2, <1>4, <1>5 DEF LineTypes, IsCommand, Adding
<1>7. Numbered'
  BY <1>1, <1>4, <1>5 DEF LineInv, Numbered
<1>8. \A q \in Process : cmd'[q] # Line!Idle => Facts(q)'
  <2> SUFFICES ASSUME NEW q \in Process, cmd'[q] # Line!Idle PROVE Facts(q)'
    OBVIOUS
  <2>1. q # p /\ cmd'[q] = cmd[q]
    BY <1>5
  <2> QED
    BY <1>4, <1>6, <2>1, OthersKeep
<1>9. \A q \in Process : told'[q] # None => Honest(told[q])'
  BY <1>1, <1>4, <1>6, AnswersKeep
<1> QED
  BY <1>6, <1>7, <1>8, <1>9 DEF LineInv, Line!Idle

(* Damage to the receipt store and its repair change nothing of it.         *)
LEMMA Unmoved ==
  ASSUME LineInv,
         UNCHANGED <<chain, residue, views, receipts, marker, claim, lease, cmd, told, calls>>
  PROVE  LineInv'
<1>1. \A id \in Nat : Line!EventsOf(id)' = Line!EventsOf(id)
  BY SameEvents
<1>2. LineTypes' /\ Numbered'
  BY DEF LineInv, LineTypes, FileTypes, Numbered, IsCommand, Adding, Line!Idle
<1>3. ASSUME NEW p \in Process, cmd'[p] # Line!Idle
      PROVE  Facts(p)'
  BY <1>3 DEF LineInv, Facts, Excludes, Absent, Present, HeadRead, Ahead, CaughtUp, Claims, Stored,
     Landed, Line!EventsOf, Line!Top, Early, Late, Adding
<1>4. ASSUME NEW p \in Process, told'[p] # None
      PROVE  Honest(told[p])'
  BY <1>4 DEF LineInv, Honest, Landed, Line!EventsOf, Line!Top
<1> QED
  BY <1>2, <1>3, <1>4 DEF LineInv, Line!Idle

LEMMA LineInvStep ==
  ASSUME LineOK, LineInv, [Line!LineNext]_(Line!clVars)
  PROVE  LineInv'
<1>1. ASSUME NEW p \in Process, Line!Calls(p) \/ Line!Governs(p) \/ Line!Keeps(p) \/ Line!Kill(p)
      PROVE  LineInv'
  <2>1. CASE Line!Governs(p)
    BY <2>1, TakeLeaseStep, ReadBeforeStep, ReadBasisStep, ResolveStep, AppendStep, RecoverStep,
       DistillStep, ReadMarkerStep, AutoRebaseStep, WorkQuietlyStep, ReleaseStep, AttestStep
    DEF Line!Governs
  <2>2. CASE Line!Keeps(p)
    BY <2>2, ReadStep, ReadForInitStep, WriteMarkerStep, TakeClaimStep, WriteStoreStep, UnclaimStep
    DEF Line!Keeps
  <2> QED
    BY <1>1, <2>1, <2>2, CallStep, KillStep
<1>2. CASE Line!Damage \/ Line!Repair \/ UNCHANGED Line!clVars
  BY <1>2, Unmoved DEF Line!Damage, Line!Repair, Line!clVars
<1> QED
  BY <1>1, <1>2 DEF Line!LineNext

LEMMA LineInvInit ==
  ASSUME LineOK, Line!LineInit
  PROVE  LineInv
<1>1. /\ chain = <<0, 0>> /\ calls = 0 /\ receipts = {} /\ views \in {1, 2}
      /\ marker \in {None} \cup [head : {1, 2}, version : {0}]
      /\ cmd = [p \in Process |-> Line!Idle] /\ told = [p \in Process |-> None]
  BY DEF Line!LineInit
<1>2. /\ chain \in Seq(Nat) /\ Len(chain) = 2 /\ \A e \in 1..Len(chain) : chain[e] = 0
      /\ marker \in {None} \cup [head : Nat, version : Nat]
      /\ marker # None => marker.head <= 2
  BY <1>1
<1>3. LineTypes
  BY <1>1, <1>2 DEF LineTypes, FileTypes
<1>4. Numbered
  BY <1>1, <1>2 DEF Numbered
<1> QED
  BY <1>1, <1>3, <1>4 DEF LineInv

(* What is true of an answer is what it says.                               *)
LEMMA AnswersTrue ==
  ASSUME LineInv, NEW p \in Process, told[p] # None, Line!Arm(told[p].verb).adds > 0
  PROVE  LET t == told[p]
             events == Line!EventsOf(t.id)
         IN
         /\ t.reason \in Line!Before => events = {}
         /\ ~(t.reason = "WORKSPACE_VERSION_CONFLICT" /\ t.given = None)
         /\ t.reason = "ATTESTATION_RECEIPT_UNWRITTEN" => events # {} /\ events \cap receipts = {}
         /\ t.reason = "completed" =>
              /\ Line!Cardinality(events) = Line!Arm(t.verb).adds
              /\ t.attest => events \cap receipts # {} /\ events \cap Line!Uncovered = {}
              /\ Line!HasStore => \A e \in events : marker.head >= e
              /\ Line!Arm(t.verb).notes /\ ~t.behind => \A e \in events : views >= e
<1> DEFINE t == told[p]
<1>1. /\ Honest(t) /\ Len(chain) \in Nat /\ views \in Nat /\ receipts \subseteq 1..Len(chain)
      /\ marker # None => marker.head \in Nat
  BY DEF LineInv, LineTypes, FileTypes
<1>2. PICK n, id : n = Line!Arm(t.verb).adds /\ id = t.id
  OBVIOUS
<1>3. n \in 1..2
  <2>1. n \in 0..2
    BY <1>1, <1>2, Arms DEF Honest
  <2> QED
    BY <1>2, <2>1
<1>4. ASSUME t.reason = "completed"
      PROVE  /\ Line!Cardinality(Line!EventsOf(id)) = n
             /\ t.attest => /\ Line!EventsOf(id) \cap receipts # {}
                            /\ Line!EventsOf(id) \cap Line!Uncovered = {}
             /\ marker # None => \A e \in Line!EventsOf(id) : marker.head >= e
             /\ Line!Arm(t.verb).notes /\ ~t.behind => \A e \in Line!EventsOf(id) : views >= e
  <2>1. PICK at \in Nat : /\ Landed(id, n, at)
                          /\ t.attest => at \in receipts
                          /\ marker # None => marker.head >= at
                          /\ Line!Arm(t.verb).notes /\ ~t.behind => views >= at
    BY <1>1, <1>2, <1>4 DEF Honest
  <2>2. /\ Line!EventsOf(id) = (at - n + 1)..at /\ at \in 1..Len(chain) /\ at - n + 1 \in 1..at
        /\ at \in Line!EventsOf(id) /\ \A e \in Line!EventsOf(id) : e \in Nat /\ e <= at
    BY <1>1, <1>3, <2>1 DEF Landed
  <2>3. Cardinality((at - n + 1)..at) = n
    BY <1>3, <2>2, FS_Interval
  <2>4. Line!Cardinality(Line!EventsOf(id)) = n
    BY <2>2, <2>3 DEF Line!Cardinality, Cardinality
  <2>5. \A e \in Line!EventsOf(id) : chain[e] = chain[at]
    BY <2>2 DEF Line!EventsOf
  <2>6. ASSUME t.attest
        PROVE  Line!EventsOf(id) \cap receipts # {} /\ Line!EventsOf(id) \cap Line!Uncovered = {}
    <3>1. at \in receipts
      BY <2>1, <2>6
    <3>2. \A e \in Line!EventsOf(id) : e \notin Line!Uncovered
      BY <2>2, <2>5, <3>1 DEF Line!Uncovered
    <3> QED
      BY <2>2, <3>1, <3>2
  <2>7. marker # None => \A e \in Line!EventsOf(id) : marker.head >= e
    BY <1>1, <2>1, <2>2
  <2>8. Line!Arm(t.verb).notes /\ ~t.behind => \A e \in Line!EventsOf(id) : views >= e
    BY <1>1, <2>1, <2>2
  <2> QED
    BY <2>4, <2>6, <2>7, <2>8
<1> QED
  BY <1>1, <1>2, <1>3, <1>4 DEF Honest, Line!HasStore

(* What a governed verb answers is what it has done, however many commands  *)
(* run beside it, are killed or find the receipt store damaged.             *)
THEOREM AnswersStayTrue ==
  ASSUME LineOK
  PROVE  Line!LineSpec => []Line!AnswersAreTrue
<1>1. Line!LineInit => LineInv
  BY LineInvInit
<1>2. LineInv /\ [Line!LineNext]_(Line!clVars) => LineInv'
  BY LineInvStep
<1>3. LineInv => Line!AnswersAreTrue
  BY AnswersTrue DEF Line!AnswersAreTrue
<1> QED
  BY <1>1, <1>2, <1>3, PTL DEF Line!LineSpec

=============================================================================
