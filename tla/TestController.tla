--------------------------- MODULE TestController ---------------------------
(***************************************************************************)
(* The test controller of scripts/task.mjs: within its output session a     *)
(* task spawns test-controller-bootstrap.mjs as the leader of a process     *)
(* group, records the group in the lock of the session, and judges the      *)
(* run; the bootstrap runs `node --test` once it is recorded, and has       *)
(* test-controller-reaper.mjs, which is outside the group, end what the     *)
(* tests left.  Each can be killed at any point; the tests fork within the  *)
(* group (test-controller-child-policy.mjs).                                *)
(***************************************************************************)
EXTENDS Naturals

CONSTANTS
    MaxKids, MaxKills,   \* bounds
    MaxRuns              \* runs of the controller in one session

VARIABLES
    task,    \* where the task stands
    run,     \* the run, and the group of its bootstrap
    lock,    \* the group its lock names, {0} for none; {} once it is gone
    boot,    \* where the bootstrap stands
    seen,    \* the lock it read
    code,    \* the exit code it left
    errors,  \* whether it met any
    reaper, ctl, kids,
    ledger,  \* the terminal event of the progress ledger
    blamed,  \* whether something other than the order of steps failed the run
    kills

vars == <<task, run, lock, boot, seen, code, errors, reaper, ctl, kids, ledger, blamed, kills>>
taskVars == <<task, lock>>
bootVars == <<boot, seen, code, errors, ledger>>
groupVars == <<ctl, kids>>

TaskGone == task \in {"ended", "dead"}
Members == ctl = "live" \/ kids > 0
GroupAlive == boot \notin {"none", "ended"} \/ Members
Bound == run > 0 /\ lock = {run}

-----------------------------------------------------------------------------
(* The task.                                                                *)

SpawnBootstrap ==
    /\ task \in {"idle", "passed"} /\ run < MaxRuns
    /\ task' = "bind" /\ run' = run + 1
    /\ boot' = "poll" /\ seen' = {} /\ code' = "none" /\ errors' = FALSE
    /\ reaper' = "none" /\ ctl' = "none" /\ ledger' = "none"
    /\ UNCHANGED <<lock, kids, blamed, kills>>

(* bindOutputSessionProcessGroup.                                           *)
BindGroup ==
    /\ task = "bind"
    /\ task' = "watch" /\ lock' = {run}
    /\ UNCHANGED <<run, bootVars, reaper, groupVars, blamed, kills>>

(* The binding fails, or the timeout configured is refused after it.        *)
TaskGivesUp ==
    /\ task \in {"bind", "watch"}
    /\ task' = "failed" /\ blamed' = TRUE
    /\ UNCHANGED <<run, lock, bootVars, reaper, groupVars, kills>>

SeesExit ==
    /\ task = "watch" /\ boot = "ended"
    /\ task' = "wait"
    /\ UNCHANGED <<run, lock, bootVars, reaper, groupVars, blamed, kills>>

(* terminateTestControllerGroup: the bootstrap dies, the tests may not.     *)
TimesOut ==
    /\ task = "watch" /\ boot # "ended"
    /\ task' = "wait" /\ boot' = "ended" /\ code' = "none" /\ blamed' = TRUE
    /\ UNCHANGED <<run, lock, seen, errors, ledger, reaper, groupVars, kills>>

(* waitForProcessGroupExit, for ten seconds, and the verdict: noise on the  *)
(* standard error fails a run that passed.                                  *)
Join ==
    /\ task = "wait"
    /\ \E quiet \in BOOLEAN :
          LET passed == ~GroupAlive /\ code = "zero" /\ ledger = "ok" /\ quiet
          IN  /\ task' = IF passed THEN "passed" ELSE "failed"
              /\ blamed' = (blamed \/ GroupAlive \/ ~quiet)
    /\ UNCHANGED <<run, lock, bootVars, reaper, groupVars, kills>>

(* The release of the session gives up while the group recorded lives.      *)
Leave ==
    /\ task' = "ended"
    /\ lock' = IF Bound /\ GroupAlive THEN lock ELSE {}
    /\ UNCHANGED <<run, bootVars, reaper, groupVars>>

ReleaseSession == task \in {"passed", "failed"} /\ Leave /\ UNCHANGED <<blamed, kills>>

Interrupted ==
    /\ ~TaskGone /\ task # "bind" /\ kills < MaxKills
    /\ Leave /\ kills' = kills + 1 /\ blamed' = TRUE

(* Another session recovers the lock of a dead owner.                       *)
RecoverLock ==
    /\ TaskGone /\ lock # {} /\ ~(Bound /\ GroupAlive)
    /\ lock' = {}
    /\ UNCHANGED <<task, run, bootVars, reaper, groupVars, blamed, kills>>

-----------------------------------------------------------------------------
(* The bootstrap.                                                           *)

Exits(c, e) == boot' = "ended" /\ code' = c /\ ledger' = e

ReadOwner ==
    /\ boot = "poll"
    /\ boot' = "judge" /\ seen' = lock
    /\ UNCHANGED <<taskVars, run, code, errors, ledger, reaper, groupVars, blamed, kills>>

Orphaned == Exits("zero", "orphaned")
Thrown == Exits("nonzero", ledger)

(* Mutant: a bootstrap whose parent lives need not be recorded.             *)
BindingUnneeded ==
    /\ boot = "judge"
    /\ IF seen = {run} \/ (seen = {0} /\ ~TaskGone)
       THEN boot' = "bound" /\ UNCHANGED <<code, ledger>>
       ELSE IF TaskGone THEN Orphaned ELSE Thrown
    /\ UNCHANGED <<taskVars, run, seen, errors, reaper, groupVars, blamed, kills>>

(* waitForDurableGroupBinding: a lock that is gone, or another's, is an     *)
(* orphan's or an error; one that names another group is an error.          *)
JudgeOwner ==
    /\ boot = "judge"
    /\ CASE seen = {run} -> boot' = "bound" /\ UNCHANGED <<code, ledger>>
         [] seen = {} -> IF TaskGone THEN Orphaned ELSE Thrown
         [] seen = {0} -> IF TaskGone THEN Orphaned
                        ELSE boot' = "poll" /\ UNCHANGED <<code, ledger>>
         [] OTHER -> Thrown
    /\ UNCHANGED <<taskVars, run, seen, errors, reaper, groupVars, blamed, kills>>

(* The binding takes ten seconds, or the output directory cannot be made.   *)
BootstrapGivesUp ==
    /\ boot \in {"poll", "bound"}
    /\ Thrown /\ blamed' = TRUE
    /\ UNCHANGED <<taskVars, run, seen, errors, reaper, groupVars, kills>>

SpawnReaper ==
    /\ boot = "bound"
    /\ boot' = "ready" /\ reaper' = "idle"
    /\ UNCHANGED <<taskVars, run, seen, code, errors, ledger, groupVars, blamed, kills>>

StartController ==
    /\ boot = "ready"
    /\ boot' = "run" /\ ctl' = "live"
    /\ UNCHANGED <<taskVars, run, seen, code, errors, ledger, reaper, kids, blamed, kills>>

(* The reaper is lost before it is ready, or an event cannot be written:    *)
(* the catch of the bootstrap ends the controller, then joins the reaper.   *)
MeetError ==
    /\ boot \in {"ready", "run"}
    /\ errors' = TRUE /\ blamed' = TRUE
    /\ boot' = IF boot = "ready" THEN "join" ELSE "run"
    /\ UNCHANGED <<taskVars, run, seen, code, ledger, reaper, groupVars, kills>>

SeesControllerExit ==
    /\ boot = "run" /\ ctl # "live"
    /\ boot' = "join"
    /\ UNCHANGED <<taskVars, run, seen, code, errors, ledger, reaper, groupVars, blamed, kills>>

(* joinReaper and disposeReaper: a reaper that is gone is an error of the   *)
(* cleanup, and the bootstrap goes on.                                      *)
JoinReaper ==
    /\ boot = "join"
    /\ IF reaper = "gone"
       THEN boot' = "report" /\ errors' = TRUE /\ UNCHANGED reaper
       ELSE boot' = "await" /\ reaper' = "asked" /\ UNCHANGED errors
    /\ UNCHANGED <<taskVars, run, seen, code, ledger, groupVars, blamed, kills>>

DisposeReaper ==
    /\ boot = "await"
    /\ \/ reaper = "clean" /\ boot' = "bury" /\ UNCHANGED errors
       \/ reaper = "gone" /\ boot' = "report" /\ errors' = TRUE
    /\ UNCHANGED <<taskVars, run, seen, code, ledger, reaper, groupVars, blamed, kills>>

BuryReaper ==
    /\ boot = "bury" /\ reaper \in {"removed", "gone"}
    /\ boot' = "report" /\ errors' = (errors \/ reaper = "gone")
    /\ UNCHANGED <<taskVars, run, seen, code, ledger, reaper, groupVars, blamed, kills>>

Ok == ctl = "zero" /\ ~errors

ReportCompletion ==
    /\ boot = "report"
    /\ boot' = "exit" /\ ledger' = IF Ok THEN "ok" ELSE "bad"
    /\ UNCHANGED <<taskVars, run, seen, code, errors, reaper, groupVars, blamed, kills>>

ExitWithResult ==
    /\ boot = "exit"
    /\ Exits(IF Ok THEN "zero" ELSE "nonzero", ledger)
    /\ UNCHANGED <<taskVars, run, seen, errors, reaper, groupVars, blamed, kills>>

-----------------------------------------------------------------------------
(* The reaper: asked by the bootstrap or, within 20 ms, bereft of it.       *)

Bereft == boot = "ended"

BeginTermination ==
    /\ reaper = "asked" \/ (reaper = "idle" /\ Bereft)
    /\ reaper' = "polls"
    /\ UNCHANGED <<taskVars, run, bootVars, groupVars, blamed, kills>>

FindGroupEmpty ==
    /\ reaper \in {"polls", "killed"} /\ ~Members
    /\ reaper' = "clean"
    /\ UNCHANGED <<taskVars, run, bootVars, groupVars, blamed, kills>>

(* After a second, SIGKILL to the members listed; the later born survive.   *)
KillMembers ==
    /\ reaper = "polls" /\ Members
    /\ reaper' = "killed"
    /\ ctl' = IF ctl = "live" THEN "nonzero" ELSE ctl
    /\ kids' \in 0..kids
    /\ blamed' = (blamed \/ ctl = "live")
    /\ UNCHANGED <<taskVars, run, bootVars, kills>>

FindGroupLive ==
    /\ reaper = "killed" /\ Members
    /\ reaper' = "gone" /\ blamed' = TRUE
    /\ UNCHANGED <<taskVars, run, bootVars, groupVars, kills>>

RemoveOutputDirectory ==
    /\ reaper = "clean" /\ (boot = "bury" \/ Bereft)
    /\ reaper' = "removed"
    /\ UNCHANGED <<taskVars, run, bootVars, groupVars, blamed, kills>>

-----------------------------------------------------------------------------
(* The tests, and the kills.                                                *)

Fork ==
    /\ Members /\ kids < MaxKids
    /\ kids' = kids + 1
    /\ UNCHANGED <<taskVars, run, bootVars, reaper, ctl, blamed, kills>>

KidExits ==
    /\ kids > 0
    /\ kids' = kids - 1
    /\ UNCHANGED <<taskVars, run, bootVars, reaper, ctl, blamed, kills>>

ControllerExits ==
    /\ ctl = "live"
    /\ ctl' \in {"zero", "nonzero"}
    /\ blamed' = (blamed \/ ctl' = "nonzero")
    /\ UNCHANGED <<taskVars, run, bootVars, reaper, kids, kills>>

Kill ==
    /\ kills < MaxKills
    /\ kills' = kills + 1 /\ blamed' = TRUE
    /\ \/ /\ ~TaskGone
          /\ task' = "dead"
          /\ UNCHANGED <<boot, code, reaper>>
       \/ /\ boot \notin {"none", "ended"}
          /\ boot' = "ended" /\ code' = "none"
          /\ UNCHANGED <<task, reaper>>
       \/ /\ reaper \notin {"none", "removed", "gone"}
          /\ reaper' = "gone"
          /\ UNCHANGED <<task, boot, code>>
    /\ UNCHANGED <<lock, run, seen, errors, ledger, groupVars>>

ControllerInit ==
    /\ task = "idle" /\ run = 0 /\ lock = {0}
    /\ boot = "none" /\ seen = {0} /\ code = "none" /\ errors = FALSE
    /\ reaper = "none" /\ ctl = "none" /\ kids = 0 /\ ledger = "none"
    /\ blamed = FALSE /\ kills = 0

ControllerNext ==
    \/ SpawnBootstrap \/ BindGroup \/ TaskGivesUp \/ SeesExit \/ TimesOut \/ Join
    \/ ReleaseSession \/ Interrupted \/ RecoverLock
    \/ ReadOwner \/ JudgeOwner \/ BootstrapGivesUp \/ SpawnReaper \/ StartController
    \/ MeetError \/ SeesControllerExit \/ JoinReaper \/ DisposeReaper \/ BuryReaper
    \/ ReportCompletion \/ ExitWithResult
    \/ BeginTermination \/ FindGroupEmpty \/ KillMembers \/ FindGroupLive
    \/ RemoveOutputDirectory
    \/ Fork \/ KidExits \/ ControllerExits \/ Kill

ControllerSpec == ControllerInit /\ [][ControllerNext]_vars

-----------------------------------------------------------------------------
(* No test outlives the hold on the repository: a lock that was released or *)
(* recovered leaves none of the session's tests running (bootstrap 3-7).    *)
(* And a task that reports a pass ran its tests to a clean end, with        *)
(* nothing of the group left behind.                                        *)
NoneOutlivesTheLock ==
    /\ lock = {} => ~Members
    /\ task = "passed" =>
         /\ ctl = "zero" /\ ~GroupAlive /\ reaper = "removed" /\ Bound

(* A run fails only for a cause of its own (bootstrap 3-5: "It waits for    *)
(* that group to be durably recorded").                                     *)
FailsForACause == task = "failed" => blamed
=============================================================================
