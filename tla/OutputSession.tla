--------------------------- MODULE OutputSession ---------------------------
(***************************************************************************)
(* The exclusive output session of a repository: withExclusiveOutputSession *)
(* and recoverStaleOutputSessionLock (scripts/lib/safe-io.mjs), and the     *)
(* detached test controller a session binds to itself                       *)
(* (scripts/task.mjs, scripts/test-controller-bootstrap.mjs).               *)
(*                                                                         *)
(* The lock is a directory.  The acquisition claim says who is about to     *)
(* create it, owner.json in it who holds it, with the process group of the  *)
(* test controller, and the recovery claim who is removing it.  A claim is  *)
(* written to a file of its own, a stage, linked to its name and unlinked   *)
(* from the stage's; the owner is renamed from a stage.                     *)
(*                                                                         *)
(* Pids go up and no two are the same.  A check of a file and the unlink or *)
(* rename that follows at once are one step.  Left out: file modes, the     *)
(* lock's times in a claim, the receipt for a lock older than the protocol, *)
(* the guards against two sessions of one process, a signal in a bind.      *)
(***************************************************************************)
EXTENDS Naturals, FiniteSets

CONSTANTS
    Process,     \* pids, numbers from 1
    MaxKills,    \* bound on the processes killed
    Contended    \* may a process go on from what another has changed since?

VARIABLES
    acq,      \* the pid in the acquisition claim, 0 for none
    astage,   \* the pids with a stage of it
    lock,     \* the lock directory, known by who created it, 0 for none
    owner,    \* owner.json
    ostage,   \* the stages of it, in the lock
    rclaim,   \* the recovery claim
    rstage,   \* the stage of it each process has
    pc,
    held,     \* the claim each process read or works under, with what it removes
    opened,   \* the processes that opened a session
    group,    \* each process's test controller
    solo,     \* the process that started when no other lived, and is alone since
    kills

vars == <<acq, astage, lock, owner, ostage, rclaim, rstage,
          pc, held, opened, group, solo, kills>>
acquisition == <<acq, astage>>
locked == <<lock, owner, ostage>>
recovery == <<rclaim, rstage>>
others == <<opened, group, solo, kills>>

NoOwner == [pid |-> 0, group |-> 0]
NoClaim == [by |-> 0, lock |-> 0, owner |-> NoOwner]

Alive(p) == pc[p] \notin {"idle", "done", "refused", "failed", "dead"}
GroupAlive(g) == g # 0 /\ group[g] \in {"waiting", "working"}
Goes(p, step) == pc' = [pc EXCEPT ![p] = step]
Fails(p) == Goes(p, IF p \in opened THEN "failed" ELSE "refused")

Holds(p) == held' = [held EXCEPT ![p] = [by |-> p, lock |-> lock, owner |-> owner]]
Same(claim) == claim.lock = lock /\ claim.owner = owner

(* assertRecoveryClean, after which an acquirer starts over. *)
Clean == lock = 0 /\ rclaim = NoClaim /\ acq = 0 /\ astage = {} /\ \A r \in Process : rstage[r] = NoClaim
Linked == rclaim # NoClaim /\ rstage[rclaim.by] = rclaim

-----------------------------------------------------------------------------
Start(p) ==
    /\ pc[p] = "idle" /\ \A q \in Process : q < p => pc[q] # "idle"
    /\ Goes(p, "orphans")
    /\ solo' = IF \E q \in Process \ {p} : Alive(q) \/ GroupAlive(q) THEN 0 ELSE p
    /\ UNCHANGED <<acquisition, locked, recovery, held, opened, group, kills>>

(* clearDeadStageOnlyOrphans. *)
OrphansRefused ==
    \E r \in Process : /\ rstage[r] # NoClaim
                       /\ IF rclaim = NoClaim THEN Alive(r) ELSE rstage[r] # rclaim
WithoutOrphans == IF rclaim = NoClaim THEN [r \in Process |-> NoClaim] ELSE rstage

ClearOrphans(p) ==
    /\ pc[p] = "orphans"
    /\ IF OrphansRefused THEN Fails(p) /\ UNCHANGED rstage
       ELSE rstage' = WithoutOrphans /\ Goes(p, "stages")
    /\ UNCHANGED <<acquisition, locked, rclaim, held, others>>

(* clearDeadAcquisitionClaimStages: a stage of another beside a claim still *)
(* linked to its own is refused, if it comes first.                         *)
StagesRefused == \E r \in astage : Alive(r) \/ (acq \in astage /\ r < acq)

ClearStages(p) ==
    /\ pc[p] = "stages"
    /\ Contended \/ \A q \in Process : pc[q] \notin {"look", "stage", "link"}
    /\ IF StagesRefused THEN Fails(p) /\ UNCHANGED astage
       ELSE astage' = {} /\ Goes(p, "look")
    /\ UNCHANGED <<acq, locked, recovery, held, others>>

(* clearDeadRecoveryClaimWithoutLock. *)
ResidueRefused == lock = 0 /\ rclaim # NoClaim /\ (Alive(rclaim.by) \/ Linked)
WithoutResidue == IF lock = 0 THEN NoClaim ELSE rclaim

(* withExclusiveOutputSession: what is there is recovered first. *)
Look(p) ==
    /\ pc[p] = "look"
    /\ IF ResidueRefused \/ (acq # 0 /\ (Alive(acq) \/ acq \in astage))
         THEN Fails(p) /\ UNCHANGED rclaim
         ELSE /\ rclaim' = WithoutResidue
              /\ Goes(p, IF acq # 0 \/ lock # 0 THEN "recover" ELSE "stage")
    /\ UNCHANGED <<acquisition, locked, rstage, held, others>>

-----------------------------------------------------------------------------
(* publishAcquisitionClaim. *)
StageAcquisition(p) ==
    /\ pc[p] = "stage"
    /\ astage' = astage \cup {p} /\ Goes(p, "link")
    /\ UNCHANGED <<acq, locked, recovery, held, others>>

LinkAcquisition(p) ==
    /\ pc[p] = "link"
    /\ IF acq # 0 THEN astage' = astage \ {p} /\ Fails(p) /\ UNCHANGED acq
       ELSE acq' = p /\ Goes(p, "unstage") /\ UNCHANGED astage
    /\ UNCHANGED <<locked, recovery, held, others>>

UnstageAcquisition(p) ==
    /\ pc[p] = "unstage"
    /\ astage' = astage \ {p} /\ Goes(p, "mkdir")
    /\ UNCHANGED <<acq, locked, recovery, held, others>>

(* mkdir; the claim stays when the lock is there. *)
MakeLock(p) ==
    /\ pc[p] = "mkdir"
    /\ IF lock # 0 THEN Fails(p) /\ UNCHANGED lock ELSE lock' = p /\ Goes(p, "pending")
    /\ UNCHANGED <<acquisition, owner, ostage, recovery, held, others>>

(* findRecoveryObjects: the claim stays when a recovery is pending. *)
CheckPending(p) ==
    /\ pc[p] = "pending"
    /\ IF rclaim # NoClaim \/ \E r \in Process : rstage[r] # NoClaim
         THEN lock' = 0 /\ Fails(p)
         ELSE Goes(p, "owner") /\ UNCHANGED lock
    /\ UNCHANGED <<acquisition, owner, ostage, recovery, held, others>>

(* publishInitialOutputOwnerMetadata. *)
StageOwner(p) ==
    /\ pc[p] = "owner"
    /\ ostage' = ostage \cup {[by |-> p, group |-> 0]} /\ Goes(p, "publish")
    /\ UNCHANGED <<acquisition, lock, owner, recovery, held, others>>

PublishOwner(p) ==
    /\ pc[p] = "publish"
    /\ ostage' = ostage \ {[by |-> p, group |-> 0]}
    /\ owner' = [pid |-> p, group |-> 0] /\ Goes(p, "consume")
    /\ UNCHANGED <<acquisition, lock, recovery, held, others>>

(* removeAcquisitionClaim; the operation starts. *)
Open(p) ==
    /\ pc[p] = "consume"
    /\ acq' = 0 /\ opened' = opened \cup {p} /\ Goes(p, "operate")
    /\ UNCHANGED <<astage, locked, recovery, held, group, solo, kills>>

-----------------------------------------------------------------------------
(* runDetachedTestController starts the controller's bootstrap. *)
Spawn(p) ==
    /\ pc[p] = "operate" /\ group[p] = "none"
    /\ group' = [group EXCEPT ![p] = "waiting"] /\ Goes(p, "bind")
    /\ UNCHANGED <<acquisition, locked, recovery, held, opened, solo, kills>>

(* bindOutputSessionProcessGroup: the stage's name has the group. *)
StageGroup(p) ==
    /\ pc[p] = "bind"
    /\ ostage' = ostage \cup {[by |-> p, group |-> p]} /\ Goes(p, "bound")
    /\ UNCHANGED <<acquisition, lock, owner, recovery, held, others>>

PublishGroup(p) ==
    /\ pc[p] = "bound"
    /\ ostage' = ostage \ {[by |-> p, group |-> p]}
    /\ owner' = [pid |-> p, group |-> p] /\ Goes(p, "operate")
    /\ UNCHANGED <<acquisition, lock, recovery, held, others>>

Bound(p) == owner = [pid |-> p, group |-> p]

(* waitForDurableGroupBinding: the bootstrap starts the tests when the      *)
(* owner it reads names it, and exits when another does or its parent is    *)
(* gone.                                                                    *)
Bootstrap(p) ==
    /\ group[p] = "waiting"
    /\ \/ Bound(p) /\ group' = [group EXCEPT ![p] = "working"]
       \/ ~Bound(p) /\ ~Alive(p) /\ group' = [group EXCEPT ![p] = "over"]
    /\ UNCHANGED <<acquisition, locked, recovery, pc, held, opened, solo, kills>>

(* The group exits, by itself, at the timeout or by its reaper. *)
GroupEnds(p) ==
    /\ GroupAlive(p)
    /\ group' = [group EXCEPT ![p] = "over"]
    /\ UNCHANGED <<acquisition, locked, recovery, pc, held, opened, solo, kills>>

(* The operation returns or throws, or a signal cuts it off. *)
Finish(p) ==
    /\ pc[p] = "operate"
    /\ Holds(p) /\ Goes(p, "claim")
    /\ UNCHANGED <<acquisition, locked, recovery, others>>

-----------------------------------------------------------------------------
(* recoverStaleOutputSessionLock: first the acquisition claim. *)
RecoverAcquisition(p) ==
    /\ pc[p] = "recover"
    /\ IF StagesRefused \/ (acq # 0 /\ Alive(acq))
         THEN Fails(p) /\ UNCHANGED <<acquisition, locked, held>>
         ELSE /\ astage' = {}
              /\ held' = [held EXCEPT ![p] = [NoClaim EXCEPT !.by = acq, !.lock = lock]]
              /\ IF acq = 0 THEN Goes(p, "lock") /\ UNCHANGED <<acq, locked>>
                 ELSE IF lock = 0 THEN acq' = 0 /\ Goes(p, "clean") /\ UNCHANGED locked
                 ELSE IF owner = NoOwner
                   THEN /\ lock' = 0 /\ ostage' = {} /\ Goes(p, "consumed")
                        /\ UNCHANGED <<acq, owner>>
                 ELSE /\ UNCHANGED locked
                      /\ IF owner = [pid |-> acq, group |-> 0]
                           THEN acq' = 0 /\ Goes(p, "lock")
                           ELSE Fails(p) /\ UNCHANGED acq
    /\ UNCHANGED <<recovery, others>>

(* removeAcquisitionClaim, of the claim it read. *)
RemoveAcquisition(p) ==
    /\ pc[p] = "consumed"
    /\ IF acq # 0 /\ acq = held[p].by THEN acq' = 0 /\ Goes(p, "clean") ELSE Fails(p) /\ UNCHANGED acq
    /\ UNCHANGED <<astage, locked, recovery, held, others>>

(* There was no lock. *)
RecoverMissing(p) ==
    /\ pc[p] = "lock" /\ held[p].lock = 0
    /\ IF OrphansRefused \/ ResidueRefused THEN Fails(p) /\ UNCHANGED recovery
       ELSE rstage' = WithoutOrphans /\ rclaim' = WithoutResidue /\ Goes(p, "clean")
    /\ UNCHANGED <<acquisition, locked, held, others>>

(* clearDeadOwnerPublicationStages and assertDeadProcessGroup. *)
OwnerGone ==
    /\ ~Alive(owner.pid)
    /\ \A s \in ostage : ~GroupAlive(s.group)
    /\ ~GroupAlive(owner.group)

RecoverOwned(p) ==
    /\ pc[p] = "lock" /\ held[p].lock # 0 /\ owner # NoOwner
    /\ IF lock = held[p].lock /\ OwnerGone THEN ostage' = {} /\ Holds(p) /\ Goes(p, "claim")
       ELSE Fails(p) /\ UNCHANGED <<ostage, held>>
    /\ UNCHANGED <<acquisition, lock, owner, recovery, others>>

(* A lock without an owner goes under the claim that unlinked the owner. *)
RecoverOwnerless(p) ==
    /\ pc[p] = "lock" /\ held[p].lock # 0 /\ owner = NoOwner
    /\ IF /\ lock = held[p].lock /\ ostage = {}
          /\ rclaim # NoClaim /\ rclaim.lock = lock /\ ~Alive(rclaim.by) /\ ~Linked
         THEN /\ lock' = 0 /\ held' = [held EXCEPT ![p] = rclaim] /\ Goes(p, "unclaim")
         ELSE Fails(p) /\ UNCHANGED <<lock, held>>
    /\ UNCHANGED <<acquisition, owner, ostage, recovery, others>>

-----------------------------------------------------------------------------
(* Mutant: only its own claim is taken up again. *)
ResumableOwn(p) == rclaim.by = p

(* resumeRecoveryClaim: the claim of a process that is gone, over what this *)
(* one is removing.                                                         *)
Resumable(p) ==
    /\ ~Alive(rclaim.by)
    /\ rclaim.lock = held[p].lock /\ rclaim.owner = held[p].owner

(* acquireRecoveryClaim. *)
ClaimRecovery(p) ==
    /\ pc[p] = "claim"
    /\ Contended \/ Same(held[p])
    /\ IF OrphansRefused \/ (rclaim # NoClaim /\ ~Resumable(p))
         THEN Fails(p) /\ UNCHANGED <<rstage, held>>
       ELSE IF rclaim = NoClaim
         THEN /\ rstage' = [WithoutOrphans EXCEPT ![p] = held[p]]
              /\ Goes(p, "rlink") /\ UNCHANGED held
       ELSE /\ rstage' = [rstage EXCEPT ![rclaim.by] = NoClaim]
            /\ held' = [held EXCEPT ![p] = rclaim] /\ Goes(p, "unlink")
    /\ UNCHANGED <<acquisition, locked, rclaim, others>>

LinkRecovery(p) ==
    /\ pc[p] = "rlink"
    /\ IF rclaim # NoClaim
         THEN rstage' = [rstage EXCEPT ![p] = NoClaim] /\ Fails(p) /\ UNCHANGED rclaim
         ELSE rclaim' = held[p] /\ Goes(p, "runstage") /\ UNCHANGED rstage
    /\ UNCHANGED <<acquisition, locked, held, others>>

UnstageRecovery(p) ==
    /\ pc[p] = "runstage"
    /\ rstage' = [rstage EXCEPT ![p] = NoClaim] /\ Goes(p, "unlink")
    /\ UNCHANGED <<acquisition, locked, rclaim, held, others>>

(* releaseOutputSession; a session whose group is alive gives up, and takes *)
(* its claim back.                                                          *)
UnlinkOwner(p) ==
    /\ pc[p] = "unlink"
    /\ IF ~Same(held[p])
         THEN Fails(p) /\ UNCHANGED <<owner, rclaim>>
       ELSE IF GroupAlive(owner.group)
         THEN /\ Fails(p) /\ UNCHANGED owner
              /\ rclaim' = IF p \in opened THEN NoClaim ELSE rclaim
       ELSE owner' = NoOwner /\ Goes(p, "rmdir") /\ UNCHANGED rclaim
    /\ UNCHANGED <<acquisition, lock, ostage, rstage, held, others>>

RemoveLock(p) ==
    /\ pc[p] = "rmdir"
    /\ IF lock = held[p].lock /\ owner = NoOwner /\ ostage = {}
         THEN lock' = 0 /\ Goes(p, "unclaim") ELSE Fails(p) /\ UNCHANGED lock
    /\ UNCHANGED <<acquisition, owner, ostage, recovery, held, others>>

RemoveClaim(p) ==
    /\ pc[p] = "unclaim"
    /\ IF rclaim = held[p] THEN rclaim' = NoClaim /\ Goes(p, "clean") ELSE Fails(p) /\ UNCHANGED rclaim
    /\ UNCHANGED <<acquisition, locked, rstage, held, others>>

(* assertRecoveryClean: a session is over, an acquirer looks again. *)
AssertClean(p) ==
    /\ pc[p] = "clean"
    /\ IF ~Clean THEN Fails(p) ELSE Goes(p, IF p \in opened THEN "done" ELSE "orphans")
    /\ UNCHANGED <<acquisition, locked, recovery, held, others>>

(* SIGKILL; the group is another process's. *)
Kill(p) ==
    /\ Alive(p) /\ kills < MaxKills
    /\ kills' = kills + 1 /\ Goes(p, "dead")
    /\ UNCHANGED <<acquisition, locked, recovery, held, opened, group, solo>>

SessionInit ==
    /\ acq = 0 /\ astage = {} /\ lock = 0 /\ owner = NoOwner /\ ostage = {}
    /\ rclaim = NoClaim /\ rstage = [p \in Process |-> NoClaim]
    /\ pc = [p \in Process |-> "idle"] /\ held = [p \in Process |-> NoClaim]
    /\ opened = {} /\ group = [p \in Process |-> "none"] /\ solo = 0 /\ kills = 0

SessionNext ==
    \E p \in Process :
      \/ Start(p) \/ ClearOrphans(p) \/ ClearStages(p) \/ Look(p)
      \/ StageAcquisition(p) \/ LinkAcquisition(p) \/ UnstageAcquisition(p)
      \/ MakeLock(p) \/ CheckPending(p) \/ StageOwner(p) \/ PublishOwner(p) \/ Open(p)
      \/ Spawn(p) \/ StageGroup(p) \/ PublishGroup(p) \/ Bootstrap(p) \/ GroupEnds(p) \/ Finish(p)
      \/ RecoverAcquisition(p) \/ RemoveAcquisition(p)
      \/ RecoverMissing(p) \/ RecoverOwned(p) \/ RecoverOwnerless(p)
      \/ ClaimRecovery(p) \/ LinkRecovery(p) \/ UnstageRecovery(p)
      \/ UnlinkOwner(p) \/ RemoveLock(p) \/ RemoveClaim(p) \/ AssertClean(p)
      \/ Kill(p)

SessionSpec == SessionInit /\ [][SessionNext]_vars

-----------------------------------------------------------------------------
(* One session at a time works on the repository, its test controller       *)
(* included, which lives on when its session is killed.                     *)
Busy(p) == pc[p] \in {"operate", "bind", "bound"} \/ group[p] = "working"
OneSession == \A p, q \in Process : Busy(p) /\ Busy(q) => p = q

(* Whatever a kill left behind, a process that is alone opens its session.  *)
AloneIsServed == \A p \in Process : solo = p => pc[p] # "refused"
=============================================================================
