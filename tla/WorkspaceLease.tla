--------------------------- MODULE WorkspaceLease ---------------------------
(***************************************************************************)
(* The single-writer lease of a workspace (packages/core/src/workspace.ts, *)
(* acquireWorkspaceLease and the helpers around it), one action per file   *)
(* system call or per group of adjacent calls that no other process can    *)
(* tell apart.                                                             *)
(*                                                                         *)
(* On disk the lease is a directory lease/ with a file owner.json in it,   *)
(* and the right to replace a dead lease is a second file,                 *)
(* lease-recovery.claim.  Both files are created with O_EXCL and then      *)
(* filled, so a crash may leave one empty; both are removed by renaming    *)
(* them to a quarantine name, checking what was moved, and deleting it.    *)
(* A process is one command of the CLI: it takes the lease once.           *)
(*                                                                         *)
(* Time appears only through what the code compares: a record has lapsed   *)
(* when the instant the command was given is past its expiry, and an       *)
(* ownerless directory has aged when its mtime is one TTL old.             *)
(***************************************************************************)
EXTENDS Naturals, FiniteSets

CONSTANTS
    Proc,             \* processes; a process stands for its pid and for the token it draws
    NoProc,           \* "no such file", as the creator of a file
    DirId,            \* what lstat returns for a directory (dev and ino); may be used again
    NoId,             \* "no such directory"
    Ghost,            \* commands that crashed before the behaviour starts
    Respawning,       \* commands whose caller runs them again once they ended
    CrashPoints,      \* the control points at which a process may be killed
    RecoverersCrash,  \* may one be killed while it holds the recovery claim?
    CreatorsStall,    \* may a creator outlive the TTL between mkdir and owner.json?
    OperatorBreaks,   \* are lease-break and lease-recovery-break run?
    PidsRecycle       \* may the kernel give a dead command's pid to another program?

ASSUME ConstantsAssumption ==
    /\ NoProc \notin Proc
    /\ NoId \notin DirId
    /\ Ghost \subseteq Proc
    /\ Respawning \subseteq Proc
    /\ {RecoverersCrash, CreatorsStall, OperatorBreaks, PidsRecycle} \subseteq BOOLEAN

VARIABLES
    lease,    \* the directory at the path lease/
    claim,    \* the file at the path lease-recovery.claim
    dirTrash, \* quarantined lease directories, by the suffix of their name
    quar,     \* files at the path released-recovery-<token>, by token
    alive,    \* the pids for which process.kill(pid, 0) finds a process
    pc,       \* the next step of each process
    mode,     \* how it came to its current step
    dir,      \* the directory identity it captured
    seen,     \* the creator of the file it decided to remove
    won       \* whether its owner.json was verified (read on the way out of a recovery)

disk  == <<lease, claim, dirTrash, quar>>
local == <<mode, dir, seen, won>>
vars  == <<lease, claim, dirTrash, quar, alive, pc, mode, dir, seen, won>>

-----------------------------------------------------------------------------
(* A file by the process that wrote it; whole once its content is written. *)
NoFile  == [by |-> NoProc, whole |-> FALSE, lapsed |-> FALSE]
File    == {NoFile} \cup [by : Proc, whole : BOOLEAN, lapsed : BOOLEAN]
Created(p) == [by |-> p, whole |-> FALSE, lapsed |-> FALSE]

NoDir   == [id |-> NoId, aged |-> FALSE, owner |-> NoFile]
Dir     == {NoDir} \cup [id : DirId, aged : BOOLEAN, owner : File]
FreshDir(i) == [id |-> i, aged |-> FALSE, owner |-> NoFile]
Owned(d, f) == [d EXCEPT !.owner = f]

(* p writes the content of its file; the expiry recorded in a file passes.  *)
Whole(f, p) == IF f.by = p THEN [f EXCEPT !.whole = TRUE] ELSE f
Aged(d) == [d EXCEPT !.aged = TRUE]
Lapsed(f) == [f EXCEPT !.lapsed = TRUE]

CreationWindow == {"stat", "check1", "check2", "ownstat", "ownopen"}
RecoveryPoints == {"reobserve", "recheck", "move", "purge", "remkdir", "unclaim", "unmove", "unverify"}
StalePoints == {"staleCheck", "staleMove", "staleVerify", "staleRestore", "staleRemove"}
Points == CreationWindow \cup RecoveryPoints \cup StalePoints \cup
    {"start", "observe", "claim", "claimAgain", "claimWrite", "ownwrite",
     "ownverify", "held", "relmove", "done", "crashed"}
Modes == {"none", "create", "recover", "break"}

Running(p) == pc[p] \notin {"done", "crashed"}

(* From the creation of lease-recovery.claim to its removal. *)
HoldsClaim(p) ==
    \/ pc[p] = "claimWrite"
    \/ mode[p] = "recover" /\ pc[p] \notin {"unverify", "held", "relmove", "done", "crashed"}

FreeIds == DirId \ ({lease.id} \cup {dirTrash[k].id : k \in Proc \cup DirId})

(* Mutant: the age of an ownerless directory is not considered. *)
OwnedAdmissible == lease.owner.whole /\ lease.owner.lapsed /\ lease.owner.by \notin alive

(* Mutant: the pid of the owner is not probed. *)
LapsedAdmissible == IF lease.owner = NoFile THEN lease.aged
                    ELSE lease.owner.whole /\ lease.owner.lapsed

(* What a recovery may remove: a whole owner file whose process is gone, or *)
(* a directory that got no owner for one TTL.                              *)
Admissible == IF lease.owner = NoFile THEN lease.aged
              ELSE /\ lease.owner.whole
                   /\ lease.owner.lapsed
                   /\ lease.owner.by \notin alive

TypeOK ==
    /\ lease \in Dir
    /\ claim \in File
    /\ dirTrash \in [Proc \cup DirId -> Dir]
    /\ quar \in [Proc -> File]
    /\ alive \subseteq Proc
    /\ pc \in [Proc -> Points]
    /\ mode \in [Proc -> Modes]
    /\ dir \in [Proc -> DirId \cup {NoId}]
    /\ seen \in [Proc -> Proc \cup {NoProc}]
    /\ won \in [Proc -> BOOLEAN]
    /\ \A p \in Proc : pc[p] \in StalePoints => seen[p] \in Proc

(* A workspace as the earlier commands left it: no lease, a directory      *)
(* without an owner, or the whole or empty owner.json of a crashed command. *)
Leftover == {FreshDir(i) : i \in DirId} \cup
            [id : DirId, aged : {FALSE}, owner : [by : Ghost, whole : BOOLEAN, lapsed : {FALSE}]]

Init ==
    /\ lease \in {NoDir} \cup {d \in Leftover : d.owner = NoFile => Ghost # {}}
    /\ lease.owner.by # NoProc /\ ~lease.owner.whole => "ownwrite" \in CrashPoints
    /\ claim \in {NoFile} \cup [by : Ghost, whole : {TRUE}, lapsed : {FALSE}]
    /\ claim # NoFile => RecoverersCrash
    /\ dirTrash = [k \in Proc \cup DirId |-> NoDir]
    /\ quar = [k \in Proc |-> NoFile]
    /\ alive = Proc \ Ghost
    /\ pc = [p \in Proc |-> IF p \in Ghost THEN "crashed" ELSE "start"]
    /\ mode = [p \in Proc |-> "none"]
    /\ dir = [p \in Proc |-> NoId]
    /\ seen = [p \in Proc |-> NoProc]
    /\ won = [p \in Proc |-> FALSE]

-----------------------------------------------------------------------------
Go(p, point) == pc' = [pc EXCEPT ![p] = point]

(* Leaving acquireWorkspaceLease by an error: the finally block releases   *)
(* the recovery claim of a process that holds one.                         *)
Refuse(p) == Go(p, IF mode[p] = "recover" THEN "unclaim" ELSE "done")

(* mkdir succeeds: this process creates the lease. *)
Create(p) ==
    /\ pc[p] = "start"
    /\ lease = NoDir
    /\ \E i \in FreeIds : lease' = FreshDir(i)
    /\ mode' = [mode EXCEPT ![p] = "create"]
    /\ Go(p, "stat")
    /\ UNCHANGED <<claim, dirTrash, quar, alive, dir, seen, won>>

(* mkdir fails with EEXIST. *)
FindLease(p) ==
    /\ pc[p] = "start"
    /\ lease # NoDir
    /\ Go(p, "observe")
    /\ UNCHANGED <<disk, alive, local>>

(* lstat of the new directory: its identity is the generation this process *)
(* will create an owner for.                                               *)
StatNew(p) ==
    /\ pc[p] = "stat"
    /\ IF lease = NoDir
       THEN Refuse(p) /\ UNCHANGED dir
       ELSE /\ dir' = [dir EXCEPT ![p] = lease.id]
            /\ Go(p, IF mode[p] = "create" THEN "check1" ELSE "ownstat")
    /\ UNCHANGED <<disk, alive, mode, seen, won>>

(* A creator, unlike a recoverer, twice refuses to overlap a recovery.     *)
CheckClaim(p) ==
    /\ pc[p] \in {"check1", "check2"}
    /\ IF claim # NoFile THEN Refuse(p)
       ELSE Go(p, IF pc[p] = "check1" THEN "check2" ELSE "ownstat")
    /\ UNCHANGED <<disk, alive, local>>

(* createLeaseOwner: the directory is still the captured one. *)
OwnerStat(p) ==
    /\ pc[p] = "ownstat"
    /\ IF lease # NoDir /\ lease.id = dir[p] THEN Go(p, "ownopen") ELSE Refuse(p)
    /\ UNCHANGED <<disk, alive, local>>

(* Mutant: without O_EXCL. *)
OwnerOverwrite(p) ==
    /\ pc[p] = "ownopen"
    /\ IF lease # NoDir
       THEN lease' = Owned(lease, Created(p)) /\ Go(p, "ownwrite")
       ELSE Refuse(p) /\ UNCHANGED lease
    /\ UNCHANGED <<claim, dirTrash, quar, alive, local>>

(* open(owner.json, O_CREAT | O_EXCL): in whatever directory is at the path *)
OwnerOpen(p) ==
    /\ pc[p] = "ownopen"
    /\ IF lease # NoDir /\ lease.owner = NoFile
       THEN lease' = Owned(lease, Created(p)) /\ Go(p, "ownwrite")
       ELSE Refuse(p) /\ UNCHANGED lease
    /\ UNCHANGED <<claim, dirTrash, quar, alive, local>>

(* Mutant: the content is written by path. *)
OwnerWriteByPath(p) ==
    /\ pc[p] = "ownwrite"
    /\ lease' = Owned(lease, [lease.owner EXCEPT !.whole = TRUE])
    /\ Go(p, "ownverify")
    /\ UNCHANGED <<claim, dirTrash, quar, alive, local>>

(* The content goes through the descriptor, wherever the file is by now. *)
OwnerWrite(p) ==
    /\ pc[p] = "ownwrite"
    /\ lease' = Owned(lease, Whole(lease.owner, p))
    /\ Go(p, "ownverify")
    /\ UNCHANGED <<claim, dirTrash, quar, alive, local>>

(* Both identities again; a mismatch leaves the owner file where it is. *)
OwnerVerify(p) ==
    /\ pc[p] = "ownverify"
    /\ IF lease.id = dir[p] /\ lease.owner.by = p
       THEN /\ won' = [won EXCEPT ![p] = TRUE]
            /\ Go(p, IF mode[p] = "recover" THEN "unclaim" ELSE "held")
       ELSE Refuse(p) /\ UNCHANGED won
    /\ UNCHANGED <<disk, alive, mode, dir, seen>>

-----------------------------------------------------------------------------
(* The lease exists: is it another writer's? *)
Observe(p) ==
    /\ pc[p] = "observe"
    /\ IF lease # NoDir /\ Admissible THEN Go(p, "claim") ELSE Refuse(p)
    /\ UNCHANGED <<disk, alive, local>>

(* open(lease-recovery.claim, O_CREAT | O_EXCL). *)
ClaimCreate(p) ==
    /\ pc[p] \in {"claim", "claimAgain"}
    /\ claim = NoFile
    /\ claim' = Created(p)
    /\ Go(p, "claimWrite")
    /\ UNCHANGED <<lease, dirTrash, quar, alive, local>>

(* Mutant: a lapsed claim is reclaimed from a running process. *)
ClaimFoundLapsed(p) ==
    /\ pc[p] \in {"claim", "claimAgain"}
    /\ claim # NoFile
    /\ IF pc[p] = "claim" /\ claim.whole /\ claim.lapsed
       THEN seen' = [seen EXCEPT ![p] = claim.by] /\ Go(p, "staleCheck")
       ELSE Refuse(p) /\ UNCHANGED seen
    /\ UNCHANGED <<disk, alive, mode, dir, won>>

(* EEXIST: a whole claim whose process is gone is reclaimed, once. *)
ClaimFound(p) ==
    /\ pc[p] \in {"claim", "claimAgain"}
    /\ claim # NoFile
    /\ IF /\ pc[p] = "claim"
          /\ claim.whole /\ claim.lapsed
          /\ claim.by \notin alive
       THEN seen' = [seen EXCEPT ![p] = claim.by] /\ Go(p, "staleCheck")
       ELSE Refuse(p) /\ UNCHANGED seen
    /\ UNCHANGED <<disk, alive, mode, dir, won>>

(* The claim's content, then the check that the path still names it. *)
ClaimWrite(p) ==
    /\ pc[p] = "claimWrite"
    /\ claim' = Whole(claim, p)
    /\ quar' = [k \in Proc |-> Whole(quar[k], p)]
    /\ IF claim.by = p
       THEN mode' = [mode EXCEPT ![p] = "recover"] /\ Go(p, "reobserve")
       ELSE Refuse(p) /\ UNCHANGED mode
    /\ UNCHANGED <<lease, dirTrash, alive, dir, seen, won>>

(* reclaimStaleRecoveryClaim: check, rename, check what was renamed. *)
StaleCheck(p) ==
    /\ pc[p] = "staleCheck"
    /\ IF claim.by = seen[p] THEN Go(p, "staleMove") ELSE Refuse(p)
    /\ UNCHANGED <<disk, alive, local>>

StaleMove(p) ==
    /\ pc[p] = "staleMove"
    /\ IF claim = NoFile
       THEN Refuse(p) /\ UNCHANGED <<claim, quar>>
       ELSE /\ quar' = [quar EXCEPT ![seen[p]] = claim]
            /\ claim' = NoFile
            /\ Go(p, "staleVerify")
    /\ UNCHANGED <<lease, dirTrash, alive, local>>

StaleVerify(p) ==
    /\ pc[p] = "staleVerify"
    /\ CASE quar[seen[p]].by = seen[p] -> Go(p, "staleRemove")
         [] quar[seen[p]] = NoFile     -> Refuse(p)
         [] OTHER                      -> Go(p, "staleRestore")
    /\ UNCHANGED <<disk, alive, local>>

(* Another claim was moved: it is renamed back, over whatever is there now. *)
StaleRestore(p) ==
    /\ pc[p] = "staleRestore"
    /\ IF quar[seen[p]] = NoFile
       THEN UNCHANGED <<claim, quar>>
       ELSE /\ claim' = quar[seen[p]]
            /\ quar' = [quar EXCEPT ![seen[p]] = NoFile]
    /\ Refuse(p)
    /\ UNCHANGED <<lease, dirTrash, alive, local>>

StaleRemove(p) ==
    /\ pc[p] = "staleRemove"
    /\ quar' = [quar EXCEPT ![seen[p]] = NoFile]
    /\ IF mode[p] = "break" \/ quar[seen[p]] = NoFile THEN Refuse(p) ELSE Go(p, "claimAgain")
    /\ UNCHANGED <<lease, claim, dirTrash, alive, local>>

-----------------------------------------------------------------------------
(* Mutant: what was observed before the claim is not checked again. *)
ReobserveNothing(p) ==
    /\ pc[p] = "reobserve"
    /\ IF lease # NoDir
       THEN /\ dir' = [dir EXCEPT ![p] = lease.id]
            /\ seen' = [seen EXCEPT ![p] = lease.owner.by]
            /\ Go(p, "recheck")
       ELSE Refuse(p) /\ UNCHANGED <<dir, seen>>
    /\ UNCHANGED <<disk, alive, mode, won>>

(* Holding the claim: observe the lease again, and remember what is seen. *)
Reobserve(p) ==
    /\ pc[p] = "reobserve"
    /\ IF lease # NoDir /\ Admissible
       THEN /\ dir' = [dir EXCEPT ![p] = lease.id]
            /\ seen' = [seen EXCEPT ![p] = lease.owner.by]
            /\ Go(p, "recheck")
       ELSE Refuse(p) /\ UNCHANGED <<dir, seen>>
    /\ UNCHANGED <<disk, alive, mode, won>>

(* reclaimObservedLease: the directory and its owner are those observed. *)
Recheck(p) ==
    /\ pc[p] = "recheck"
    /\ IF lease # NoDir /\ lease.id = dir[p] /\ lease.owner.by = seen[p]
       THEN Go(p, "move") ELSE Refuse(p)
    /\ UNCHANGED <<disk, alive, local>>

TrashKey(p) == IF seen[p] # NoProc THEN seen[p] ELSE dir[p]

(* rename of whatever is at the path now; a directory replaces at most an  *)
(* empty one.                                                              *)
Move(p) ==
    /\ pc[p] = "move"
    /\ IF lease = NoDir \/ dirTrash[TrashKey(p)].owner # NoFile
       THEN Refuse(p) /\ UNCHANGED <<lease, dirTrash>>
       ELSE /\ dirTrash' = [dirTrash EXCEPT ![TrashKey(p)] = lease]
            /\ lease' = NoDir
            /\ Go(p, "purge")
    /\ UNCHANGED <<claim, quar, alive, local>>

(* Mutant: another generation is put back, as the claim is. *)
PurgeRestoring(p) ==
    /\ pc[p] = "purge"
    /\ dirTrash' = [dirTrash EXCEPT ![TrashKey(p)] = NoDir]
    /\ IF dirTrash[TrashKey(p)].id = dir[p]
       THEN UNCHANGED lease /\ IF mode[p] = "break" THEN Refuse(p) ELSE Go(p, "remkdir")
       ELSE lease' = dirTrash[TrashKey(p)] /\ Refuse(p)
    /\ UNCHANGED <<claim, quar, alive, local>>

(* Only the observed generation is deleted; another one stays quarantined. *)
Purge(p) ==
    /\ pc[p] = "purge"
    /\ IF dirTrash[TrashKey(p)].id = dir[p]
       THEN /\ dirTrash' = [dirTrash EXCEPT ![TrashKey(p)] = NoDir]
            /\ IF mode[p] = "break" THEN Refuse(p) ELSE Go(p, "remkdir")
       ELSE Refuse(p) /\ UNCHANGED dirTrash
    /\ UNCHANGED <<lease, claim, quar, alive, local>>

(* mkdir again: another command may have been faster. *)
Remkdir(p) ==
    /\ pc[p] = "remkdir"
    /\ IF lease = NoDir
       THEN (\E i \in FreeIds : lease' = FreshDir(i)) /\ Go(p, "stat")
       ELSE Refuse(p) /\ UNCHANGED lease
    /\ UNCHANGED <<claim, dirTrash, quar, alive, local>>

(* releaseRecoveryClaim: check, rename, check; an error here replaces the   *)
(* result of the acquisition, even of one that succeeded.                  *)
Unclaim(p) ==
    /\ pc[p] = "unclaim"
    /\ Go(p, IF claim.by = p THEN "unmove" ELSE "done")
    /\ UNCHANGED <<disk, alive, local>>

UnclaimMove(p) ==
    /\ pc[p] = "unmove"
    /\ IF claim = NoFile
       THEN Go(p, "done") /\ UNCHANGED <<claim, quar>>
       ELSE /\ quar' = [quar EXCEPT ![p] = claim]
            /\ claim' = NoFile
            /\ Go(p, "unverify")
    /\ UNCHANGED <<lease, dirTrash, alive, local>>

UnclaimVerify(p) ==
    /\ pc[p] = "unverify"
    /\ IF quar[p].by = p
       THEN quar' = [quar EXCEPT ![p] = NoFile] /\ Go(p, IF won[p] THEN "held" ELSE "done")
       ELSE Go(p, "done") /\ UNCHANGED quar
    /\ UNCHANGED <<lease, claim, dirTrash, alive, local>>

-----------------------------------------------------------------------------
(* assertLease: the path holds a whole owner.json with this token.         *)
OwnsLease(p) == lease.owner.by = p /\ lease.owner.whole

Release(p) ==
    /\ pc[p] = "held"
    /\ Go(p, IF OwnsLease(p) THEN "relmove" ELSE "done")
    /\ UNCHANGED <<disk, alive, local>>

(* The rename and the removal of what it moved. *)
ReleaseMove(p) ==
    /\ pc[p] = "relmove"
    /\ lease' = NoDir
    /\ Go(p, "done")
    /\ UNCHANGED <<claim, dirTrash, quar, alive, local>>

(* lease-break: the inspected token and the expiry, not the pid. *)
BreakLease(p) ==
    /\ OperatorBreaks
    /\ pc[p] = "start"
    /\ lease.owner.whole /\ lease.owner.lapsed
    /\ mode' = [mode EXCEPT ![p] = "break"]
    /\ dir' = [dir EXCEPT ![p] = lease.id]
    /\ seen' = [seen EXCEPT ![p] = lease.owner.by]
    /\ Go(p, "recheck")
    /\ UNCHANGED <<disk, alive, won>>

(* lease-recovery-break. *)
BreakClaim(p) ==
    /\ OperatorBreaks
    /\ pc[p] = "start"
    /\ claim.whole /\ claim.lapsed
    /\ mode' = [mode EXCEPT ![p] = "break"]
    /\ seen' = [seen EXCEPT ![p] = claim.by]
    /\ Go(p, "staleCheck")
    /\ UNCHANGED <<disk, alive, dir, won>>

-----------------------------------------------------------------------------
(* The environment: kills, exits, pids, new commands and time.             *)
Crash(p) ==
    /\ pc[p] \in CrashPoints
    /\ HoldsClaim(p) => RecoverersCrash
    /\ Go(p, "crashed")
    /\ alive' = alive \ {p}
    /\ UNCHANGED <<disk, local>>

Exit(p) ==
    /\ pc[p] = "done"
    /\ p \in alive
    /\ alive' = alive \ {p}
    /\ UNCHANGED <<disk, pc, local>>

Recycle(p) ==
    /\ PidsRecycle
    /\ ~Running(p)
    /\ alive' = alive \cup {p}
    /\ UNCHANGED <<disk, pc, local>>

(* A process of which no trace is left stands for a new one: pids and      *)
(* tokens are compared only for equality.                                  *)
Traceless(p) ==
    /\ p \notin {lease.owner.by, claim.by}
    /\ \A k \in Proc : quar[k].by # p
    /\ \A k \in Proc \cup DirId : dirTrash[k].owner.by # p
    /\ quar[p] = NoFile /\ dirTrash[p] = NoDir
    /\ \A q \in Proc : Running(q) => seen[q] # p

Respawn(p) ==
    /\ p \in Respawning
    /\ ~Running(p) /\ p \notin alive
    /\ Traceless(p)
    /\ alive' = alive \cup {p}
    /\ Go(p, "start")
    /\ mode' = [mode EXCEPT ![p] = "none"]
    /\ dir' = [dir EXCEPT ![p] = NoId]
    /\ seen' = [seen EXCEPT ![p] = NoProc]
    /\ won' = [won EXCEPT ![p] = FALSE]
    /\ UNCHANGED disk

(* The next command is given an instant past the recorded expiry. *)
LapseOwner ==
    /\ lease.owner.whole /\ ~lease.owner.lapsed
    /\ lease' = Owned(lease, Lapsed(lease.owner))
    /\ UNCHANGED <<claim, dirTrash, quar, alive, pc, local>>

LapseClaim ==
    /\ claim.whole /\ ~claim.lapsed
    /\ claim' = Lapsed(claim)
    /\ UNCHANGED <<lease, dirTrash, quar, alive, pc, local>>

(* One TTL passes over an ownerless directory.  Unless creators may stall,  *)
(* none is between its mkdir and its owner.json by then.                   *)
Age ==
    /\ lease # NoDir /\ lease.owner = NoFile /\ ~lease.aged
    /\ CreatorsStall \/ \A p \in Proc : pc[p] \notin CreationWindow
    /\ lease' = Aged(lease)
    /\ UNCHANGED <<claim, dirTrash, quar, alive, pc, local>>

-----------------------------------------------------------------------------
Step(p) ==
    \/ Create(p) \/ FindLease(p) \/ StatNew(p) \/ CheckClaim(p)
    \/ OwnerStat(p) \/ OwnerOpen(p) \/ OwnerWrite(p) \/ OwnerVerify(p)
    \/ Observe(p) \/ ClaimCreate(p) \/ ClaimFound(p) \/ ClaimWrite(p)
    \/ StaleCheck(p) \/ StaleMove(p) \/ StaleVerify(p) \/ StaleRestore(p) \/ StaleRemove(p)
    \/ Reobserve(p) \/ Recheck(p) \/ Move(p) \/ Purge(p) \/ Remkdir(p)
    \/ Unclaim(p) \/ UnclaimMove(p) \/ UnclaimVerify(p)
    \/ Release(p) \/ ReleaseMove(p) \/ Exit(p)

Next ==
    \/ \E p \in Proc : Step(p) \/ BreakLease(p) \/ BreakClaim(p)
                       \/ Crash(p) \/ Recycle(p) \/ Respawn(p)
    \/ LapseOwner \/ LapseClaim \/ Age

Spec == Init /\ [][Next]_vars

-----------------------------------------------------------------------------
(* A command that was given the lease, and has not been killed or returned *)
(* it, still owns it: nobody's recovery moved its directory away.          *)
HolderOwns == \A p \in Proc : pc[p] \in {"held", "relmove"} => OwnsLease(p)

(* Only one process at a time replaces a dead lease: whoever is past the   *)
(* creation of the recovery claim still has its claim at the path.         *)
OneRecoverer == \A p \in Proc : HoldsClaim(p) => claim.by = p

(* The old directory is never adopted: an owner.json leaves the path only  *)
(* together with its directory, and so does never give way to another one. *)
GenerationNeverAdopted ==
    [][lease.owner # NoFile /\ lease'.owner.by # lease.owner.by => lease' = NoDir]_vars

(* assertLease compares the token only.  That is enough because a          *)
(* generation that was moved away never comes back.                        *)
LostLeaseStaysLost ==
    [][\A p \in Proc : pc[p] \in {"held", "relmove"} /\ ~OwnsLease(p) => ~OwnsLease(p)']_vars

(* The protocol implements the exclusive lease, whose holder is the author *)
(* of owner.json.                                                          *)
Author == lease.owner.by
Up == {p \in Proc : Running(p)}
Exclusive == INSTANCE ExclusiveLease WITH holder <- Author, up <- Up
ImplementsExclusiveLease == Exclusive!Spec

(* Why HolderOwns and OneRecoverer hold when no recoverer is killed, no     *)
(* creator stalls and no lease is broken: their inductive strengthening.   *)
PointsOfMode == \A p \in Proc :
    /\ mode[p] = "none" => pc[p] \in {"start", "observe", "claim", "claimWrite", "done", "crashed"}
    /\ mode[p] = "create" => pc[p] \in CreationWindow \cup
                                 {"ownwrite", "ownverify", "held", "relmove", "done", "crashed"}
    /\ mode[p] = "recover" => pc[p] \in RecoveryPoints \cup
                                 {"stat", "ownstat", "ownopen", "ownwrite", "ownverify",
                                  "held", "relmove", "done", "crashed"}
    /\ mode[p] # "break"
    /\ won[p] => pc[p] \in {"unclaim", "unmove", "unverify", "held", "relmove", "done", "crashed"}

RunningIsAlive == \A p \in Proc : Running(p) => p \in alive

(* The claim at the path is that of the one running recoverer. *)
ClaimIsHeld == \A p \in Proc : HoldsClaim(p) <=> claim.by = p

(* One creator at a time, in the young ownerless directory it made. *)
WindowIsOpen == \A p \in Proc : pc[p] \in CreationWindow =>
    /\ lease # NoDir /\ lease.owner = NoFile /\ ~lease.aged
    /\ pc[p] = "stat" \/ dir[p] = lease.id
    /\ \A q \in Proc : pc[q] \in CreationWindow => q = p

(* From the creation of owner.json to the end of the release. *)
AuthorOwns == \A p \in Proc :
    /\ pc[p] \in {"ownwrite", "ownverify"} => lease.owner.by = p /\ lease.id = dir[p]
    /\ \/ pc[p] \in {"ownverify", "held", "relmove"}
       \/ pc[p] \in {"unclaim", "unmove", "unverify"} /\ won[p]
       => OwnsLease(p)

(* What a recoverer is about to move is still what it may remove. *)
ObservedIsDead == \A p \in Proc : pc[p] \in {"recheck", "move"} =>
    /\ lease # NoDir /\ lease.id = dir[p] /\ lease.owner.by = seen[p]
    /\ IF seen[p] = NoProc THEN lease.aged ELSE ~Running(seen[p])

LeaseInv == /\ PointsOfMode /\ RunningIsAlive /\ ClaimIsHeld
            /\ WindowIsOpen /\ AuthorOwns /\ ObservedIsDead

(* Every command runs on, clocks do not stop, and an operator who keeps    *)
(* finding a lapsed lease or claim breaks it in the end.                   *)
Fairness ==
    /\ \A p \in Proc : WF_vars(Step(p)) /\ WF_vars(Respawn(p))
    /\ WF_vars(LapseOwner) /\ WF_vars(LapseClaim) /\ WF_vars(Age)
    /\ SF_vars(\E p \in Proc : BreakLease(p))
    /\ SF_vars(\E p \in Proc : BreakClaim(p))

FairSpec == Spec /\ Fairness

-----------------------------------------------------------------------------
(* If commands keep being started, some of them keep getting the lease,     *)
(* once no more of them is killed and no more pid is reused.               *)
EventuallyQuiet == <>[][\A p \in Proc : ~Crash(p) /\ ~Recycle(p)]_vars
KeepStarting == []<>(\E p \in Respawning : pc[p] = "start")
LeaseRecovers == EventuallyQuiet /\ KeepStarting => []<>(\E p \in Respawning : pc[p] = "held")
=============================================================================
