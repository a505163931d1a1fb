------------------------ MODULE WorkspaceLease_proofs ------------------------
(***************************************************************************)
(* Proofs about WorkspaceLease for any number of processes and directory   *)
(* identities.  First what the operators on files and directories return,  *)
(* then typing, the inductive invariant LeaseInv and the two exclusions it *)
(* implies, two facts about generations that need no assumption at all, and*)
(* the refinement of ExclusiveLease.                                       *)
(***************************************************************************)
EXTENDS WorkspaceLease, TLAPS

(* "No such file" is a file value nobody wrote. *)
LEMMA NoFileType == NoFile \in File /\ NoFile.by = NoProc /\ ~NoFile.whole
BY DEF NoFile, File

(* The author of a file tells whether it exists. *)
LEMMA FileType ==
    ASSUME NEW f \in File
    PROVE  /\ f.by \in Proc \cup {NoProc}
           /\ f.whole \in BOOLEAN
           /\ f.by = NoProc <=> f = NoFile
<1>1. CASE f = NoFile BY <1>1 DEF NoFile
<1>2. CASE f \in [by : Proc, whole : BOOLEAN, lapsed : BOOLEAN]
  BY <1>2, NoFileType, ConstantsAssumption
<1>3. QED BY <1>1, <1>2 DEF File

(* A file just created has its author and no content. *)
LEMMA CreatedType ==
    ASSUME NEW p \in Proc
    PROVE  Created(p) \in File /\ Created(p).by = p /\ ~Created(p).whole
BY DEF File, Created

(* Writing completes the file of the writer and no other one. *)
LEMMA WholeType ==
    ASSUME NEW f \in File, NEW p \in Proc
    PROVE  /\ Whole(f, p) \in File
           /\ Whole(f, p).by = f.by
           /\ f.by = p => Whole(f, p).whole
           /\ f.by # p => Whole(f, p) = f
<1>1. CASE f.by # p BY <1>1 DEF Whole
<1>2. CASE f.by = p
  <2>1. f # NoFile BY <1>2, NoFileType, ConstantsAssumption
  <2>2. f \in [by : Proc, whole : BOOLEAN, lapsed : BOOLEAN] BY <2>1 DEF File
  <2>3. Whole(f, p) = [f EXCEPT !.whole = TRUE] BY <1>2 DEF Whole
  <2>4. QED BY <1>2, <2>2, <2>3 DEF File
<1>3. QED BY <1>1, <1>2

(* That its expiry passes changes nothing else of a file. *)
LEMMA LapsedType ==
    ASSUME NEW f \in File, f.whole
    PROVE  Lapsed(f) \in File /\ Lapsed(f).by = f.by /\ Lapsed(f).whole = f.whole
<1>1. f \in [by : Proc, whole : BOOLEAN, lapsed : BOOLEAN] BY NoFileType DEF File
<1>2. QED BY <1>1 DEF File, Lapsed

(* "No such directory" has no identity and no owner. *)
LEMMA NoDirType == NoDir \in Dir /\ NoDir.id = NoId /\ NoDir.owner = NoFile
BY DEF NoDir, Dir

(* The identity of a directory tells whether it exists. *)
LEMMA DirType ==
    ASSUME NEW d \in Dir
    PROVE  /\ d.id \in DirId \cup {NoId}
           /\ d.owner \in File
           /\ d.aged \in BOOLEAN
           /\ d.id = NoId <=> d = NoDir
<1>1. CASE d = NoDir BY <1>1, NoFileType DEF NoDir
<1>2. CASE d \in [id : DirId, aged : BOOLEAN, owner : File]
  BY <1>2, NoDirType, ConstantsAssumption
<1>3. QED BY <1>1, <1>2 DEF Dir

(* A directory just created has no owner and no age. *)
LEMMA FreshDirType ==
    ASSUME NEW i \in DirId
    PROVE  /\ FreshDir(i) \in Dir
           /\ FreshDir(i).id = i
           /\ FreshDir(i).owner = NoFile
           /\ ~FreshDir(i).aged
           /\ FreshDir(i) # NoDir
BY NoFileType, NoDirType, ConstantsAssumption DEF Dir, FreshDir

(* A directory keeps its identity when its owner file changes. *)
LEMMA OwnedType ==
    ASSUME NEW d \in Dir, NEW f \in File, d = NoDir => f = NoFile
    PROVE  /\ Owned(d, f) \in Dir
           /\ Owned(d, f).id = d.id
           /\ Owned(d, f).owner = f
           /\ Owned(d, f).aged = d.aged
<1>1. CASE d = NoDir
  <2>1. NoDir \in [id : {NoId}, aged : BOOLEAN, owner : {NoFile}] BY DEF NoDir
  <2>2. Owned(NoDir, NoFile) = NoDir BY <2>1 DEF Owned
  <2>3. QED BY <1>1, <2>2, NoDirType
<1>2. CASE d \in [id : DirId, aged : BOOLEAN, owner : File] BY <1>2 DEF Dir, Owned
<1>3. QED BY <1>1, <1>2 DEF Dir

(* A directory keeps its identity and owner when it ages. *)
LEMMA AgedType ==
    ASSUME NEW d \in Dir, d # NoDir
    PROVE  Aged(d) \in Dir /\ Aged(d).id = d.id /\ Aged(d).owner = d.owner
BY NoFileType DEF Dir, Aged

(* Every step keeps the types, one case for each action. *)
LEMMA TypingStep == TypeOK /\ [Next]_vars => TypeOK'
<1> SUFFICES ASSUME TypeOK, [Next]_vars PROVE TypeOK'
    OBVIOUS
<1> USE DEF TypeOK
<1>1. ASSUME NEW p \in Proc, Step(p) PROVE TypeOK'
  <2> USE DEF Go, Refuse, Points, CreationWindow, RecoveryPoints, StalePoints, Modes, disk, local
  <2>1. CASE Create(p) BY <2>1, FreshDirType DEF Create, FreeIds
  <2>2. CASE FindLease(p) BY <2>2 DEF FindLease
  <2>3. CASE StatNew(p) BY <2>3, DirType DEF StatNew
  <2>4. CASE CheckClaim(p) BY <2>4 DEF CheckClaim
  <2>5. CASE OwnerStat(p) BY <2>5 DEF OwnerStat
  <2>6. CASE OwnerOpen(p)
    <3>1. CASE lease # NoDir /\ lease.owner = NoFile
      <4>a. Created(p) \in File BY CreatedType
      <4>b. Owned(lease, Created(p)) \in Dir BY <3>1, <4>a, OwnedType
      <4>1. lease' \in Dir BY <2>6, <3>1, <4>b DEF OwnerOpen
      <4>2. QED BY <2>6, <3>1, <4>1 DEF OwnerOpen
    <3>2. CASE ~(lease # NoDir /\ lease.owner = NoFile) BY <2>6, <3>2 DEF OwnerOpen
    <3>3. QED BY <3>1, <3>2
  <2>7. CASE OwnerWrite(p)
    <3>1. lease' \in Dir
      <4>1. lease.owner \in File /\ lease.owner.by \in Proc \cup {NoProc} BY DirType, FileType
      <4>2. lease = NoDir => Whole(lease.owner, p) = NoFile
        <5>1. NoFile.by # p BY NoFileType, ConstantsAssumption
        <5>2. Whole(NoFile, p) = NoFile BY <5>1 DEF Whole
        <5>3. QED BY <5>2, NoDirType
      <4>3. Whole(lease.owner, p) \in File BY <4>1, WholeType
      <4>4. QED BY <2>7, <4>2, <4>3, OwnedType DEF OwnerWrite
    <3>2. pc' \in [Proc -> Points] /\ \A q \in Proc : pc'[q] \in StalePoints => seen[q] \in Proc
      BY <2>7 DEF OwnerWrite
    <3>3. QED BY <2>7, <3>1, <3>2 DEF OwnerWrite
  <2>8. CASE OwnerVerify(p)
    <3>1. won' \in [Proc -> BOOLEAN] BY <2>8 DEF OwnerVerify
    <3>2. pc' \in [Proc -> Points] /\ \A q \in Proc : pc'[q] \in StalePoints => seen[q] \in Proc
      BY <2>8 DEF OwnerVerify
    <3>3. QED BY <2>8, <3>1, <3>2 DEF OwnerVerify
  <2>9. CASE Observe(p) BY <2>9 DEF Observe
  <2>10. CASE ClaimCreate(p) BY <2>10, CreatedType DEF ClaimCreate
  <2>11. CASE ClaimFound(p) BY <2>11, FileType, NoFileType DEF ClaimFound
  <2>12. CASE ClaimWrite(p)
    <3>1. claim' \in File BY <2>12, WholeType DEF ClaimWrite
    <3>2. ASSUME NEW k \in Proc PROVE Whole(quar[k], p) \in File BY WholeType
    <3>3. quar' \in [Proc -> File] BY <2>12, <3>2 DEF ClaimWrite
    <3>4. QED BY <2>12, <3>1, <3>3 DEF ClaimWrite
  <2>13. CASE StaleCheck(p) BY <2>13 DEF StaleCheck
  <2>14. CASE StaleMove(p) BY <2>14, NoFileType DEF StaleMove
  <2>15. CASE StaleVerify(p) BY <2>15 DEF StaleVerify
  <2>16. CASE StaleRestore(p) BY <2>16, NoFileType DEF StaleRestore
  <2>17. CASE StaleRemove(p) BY <2>17, NoFileType DEF StaleRemove
  <2>18. CASE Reobserve(p)
    <3>1. lease.id \in DirId \cup {NoId} /\ lease.owner.by \in Proc \cup {NoProc}
      BY DirType, FileType
    <3>2. /\ dir' \in [Proc -> DirId \cup {NoId}]
          /\ seen' \in [Proc -> Proc \cup {NoProc}]
      BY <2>18, <3>1 DEF Reobserve
    <3>3. pc' \in [Proc -> Points] /\ \A q \in Proc : pc'[q] \in StalePoints => seen'[q] \in Proc
      BY <2>18 DEF Reobserve
    <3>4. QED BY <2>18, <3>2, <3>3 DEF Reobserve
  <2>19. CASE Recheck(p) BY <2>19 DEF Recheck
  <2>20. CASE Move(p) BY <2>20, NoDirType DEF Move, TrashKey
  <2>21. CASE Purge(p) BY <2>21, NoDirType DEF Purge, TrashKey
  <2>22. CASE Remkdir(p)
    <3>1. lease' \in Dir BY <2>22, FreshDirType DEF Remkdir, FreeIds
    <3>2. QED BY <2>22, <3>1 DEF Remkdir
  <2>23. CASE Unclaim(p) BY <2>23 DEF Unclaim
  <2>24. CASE UnclaimMove(p) BY <2>24, NoFileType DEF UnclaimMove
  <2>25. CASE UnclaimVerify(p) BY <2>25, NoFileType DEF UnclaimVerify
  <2>26. CASE Release(p) BY <2>26 DEF Release
  <2>27. CASE ReleaseMove(p) BY <2>27, NoDirType DEF ReleaseMove
  <2>28. CASE Exit(p) BY <2>28 DEF Exit
  <2>29. QED BY <1>1, <2>1, <2>2, <2>3, <2>4, <2>5, <2>6, <2>7, <2>8, <2>9, <2>10,
            <2>11, <2>12, <2>13, <2>14, <2>15, <2>16, <2>17, <2>18, <2>19, <2>20,
            <2>21, <2>22, <2>23, <2>24, <2>25, <2>26, <2>27, <2>28 DEF Step
<1> USE DEF Go, Points, CreationWindow, RecoveryPoints, StalePoints, Modes, disk, local
<1>2. ASSUME NEW p \in Proc, BreakLease(p) PROVE TypeOK'
  BY <1>2, DirType, FileType DEF BreakLease
<1>3. ASSUME NEW p \in Proc, BreakClaim(p) PROVE TypeOK'
  BY <1>3, FileType, NoFileType DEF BreakClaim
<1>4. ASSUME NEW p \in Proc, Crash(p) PROVE TypeOK'
  BY <1>4 DEF Crash
<1>5. ASSUME NEW p \in Proc, Recycle(p) PROVE TypeOK'
  BY <1>5 DEF Recycle
<1>6. ASSUME NEW p \in Proc, Respawn(p) PROVE TypeOK'
  BY <1>6 DEF Respawn
<1>7. CASE LapseOwner BY <1>7, DirType, FileType, NoFileType, NoDirType, LapsedType, OwnedType DEF LapseOwner
<1>8. CASE LapseClaim BY <1>8, LapsedType DEF LapseClaim
<1>9. CASE Age BY <1>9, AgedType DEF Age
<1>10. CASE UNCHANGED vars BY <1>10 DEF vars
<1>11. QED BY <1>1, <1>2, <1>3, <1>4, <1>5, <1>6, <1>7, <1>8, <1>9, <1>10 DEF Next

(* Files, directories and the variables of every process keep their types,  *)
(* and a process that works on a quarantined claim knows whose it took it   *)
(* for.                                                                     *)
THEOREM Typing == Spec => []TypeOK
<1>1. ASSUME Init PROVE TypeOK
  <2>1. lease \in Dir
    <3>1. lease = NoDir \/ lease \in Leftover BY <1>1 DEF Init
    <3>2. CASE lease = NoDir BY <3>2, NoDirType
    <3>3. CASE \E i \in DirId : lease = FreshDir(i) BY <3>3, FreshDirType
    <3>4. CASE lease \in [id : DirId, aged : {FALSE},
                          owner : [by : Ghost, whole : BOOLEAN, lapsed : {FALSE}]]
      BY <3>4, ConstantsAssumption DEF Dir, File
    <3>5. QED BY <3>1, <3>2, <3>3, <3>4 DEF Leftover
  <2>2. claim \in File BY <1>1, NoFileType, ConstantsAssumption DEF Init, File
  <2>3. dirTrash \in [Proc \cup DirId -> Dir] /\ quar \in [Proc -> File]
    BY <1>1, NoFileType, NoDirType DEF Init
  <2>4. pc \in [Proc -> Points] BY <1>1 DEF Init, Points
  <2>5. alive \subseteq Proc /\ mode \in [Proc -> Modes] BY <1>1 DEF Init, Modes
  <2>6. /\ dir \in [Proc -> DirId \cup {NoId}]
        /\ seen \in [Proc -> Proc \cup {NoProc}]
        /\ won \in [Proc -> BOOLEAN]
        /\ \A p \in Proc : pc[p] \notin StalePoints
    BY <1>1 DEF Init, StalePoints
  <2>7. QED BY <2>1, <2>2, <2>3, <2>4, <2>5, <2>6 DEF TypeOK
<1>2. QED BY <1>1, TypingStep, PTL DEF Spec


(* No recoverer is killed, no creator is suspended for a whole TTL, and no  *)
(* operator breaks a lease that has lapsed.                                *)
Undisturbed == ~RecoverersCrash /\ ~CreatorsStall /\ ~OperatorBreaks

(* LeaseInv is inductive, given the types: a case for each action, and in
   it a step for each part of the invariant the action can disturb. *)
LEMMA LeaseInvStep ==
    ASSUME Undisturbed, TypeOK, TypeOK', LeaseInv, [Next]_vars
    PROVE  LeaseInv'
<1> USE DEF TypeOK, Go, Refuse, disk, local, LeaseInv, PointsOfMode, RunningIsAlive,
            ClaimIsHeld, WindowIsOpen, AuthorOwns, ObservedIsDead, Running, HoldsClaim,
            OwnsLease, CreationWindow, RecoveryPoints, StalePoints
<1>1. ASSUME NEW p \in Proc, Step(p) PROVE LeaseInv'
  <2>1. CASE Create(p)
    <3>1. PICK i \in DirId : lease' = FreshDir(i) BY <2>1 DEF Create, FreeIds
    <3>2. /\ lease.owner.by = NoProc /\ NoProc \notin Proc
          /\ lease' # NoDir /\ lease'.owner = NoFile /\ ~lease'.aged
      BY <2>1, <3>1, FreshDirType, NoDirType, NoFileType, ConstantsAssumption DEF Create
    <3>3. PointsOfMode' /\ RunningIsAlive' /\ ClaimIsHeld' BY <2>1 DEF Create
    <3>4. WindowIsOpen' BY <2>1, <3>2 DEF Create
    <3>5. AuthorOwns' /\ ObservedIsDead' BY <2>1, <3>2 DEF Create
    <3>6. QED BY <3>3, <3>4, <3>5
  <2>2. CASE FindLease(p)
    <3>1. PointsOfMode' /\ RunningIsAlive' /\ ClaimIsHeld' BY <2>2 DEF FindLease
    <3>2. WindowIsOpen' /\ AuthorOwns' /\ ObservedIsDead' BY <2>2 DEF FindLease
    <3>3. QED BY <3>1, <3>2
  <2>3. CASE StatNew(p)
    <3>1. PointsOfMode' /\ RunningIsAlive' /\ ClaimIsHeld' BY <2>3 DEF StatNew
    <3>2. WindowIsOpen' /\ AuthorOwns' /\ ObservedIsDead' BY <2>3 DEF StatNew
    <3>3. QED BY <3>1, <3>2
  <2>4. CASE CheckClaim(p)
    <3>1. PointsOfMode' /\ RunningIsAlive' /\ ClaimIsHeld' BY <2>4 DEF CheckClaim
    <3>2. WindowIsOpen' /\ AuthorOwns' /\ ObservedIsDead' BY <2>4 DEF CheckClaim
    <3>3. QED BY <3>1, <3>2
  <2>5. CASE OwnerStat(p)
    <3>1. PointsOfMode' /\ RunningIsAlive' /\ ClaimIsHeld' BY <2>5 DEF OwnerStat
    <3>2. WindowIsOpen' /\ AuthorOwns' /\ ObservedIsDead' BY <2>5 DEF OwnerStat
    <3>3. QED BY <3>1, <3>2
  <2>6. CASE OwnerOpen(p)
    <3>1. CASE lease # NoDir /\ lease.owner = NoFile
      <4>1. Created(p) \in File /\ Created(p).by = p BY CreatedType
      <4>2. /\ lease' = Owned(lease, Created(p)) /\ lease'.id = lease.id
            /\ lease'.owner.by = p /\ lease.owner.by = NoProc /\ NoProc \notin Proc
        BY <2>6, <3>1, <4>1, OwnedType, NoFileType, ConstantsAssumption DEF OwnerOpen
      <4>3. PointsOfMode' /\ RunningIsAlive' /\ ClaimIsHeld' BY <2>6, <3>1 DEF OwnerOpen
      <4>4. WindowIsOpen' BY <2>6, <3>1 DEF OwnerOpen
      <4>5. AuthorOwns' BY <2>6, <3>1, <4>2 DEF OwnerOpen
      <4>6. ObservedIsDead' BY <2>6, <3>1, <4>2 DEF OwnerOpen
      <4>7. QED BY <4>3, <4>4, <4>5, <4>6
    <3>2. QED BY <2>6, <3>1 DEF OwnerOpen
  <2>7. CASE OwnerWrite(p)
    <3>1. lease.owner.by = p /\ lease.owner \in File /\ lease # NoDir
      BY <2>7, DirType, NoDirType, NoFileType, ConstantsAssumption DEF OwnerWrite
    <3>2. LET f == Whole(lease.owner, p)
          IN  f \in File /\ f.by = p /\ f.whole /\ lease' = Owned(lease, f)
      BY <2>7, <3>1, WholeType DEF OwnerWrite
    <3>3. /\ lease'.id = lease.id /\ lease'.owner.by = p /\ lease'.owner.whole
          /\ lease'.aged = lease.aged
      BY <3>1, <3>2, OwnedType
    <3>9. lease' # NoDir /\ lease.owner # NoFile
      BY <3>1, <3>3, NoDirType, NoFileType, ConstantsAssumption
    <3>4. PointsOfMode' /\ RunningIsAlive' /\ ClaimIsHeld' BY <2>7 DEF OwnerWrite
    <3>5. WindowIsOpen' BY <2>7, <3>9 DEF OwnerWrite
    <3>6. AuthorOwns' BY <2>7, <3>1, <3>3 DEF OwnerWrite
    <3>7. ObservedIsDead' BY <2>7, <3>1, <3>3, <3>9 DEF OwnerWrite
    <3>8. QED BY <3>4, <3>5, <3>6, <3>7
  <2>8. CASE OwnerVerify(p)
    <3>1. PointsOfMode' /\ RunningIsAlive' /\ ClaimIsHeld' BY <2>8 DEF OwnerVerify
    <3>2. WindowIsOpen' /\ AuthorOwns' /\ ObservedIsDead' BY <2>8 DEF OwnerVerify
    <3>3. QED BY <3>1, <3>2
  <2>9. CASE Observe(p)
    <3>1. PointsOfMode' /\ RunningIsAlive' /\ ClaimIsHeld' BY <2>9 DEF Observe
    <3>2. WindowIsOpen' /\ AuthorOwns' /\ ObservedIsDead' BY <2>9 DEF Observe
    <3>3. QED BY <3>1, <3>2
  <2>10. CASE ClaimCreate(p)
    <3>1. claim'.by = p /\ claim.by \notin Proc
      BY <2>10, CreatedType, NoFileType, ConstantsAssumption DEF ClaimCreate
    <3>2. ClaimIsHeld' BY <2>10, <3>1 DEF ClaimCreate
    <3>3. PointsOfMode' /\ RunningIsAlive' BY <2>10 DEF ClaimCreate
    <3>4. WindowIsOpen' /\ AuthorOwns' /\ ObservedIsDead' BY <2>10 DEF ClaimCreate
    <3>5. QED BY <3>2, <3>3, <3>4
  <2>11. CASE ClaimFound(p)
    <3>1. Refuse(p) /\ UNCHANGED seen
      <4>1. claim.by \in Proc BY <2>11, FileType DEF ClaimFound
      <4>2. QED BY <2>11, <4>1 DEF ClaimFound
    <3>2. PointsOfMode' /\ RunningIsAlive' /\ ClaimIsHeld' BY <2>11, <3>1 DEF ClaimFound
    <3>3. WindowIsOpen' /\ AuthorOwns' /\ ObservedIsDead' BY <2>11, <3>1 DEF ClaimFound
    <3>4. QED BY <3>2, <3>3
  <2>12. CASE ClaimWrite(p)
    <3>1. claim.by = p /\ claim'.by = claim.by BY <2>12, WholeType DEF ClaimWrite
    <3>2. ClaimIsHeld' BY <2>12, <3>1 DEF ClaimWrite
    <3>3. PointsOfMode' /\ RunningIsAlive' BY <2>12, <3>1 DEF ClaimWrite
    <3>4. WindowIsOpen' /\ AuthorOwns' /\ ObservedIsDead' BY <2>12, <3>1 DEF ClaimWrite
    <3>5. QED BY <3>2, <3>3, <3>4
  <2>13. CASE Reobserve(p)
    <3>1. CASE lease # NoDir /\ Admissible
      <4>1. IF lease.owner.by = NoProc THEN lease.aged ELSE ~Running(lease.owner.by)
        BY <3>1, DirType, FileType DEF Admissible
      <4>2. PointsOfMode' /\ RunningIsAlive' /\ ClaimIsHeld' BY <2>13, <3>1 DEF Reobserve
      <4>3. WindowIsOpen' /\ AuthorOwns' BY <2>13, <3>1 DEF Reobserve
      <4>4. ObservedIsDead' BY <2>13, <3>1, <4>1 DEF Reobserve
      <4>5. QED BY <4>2, <4>3, <4>4
    <3>2. CASE ~(lease # NoDir /\ Admissible) BY <2>13, <3>2 DEF Reobserve
    <3>3. QED BY <3>1, <3>2
  <2>14. CASE Recheck(p)
    <3>1. PointsOfMode' /\ RunningIsAlive' /\ ClaimIsHeld' BY <2>14 DEF Recheck
    <3>2. WindowIsOpen' /\ AuthorOwns' /\ ObservedIsDead' BY <2>14 DEF Recheck
    <3>3. QED BY <3>1, <3>2
  <2>15. CASE Move(p)
    <3>1. CASE lease = NoDir \/ dirTrash[TrashKey(p)].owner # NoFile
      BY <2>15, <3>1 DEF Move
    <3>2. CASE ~(lease = NoDir \/ dirTrash[TrashKey(p)].owner # NoFile)
      <4>1. \A q \in Proc : Running(q) => lease.owner.by # q
        BY <2>15, ConstantsAssumption DEF Move
      <4>2. \A q \in Proc : pc[q] \notin CreationWindow
        BY <2>15, NoFileType, ConstantsAssumption DEF Move
      <4>3. PointsOfMode' /\ RunningIsAlive' /\ ClaimIsHeld' BY <2>15, <3>2 DEF Move
      <4>4. WindowIsOpen' BY <2>15, <3>2, <4>2 DEF Move
      <4>5. AuthorOwns' BY <2>15, <3>2, <4>1 DEF Move
      <4>6. \A q \in Proc : pc[q] \in {"recheck", "move"} => q = p
        BY <2>15 DEF Move, Modes
      <4>7. ObservedIsDead' BY <2>15, <3>2, <4>6 DEF Move
      <4>8. QED BY <4>3, <4>4, <4>5, <4>7
    <3>3. QED BY <3>1, <3>2
  <2>16. CASE Purge(p)
    <3>1. PointsOfMode' /\ RunningIsAlive' /\ ClaimIsHeld' BY <2>16 DEF Purge
    <3>2. WindowIsOpen' /\ AuthorOwns' /\ ObservedIsDead' BY <2>16 DEF Purge
    <3>3. QED BY <3>1, <3>2
  <2>17. CASE Remkdir(p)
    <3>1. CASE lease = NoDir
      <4>1. PICK i \in DirId : lease' = FreshDir(i) BY <2>17, <3>1 DEF Remkdir, FreeIds
      <4>2. /\ lease.owner.by = NoProc /\ NoProc \notin Proc
            /\ lease' # NoDir /\ lease'.owner = NoFile /\ ~lease'.aged
        BY <3>1, <4>1, FreshDirType, NoDirType, NoFileType, ConstantsAssumption
      <4>3. PointsOfMode' /\ RunningIsAlive' /\ ClaimIsHeld' BY <2>17, <3>1 DEF Remkdir
      <4>4. WindowIsOpen' BY <2>17, <3>1, <4>2 DEF Remkdir
      <4>5. AuthorOwns' /\ ObservedIsDead' BY <2>17, <3>1, <4>2 DEF Remkdir
      <4>6. QED BY <4>3, <4>4, <4>5
    <3>2. CASE lease # NoDir BY <2>17, <3>2 DEF Remkdir
    <3>3. QED BY <3>1, <3>2
  <2>18. CASE Unclaim(p)
    <3>1. PointsOfMode' /\ RunningIsAlive' /\ ClaimIsHeld' BY <2>18 DEF Unclaim
    <3>2. WindowIsOpen' /\ AuthorOwns' /\ ObservedIsDead' BY <2>18 DEF Unclaim
    <3>3. QED BY <3>1, <3>2
  <2>19. CASE UnclaimMove(p)
    <3>7. claim.by = p BY <2>19 DEF UnclaimMove, Modes
    <3>1. claim.by = p /\ claim # NoFile BY <3>7, NoFileType, ConstantsAssumption
    <3>2. claim'.by \notin Proc /\ pc' = [pc EXCEPT ![p] = "unverify"]
      BY <2>19, <3>1, NoFileType, ConstantsAssumption DEF UnclaimMove
    <3>3. ClaimIsHeld' BY <2>19, <3>1, <3>2 DEF UnclaimMove
    <3>4. PointsOfMode' /\ RunningIsAlive' BY <2>19, <3>2 DEF UnclaimMove
    <3>5. WindowIsOpen' /\ AuthorOwns' /\ ObservedIsDead' BY <2>19, <3>2 DEF UnclaimMove
    <3>6. QED BY <3>3, <3>4, <3>5
  <2>20. CASE UnclaimVerify(p)
    <3>1. PointsOfMode' /\ RunningIsAlive' /\ ClaimIsHeld' BY <2>20 DEF UnclaimVerify
    <3>2. WindowIsOpen' /\ AuthorOwns' /\ ObservedIsDead' BY <2>20 DEF UnclaimVerify
    <3>3. QED BY <3>1, <3>2
  <2>21. CASE Release(p)
    <3>1. PointsOfMode' /\ RunningIsAlive' /\ ClaimIsHeld' BY <2>21 DEF Release
    <3>2. WindowIsOpen' /\ AuthorOwns' /\ ObservedIsDead' BY <2>21 DEF Release
    <3>3. QED BY <3>1, <3>2
  <2>22. CASE ReleaseMove(p)
    <3>1. OwnsLease(p) /\ lease.owner # NoFile
      BY <2>22, NoFileType, ConstantsAssumption DEF ReleaseMove
    <3>2. PointsOfMode' /\ RunningIsAlive' /\ ClaimIsHeld' BY <2>22 DEF ReleaseMove
    <3>3. WindowIsOpen' BY <2>22, <3>1 DEF ReleaseMove
    <3>4. AuthorOwns' BY <2>22, <3>1 DEF ReleaseMove
    <3>5. ObservedIsDead' BY <2>22, <3>1, ConstantsAssumption DEF ReleaseMove
    <3>6. QED BY <3>2, <3>3, <3>4, <3>5
  <2>23. CASE Exit(p)
    <3>1. PointsOfMode' /\ RunningIsAlive' /\ ClaimIsHeld' BY <2>23 DEF Exit
    <3>2. WindowIsOpen' /\ AuthorOwns' /\ ObservedIsDead' BY <2>23 DEF Exit
    <3>3. QED BY <3>1, <3>2
  <2>24. CASE StaleCheck(p) \/ StaleMove(p) \/ StaleVerify(p) \/ StaleRestore(p) \/ StaleRemove(p)
    <3>1. pc[p] \notin StalePoints BY DEF Modes
    <3>2. QED BY <2>24, <3>1 DEF StaleCheck, StaleMove, StaleVerify, StaleRestore, StaleRemove
  <2>25. QED BY <1>1, <2>1, <2>2, <2>3, <2>4, <2>5, <2>6, <2>7, <2>8, <2>9, <2>10,
            <2>11, <2>12, <2>13, <2>14, <2>15, <2>16, <2>17, <2>18, <2>19, <2>20,
            <2>21, <2>22, <2>23, <2>24 DEF Step
<1>2. ASSUME NEW p \in Proc, BreakLease(p) \/ BreakClaim(p) PROVE LeaseInv'
  BY <1>2 DEF Undisturbed, BreakLease, BreakClaim
<1>3. ASSUME NEW p \in Proc, Crash(p) PROVE LeaseInv'
  <2>1. ~HoldsClaim(p) BY <1>3 DEF Undisturbed, Crash
  <2>2. PointsOfMode' /\ RunningIsAlive' /\ ClaimIsHeld' BY <1>3, <2>1 DEF Crash
  <2>3. WindowIsOpen' /\ AuthorOwns' /\ ObservedIsDead' BY <1>3 DEF Crash
  <2>4. QED BY <2>2, <2>3
<1>4. ASSUME NEW p \in Proc, Recycle(p) PROVE LeaseInv'
  BY <1>4 DEF Recycle
<1>5. ASSUME NEW p \in Proc, Respawn(p) PROVE LeaseInv'
  <2>1. PointsOfMode' /\ RunningIsAlive' /\ ClaimIsHeld' BY <1>5 DEF Respawn, Traceless
  <2>2. WindowIsOpen' /\ AuthorOwns' BY <1>5 DEF Respawn
  <2>3. ObservedIsDead' BY <1>5 DEF Respawn, Traceless
  <2>4. QED BY <2>1, <2>2, <2>3
<1>6. CASE LapseOwner
  <2>1. lease.owner \in File /\ lease.owner # NoFile /\ lease # NoDir
    BY <1>6, DirType, NoDirType, NoFileType DEF LapseOwner
  <2>2. LET f == Lapsed(lease.owner)
        IN  f \in File /\ f.by = lease.owner.by /\ f.whole = lease.owner.whole
            /\ lease' = Owned(lease, f)
    BY <1>6, <2>1, LapsedType DEF LapseOwner
  <2>3. /\ lease'.id = lease.id /\ lease'.owner.by = lease.owner.by
        /\ lease'.owner.whole = lease.owner.whole /\ lease'.aged = lease.aged
    BY <2>1, <2>2, OwnedType
  <2>4. lease' # NoDir BY <2>1, <2>3, DirType, NoDirType
  <2>5. PointsOfMode' /\ RunningIsAlive' /\ ClaimIsHeld' BY <1>6 DEF LapseOwner
  <2>6. WindowIsOpen' BY <1>6, <2>1 DEF LapseOwner
  <2>7. AuthorOwns' BY <1>6, <2>3 DEF LapseOwner
  <2>8. ObservedIsDead' BY <1>6, <2>3, <2>4 DEF LapseOwner
  <2>9. QED BY <2>5, <2>6, <2>7, <2>8
<1>7. CASE LapseClaim
  <2>1. claim'.by = claim.by BY <1>7, LapsedType DEF LapseClaim
  <2>2. PointsOfMode' /\ RunningIsAlive' /\ ClaimIsHeld' BY <1>7, <2>1 DEF LapseClaim
  <2>3. WindowIsOpen' /\ AuthorOwns' /\ ObservedIsDead' BY <1>7 DEF LapseClaim
  <2>4. QED BY <2>2, <2>3
<1>8. CASE Age
  <2>1. /\ lease'.id = lease.id /\ lease'.owner = lease.owner /\ lease' # NoDir
        /\ \A q \in Proc : pc[q] \notin CreationWindow
    BY <1>8, AgedType, DirType DEF Age, Undisturbed
  <2>2. PointsOfMode' /\ RunningIsAlive' /\ ClaimIsHeld' BY <1>8 DEF Age
  <2>3. WindowIsOpen' BY <1>8, <2>1 DEF Age
  <2>4. AuthorOwns' BY <1>8, <2>1 DEF Age
  <2>5. ObservedIsDead' BY <1>8, <2>1, DirType, NoFileType DEF Age
  <2>6. QED BY <2>2, <2>3, <2>4, <2>5
<1>9. CASE UNCHANGED vars BY <1>9 DEF vars
<1>10. QED BY <1>1, <1>2, <1>3, <1>4, <1>5, <1>6, <1>7, <1>8, <1>9 DEF Next

(* Every initial state satisfies LeaseInv. *)
LEMMA LeaseInvInit == ASSUME Undisturbed, Init PROVE LeaseInv
<1> USE DEF Init, Undisturbed, Running
<1>1. claim.by \notin Proc BY NoFileType, ConstantsAssumption
<1>2. PointsOfMode /\ RunningIsAlive BY DEF PointsOfMode, RunningIsAlive
<1>3. ClaimIsHeld BY <1>1 DEF ClaimIsHeld, HoldsClaim
<1>4. WindowIsOpen /\ AuthorOwns /\ ObservedIsDead
  BY DEF WindowIsOpen, AuthorOwns, ObservedIsDead, CreationWindow
<1>5. QED BY <1>2, <1>3, <1>4 DEF LeaseInv

(* The invariant holds in every reachable state. *)
LEMMA LeaseInvariant == ASSUME Undisturbed PROVE Spec => []LeaseInv
<1>1. Init => LeaseInv BY LeaseInvInit
<1>2. TypeOK /\ TypeOK' /\ LeaseInv /\ [Next]_vars => LeaseInv' BY LeaseInvStep
<1>3. QED BY <1>1, <1>2, Typing, PTL DEF Spec

(* Whatever number of commands compete, are killed and are started again,   *)
(* and whatever pids are reused: a command that was given the lease still  *)
(* owns it when it writes to the workspace.                                *)
THEOREM HoldersOwnTheLease == ASSUME Undisturbed PROVE Spec => []HolderOwns
<1>1. LeaseInv => HolderOwns BY DEF LeaseInv, AuthorOwns, HolderOwns
<1>2. QED BY <1>1, LeaseInvariant, PTL

(* Under the same conditions no recoverer loses its claim to another one.   *)
THEOREM RecoverersAreAlone == ASSUME Undisturbed PROVE Spec => []OneRecoverer
<1>1. LeaseInv => OneRecoverer BY DEF LeaseInv, ClaimIsHeld, OneRecoverer
<1>2. QED BY <1>1, LeaseInvariant, PTL

-----------------------------------------------------------------------------
(* What a step can do to owner.json, with no condition on the constants.    *)
LEMMA OwnerSteps ==
    ASSUME TypeOK, [Next]_vars
    PROVE  \/ lease'.owner.by = lease.owner.by /\ lease'.owner.whole = lease.owner.whole
           \/ lease' = NoDir
           \/ \E p \in Proc : /\ pc[p] = "ownopen"
                              /\ lease.owner = NoFile
                              /\ lease'.owner.by = p
           \/ \E p \in Proc : /\ pc[p] = "ownwrite"
                              /\ lease.owner.by = p /\ lease'.owner.by = p
<1> DEFINE Kept == lease'.owner.by = lease.owner.by /\ lease'.owner.whole = lease.owner.whole
<1>1. ASSUME NEW p \in Proc, Create(p) PROVE Kept
  BY <1>1, FreshDirType, NoDirType DEF Create, FreeIds
<1>2. ASSUME NEW p \in Proc, Remkdir(p) PROVE Kept
  <2>1. CASE lease = NoDir BY <1>2, <2>1, FreshDirType, NoDirType DEF Remkdir, FreeIds
  <2>2. CASE lease # NoDir BY <1>2, <2>2 DEF Remkdir
  <2>3. QED BY <2>1, <2>2
<1>3. ASSUME NEW p \in Proc, OwnerOpen(p)
      PROVE  Kept \/ (pc[p] = "ownopen" /\ lease.owner = NoFile /\ lease'.owner.by = p)
  <2>1. CASE lease # NoDir /\ lease.owner = NoFile
    <3>1. Created(p) \in File /\ Created(p).by = p BY CreatedType
    <3>2. lease' = Owned(lease, Created(p)) BY <1>3, <2>1 DEF OwnerOpen
    <3>3. lease'.owner = Created(p) BY <2>1, <3>1, <3>2, OwnedType DEF TypeOK
    <3>4. QED BY <1>3, <2>1, <3>1, <3>3 DEF OwnerOpen
  <2>2. CASE ~(lease # NoDir /\ lease.owner = NoFile)
    <3>1. lease' = lease BY <1>3, <2>2 DEF OwnerOpen, Refuse, Go
    <3>2. Kept BY <3>1
    <3>3. QED BY <3>2
  <2>3. QED BY <2>1, <2>2
<1>4. ASSUME NEW p \in Proc, OwnerWrite(p)
      PROVE  Kept \/ (pc[p] = "ownwrite" /\ lease.owner.by = p /\ lease'.owner.by = p)
  <2>1. lease.owner \in File BY DirType DEF TypeOK
  <2>2. /\ Whole(lease.owner, p) \in File
        /\ Whole(lease.owner, p).by = lease.owner.by
        /\ lease.owner.by # p => Whole(lease.owner, p) = lease.owner
    BY <2>1, WholeType
  <2>3. lease = NoDir => Whole(lease.owner, p) = NoFile
    BY <2>2, NoDirType, NoFileType, ConstantsAssumption
  <2>4. lease'.owner = Whole(lease.owner, p)
    BY <1>4, <2>2, <2>3, OwnedType DEF OwnerWrite, TypeOK
  <2>5. CASE lease.owner.by = p BY <1>4, <2>2, <2>4, <2>5 DEF OwnerWrite
  <2>6. CASE lease.owner.by # p
    <3>1. Kept BY <2>2, <2>4, <2>6
    <3>2. QED BY <3>1
  <2>7. QED BY <2>5, <2>6
<1>5. ASSUME NEW p \in Proc, Move(p) \/ ReleaseMove(p) PROVE Kept \/ lease' = NoDir
  BY <1>5 DEF Move, ReleaseMove
<1>6. ASSUME LapseOwner PROVE Kept
  <2>1. lease.owner \in File /\ lease # NoDir /\ Lapsed(lease.owner) \in File
    BY <1>6, DirType, NoDirType, NoFileType, LapsedType DEF LapseOwner, TypeOK
  <2>2. lease'.owner = Lapsed(lease.owner) BY <1>6, <2>1, OwnedType DEF LapseOwner, TypeOK
  <2>3. QED BY <1>6, <2>1, <2>2, LapsedType DEF LapseOwner
<1>7. ASSUME Age PROVE Kept BY <1>7, AgedType DEF Age, TypeOK
<1>8. ASSUME UNCHANGED lease PROVE Kept BY <1>8
<1>9. ASSUME NEW p \in Proc,
             \/ FindLease(p) \/ StatNew(p) \/ CheckClaim(p) \/ OwnerStat(p) \/ OwnerVerify(p)
             \/ Observe(p) \/ ClaimCreate(p) \/ ClaimFound(p) \/ ClaimWrite(p) \/ StaleCheck(p)
             \/ StaleMove(p) \/ StaleVerify(p) \/ StaleRestore(p) \/ StaleRemove(p)
      PROVE  UNCHANGED lease
  BY <1>9 DEF disk, FindLease, StatNew, CheckClaim, OwnerStat, OwnerVerify, Observe, ClaimCreate,
              ClaimFound, ClaimWrite, StaleCheck, StaleMove, StaleVerify, StaleRestore, StaleRemove
<1>10. ASSUME NEW p \in Proc,
              \/ Reobserve(p) \/ Recheck(p) \/ Purge(p) \/ Unclaim(p) \/ UnclaimMove(p)
              \/ UnclaimVerify(p) \/ Release(p) \/ Exit(p) \/ BreakLease(p) \/ BreakClaim(p)
              \/ Crash(p) \/ Recycle(p) \/ Respawn(p)
       PROVE  UNCHANGED lease
  BY <1>10 DEF disk, Reobserve, Recheck, Purge, Unclaim, UnclaimMove, UnclaimVerify, Release,
               Exit, BreakLease, BreakClaim, Crash, Recycle, Respawn
<1>11. LapseClaim \/ UNCHANGED vars => UNCHANGED lease BY DEF LapseClaim, vars
<1>12. QED
  BY <1>1, <1>2, <1>3, <1>4, <1>5, <1>6, <1>7, <1>8, <1>9, <1>10, <1>11 DEF Next, Step

(* An owner.json leaves the path only together with its directory: neither  *)
(* a recovery nor a late creator ever puts another owner into a directory  *)
(* that has one, whatever is killed, suspended or broken.                  *)
THEOREM GenerationsAreNeverAdopted == Spec => GenerationNeverAdopted
<1>1. ASSUME TypeOK, [Next]_vars, lease.owner # NoFile, lease'.owner.by # lease.owner.by
      PROVE  lease' = NoDir
  BY <1>1, OwnerSteps
<1>2. QED BY <1>1, Typing, PTL DEF Spec, GenerationNeverAdopted

(* A holder that has lost its lease never comes to own it again, so that    *)
(* comparing the token is a sound test of ownership, whatever happens.     *)
THEOREM LostLeasesStayLost == Spec => LostLeaseStaysLost
<1> DEFINE Lost(p) == pc[p] \in {"held", "relmove"} /\ ~OwnsLease(p)
<1>1. ASSUME TypeOK, [Next]_vars, NEW p \in Proc, Lost(p) PROVE ~OwnsLease(p)'
  <2>1. NoDir.owner.by = NoProc BY NoDirType, NoFileType
  <2>2. CASE lease' = NoDir BY <2>1, <2>2, ConstantsAssumption DEF OwnsLease
  <2>3. QED BY <1>1, <2>2, OwnerSteps DEF OwnsLease
<1>2. TypeOK /\ [Next]_vars => [\A p \in Proc : Lost(p) => ~OwnsLease(p)']_vars
  BY <1>1
<1>3. QED BY <1>2, Typing, PTL DEF Spec, LostLeaseStaysLost


-----------------------------------------------------------------------------
(* How a change of one pc changes the set of running processes. *)
LEMMA UpChange ==
    ASSUME TypeOK, NEW p \in Proc, NEW x, Go(p, x)
    PROVE  Up' = IF x \in {"done", "crashed"} THEN Up \ {p} ELSE Up \cup {p}
BY DEF TypeOK, Go, Running, Up

(* Every step of the protocol is a step of the exclusive lease. *)
LEMMA LeaseRefinementStep ==
    ASSUME TypeOK, LeaseInv, [Next]_vars
    PROVE  [Exclusive!Next]_<<Author, Up>>
<1>1. NoProc \notin Up /\ NoProc \notin Proc BY ConstantsAssumption DEF Up
<1>2. ASSUME Author' = Author, NEW p \in Proc, Up' = Up \/ Up' = Up \ {p}
      PROVE  [Exclusive!Next]_<<Author, Up>>
  BY <1>2 DEF Exclusive!Next, Exclusive!Stop
<1>3. ASSUME NEW p \in Proc, NEW x, Running(p), Go(p, x)
      PROVE  Up' = Up \/ Up' = Up \ {p}
  <2>1. p \in Up BY <1>3 DEF Up
  <2>2. QED BY <1>3, <2>1, UpChange
<1>4. ASSUME NEW p \in Proc, OwnerOpen(p) PROVE [Exclusive!Next]_<<Author, Up>>
  <2>1. p \in Up BY <1>4 DEF OwnerOpen, Running, Up
  <2>2. CASE lease # NoDir /\ lease.owner = NoFile
    <3>1. Created(p) \in File /\ Created(p).by = p BY CreatedType
    <3>2. lease' = Owned(lease, Created(p)) /\ Go(p, "ownwrite") BY <1>4, <2>2 DEF OwnerOpen
    <3>3. lease'.owner = Created(p) BY <2>2, <3>1, <3>2, OwnedType DEF TypeOK
    <3>4. Author' = p /\ Author = NoProc BY <2>2, <3>1, <3>3, NoFileType DEF Author
    <3>5. Up' = Up BY <2>1, <3>2, UpChange
    <3>6. QED BY <2>1, <3>4, <3>5 DEF Exclusive!Next, Exclusive!Grant
  <2>3. CASE ~(lease # NoDir /\ lease.owner = NoFile)
    <3>1. Refuse(p) /\ UNCHANGED lease BY <1>4, <2>3 DEF OwnerOpen
    <3>2. Author' = Author BY <3>1 DEF Author
    <3>3. Running(p) BY <1>4 DEF OwnerOpen, Running
    <3>4. QED BY <1>2, <1>3, <3>1, <3>2, <3>3 DEF Refuse
  <2>4. QED BY <2>2, <2>3
<1>5. ASSUME NEW p \in Proc, Move(p) PROVE [Exclusive!Next]_<<Author, Up>>
  <2>1. Running(p) BY <1>5 DEF Move, Running
  <2>2. Author \notin Up BY <1>1, <1>5 DEF LeaseInv, ObservedIsDead, Move, Author, Up
  <2>3. CASE UNCHANGED lease
    <3>1. Refuse(p) \/ Go(p, "purge") BY <1>5 DEF Move
    <3>2. Author' = Author BY <2>3 DEF Author
    <3>3. QED BY <1>2, <1>3, <2>1, <3>1, <3>2 DEF Refuse
  <2>4. CASE lease' = NoDir /\ Go(p, "purge")
    <3>1. Author' = NoProc BY <2>4, NoDirType, NoFileType DEF Author
    <3>2. Up' = Up BY <2>1, <2>4, UpChange DEF Up
    <3>3. QED BY <2>2, <3>1, <3>2 DEF Exclusive!Next, Exclusive!Expel
  <2>5. QED BY <1>5, <2>3, <2>4 DEF Move
<1>6. ASSUME NEW p \in Proc, ReleaseMove(p) PROVE [Exclusive!Next]_<<Author, Up>>
  <2>1. Author = p /\ Running(p)
    BY <1>6 DEF LeaseInv, AuthorOwns, OwnsLease, ReleaseMove, Author, Running
  <2>2. Author' = NoProc BY <1>6, NoDirType, NoFileType DEF ReleaseMove, Author
  <2>3. p \in Up /\ Up' = Up \ {p} BY <1>6, <2>1, UpChange DEF ReleaseMove, Up
  <2>4. QED BY <2>1, <2>2, <2>3 DEF Exclusive!Next, Exclusive!Return
<1>7. ASSUME NEW p \in Proc, Respawn(p) PROVE [Exclusive!Next]_<<Author, Up>>
  <2>1. Author # p /\ Author' = Author /\ Go(p, "start")
    BY <1>7 DEF Respawn, Traceless, disk, Author
  <2>2. Up' = Up \cup {p} BY <2>1, UpChange
  <2>3. QED BY <2>1, <2>2 DEF Exclusive!Next, Exclusive!Begin
<1>8. ASSUME NEW p \in Proc, Create(p) \/ Remkdir(p) PROVE [Exclusive!Next]_<<Author, Up>>
  <2>1. Author' = Author
    <3>1. CASE lease = NoDir /\ \E i \in DirId : lease' = FreshDir(i)
      BY <3>1, NoDirType, FreshDirType DEF Author
    <3>2. CASE UNCHANGED lease BY <3>2 DEF Author
    <3>3. QED BY <1>8, <3>1, <3>2 DEF Create, Remkdir, FreeIds
  <2>2. Running(p) BY <1>8 DEF Create, Remkdir, Running
  <2>3. \E x : Go(p, x) BY <1>8 DEF Create, Remkdir, Refuse
  <2>4. QED BY <1>2, <1>3, <2>1, <2>2, <2>3
<1>9. ASSUME NEW p \in Proc, OwnerWrite(p) PROVE [Exclusive!Next]_<<Author, Up>>
  <2>1. Author' = Author
    <3>1. lease.owner \in File /\ lease.owner.by = p
      BY <1>9, DirType DEF TypeOK, LeaseInv, AuthorOwns, OwnerWrite
    <3>2. /\ Whole(lease.owner, p) \in File
          /\ Whole(lease.owner, p).by = lease.owner.by
      BY <3>1, WholeType
    <3>3. lease # NoDir BY <3>1, NoDirType, NoFileType, ConstantsAssumption
    <3>4. lease'.owner = Whole(lease.owner, p)
      BY <1>9, <3>2, <3>3, OwnedType DEF OwnerWrite, TypeOK
    <3>5. QED BY <3>2, <3>4 DEF Author
  <2>2. Running(p) /\ Go(p, "ownverify") BY <1>9 DEF OwnerWrite, Running
  <2>3. QED BY <1>2, <1>3, <2>1, <2>2
<1>10. ASSUME NEW p \in Proc, UNCHANGED lease, Running(p), \E x : Go(p, x)
       PROVE  [Exclusive!Next]_<<Author, Up>>
  <2>1. Author' = Author BY <1>10 DEF Author
  <2>2. QED BY <1>2, <1>3, <1>10, <2>1
<1>11. ASSUME Author' = Author, UNCHANGED pc PROVE [Exclusive!Next]_<<Author, Up>>
  BY <1>11 DEF Up, Running
<1>12. ASSUME NEW p \in Proc,
              \/ FindLease(p) \/ StatNew(p) \/ CheckClaim(p) \/ OwnerStat(p) \/ OwnerVerify(p)
              \/ Observe(p) \/ ClaimCreate(p) \/ ClaimFound(p) \/ ClaimWrite(p)
       PROVE  [Exclusive!Next]_<<Author, Up>>
  <2>1. UNCHANGED lease /\ \E x : Go(p, x)
    BY <1>12 DEF disk, Refuse, FindLease, StatNew, CheckClaim, OwnerStat, OwnerVerify,
                 Observe, ClaimCreate, ClaimFound, ClaimWrite
  <2>2. Running(p)
    BY <1>12 DEF FindLease, StatNew, CheckClaim, OwnerStat, OwnerVerify,
                 Observe, ClaimCreate, ClaimFound, ClaimWrite, Running
  <2>3. QED BY <1>10, <2>1, <2>2
<1>13. ASSUME NEW p \in Proc,
              \/ StaleCheck(p) \/ StaleMove(p) \/ StaleVerify(p) \/ StaleRestore(p)
              \/ StaleRemove(p) \/ Reobserve(p) \/ Recheck(p) \/ Purge(p) \/ Unclaim(p)
              \/ UnclaimMove(p) \/ UnclaimVerify(p) \/ Release(p)
              \/ BreakLease(p) \/ BreakClaim(p)
       PROVE  [Exclusive!Next]_<<Author, Up>>
  <2>1. UNCHANGED lease /\ \E x : Go(p, x)
    BY <1>13 DEF disk, Refuse, StaleCheck, StaleMove, StaleVerify, StaleRestore, StaleRemove,
                 Reobserve, Recheck, Purge, Unclaim, UnclaimMove, UnclaimVerify, Release,
                 BreakLease, BreakClaim
  <2>2. Running(p)
    BY <1>13 DEF StaleCheck, StaleMove, StaleVerify, StaleRestore, StaleRemove,
                 Reobserve, Recheck, Purge, Unclaim, UnclaimMove, UnclaimVerify, Release,
                 BreakLease, BreakClaim, Running
  <2>3. QED BY <1>10, <2>1, <2>2
<1>14. ASSUME NEW p \in Proc, Exit(p) \/ Recycle(p) PROVE [Exclusive!Next]_<<Author, Up>>
  BY <1>11, <1>14 DEF Exit, Recycle, disk, Author
<1>15. ASSUME LapseOwner PROVE [Exclusive!Next]_<<Author, Up>>
  <2>1. lease.owner \in File /\ lease # NoDir /\ Lapsed(lease.owner) \in File
    BY <1>15, DirType, NoDirType, NoFileType, LapsedType DEF LapseOwner, TypeOK
  <2>2. lease'.owner = Lapsed(lease.owner) BY <1>15, <2>1, OwnedType DEF LapseOwner, TypeOK
  <2>3. Author' = Author BY <1>15, <2>1, <2>2, LapsedType DEF LapseOwner, Author
  <2>4. QED BY <1>11, <1>15, <2>3 DEF LapseOwner
<1>16. ASSUME LapseClaim \/ Age \/ UNCHANGED vars PROVE [Exclusive!Next]_<<Author, Up>>
  <2>1. Author' = Author /\ UNCHANGED pc
    BY <1>16, AgedType DEF LapseClaim, Age, vars, Author, TypeOK
  <2>2. QED BY <1>11, <2>1
<1>17. ASSUME NEW p \in Proc, Crash(p) PROVE [Exclusive!Next]_<<Author, Up>>
  <2>1. Up' = Up \ {p} BY <1>17, UpChange DEF Crash
  <2>2. Author' = Author BY <1>17 DEF Crash, disk, Author
  <2>3. QED BY <1>2, <2>1, <2>2
<1>18. QED
  BY <1>4, <1>5, <1>6, <1>7, <1>8, <1>9, <1>12, <1>13, <1>14, <1>15, <1>16, <1>17
     DEF Next, Step

(* Whoever is given the lease is the only author of owner.json, and only    *)
(* its own release or a recovery after its death takes it out of the path: *)
(* the protocol implements the exclusive lease.                            *)
THEOREM LeaseRefinement == ASSUME Undisturbed PROVE Spec => ImplementsExclusiveLease
<1>1. ASSUME Init PROVE Exclusive!Init
  <2>1. Up = Proc \ Ghost /\ Ghost \subseteq Proc
    BY <1>1, ConstantsAssumption DEF Init, Running, Up
  <2>2. Author \in Ghost \cup {NoProc}
    <3>1. lease = NoDir \/ lease \in Leftover BY <1>1 DEF Init
    <3>2. CASE lease = NoDir BY <3>2, NoDirType, NoFileType DEF Author
    <3>3. CASE \E i \in DirId : lease = FreshDir(i) BY <3>3, FreshDirType, NoFileType DEF Author
    <3>4. CASE lease \in [id : DirId, aged : {FALSE},
                          owner : [by : Ghost, whole : BOOLEAN, lapsed : {FALSE}]]
      BY <3>4 DEF Author
    <3>5. QED BY <3>1, <3>2, <3>3, <3>4 DEF Leftover
  <2>3. QED BY <2>1, <2>2, ConstantsAssumption DEF Exclusive!Init
<1>2. TypeOK /\ LeaseInv /\ [Next]_vars => [Exclusive!Next]_<<Author, Up>>
  BY LeaseRefinementStep
<1>3. QED BY <1>1, <1>2, Typing, LeaseInvariant, PTL
      DEF Spec, ImplementsExclusiveLease, Exclusive!Spec
=============================================================================
