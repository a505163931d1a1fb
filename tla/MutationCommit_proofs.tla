------------------------ MODULE MutationCommit_proofs ------------------------
(***************************************************************************)
(* Proofs about MutationCommit for any number of commands, of mutations    *)
(* per command and of events.  The commit steps leave the lease alone, so  *)
(* that what WorkspaceLease_proofs shows of the lease holds here too; on   *)
(* it rest the inductive invariant CommitInv, the exclusion it implies and *)
(* the refinement of EventChain.                                           *)
(***************************************************************************)
EXTENDS MutationCommit, WorkspaceLease_proofs, SequenceTheorems

(* The steps of a mutation change nothing of the lease protocol. *)
LEMMA LaneLeavesLease ==
    ASSUME NEW p \in Proc, NEW l \in Lane, LaneStep(p, l)
    PROVE  UNCHANGED vars /\ pc[p] = "held"
BY DEF LaneStep, At, Begin, MutationStat, MutationOpen, MutationVerify, AssertAgain, Replay,
       ReadTail, WriteSegment, Readback, ReleaseCheck, ReleaseMutation

(* Every behaviour of the commits is one of the lease protocol. *)
LEMMA LeaseUnderneath == CommitSpec => Spec
<1>1. CommitInit => Init BY DEF CommitInit
<1>2. [CommitNext]_commitVars => [Next]_vars
  BY LaneLeavesLease DEF CommitNext, LeaseStep, commitVars
<1>3. QED BY <1>1, <1>2, PTL DEF CommitSpec, Spec

(* A lease directory that stays at the path keeps its identity. *)
LEMMA LeaseKeepsItsName ==
    ASSUME TypeOK, [Next]_vars, lease # NoDir, lease' # NoDir
    PROVE  lease'.id = lease.id
<1>1. ASSUME NEW p \in Proc, Create(p) \/ Remkdir(p) \/ Move(p) \/ ReleaseMove(p)
      PROVE  lease' = lease
  BY <1>1 DEF Create, Remkdir, Move, ReleaseMove
<1>2. ASSUME NEW p \in Proc, OwnerOpen(p) PROVE lease'.id = lease.id
  <2>1. Created(p) \in File BY CreatedType
  <2>2. Owned(lease, Created(p)).id = lease.id BY <2>1, OwnedType DEF TypeOK
  <2>3. QED BY <1>2, <2>2 DEF OwnerOpen
<1>3. ASSUME NEW p \in Proc, OwnerWrite(p) PROVE lease'.id = lease.id
  <2>1. lease.owner \in File BY DirType DEF TypeOK
  <2>2. Whole(lease.owner, p) \in File BY <2>1, WholeType
  <2>3. QED BY <1>3, <2>2, OwnedType DEF OwnerWrite, TypeOK
<1>4. ASSUME LapseOwner PROVE lease'.id = lease.id
  <2>1. lease.owner \in File /\ Lapsed(lease.owner) \in File
    BY <1>4, DirType, LapsedType DEF LapseOwner, TypeOK
  <2>2. QED BY <1>4, <2>1, OwnedType DEF LapseOwner, TypeOK
<1>5. ASSUME Age PROVE lease'.id = lease.id BY <1>5, AgedType DEF Age, TypeOK
<1>6. ASSUME NEW p \in Proc,
             \/ FindLease(p) \/ StatNew(p) \/ CheckClaim(p) \/ OwnerStat(p) \/ OwnerVerify(p)
             \/ Observe(p) \/ ClaimCreate(p) \/ ClaimFound(p) \/ ClaimWrite(p) \/ StaleCheck(p)
             \/ StaleMove(p) \/ StaleVerify(p) \/ StaleRestore(p) \/ StaleRemove(p)
      PROVE  lease' = lease
  BY <1>6 DEF disk, FindLease, StatNew, CheckClaim, OwnerStat, OwnerVerify, Observe, ClaimCreate,
              ClaimFound, ClaimWrite, StaleCheck, StaleMove, StaleVerify, StaleRestore, StaleRemove
<1>7. ASSUME NEW p \in Proc,
             \/ Reobserve(p) \/ Recheck(p) \/ Purge(p) \/ Unclaim(p) \/ UnclaimMove(p)
             \/ UnclaimVerify(p) \/ Release(p) \/ Exit(p) \/ BreakLease(p) \/ BreakClaim(p)
             \/ Crash(p) \/ Recycle(p) \/ Respawn(p)
      PROVE  lease' = lease
  BY <1>7 DEF disk, Reobserve, Recheck, Purge, Unclaim, UnclaimMove, UnclaimVerify, Release,
              Exit, BreakLease, BreakClaim, Crash, Recycle, Respawn
<1>8. LapseClaim \/ UNCHANGED vars => lease' = lease BY DEF LapseClaim, vars
<1>9. QED BY <1>1, <1>2, <1>3, <1>4, <1>5, <1>6, <1>7, <1>8 DEF Next, Step

-----------------------------------------------------------------------------
(* A mutation that has not begun is one in flight as far as types go. *)
LEMMA IdleType == Idle \in InFlight
BY EmptySeq DEF Idle, InFlight, LanePoints

(* Put changes one mutation. *)
LEMMA PutLane ==
    ASSUME CommitTypeOK, NEW p \in Proc, NEW l \in Lane, NEW m \in InFlight, Put(p, l, m)
    PROVE  /\ lane' \in [Proc -> [Lane -> InFlight]]
           /\ lane'[p][l] = m
           /\ \A q \in Proc, k \in Lane : q # p \/ k # l => lane'[q][k] = lane[q][k]
BY DEF CommitTypeOK, Put

(* The event a mutation appends, by the version it replayed. *)
EventOf(m, p, l) == Event(m.version + 1, p, l)

LEMMA EventType ==
    ASSUME NEW m \in InFlight, NEW p \in Proc, NEW l \in Lane
    PROVE  EventOf(m, p, l) \in Events /\ EventOf(m, p, l).seq = m.version + 1
BY DEF InFlight, EventOf, Event, Events

(* The commits keep their types. *)
LEMMA CommitTypingStep ==
    ASSUME TypeOK, CommitTypeOK, [CommitNext]_commitVars
    PROVE  CommitTypeOK'
<1>1. ASSUME LeaseStep PROVE CommitTypeOK'
  <2>1. [l \in Lane |-> Idle] \in [Lane -> InFlight] BY IdleType
  <2>2. lane' \in [Proc -> [Lane -> InFlight]] BY <1>1, <2>1 DEF LeaseStep, CommitTypeOK
  <2>3. QED BY <1>1, <2>2 DEF LeaseStep, CommitTypeOK
<1>2. ASSUME NEW p \in Proc, NEW l \in Lane, LaneStep(p, l) PROVE CommitTypeOK'
  <2> DEFINE m == lane[p][l]
  <2> lease \in Dir /\ m \in InFlight BY DEF TypeOK, CommitTypeOK
  <2>a. \A x \in LanePoints : [m EXCEPT !.at = x] \in InFlight BY DEF InFlight
  <2>e. /\ Len(log) \in Nat /\ log \in Seq(Events)
        /\ lease.id \in DirId \cup {NoId}
    BY LenProperties, DirType DEF CommitTypeOK
  <2>b. ASSUME NEW x \in InFlight, Put(p, l, x), UNCHANGED <<mutation, log, acked>>
        PROVE  CommitTypeOK'
    BY <2>b, PutLane DEF CommitTypeOK
  <2>c. ASSUME NEW x \in LanePoints, Advance(p, l, x) PROVE \E y \in InFlight : Put(p, l, y)
    BY <2>a, <2>c DEF Advance
  <2>d. ASSUME End(p, l) PROVE \E y \in InFlight : Put(p, l, y) BY <2>d, IdleType DEF End
  <2>1. CASE Begin(p, l)
    <3>1. [Idle EXCEPT !.at = "stat", !.expected = Len(log)] \in InFlight
      BY <2>e, IdleType DEF InFlight, LanePoints
    <3>2. QED BY <2>1, <2>b, <3>1 DEF Begin
  <2>2. CASE MutationStat(p, l)
    <3>1. [m EXCEPT !.at = "open", !.gen = lease.id] \in InFlight
      BY <2>e DEF InFlight, LanePoints
    <3>2. QED BY <2>2, <2>b, <2>d, <3>1 DEF MutationStat
  <2>3. CASE MutationOpen(p, l)
    <3>1. \E y \in InFlight : Put(p, l, y) BY <2>3, <2>c, <2>d DEF MutationOpen, LanePoints
    <3>2. mutation' = Mutation(p, l) \/ mutation' = mutation BY <2>3 DEF MutationOpen
    <3>3. UNCHANGED <<log, acked>> BY <2>3 DEF MutationOpen
    <3>4. QED BY <3>1, <3>2, <3>3, PutLane DEF CommitTypeOK, Mutation
  <2>4. CASE MutationVerify(p, l) BY <2>4, <2>b, <2>c, <2>d DEF MutationVerify, LanePoints
  <2>5. CASE AssertAgain(p, l)
    <3>1. \E y \in InFlight : Put(p, l, y) BY <2>5, <2>c DEF AssertAgain, LanePoints
    <3>2. QED BY <2>5, <2>b, <3>1 DEF AssertAgain
  <2>6. CASE Replay(p, l)
    <3>1. [m EXCEPT !.at = IF ReReadsTail THEN "tail" ELSE "write",
                    !.version = Len(log), !.tail = log] \in InFlight
      BY <2>e DEF InFlight, LanePoints
    <3>2. QED BY <2>6, <2>b, <2>c, <3>1 DEF Replay, LanePoints
  <2>7. CASE ReadTail(p, l)
    <3>1. [m EXCEPT !.at = "write", !.tail = log] \in InFlight
      BY <2>e DEF InFlight, LanePoints
    <3>2. QED BY <2>7, <2>b, <3>1 DEF ReadTail
  <2>8. CASE WriteSegment(p, l)
    <3>1. m.tail \in Seq(Events) /\ NewEvent(p, l) \in Events
      BY EventType DEF InFlight, NewEvent, EventOf
    <3>2. Append(m.tail, NewEvent(p, l)) \in Seq(Events) BY <3>1
    <3>3. \E y \in InFlight : Put(p, l, y) BY <2>8, <2>c DEF WriteSegment, LanePoints
    <3>4. QED BY <2>8, <3>2, <3>3, PutLane DEF WriteSegment, CommitTypeOK
  <2>9. CASE Readback(p, l)
    <3>1. \A b \in BOOLEAN : [m EXCEPT !.at = "release", !.ok = b] \in InFlight
      BY DEF InFlight, LanePoints
    <3>2. QED BY <2>9, <2>b, <3>1 DEF Readback
  <2>10. CASE ReleaseCheck(p, l) BY <2>10, <2>b, <2>c, <2>d DEF ReleaseCheck, LanePoints
  <2>11. CASE ReleaseMutation(p, l)
    <3>1. NewEvent(p, l) \in Events BY EventType DEF NewEvent, EventOf
    <3>2. \E y \in InFlight : Put(p, l, y) BY <2>11, <2>d DEF ReleaseMutation
    <3>3. QED BY <2>11, <3>1, <3>2, PutLane DEF ReleaseMutation, CommitTypeOK
  <2>12. QED
    BY <1>2, <2>1, <2>2, <2>3, <2>4, <2>5, <2>6, <2>7, <2>8, <2>9, <2>10, <2>11 DEF LaneStep
<1>3. CASE UNCHANGED commitVars BY <1>3 DEF commitVars, commit, CommitTypeOK
<1>4. QED BY <1>1, <1>2, <1>3 DEF CommitNext

(* mutation.claim, the events and every mutation in flight keep their types. *)
THEOREM CommitTyping == CommitSpec => []CommitTypeOK
<1>1. CommitInit => CommitTypeOK
  BY IdleType, EmptySeq DEF CommitInit, CommitTypeOK
<1>2. TypeOK /\ CommitTypeOK /\ [CommitNext]_commitVars => CommitTypeOK' BY CommitTypingStep
<1>3. QED BY <1>1, <1>2, LeaseUnderneath, Typing, PTL DEF CommitSpec

-----------------------------------------------------------------------------
(* A mutation that moves on keeps CommitInv when it claims nothing it did    *)
(* not have and knows of the chain what its new point demands.             *)
LEMMA QuietStep ==
    ASSUME CommitTypeOK, CommitInv, NEW p \in Proc, NEW l \in Lane, NEW m \in InFlight,
           UNCHANGED <<vars, mutation, log>>, pc[p] = "held", Put(p, l, m),
           m.at \in ClaimedPoints => Mine(p, l),
           Knows(m, EventOf(m, p, l))
    PROVE  CommitInv'
<1>1. /\ lane'[p][l] = m
      /\ \A q \in Proc, k \in Lane : q # p \/ k # l => lane'[q][k] = lane[q][k]
  BY PutLane
<1>2. LanesOfHolders' BY <1>1 DEF CommitInv, LanesOfHolders, vars
<1>3. ClaimIsMine' BY <1>1 DEF CommitInv, ClaimIsMine, Mine
<1>4. ChainValid(log)' BY DEF CommitInv
<1>5. ASSUME NEW q \in Proc, NEW k \in Lane PROVE Knows(lane[q][k], NewEvent(q, k))'
  <2>1. CASE q = p /\ k = l BY <1>1, <2>1 DEF Knows, NewEvent, EventOf, Committed
  <2>2. CASE ~(q = p /\ k = l)
    <3>1. lane'[q][k] = lane[q][k] BY <1>1, <2>2
    <3>2. Knows(lane[q][k], NewEvent(q, k)) BY DEF CommitInv, KnowsTheChain
    <3>3. QED BY <3>1, <3>2 DEF Knows, NewEvent, Committed
  <2>3. QED BY <2>1, <2>2
<1>6. QED BY <1>2, <1>3, <1>4, <1>5 DEF CommitInv, KnowsTheChain

(* One mutation at a time is past createMutationClaim. *)
LEMMA ClaimIsExclusive ==
    ASSUME CommitInv, NEW p \in Proc, NEW l \in Lane, NEW q \in Proc, NEW k \in Lane,
           lane[p][l].at \in ClaimedPoints, lane[q][k].at \in ClaimedPoints
    PROVE  q = p /\ k = l
BY DEF CommitInv, ClaimIsMine, Mine, Mutation

(* CommitInv is inductive as far as the steps of a mutation go. *)
LEMMA CommitInvLaneStep ==
    ASSUME TypeOK, CommitTypeOK, CommitInv, NEW p \in Proc, NEW l \in Lane, LaneStep(p, l)
    PROVE  CommitInv'
<1> DEFINE m == lane[p][l]
<1>1. /\ UNCHANGED vars /\ pc[p] = "held"
      /\ m \in InFlight /\ log \in Seq(Events) /\ Len(log) \in Nat
      /\ lease.id \in DirId \cup {NoId}
  BY LaneLeavesLease, LenProperties, DirType DEF CommitTypeOK, TypeOK
<1>2. /\ m.at \in ClaimedPoints => Mine(p, l)
      /\ Knows(m, EventOf(m, p, l))
      /\ ChainValid(log)
  BY DEF CommitInv, ClaimIsMine, KnowsTheChain, NewEvent, EventOf
<1>3. ASSUME NEW x \in LanePoints, Advance(p, l, x), UNCHANGED <<mutation, log>>,
             x \in ClaimedPoints => Mine(p, l),
             x \notin {"tail", "write", "readback"},
             m.ok => x \in {"release", "unclaim"}
      PROVE  CommitInv'
  <2>1. LET n == [m EXCEPT !.at = x]
        IN  /\ n \in InFlight /\ Put(p, l, n) /\ n.at = x
            /\ Knows(n, EventOf(n, p, l))
    BY <1>1, <1>2, <1>3 DEF InFlight, Advance, Knows, EventOf
  <2>2. QED BY <1>1, <1>3, <2>1, QuietStep
<1>4. ASSUME End(p, l), UNCHANGED <<mutation, log>> PROVE CommitInv'
  <2>1. Knows(Idle, EventOf(Idle, p, l)) /\ Idle.at \notin ClaimedPoints
    BY DEF Knows, Idle, ClaimedPoints
  <2>2. QED BY <1>1, <1>4, <2>1, IdleType, QuietStep DEF End
<1>5. CASE Begin(p, l)
  <2>1. LET n == [Idle EXCEPT !.at = "stat", !.expected = Len(log)]
        IN  n \in InFlight /\ n.at \notin ClaimedPoints /\ Knows(n, EventOf(n, p, l))
    BY <1>1, IdleType DEF InFlight, LanePoints, ClaimedPoints, Knows, Idle
  <2>2. QED BY <1>1, <1>5, <2>1, QuietStep DEF Begin
<1>6. CASE MutationStat(p, l)
  <2>1. LET n == [m EXCEPT !.at = "open", !.gen = lease.id]
        IN  n \in InFlight /\ n.at \notin ClaimedPoints /\ Knows(n, EventOf(n, p, l))
    BY <1>1, <1>2, <1>6 DEF InFlight, LanePoints, ClaimedPoints, Knows, MutationStat, At
  <2>2. QED BY <1>1, <1>4, <1>6, <2>1, QuietStep DEF MutationStat
<1>7. CASE MutationOpen(p, l)
  <2>1. CASE End(p, l) /\ UNCHANGED mutation BY <1>4, <1>7, <2>1 DEF MutationOpen
  <2>2. CASE /\ mutation = NoMutation /\ mutation' = Mutation(p, l)
             /\ Advance(p, l, "verify") /\ UNCHANGED log
    <3>1. LET n == [m EXCEPT !.at = "verify"]
          IN  n \in InFlight /\ Put(p, l, n) /\ Knows(n, EventOf(n, p, l))
      BY <1>1, <1>2, <1>7, <2>2 DEF InFlight, LanePoints, Knows, EventOf, Advance, MutationOpen, At
    <3>2. /\ Knows(lane'[p][l], EventOf(lane'[p][l], p, l))
          /\ \A q \in Proc, k \in Lane : q # p \/ k # l => lane'[q][k] = lane[q][k]
      BY <3>1, PutLane
    <3>3. ASSUME NEW q \in Proc, NEW k \in Lane, lane[q][k].at \in ClaimedPoints PROVE FALSE
      BY <2>2, <3>3, ConstantsAssumption DEF CommitInv, ClaimIsMine, Mine, Mutation, NoMutation
    <3>4. ClaimIsMine' BY <2>2, <3>2, <3>3 DEF ClaimIsMine, Mine
    <3>5. LanesOfHolders' BY <1>1, <3>2 DEF CommitInv, LanesOfHolders, vars
    <3>6. ASSUME NEW q \in Proc, NEW k \in Lane PROVE Knows(lane[q][k], NewEvent(q, k))'
      <4>1. CASE q = p /\ k = l BY <2>2, <3>2, <4>1 DEF Knows, NewEvent, EventOf, Committed
      <4>2. CASE ~(q = p /\ k = l)
        <5>1. lane'[q][k] = lane[q][k] BY <3>2, <4>2
        <5>2. Knows(lane[q][k], NewEvent(q, k)) BY DEF CommitInv, KnowsTheChain
        <5>3. QED BY <2>2, <5>1, <5>2 DEF Knows, NewEvent, Committed
      <4>3. QED BY <4>1, <4>2
    <3>7. QED BY <1>2, <2>2, <3>4, <3>5, <3>6 DEF CommitInv, KnowsTheChain
  <2>3. QED BY <1>7, <2>1, <2>2 DEF MutationOpen
<1>8. CASE MutationVerify(p, l)
  <2>1. ~m.ok BY <1>2, <1>8 DEF Knows, MutationVerify, At
  <2>2. QED BY <1>3, <1>4, <1>8, <2>1 DEF MutationVerify, LanePoints
<1>9. CASE AssertAgain(p, l)
  <2>1. ~m.ok /\ Mine(p, l) BY <1>2, <1>9 DEF Knows, AssertAgain, At, ClaimedPoints
  <2>2. QED BY <1>3, <1>9, <2>1 DEF AssertAgain, LanePoints
<1>10. CASE Replay(p, l)
  <2>1. ~m.ok /\ Mine(p, l) BY <1>2, <1>10 DEF Knows, Replay, At, ClaimedPoints
  <2>2. LET n == [m EXCEPT !.at = IF ReReadsTail THEN "tail" ELSE "write",
                           !.version = Len(log), !.tail = log]
        IN  n \in InFlight /\ Knows(n, EventOf(n, p, l))
    BY <1>1, <2>1 DEF InFlight, LanePoints, Knows
  <2>3. QED BY <1>1, <1>3, <1>10, <2>1, <2>2, QuietStep DEF Replay, LanePoints
<1>11. CASE ReadTail(p, l)
  <2>1. ~m.ok /\ Mine(p, l) /\ m.version = Len(log)
    BY <1>2, <1>11 DEF Knows, ReadTail, At, ClaimedPoints
  <2>2. LET n == [m EXCEPT !.at = "write", !.tail = log]
        IN  n \in InFlight /\ Knows(n, EventOf(n, p, l))
    BY <1>1, <2>1 DEF InFlight, LanePoints, Knows
  <2>3. QED BY <1>1, <1>11, <2>1, <2>2, QuietStep DEF ReadTail
<1>12. CASE WriteSegment(p, l)
  <2>1. /\ ~m.ok /\ Mine(p, l) /\ m.at \in ClaimedPoints
        /\ m.version = Len(log) /\ m.tail = log
    BY <1>2, <1>12 DEF Knows, WriteSegment, At, ClaimedPoints
  <2>2. /\ NewEvent(p, l) \in Events /\ NewEvent(p, l).seq = Len(log) + 1
        /\ log' = Append(log, NewEvent(p, l))
    BY <1>1, <1>12, <2>1, EventType DEF WriteSegment, NewEvent, EventOf
  <2>3. /\ Len(log') = Len(log) + 1
        /\ \A i \in 1..Len(log) : log'[i] = log[i]
        /\ log'[Len(log) + 1] = NewEvent(p, l)
    BY <1>1, <2>2, AppendProperties
  <2>4. ChainValid(log') BY <1>1, <1>2, <2>2, <2>3 DEF ChainValid
  <2>5. LET n == [m EXCEPT !.at = "readback"]
        IN  n \in InFlight /\ Put(p, l, n) /\ EventOf(n, p, l) = NewEvent(p, l) /\ n.tail = m.tail
    BY <1>1, <1>12 DEF InFlight, LanePoints, Advance, WriteSegment, EventOf, NewEvent
  <2>6. /\ lane'[p][l] = [m EXCEPT !.at = "readback"]
        /\ \A q \in Proc, k \in Lane : q # p \/ k # l => lane'[q][k] = lane[q][k]
    BY <2>5, PutLane
  <2>7. LanesOfHolders' BY <1>1, <2>6 DEF CommitInv, LanesOfHolders, vars
  <2>8. ClaimIsMine' BY <1>12, <2>1, <2>6 DEF CommitInv, ClaimIsMine, Mine, WriteSegment
  <2>9. ASSUME NEW q \in Proc, NEW k \in Lane PROVE Knows(lane[q][k], NewEvent(q, k))'
    <3>1. CASE q = p /\ k = l
      <4>1. /\ lane'[p][l].at = "readback" /\ ~lane'[p][l].ok /\ lane'[p][l].tail = log
            /\ NewEvent(p, l)' = NewEvent(p, l)
        BY <1>1, <2>1, <2>6 DEF InFlight, NewEvent
      <4>2. QED BY <2>2, <3>1, <4>1 DEF Knows
    <3>2. CASE ~(q = p /\ k = l)
      <4>1. lane[q][k].at \notin ClaimedPoints \/ lane[q][k].at \in {"release", "unclaim"}
        BY <2>1, <3>2, ClaimIsExclusive
      <4>2. lane'[q][k] = lane[q][k] BY <2>6, <3>2
      <4>3. Knows(lane[q][k], NewEvent(q, k)) BY DEF CommitInv, KnowsTheChain
      <4>4. \A e : Committed(e) => Committed(e)' BY <1>1, <2>3 DEF Committed
      <4>5. QED BY <4>1, <4>2, <4>3, <4>4 DEF Knows, NewEvent, ClaimedPoints
    <3>3. QED BY <3>1, <3>2
  <2>10. QED BY <2>4, <2>7, <2>8, <2>9 DEF CommitInv, KnowsTheChain
<1>13. CASE Readback(p, l)
  <2>1. Mine(p, l) /\ log = Append(m.tail, NewEvent(p, l)) /\ m.tail \in Seq(Events)
    BY <1>1, <1>2, <1>13 DEF Knows, Readback, At, ClaimedPoints, EventOf, NewEvent, InFlight
  <2>2. NewEvent(p, l) \in Events BY <1>1, EventType DEF NewEvent, EventOf
  <2>3. Len(log) = Len(m.tail) + 1 /\ log[Len(m.tail) + 1] = NewEvent(p, l)
    BY <2>1, <2>2, AppendProperties
  <2>4. Committed(NewEvent(p, l)) BY <1>1, <2>1, <2>3, LenProperties DEF Committed
  <2>5. ASSUME NEW b \in BOOLEAN
        PROVE  LET n == [m EXCEPT !.at = "release", !.ok = b]
               IN  n \in InFlight /\ Knows(n, EventOf(n, p, l))
    BY <1>1, <2>4 DEF InFlight, LanePoints, Knows, EventOf, NewEvent
  <2>6. QED BY <1>1, <1>13, <2>1, <2>5, QuietStep DEF Readback
<1>14. CASE ReleaseCheck(p, l) BY <1>2, <1>3, <1>4, <1>14 DEF ReleaseCheck, LanePoints
<1>15. CASE ReleaseMutation(p, l)
  <2>1. m.at \in ClaimedPoints BY <1>15 DEF ReleaseMutation, At, ClaimedPoints
  <2>2. /\ lane'[p][l] = Idle
        /\ \A q \in Proc, k \in Lane : q # p \/ k # l => lane'[q][k] = lane[q][k]
    BY <1>15, IdleType, PutLane DEF ReleaseMutation, End
  <2>3. LanesOfHolders' BY <1>1, <2>2 DEF CommitInv, LanesOfHolders, vars
  <2>4. ClaimIsMine'
    BY <2>1, <2>2, ClaimIsExclusive DEF ClaimIsMine, Idle, ClaimedPoints
  <2>5. ASSUME NEW q \in Proc, NEW k \in Lane PROVE Knows(lane[q][k], NewEvent(q, k))'
    <3>1. CASE q = p /\ k = l BY <2>2, <3>1 DEF Knows, Idle
    <3>2. CASE ~(q = p /\ k = l)
      <4>1. lane'[q][k] = lane[q][k] BY <2>2, <3>2
      <4>2. Knows(lane[q][k], NewEvent(q, k)) BY DEF CommitInv, KnowsTheChain
      <4>3. QED BY <1>15, <4>1, <4>2 DEF Knows, NewEvent, Committed, ReleaseMutation
    <3>3. QED BY <3>1, <3>2
  <2>6. QED BY <1>2, <1>15, <2>3, <2>4, <2>5 DEF CommitInv, KnowsTheChain, ReleaseMutation
<1>16. QED
  BY <1>5, <1>6, <1>7, <1>8, <1>9, <1>10, <1>11, <1>12, <1>13, <1>14, <1>15 DEF LaneStep

(* A step of the lease protocol takes mutation.claim from nobody who has    *)
(* mutations in flight: a holder's directory stays at its path.            *)
LEMMA CommitInvLeaseStep ==
    ASSUME TypeOK, CommitTypeOK, HolderOwns, HolderOwns', CommitInv, LeaseStep
    PROVE  CommitInv'
<1>1. ASSUME NEW p \in Proc, NEW l \in Lane
      PROVE  lane'[p][l] = IF pc'[p] = "held" THEN lane[p][l] ELSE Idle
  BY DEF LeaseStep
<1>2. ASSUME NEW p \in Proc, NEW l \in Lane, lane'[p][l] # Idle
      PROVE  /\ pc[p] = "held" /\ pc'[p] = "held"
             /\ lane'[p][l] = lane[p][l]
             /\ mutation' = mutation
  <2>1. pc[p] = "held" /\ pc'[p] = "held" /\ lane'[p][l] = lane[p][l]
    BY <1>1, <1>2 DEF CommitInv, LanesOfHolders
  <2>2. lease.owner.by = p /\ lease'.owner.by = p BY <2>1 DEF HolderOwns, OwnsLease
  <2>3. lease # NoDir /\ lease' # NoDir BY <2>2, NoDirType, NoFileType, ConstantsAssumption
  <2>4. lease'.id = lease.id BY <2>3, LeaseKeepsItsName DEF LeaseStep
  <2>5. QED BY <2>1, <2>4 DEF LeaseStep
<1>3. LanesOfHolders' BY <1>2 DEF LanesOfHolders
<1>4. ClaimIsMine' BY <1>2 DEF CommitInv, ClaimIsMine, Mine, Idle, ClaimedPoints
<1>5. KnowsTheChain'
  BY <1>2 DEF CommitInv, KnowsTheChain, Knows, NewEvent, Committed, Idle, LeaseStep
<1>6. ChainValid(log)' BY DEF CommitInv, LeaseStep
<1>7. QED BY <1>3, <1>4, <1>5, <1>6 DEF CommitInv

(* Under the conditions of WorkspaceLease_proofs, mutation.claim admits one  *)
(* mutation at a time, whichever commands are killed around it, and that   *)
(* mutation knows the chain as it is.                                      *)
THEOREM CommitInvariant == ASSUME Undisturbed PROVE CommitSpec => []CommitInv
<1>1. ASSUME CommitInit PROVE CommitInv
  <2>1. \A p \in Proc, l \in Lane : lane[p][l] = Idle BY <1>1 DEF CommitInit
  <2>2. ChainValid(log) BY <1>1, EmptySeq DEF CommitInit, ChainValid
  <2>3. Idle.at = "idle" /\ ~Idle.ok BY DEF Idle
  <2>4. LanesOfHolders /\ ClaimIsMine BY <2>1, <2>3 DEF LanesOfHolders, ClaimIsMine, ClaimedPoints
  <2>5. KnowsTheChain BY <2>1, <2>3 DEF KnowsTheChain, Knows
  <2>6. QED BY <2>2, <2>4, <2>5 DEF CommitInv
<1>2. ASSUME TypeOK, CommitTypeOK, HolderOwns, HolderOwns', CommitInv, [CommitNext]_commitVars
      PROVE  CommitInv'
  <2>1. CASE UNCHANGED commitVars
    <3>1. UNCHANGED <<pc, mutation, log, lane>> BY <2>1 DEF commitVars, commit, vars
    <3>2. QED
      BY <1>2, <3>1 DEF CommitInv, LanesOfHolders, ClaimIsMine, Mine, KnowsTheChain, Knows, NewEvent,
                        Committed
  <2>2. QED BY <1>2, <2>1, CommitInvLaneStep, CommitInvLeaseStep DEF CommitNext
<1>3. QED
  BY <1>1, <1>2, LeaseUnderneath, Typing, HoldersOwnTheLease, CommitTyping, PTL DEF CommitSpec

(* Between its replay and its commit a mutation has the chain to itself.    *)
THEOREM ReplaysAreCurrent == ASSUME Undisturbed PROVE CommitSpec => []ReplayIsCurrent
<1>1. CommitInv => ReplayIsCurrent BY DEF CommitInv, KnowsTheChain, Knows, ReplayIsCurrent
<1>2. QED BY <1>1, CommitInvariant, PTL

-----------------------------------------------------------------------------
(* Every step extends the chain by at most the event of the one mutation    *)
(* that writes, and reports an event only once it is there.                *)
LEMMA ChainStep ==
    ASSUME CommitTypeOK, CommitInv, [CommitNext]_commitVars
    PROVE  [Chain!Next]_<<log, acked>>
<1>1. log \in Seq(Events) /\ Len(log) \in Nat BY LenProperties DEF CommitTypeOK
<1>2. ASSUME UNCHANGED log PROVE Chain!Extended
  BY <1>1, <1>2, SubSeqFull DEF Chain!Extended
<1>3. ASSUME NEW p \in Proc, NEW l \in Lane, WriteSegment(p, l) PROVE Chain!Next
  <2>1. lane[p][l].version = Len(log) /\ lane[p][l].tail = log /\ lane[p][l] \in InFlight
    BY <1>3 DEF WriteSegment, At, CommitInv, KnowsTheChain, Knows, CommitTypeOK
  <2>2. NewEvent(p, l) \in Events /\ NewEvent(p, l).seq = Len(log) + 1
    BY <2>1, EventType DEF NewEvent, EventOf
  <2>3. log' = Append(log, NewEvent(p, l)) /\ UNCHANGED acked BY <1>3, <2>1 DEF WriteSegment
  <2>4. /\ log' \in Seq(Events) /\ Len(log') = Len(log) + 1
        /\ \A i \in 1..Len(log) : log'[i] = log[i]
        /\ log'[Len(log) + 1] = NewEvent(p, l)
    BY <1>1, <2>2, <2>3, AppendProperties
  <2>5. SubSeq(log', 1, Len(log)) = log
    <3>1. /\ SubSeq(log', 1, Len(log)) \in Seq(Events)
          /\ Len(SubSeq(log', 1, Len(log))) = Len(log)
          /\ \A i \in 1..Len(log) : SubSeq(log', 1, Len(log))[i] = log'[i]
      BY <1>1, <2>4
    <3>2. QED BY <1>1, <2>4, <3>1, SeqEqual
  <2>6. QED BY <1>1, <2>2, <2>3, <2>4, <2>5 DEF Chain!Next, Chain!Extended, Chain!Reported
<1>4. ASSUME NEW p \in Proc, NEW l \in Lane, ReleaseMutation(p, l) PROVE Chain!Next
  <2>1. UNCHANGED log BY <1>4 DEF ReleaseMutation
  <2>2. lane[p][l].ok => Committed(NewEvent(p, l)) BY DEF CommitInv, KnowsTheChain, Knows
  <2>3. Chain!Reported BY <1>4, <2>1, <2>2 DEF Chain!Reported, ReleaseMutation, Committed
  <2>4. QED BY <1>2, <2>1, <2>3 DEF Chain!Next
<1>5. ASSUME NEW p \in Proc, NEW l \in Lane, LaneStep(p, l), ~WriteSegment(p, l), ~ReleaseMutation(p, l)
      PROVE  UNCHANGED <<log, acked>>
  BY <1>5 DEF LaneStep, Begin, MutationStat, MutationOpen, MutationVerify, AssertAgain, Replay,
              ReadTail, Readback, ReleaseCheck
<1>6. CASE LeaseStep \/ UNCHANGED commitVars
  <2>1. UNCHANGED <<log, acked>> BY <1>6 DEF LeaseStep, commitVars, commit
  <2>2. QED BY <2>1
<1>7. QED BY <1>3, <1>4, <1>5, <1>6 DEF CommitNext

(* No event is lost, rewritten or duplicated and a reported event stays,    *)
(* however many commands and mutations compete for the chain.              *)
THEOREM CommitImplementsEventChain ==
    ASSUME Undisturbed PROVE CommitSpec => ImplementsEventChain
<1>1. CommitInit => Chain!Init BY DEF CommitInit, Chain!Init
<1>2. CommitTypeOK /\ CommitInv /\ [CommitNext]_commitVars => [Chain!Next]_<<log, acked>>
  BY ChainStep
<1>3. QED
  BY <1>1, <1>2, CommitTyping, CommitInvariant, PTL DEF CommitSpec, ImplementsEventChain, Chain!Spec
=============================================================================
