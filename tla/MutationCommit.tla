---------------------------- MODULE MutationCommit ----------------------------
(***************************************************************************)
(* appendEvents (packages/core/src/workspace.ts) under the lease protocol  *)
(* of WorkspaceLease: the holder of a lease runs mutations, possibly       *)
(* several at once under the same lease object ("aliases"), and each one    *)
(* takes lease/mutation.claim, replays the chain, compares the version it   *)
(* was told to expect, rewrites the last segment and reads it back.         *)
(*                                                                         *)
(* An event is its sequence number and its author; the segment files are   *)
(* one sequence, which a commit replaces as atomicWrite replaces the last  *)
(* of them.  Segment files, batches and views are in EventStore.           *)
(***************************************************************************)
EXTENDS WorkspaceLease, Sequences

CONSTANTS
    Lane,        \* the mutations one command may have in flight
    NoLane,
    MaxEvents,   \* bound on the chain at which no further mutation starts
    ReReadsTail  \* storage version 2: the last segment is read again for the commit

ASSUME CommitAssumption == /\ NoLane \notin Lane
                           /\ MaxEvents \in Nat
                           /\ ReReadsTail \in BOOLEAN

VARIABLES
    mutation,    \* the file lease/mutation.claim
    log,         \* the events in the segment files
    acked,       \* the events whose append returned to its caller
    lane         \* the mutations in flight

commit     == <<mutation, log, acked, lane>>
commitVars == <<vars, commit>>

NoMutation == [by |-> NoProc, lane |-> NoLane]
Mutation(p, l) == [by |-> p, lane |-> l]
Event(n, p, l) == [seq |-> n, by |-> p, lane |-> l]

LanePoints == {"idle", "stat", "open", "verify", "assert", "replay", "tail", "write",
               "readback", "release", "unclaim"}

(* A mutation in flight: the version it expects, the directory identity it  *)
(* captured, the chain it will extend, and whether it committed.           *)
Idle == [at |-> "idle", expected |-> 0, gen |-> NoId, version |-> 0, tail |-> <<>>, ok |-> FALSE]

ChainValid(chain) == \A i \in 1..Len(chain) : chain[i].seq = i

CommitInit ==
    /\ Init
    /\ mutation = NoMutation
    /\ log = <<>>
    /\ acked = {}
    /\ lane = [p \in Proc |-> [l \in Lane |-> Idle]]

-----------------------------------------------------------------------------
At(p, l, point) == pc[p] = "held" /\ lane[p][l].at = point
Put(p, l, m) == lane' = [lane EXCEPT ![p][l] = m]
Advance(p, l, point) == Put(p, l, [lane[p][l] EXCEPT !.at = point])
End(p, l) == Put(p, l, Idle)

Mine(p, l) == mutation = Mutation(p, l)
NewEvent(p, l) == Event(lane[p][l].version + 1, p, l)

(* The caller names the version it saw; assertLease. *)
Begin(p, l) ==
    /\ At(p, l, "idle")
    /\ Len(log) < MaxEvents
    /\ OwnsLease(p)
    /\ Put(p, l, [Idle EXCEPT !.at = "stat", !.expected = Len(log)])
    /\ UNCHANGED <<vars, mutation, log, acked>>

(* createMutationClaim: lstat, open with O_EXCL, lstat again. *)
MutationStat(p, l) ==
    /\ At(p, l, "stat")
    /\ IF lease = NoDir THEN End(p, l)
       ELSE Put(p, l, [lane[p][l] EXCEPT !.at = "open", !.gen = lease.id])
    /\ UNCHANGED <<vars, mutation, log, acked>>

(* Mutant: without O_EXCL. *)
MutationOverwrite(p, l) ==
    /\ At(p, l, "open")
    /\ IF lease # NoDir
       THEN mutation' = Mutation(p, l) /\ Advance(p, l, "verify")
       ELSE End(p, l) /\ UNCHANGED mutation
    /\ UNCHANGED <<vars, log, acked>>

MutationOpen(p, l) ==
    /\ At(p, l, "open")
    /\ IF lease # NoDir /\ mutation = NoMutation
       THEN mutation' = Mutation(p, l) /\ Advance(p, l, "verify")
       ELSE End(p, l) /\ UNCHANGED mutation
    /\ UNCHANGED <<vars, log, acked>>

MutationVerify(p, l) ==
    /\ At(p, l, "verify")
    /\ IF lease.id = lane[p][l].gen /\ Mine(p, l) THEN Advance(p, l, "assert") ELSE End(p, l)
    /\ UNCHANGED <<vars, mutation, log, acked>>

AssertAgain(p, l) ==
    /\ At(p, l, "assert")
    /\ Advance(p, l, IF OwnsLease(p) THEN "replay" ELSE "release")
    /\ UNCHANGED <<vars, mutation, log, acked>>

(* Mutant: the expected version is not compared. *)
ReplayUnchecked(p, l) ==
    /\ At(p, l, "replay")
    /\ Put(p, l, [lane[p][l] EXCEPT !.at = IF ReReadsTail THEN "tail" ELSE "write",
                                    !.version = lane[p][l].expected, !.tail = log])
    /\ UNCHANGED <<vars, mutation, log, acked>>

(* The full replay, which refuses a broken chain, and the version check. *)
Replay(p, l) ==
    /\ At(p, l, "replay")
    /\ IF ChainValid(log) /\ lane[p][l].expected = Len(log)
       THEN Put(p, l, [lane[p][l] EXCEPT !.at = IF ReReadsTail THEN "tail" ELSE "write",
                                         !.version = Len(log), !.tail = log])
       ELSE Advance(p, l, "release")
    /\ UNCHANGED <<vars, mutation, log, acked>>

(* Version 2 extends the bytes of the last segment as they are now. *)
ReadTail(p, l) ==
    /\ At(p, l, "tail")
    /\ Put(p, l, [lane[p][l] EXCEPT !.at = "write", !.tail = log])
    /\ UNCHANGED <<vars, mutation, log, acked>>

(* writeSegment: the file is replaced, whatever it holds by now. *)
WriteSegment(p, l) ==
    /\ At(p, l, "write")
    /\ log' = Append(lane[p][l].tail, NewEvent(p, l))
    /\ Advance(p, l, "readback")
    /\ UNCHANGED <<vars, mutation, acked>>

Readback(p, l) ==
    /\ At(p, l, "readback")
    /\ Put(p, l, [lane[p][l] EXCEPT !.at = "release",
                                    !.ok = (log = Append(lane[p][l].tail, NewEvent(p, l)))])
    /\ UNCHANGED <<vars, mutation, log, acked>>

(* releaseMutationClaim, in a finally block: its error replaces the result. *)
ReleaseCheck(p, l) ==
    /\ At(p, l, "release")
    /\ IF OwnsLease(p) /\ Mine(p, l) THEN Advance(p, l, "unclaim") ELSE End(p, l)
    /\ UNCHANGED <<vars, mutation, log, acked>>

(* rename, verification and removal; then the append returns. *)
ReleaseMutation(p, l) ==
    /\ At(p, l, "unclaim")
    /\ mutation' = NoMutation
    /\ acked' = IF Mine(p, l) /\ lane[p][l].ok THEN acked \cup {NewEvent(p, l)} ELSE acked
    /\ End(p, l)
    /\ UNCHANGED <<vars, log>>

LaneStep(p, l) ==
    \/ Begin(p, l) \/ MutationStat(p, l) \/ MutationOpen(p, l) \/ MutationVerify(p, l)
    \/ AssertAgain(p, l) \/ Replay(p, l) \/ ReadTail(p, l) \/ WriteSegment(p, l)
    \/ Readback(p, l) \/ ReleaseCheck(p, l) \/ ReleaseMutation(p, l)

(* A step of the lease protocol.  mutation.claim goes where its directory   *)
(* goes; a command releases its lease when its mutations have returned.     *)
LeaseStep ==
    /\ Next
    /\ \A p \in Proc : pc[p] = "held" /\ pc'[p] \in {"relmove", "done"}
                           => \A l \in Lane : lane[p][l] = Idle
    /\ mutation' = IF lease'.id = lease.id THEN mutation ELSE NoMutation
    /\ lane' = [p \in Proc |-> IF pc'[p] = "held" THEN lane[p] ELSE [l \in Lane |-> Idle]]
    /\ UNCHANGED <<log, acked>>

CommitNext == LeaseStep \/ \E p \in Proc, l \in Lane : LaneStep(p, l)

CommitSpec == CommitInit /\ [][CommitNext]_commitVars

-----------------------------------------------------------------------------
(* Between the replay and the commit a mutation has the chain to itself:    *)
(* what it replayed is still what the segments hold, although other        *)
(* commands and aliases of its own lease run at the same time.             *)
ReplayIsCurrent ==
    \A p \in Proc, l \in Lane :
        pc[p] = "held" /\ lane[p][l].at \in {"tail", "write"}
            => ChainValid(log) /\ lane[p][l].version = Len(log) /\ lane[p][l].tail = log

(* Why that holds when the holders own their lease: the inductive           *)
(* strengthening, with the type invariant.                                 *)
Events == [seq : Nat, by : Proc, lane : Lane]
InFlight == [at : LanePoints, expected : Nat, gen : DirId \cup {NoId}, version : Nat,
             tail : Seq(Events), ok : BOOLEAN]

CommitTypeOK ==
    /\ mutation \in {NoMutation} \cup [by : Proc, lane : Lane]
    /\ log \in Seq(Events)
    /\ acked \subseteq Events
    /\ lane \in [Proc -> [Lane -> InFlight]]

(* Only the holder of a lease has mutations in flight. *)
LanesOfHolders == \A p \in Proc, l \in Lane : pc[p] # "held" => lane[p][l] = Idle

(* From its creation to its removal mutation.claim names the one mutation   *)
(* that is past createMutationClaim.                                       *)
ClaimedPoints == {"verify", "assert", "replay", "tail", "write", "readback", "release", "unclaim"}
ClaimIsMine == \A p \in Proc, l \in Lane : lane[p][l].at \in ClaimedPoints => Mine(p, l)

Committed(e) == \E i \in 1..Len(log) : log[i] = e

(* What a mutation knows of the chain at the points that use it. *)
Knows(m, e) ==
    /\ m.at \in {"tail", "write"} => m.version = Len(log) /\ m.tail = log
    /\ m.at = "readback" => log = Append(m.tail, e)
    /\ m.ok => m.at \in {"release", "unclaim"} /\ Committed(e)
KnowsTheChain == \A p \in Proc, l \in Lane : Knows(lane[p][l], NewEvent(p, l))

CommitInv == LanesOfHolders /\ ClaimIsMine /\ ChainValid(log) /\ KnowsTheChain

(* No event is lost, rewritten or duplicated, and a reported event stays.   *)
Chain == INSTANCE EventChain WITH chain <- log
ImplementsEventChain == Chain!Spec
=============================================================================
