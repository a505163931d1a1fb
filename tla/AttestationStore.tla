-------------------------- MODULE AttestationStore --------------------------
(***************************************************************************)
(* The time receipts of packages/core/src/attestation-storage.ts and the   *)
(* commands of packages/cli/src/index.ts that write, migrate, repair and   *)
(* restore them.                                                           *)
(*                                                                         *)
(* A directory holds one file per receipt (the legacy layout) or, once it  *)
(* has a manifest, segments of sorted records.  Every change is made under *)
(* a lock file that is linked into place, judged stale by its content and  *)
(* moved aside by whoever judged it.  A rewrite replaces the segments one  *)
(* by one under their final names and the manifest after them.             *)
(*                                                                         *)
(* A receipt is the number of its event hash in canonical order; a segment *)
(* and its index are one write; a digest is the content it stands for.     *)
(***************************************************************************)
EXTENDS Integers, FiniteSets, SequencesExt

CONSTANTS Process,       \* command slots, each running one command at a time
          None,          \* no lock, no manifest, no backup
          Receipt,       \* the event hashes, as numbers
          PerSegment,    \* ATTESTATION_SEGMENT_RECORDS
          MaxCrashes     \* how often a process may be killed

VARIABLES lock,          \* the text in attestation.lock: who placed it
          run,           \* run[p]: which process occupies the slot
          pc,            \* pc[p]: what the command of the slot does next
          op,            \* op[p]: the command and what it remembers
          judged,        \* judged[p]: the text p judged stale
          legacy,        \* the one-file receipts
          segment,       \* the segment files, by number
          manifest,      \* the segments manifest.json describes
          backup,        \* the backup directory of the last repair
          baseline,      \* the report an operator kept for --mode delete
          chain,         \* events that are committed
          reported,      \* receipts whose write returned
          torn,          \* a kill hit a rewrite of several segments half way
          crashes

lockVars == <<lock, judged>>
files == <<legacy, segment, manifest>>
ghosts == <<chain, reported, torn, crashes>>
attestVars == <<lock, run, pc, op, judged, legacy, segment, manifest, backup, baseline,
                chain, reported, torn, crashes>>

Number == 1..Cardinality(Receipt)
Records(segments) == UNION {ToSet(segments[i]) : i \in DOMAIN segments}
OnDisk == legacy \cup Records(segment)

\* The lock's text: the slot's process, its start and the time it was written.
Text(p) == <<p, run[p]>>
Alive(text) == run[text[1]] = text[2]
Held == lock # None /\ Alive(lock)

\* The segments the manifest names have the content it describes.
Matches(description) == description # None => \A i \in DOMAIN description : segment[i] = description[i]
Whole == Matches(manifest)

\* manifestMismatch: without the records in extra the segments are the store
\* the manifest describes.
Without(segments, extra) ==
    SelectSeq(FlattenSeq([i \in Number |-> segments[i]]), LAMBDA r : r \notin extra)
Repairs(extra) == /\ manifest # None
                  /\ extra \subseteq chain \cap Records(segment)
                  /\ Without(segment, extra) = FlattenSeq(manifest)

\* writeSegments: chunks of the sorted records, then the manifest, then the
\* removal of segments it does not name.
Chunks(records) ==
    LET sorted == SetToSortSeq(records, <)
    IN  [i \in 1..((Len(sorted) + PerSegment - 1) \div PerSegment) |->
            SubSeq(sorted, (i - 1) * PerSegment + 1,
                   IF i * PerSegment < Len(sorted) THEN i * PerSegment ELSE Len(sorted))]
Put(i, content) == [file |-> "segment", at |-> i, content |-> content]
Describe(segments) == [file |-> "manifest", at |-> 0, content |-> segments]
Trim(count) == [file |-> "trim", at |-> count, content |-> <<>>]
Drop(r) == [file |-> "drop", at |-> r, content |-> <<>>]
Add(r) == [file |-> "add", at |-> r, content |-> <<>>]

\* Mutant: the manifest is written before the segments it describes.
WriteManifestFirst(records) ==
    LET segments == Chunks(records)
    IN  <<Describe(segments)>> \o [i \in DOMAIN segments |-> Put(i, segments[i])]
            \o <<Trim(Len(segments))>>

WriteSegments(records) ==
    LET segments == Chunks(records)
    IN  [i \in DOMAIN segments |-> Put(i, segments[i])]
            \o <<Describe(segments), Trim(Len(segments))>>

----------------------------------------------------------------------------
\* Commands.

Idle == [kind |-> "none", receipt |-> 0, seen |-> None, todo |-> <<>>, size |-> 0]

AttestInit ==
    /\ lock = None
    /\ run = [p \in Process |-> 0]
    /\ pc = [p \in Process |-> "idle"]
    /\ op = [p \in Process |-> Idle]
    /\ judged = [p \in Process |-> None]
    /\ legacy = {} /\ segment = [i \in Number |-> <<>>] /\ manifest = None
    /\ backup = None /\ baseline = None
    /\ chain = {} /\ reported = {} /\ torn = FALSE /\ crashes = 0

\* A mutating verb with --attest-dir starts; the others go for the lock at once.
Start(p) ==
    /\ pc[p] = "idle"
    /\ \/ \E r \in Receipt \ chain :
             /\ \A q \in Process : op[q].receipt # r
             /\ op' = [op EXCEPT ![p] = [Idle EXCEPT !.kind = "write", !.receipt = r]]
             /\ pc' = [pc EXCEPT ![p] = "look"]
       \/ \E kind \in {"migrate", "delete", "repair", "restore"} :
             /\ kind = "delete" => baseline # None
             /\ kind = "restore" => backup # None
             /\ kind = "repair" => backup = None
             /\ op' = [op EXCEPT ![p] = [Idle EXCEPT !.kind = kind]]
             /\ pc' = [pc EXCEPT ![p] = "place"]
    /\ UNCHANGED <<lock, run, judged, files, backup, baseline, ghosts>>

\* attestation-migrate --mode report writes the baseline of a later delete.
Report ==
    /\ baseline # legacy
    /\ baseline' = legacy
    /\ UNCHANGED <<lock, run, pc, op, judged, files, backup, ghosts>>

\* checkAttestationStore, without the lock, before the command commits.
CheckLook(p) ==
    /\ pc[p] = "look"
    /\ IF Held THEN pc' = [pc EXCEPT ![p] = "idle"] /\ op' = [op EXCEPT ![p] = Idle]
               ELSE pc' = [pc EXCEPT ![p] = "read"] /\ op' = [op EXCEPT ![p].seen = manifest]
    /\ UNCHANGED <<lock, run, judged, files, backup, baseline, ghosts>>

CheckRead(p) ==
    /\ pc[p] = "read"
    /\ pc' = [pc EXCEPT ![p] = IF Matches(op[p].seen) THEN "commit" ELSE "again"]
    /\ UNCHANGED <<op, lock, run, judged, files, backup, baseline, ghosts>>

CheckAgain(p) ==
    /\ pc[p] = "again"
    /\ IF Held THEN pc' = [pc EXCEPT ![p] = "look"] /\ UNCHANGED op
               ELSE pc' = [pc EXCEPT ![p] = "idle"] /\ op' = [op EXCEPT ![p] = Idle]
    /\ UNCHANGED <<lock, run, judged, files, backup, baseline, ghosts>>

\* The mutation commits and its lease is returned; the receipt comes after.
CommitEvent(p) ==
    /\ pc[p] = "commit"
    /\ chain' = chain \cup {op[p].receipt}
    /\ pc' = [pc EXCEPT ![p] = "place"]
    /\ UNCHANGED <<lock, run, op, judged, files, backup, baseline, reported, torn, crashes>>

----------------------------------------------------------------------------
\* withAttestationLock.

Place(p) ==
    /\ pc[p] = "place"
    /\ IF lock = None THEN lock' = Text(p) /\ pc' = [pc EXCEPT ![p] = "plan"]
                      ELSE lock' = lock /\ pc' = [pc EXCEPT ![p] = "assess"]
    /\ UNCHANGED <<run, op, judged, files, backup, baseline, ghosts>>

\* A live holder is waited for until the timeout.
Assess(p) ==
    /\ pc[p] = "assess"
    /\ \/ /\ lock # None /\ ~Alive(lock)
          /\ judged' = [judged EXCEPT ![p] = lock]
          /\ pc' = [pc EXCEPT ![p] = "aside"] /\ UNCHANGED op
       \/ /\ lock # None => Alive(lock)
          /\ pc' = [pc EXCEPT ![p] = "place"] /\ UNCHANGED <<judged, op>>
       \/ /\ Held
          /\ pc' = [pc EXCEPT ![p] = "idle"] /\ op' = [op EXCEPT ![p] = Idle]
          /\ UNCHANGED judged
    /\ UNCHANGED <<lock, run, files, backup, baseline, ghosts>>

\* Mutant: a waiter removes the lock it judged stale without looking.
\* removeStaleLock moves whatever is at the path and looks afterwards.
MoveAside(p) ==
    /\ pc[p] = "aside"
    /\ IF lock = None \/ lock = judged[p]
       THEN pc' = [pc EXCEPT ![p] = "place"] /\ judged' = [judged EXCEPT ![p] = None]
       ELSE pc' = [pc EXCEPT ![p] = "restore"] /\ judged' = [judged EXCEPT ![p] = lock]
    /\ lock' = None
    /\ UNCHANGED <<run, op, files, backup, baseline, ghosts>>

PutBack(p) ==
    /\ pc[p] = "restore"
    /\ lock' = IF lock = None THEN judged[p] ELSE lock
    /\ judged' = [judged EXCEPT ![p] = None]
    /\ pc' = [pc EXCEPT ![p] = "place"]
    /\ UNCHANGED <<run, op, files, backup, baseline, ghosts>>

\* Only the lock this writer placed is removed.
Release(p) ==
    /\ pc[p] = "release"
    /\ lock' = IF lock = Text(p) THEN None ELSE lock
    /\ pc' = [pc EXCEPT ![p] = "idle"] /\ op' = [op EXCEPT ![p] = Idle]
    /\ UNCHANGED <<run, judged, files, backup, baseline, ghosts>>

----------------------------------------------------------------------------
\* The operations under the lock: read, judge, and the writes to come.

SegmentsIn(todo) == {i \in DOMAIN todo : todo[i].file = "segment"}
Planned(p, todo) ==
    op' = [op EXCEPT ![p].todo = todo, ![p].size = Cardinality(SegmentsIn(todo))]

PlanWrite(p) ==
    /\ op[p].kind = "write" /\ Whole
    /\ IF manifest = None THEN Planned(p, <<Add(op[p].receipt)>>)
       ELSE Planned(p, WriteSegments(Records(manifest) \cup {op[p].receipt}))
    /\ UNCHANGED backup

PlanMigrate(p) ==
    /\ op[p].kind = "migrate" /\ Whole
    /\ Planned(p, WriteSegments(IF manifest = None THEN legacy ELSE Records(manifest)))
    /\ UNCHANGED backup

\* deleteLegacyAttestations: the report still holds and the segments have it all.
PlanDelete(p) ==
    /\ op[p].kind = "delete" /\ Whole
    /\ legacy = baseline /\ manifest # None /\ Records(manifest) = legacy
    /\ Planned(p, SetToSeq({Drop(r) : r \in legacy}))
    /\ UNCHANGED backup

\* runAttestationRepair: the backup is complete before the rewrite begins.
PlanRepair(p) ==
    /\ op[p].kind = "repair"
    /\ \E extra \in SUBSET Receipt : extra # {} /\ Repairs(extra)
    /\ backup' = [legacy |-> legacy, segment |-> segment, manifest |-> manifest]
    /\ Planned(p, WriteSegments(Records(segment)))

\* restoreAttestationStore: never over a receipt the backup lacks.
Restorable == OnDisk \subseteq backup.legacy \cup Records(backup.segment)
RestoreWrites ==
    LET present == {i \in Number : backup.segment[i] # <<>>}
    IN  [i \in 1..Cardinality(present) |-> Put(i, backup.segment[i])]
            \o SetToSeq({Add(r) : r \in backup.legacy})
            \o <<Describe(backup.manifest), Trim(Cardinality(present))>>
            \o SetToSeq({Drop(r) : r \in legacy \ backup.legacy})
PlanRestore(p) ==
    /\ op[p].kind = "restore" /\ Restorable
    /\ Planned(p, RestoreWrites)
    /\ UNCHANGED backup

\* A refusal releases the lock; nothing was written.
Refused(p) ==
    CASE op[p].kind \in {"write", "migrate"} -> ~Whole
      [] op[p].kind = "delete" ->
            ~(Whole /\ legacy = baseline /\ manifest # None /\ Records(manifest) = legacy)
      [] op[p].kind = "repair" -> ~\E extra \in SUBSET Receipt : extra # {} /\ Repairs(extra)
      [] op[p].kind = "restore" -> ~Restorable

Plan(p) ==
    /\ pc[p] = "plan"
    /\ \/ /\ PlanWrite(p) \/ PlanMigrate(p) \/ PlanDelete(p) \/ PlanRepair(p) \/ PlanRestore(p)
          /\ pc' = [pc EXCEPT ![p] = "apply"]
       \/ /\ Refused(p)
          /\ pc' = [pc EXCEPT ![p] = "release"] /\ UNCHANGED <<op, backup>>
    /\ UNCHANGED <<lock, run, judged, files, baseline, ghosts>>

\* One atomicWrite or rm; the last one ends the operation.
Apply(p) ==
    /\ pc[p] = "apply"
    /\ LET step == IF op[p].todo = <<>> THEN Trim(Cardinality(Receipt)) ELSE Head(op[p].todo)
           rest == IF op[p].todo = <<>> THEN <<>> ELSE Tail(op[p].todo)
       IN  /\ segment' = CASE step.file = "segment" -> [segment EXCEPT ![step.at] = step.content]
                           [] step.file = "trim" -> [i \in Number |-> IF i > step.at THEN <<>> ELSE segment[i]]
                           [] OTHER -> segment
           /\ manifest' = IF step.file = "manifest" THEN step.content ELSE manifest
           /\ legacy' = CASE step.file = "add" -> legacy \cup {step.at}
                          [] step.file = "drop" -> legacy \ {step.at}
                          [] OTHER -> legacy
           /\ op' = [op EXCEPT ![p].todo = rest]
           /\ IF rest = <<>>
              THEN /\ pc' = [pc EXCEPT ![p] = "release"]
                   /\ reported' = IF op[p].kind = "write" THEN reported \cup {op[p].receipt}
                                  ELSE reported
              ELSE UNCHANGED <<pc, reported>>
    /\ UNCHANGED <<lock, run, judged, backup, baseline, chain, torn, crashes>>

\* A kill leaves the files and the lock as they are; the slot starts afresh.
\* (Not while a live lock is aside: see MoveAside.)
SegmentsToDo(p) == SegmentsIn(op[p].todo)
HalfWritten(p) == op[p].size > 1 /\ Cardinality(SegmentsToDo(p)) \in 1..(op[p].size - 1)
Crash(p) ==
    /\ crashes < MaxCrashes /\ pc[p] \notin {"idle", "restore"}
    /\ crashes' = crashes + 1
    /\ run' = [run EXCEPT ![p] = @ + 1]
    /\ torn' = (torn \/ HalfWritten(p))
    /\ pc' = [pc EXCEPT ![p] = "idle"] /\ op' = [op EXCEPT ![p] = Idle]
    /\ judged' = [judged EXCEPT ![p] = None]
    /\ UNCHANGED <<lock, files, backup, baseline, chain, reported>>

AttestNext ==
    \/ Report
    \/ \E p \in Process :
          \/ Start(p) \/ CheckLook(p) \/ CheckRead(p) \/ CheckAgain(p) \/ CommitEvent(p)
          \/ Place(p) \/ Assess(p) \/ MoveAside(p) \/ PutBack(p) \/ Release(p)
          \/ Plan(p) \/ Apply(p) \/ Crash(p)

AttestSpec == AttestInit /\ [][AttestNext]_attestVars

----------------------------------------------------------------------------
\* Properties.

\* Records a rewrite under way has read and is about to write.
Coming == UNION {Records([i \in SegmentsToDo(p) |-> op[p].todo[i].content]) : p \in Process}

\* A receipt whose write returned stays in the directory: concurrent writers,
\* a stale lock taken over, migration, deletion of the old layout, repair and
\* restore drop none.  (A kill half way through a rewrite of several segments
\* can: the records move between files.)
ReceiptsKept == torn \/ reported \subseteq OnDisk \cup Coming

\* Between operations the store is what its manifest says or becomes so by one
\* repair, with the records in excess all on the chain, wherever a command
\* was killed.
WholeOrRepairable ==
    \/ torn
    \/ \E p \in Process : pc[p] = "apply"
    \/ Whole
    \/ \E extra \in SUBSET Receipt : Repairs(extra)
=============================================================================
