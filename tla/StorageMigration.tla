--------------------------- MODULE StorageMigration ---------------------------
(***************************************************************************)
(* migrateWorkspaceStorage and rollbackWorkspaceStorageMigration           *)
(* (packages/core/src/workspace.ts): the rewriting of a workspace from     *)
(* JSON segments (storage version 1) to NDJSON segments with sidecars      *)
(* (version 2) in place, one file at a time, over a backup of the old      *)
(* files and a marker that says the backup is whole.                       *)
(*                                                                         *)
(* The lease excludes commands as WorkspaceLease shows, so that it is one   *)
(* variable here and a killed holder frees it.  A migration and a rollback  *)
(* look at the metadata and the marker before they take it, and a migration *)
(* of a workspace that is of version 2 already never takes it.             *)
(*                                                                         *)
(* Events have one size; what is in a file is a piece of the chain.  A      *)
(* checkpoint is one part and its manifest, the sidecars are one file, and  *)
(* an append is one step: EventStore shows what is in it.                  *)
(***************************************************************************)
EXTENDS Naturals, Sequences, SequencesExt, FiniteSets

CONSTANTS
    Operator,       \* the processes that migrate or roll back
    NoOperator,
    Limit,          \* the events in a JSON segment
    Wide,           \* the events in an NDJSON segment
    Interval,       \* storage.snapshotEveryEvents
    MaxEvents,      \* bound on the appends
    MaxFaults,      \* bound on the kills and I/O errors
    Overlapping,    \* may a rollback or a repeated migration overlap another one?
    AppendsBetween  \* may commands append while the backup of a migration exists?

ASSUME MigrationAssumption ==
    /\ NoOperator \notin Operator
    /\ {Limit, Wide, Interval} \subseteq Nat \ {0}
    /\ {MaxEvents, MaxFaults} \subseteq Nat
    /\ {Overlapping, AppendsBetween} \subseteq BOOLEAN

VARIABLES
    live,     \* the files of the workspace
    backup,   \* their copies under migration/storage-v1/
    marker,   \* migration/storage-v1/marker.json
    views,    \* the chain the view documents show
    lease,    \* who holds the lease, between the commands that append
    op,       \* what each operator is doing
    outcome,  \* how the last migration or rollback ended, until the next has the lease
    acked,    \* the events whose append returned
    issued,   \* how many there are
    faults

files == <<live, backup, marker>>
history == <<acked, issued>>
vars == <<live, backup, marker, views, lease, op, outcome, acked, issued, faults>>

-----------------------------------------------------------------------------
Segment(kind, k) == <<kind, k>>
Sidecars == <<"sidecars", 0>>
Part     == <<"part", 0>>
Manifest == <<"manifest", 0>>
Metadata == <<"metadata", 0>>

Name == ({"json", "ndjson"} \X (1..MaxEvents)) \cup {Sidecars, Part, Manifest, Metadata}

(* What is in a file: its format and the events it covers. *)
Has(version, chain) == [version |-> version, chain |-> chain]
Absent == Has(0, <<>>)

NoMarker == [set |-> FALSE, names |-> <<>>, chain |-> <<>>]

(* The event hash binds an event to all before it. *)
Event(n, chain) ==
    [seq |-> Len(chain) + 1, id |-> n, prior |-> IF chain = <<>> THEN 0 ELSE Last(chain).id]
Linked(chain) == \A i \in 1..Len(chain) :
    chain[i].seq = i /\ chain[i].prior = IF i = 1 THEN 0 ELSE chain[i - 1].id

Version == live[Metadata].version
Kind(version) == IF version = 1 THEN "json" ELSE "ndjson"
Present(kind) == {k \in 1..MaxEvents : live[Segment(kind, k)] # Absent}
Numbered(kind, numbers) == [k \in 1..Cardinality(numbers) |-> Segment(kind, k)]
Listed(kind) == Numbered(kind, Present(kind))
Joined(names, dir) == FlattenSeq([k \in 1..Len(names) |-> dir[names[k]].chain])
Current == Joined(Listed(Kind(Version)), live)

Snapshots == (IF live[Part] = Absent THEN <<>> ELSE <<Part>>) \o
             (IF live[Manifest] = Absent THEN <<>> ELSE <<Manifest>>)

(* storageMigrationSegments: a segment is closed when the next event does   *)
(* not fit in it.                                                          *)
Packed(chain) ==
    LET count == (Len(chain) + Wide - 1) \div Wide
        end(k) == IF k = count THEN Len(chain) ELSE k * Wide
    IN  [k \in 1..count |-> SubSeq(chain, (k - 1) * Wide + 1, end(k))]

(* materializeWorkspace: only segments of the version of the metadata,      *)
(* without gaps, full but the last in version 1, and a checkpoint that is   *)
(* whole, of that version, not of version 0 and of a prefix of the chain.   *)
Readable ==
    LET kind == Kind(Version) IN
    /\ Present(Kind(3 - Version)) = {}
    /\ Version = 1 => live[Sidecars] = Absent
    /\ Present(kind) = 1..Cardinality(Present(kind))
    /\ Version = 1 => \A k \in Present(kind) :
           /\ Len(live[Segment(kind, k)].chain) <= Limit
           /\ k < Cardinality(Present(kind)) => Len(live[Segment(kind, k)].chain) = Limit
    /\ Linked(Current)
    /\ \/ live[Part] = Absent /\ live[Manifest] = Absent
       \/ /\ live[Manifest].version = Version /\ live[Manifest].chain # <<>>
          /\ live[Part] = live[Manifest]
          /\ IsPrefix(live[Manifest].chain, Current)

(* validateWorkspace. *)
Valid == Readable /\ views = Current

-----------------------------------------------------------------------------
(* One call that changes one file. *)
Call(do, name, content) == [do |-> do, name |-> name, content |-> content]
Put(name, content) == Call("put", name, content)
Each(do, names) == [i \in 1..Len(names) |-> Call(do, names[i], Absent)]

Idle == [at |-> "idle", todo |-> <<>>, plan |-> NoMarker]
Alone(p) == \A q \in Operator \ {p} : op[q] = Idle

Enter(p, point, todo) == op' = [op EXCEPT ![p].at = point, ![p].todo = todo]
At(p, point) == op[p].at = point /\ op[p].todo = <<>>

(* An operation ends, and releases the lease if it holds it. *)
Finish(p, result) ==
    /\ op' = [op EXCEPT ![p] = Idle]
    /\ lease' = IF lease = p THEN NoOperator ELSE lease
    /\ outcome' = result

Init ==
    /\ live = [n \in Name |-> IF n = Metadata THEN Has(1, <<>>) ELSE Absent]
    /\ backup = [n \in Name |-> Absent]
    /\ marker = NoMarker
    /\ views = <<>>
    /\ lease = NoOperator
    /\ op = [p \in Operator |-> Idle]
    /\ outcome = "none"
    /\ acked = {}
    /\ issued = 0
    /\ faults = 0

-----------------------------------------------------------------------------
(* Before the lease is taken: the version and the marker. *)
BeginMigrate(p) ==
    /\ op[p] = Idle
    /\ Version = 1 \/ Alone(p) \/ Overlapping
    /\ Version = 1 => ~marker.set
    /\ Enter(p, IF Version = 2 THEN "verify" ELSE "lockToMigrate", <<>>)
    /\ outcome' = "none"
    /\ UNCHANGED <<files, views, lease, history, faults>>

BeginRollback(p) ==
    /\ op[p] = Idle
    /\ Alone(p) \/ Overlapping
    /\ marker.set
    /\ op' = [op EXCEPT ![p] = [Idle EXCEPT !.at = "lockToRestore", !.plan = marker]]
    /\ outcome' = "none"
    /\ UNCHANGED <<files, views, lease, history, faults>>

(* The lease, and with it the failure when another operation has it. *)
Lock(p) ==
    /\ op[p].at \in {"lockToMigrate", "lockToRestore"}
    /\ IF lease = NoOperator
       THEN /\ lease' = p
            /\ Enter(p, IF op[p].at = "lockToMigrate" THEN "prepare" ELSE "clear", <<>>)
            /\ outcome' = "none"
       ELSE Finish(p, "failed")
    /\ UNCHANGED <<files, views, history, faults>>

(* Mutant: the marker is written when the new segments are there. *)
RewriteBeforeMarking(names, chain) ==
    LET packed == Packed(chain)
        save(n) == Call("save", n, live[n])
    IN  <<save(Metadata)>> \o [i \in 1..Len(names) |-> save(names[i])]
        \o [k \in 1..Len(packed) |-> Put(Segment("ndjson", k), Has(2, packed[k]))]
        \o <<Call("mark", Metadata, Absent)>>
        \o Each("remove", names)
        \o <<Put(Metadata, Has(2, <<>>)), Call("index", Sidecars, Absent)>>

(* The backup, its marker, the new segments, the removal of the old files,  *)
(* the metadata, the sidecars.                                             *)
Rewrite(names, chain) ==
    LET packed == Packed(chain)
        save(n) == Call("save", n, live[n])
    IN  <<save(Metadata)>> \o [i \in 1..Len(names) |-> save(names[i])]
        \o <<Call("mark", Metadata, Absent)>>
        \o [k \in 1..Len(packed) |-> Put(Segment("ndjson", k), Has(2, packed[k]))]
        \o Each("remove", names)
        \o <<Put(Metadata, Has(2, <<>>)), Call("index", Sidecars, Absent)>>

(* Everything is read under the lease, the metadata a second time; in       *)
(* events/ there must be JSON segments only.                               *)
Prepare(p) ==
    /\ At(p, "prepare")
    /\ IF Readable /\ Present("ndjson") = {} /\ live[Sidecars] = Absent
       THEN LET names == Listed("json") \o Snapshots IN
            /\ op' = [op EXCEPT ![p] = [at |-> "rewrite", todo |-> Rewrite(names, Current),
                                        plan |-> [set |-> TRUE, names |-> names, chain |-> Current]]]
            /\ UNCHANGED <<lease, outcome>>
       ELSE Finish(p, "failed")
    /\ UNCHANGED <<files, views, history, faults>>

(* The new files must yield the old state; then the first checkpoint. *)
Check(p) ==
    /\ At(p, "rewrite")
    /\ IF Valid /\ Current = op[p].plan.chain
       THEN /\ Enter(p, "checkpoint", <<Put(Part, Has(2, Current)), Put(Manifest, Has(2, Current))>>)
            /\ UNCHANGED <<lease, outcome>>
       ELSE Finish(p, "failed")
    /\ UNCHANGED <<files, views, history, faults>>

(* cleanupStorageMigrationBackup: the marker, then what it names. *)
Cleanup(m) == IF m.set THEN <<Call("unmark", Metadata, Absent)>> \o Each("discard", <<Metadata>> \o m.names)
              ELSE <<>>

Recheck(p) ==
    /\ At(p, "checkpoint")
    /\ IF Valid THEN Enter(p, "cleanup", Cleanup(marker)) /\ UNCHANGED <<lease, outcome>>
       ELSE Finish(p, "failed")
    /\ UNCHANGED <<files, views, history, faults>>

(* Mutant: the sidecars are not compared. *)
VerifySegments(p) ==
    /\ At(p, "verify")
    /\ IF /\ Version = 2 /\ Readable
          /\ [k \in 1..Len(Listed("ndjson")) |-> live[Segment("ndjson", k)].chain] = Packed(Current)
          /\ marker.set => marker.chain = Current
       THEN Enter(p, "cleanup", Cleanup(marker)) /\ UNCHANGED <<lease, outcome>>
       ELSE Finish(p, "failed")
    /\ UNCHANGED <<files, views, history, faults>>

(* A migration that finds version 2: verifyWorkspaceStorageMigration, and   *)
(* the removal of the backup, both without the lease.                      *)
Verify(p) ==
    /\ At(p, "verify")
    /\ IF /\ Version = 2 /\ Readable
          /\ live[Sidecars] = Has(2, Current)
          /\ [k \in 1..Len(Listed("ndjson")) |-> live[Segment("ndjson", k)].chain] = Packed(Current)
          /\ marker.set => marker.chain = Current
       THEN Enter(p, "cleanup", Cleanup(marker)) /\ UNCHANGED <<lease, outcome>>
       ELSE Finish(p, "failed")
    /\ UNCHANGED <<files, views, history, faults>>

Migrated(p) ==
    /\ At(p, "cleanup")
    /\ Finish(p, "migrated")
    /\ UNCHANGED <<files, views, history, faults>>

-----------------------------------------------------------------------------
(* Mutant: the sidecars stay. *)
SegmentsToClear == {Segment("ndjson", k) : k \in Present("ndjson")}

(* What a rollback removes from events/, in the order of the directory. *)
ToClear == {Segment("ndjson", k) : k \in Present("ndjson")} \cup
           (IF live[Sidecars] = Absent THEN {} ELSE {Sidecars})

Clear(p) ==
    /\ At(p, "clear")
    /\ \E order \in SetToSeqs(ToClear) : Enter(p, "clearSnapshots", Each("remove", order))
    /\ UNCHANGED <<files, views, lease, outcome, history, faults>>

ClearSnapshots(p) ==
    /\ At(p, "clearSnapshots")
    /\ Enter(p, "restore", Each("remove", Snapshots))
    /\ UNCHANGED <<files, views, lease, outcome, history, faults>>

Restore(p) ==
    /\ At(p, "restore")
    /\ Enter(p, "validate", Each("restore", Append(op[p].plan.names, Metadata)))
    /\ UNCHANGED <<files, views, lease, outcome, history, faults>>

(* The markers are removed once the restored workspace is valid. *)
Validate(p) ==
    /\ At(p, "validate")
    /\ IF Valid
       THEN /\ Enter(p, "forget", <<Call("unmark", Metadata, Absent)>> \o
                                  Each("forget", <<Metadata>> \o op[p].plan.names))
            /\ UNCHANGED <<lease, outcome>>
       ELSE Finish(p, "failed")
    /\ UNCHANGED <<files, views, history, faults>>

RolledBack(p) ==
    /\ At(p, "forget")
    /\ Finish(p, "rolledBack")
    /\ UNCHANGED <<files, views, history, faults>>

-----------------------------------------------------------------------------
(* A file that must be there is not. *)
Impossible(c) ==
    \/ c.do = "remove" /\ live[c.name] = Absent
    \/ c.do \in {"restore", "forget"} /\ backup[c.name] = Absent
    \/ c.do = "index" /\ Present("json") # {}

(* The next call of an operation. *)
Work(p) ==
    /\ op[p].todo # <<>>
    /\ LET c == Head(op[p].todo) IN
       IF Impossible(c)
       THEN Finish(p, "failed") /\ UNCHANGED files
       ELSE /\ live' = CASE c.do = "put"     -> [live EXCEPT ![c.name] = c.content]
                         [] c.do = "remove"  -> [live EXCEPT ![c.name] = Absent]
                         [] c.do = "restore" -> [live EXCEPT ![c.name] = backup[c.name]]
                         [] c.do = "index"   -> [live EXCEPT ![Sidecars] = Has(2, Joined(Listed("ndjson"), live))]
                         [] OTHER            -> live
            /\ backup' = CASE c.do = "save"                 -> [backup EXCEPT ![c.name] = c.content]
                           [] c.do \in {"discard", "forget"} -> [backup EXCEPT ![c.name] = Absent]
                           [] OTHER                          -> backup
            /\ marker' = CASE c.do = "mark"   -> op[p].plan
                           [] c.do = "unmark" -> NoMarker
                           [] OTHER           -> marker
            /\ op' = [op EXCEPT ![p].todo = Tail(@)]
            /\ UNCHANGED <<lease, outcome>>
    /\ UNCHANGED <<views, history, faults>>

(* A kill or an I/O error: in either case what is done stays done. *)
Stop(p) ==
    /\ op[p] # Idle
    /\ faults < MaxFaults /\ faults' = faults + 1
    /\ Finish(p, "failed")
    /\ UNCHANGED <<files, views, history>>

(* A command: the event, its sidecars and checkpoint, and perhaps the views *)
AppendEvent ==
    /\ lease = NoOperator
    /\ Readable
    /\ issued < MaxEvents /\ issued' = issued + 1
    /\ marker.set => AppendsBetween
    /\ LET event == Event(issued', Current)
           kind  == Kind(Version)
           last  == Cardinality(Present(kind))
           room  == IF Version = 1 THEN Limit ELSE Wide
           into  == IF last > 0 /\ Len(live[Segment(kind, last)].chain) < room THEN last ELSE last + 1
           chain == Append(Current, event)
           due   == Len(chain) % Interval = 0
       IN  /\ live' = [n \in Name |->
                  CASE n = Segment(kind, into)            -> Has(Version, Append(live[n].chain, event))
                    [] n = Sidecars /\ Version = 2        -> Has(2, chain)
                    [] n \in {Part, Manifest} /\ due      -> Has(Version, chain)
                    [] OTHER                              -> live[n]]
           /\ views' \in {views, chain}
           /\ acked' = acked \cup {event}
    /\ UNCHANGED <<backup, marker, lease, op, outcome, faults>>

RebuildViews ==
    /\ lease = NoOperator
    /\ Readable
    /\ views' = Current
    /\ UNCHANGED <<files, lease, op, outcome, history, faults>>

-----------------------------------------------------------------------------
Step(p) ==
    \/ Lock(p) \/ Work(p)
    \/ Prepare(p) \/ Check(p) \/ Recheck(p) \/ Verify(p) \/ Migrated(p)
    \/ Clear(p) \/ ClearSnapshots(p) \/ Restore(p) \/ Validate(p) \/ RolledBack(p)

Next ==
    \/ \E p \in Operator : Step(p) \/ BeginMigrate(p) \/ BeginRollback(p) \/ Stop(p)
    \/ AppendEvent \/ RebuildViews

Spec == Init /\ [][Next]_vars

(* Operations run on; an operator who finds a backup left behind rolls back *)
(* in the end, and rebuilds the views when a rollback fails on them.        *)
Fairness == /\ \A p \in Operator : WF_vars(Step(p))
            /\ SF_vars(RebuildViews)
            /\ SF_vars(\E p \in Operator : BeginRollback(p))
FairSpec == Spec /\ Fairness

-----------------------------------------------------------------------------
(* The chain a workspace stands for: what a rollback would restore as long  *)
(* as there is a marker, what its files hold when there is none.           *)
Saved(names) == {k \in 1..MaxEvents : Segment("json", k) \in Range(names)}
Effective == IF marker.set
             THEN Joined(Numbered("json", Saved(marker.names)), backup)
             ELSE IF Readable THEN Current ELSE <<>>

(* Wherever a migration or a rollback is interrupted, and however often it  *)
(* is repeated, the chain is neither shortened nor changed.                *)
Chain == INSTANCE EventChain WITH chain <- Effective
ImplementsEventChain == Chain!Spec

(* A migration that reported WORKSPACE_STORAGE_MIGRATION_VERIFIED left a     *)
(* workspace of version 2 whose sidecars cover its chain and whose backup  *)
(* is gone; one that was rolled back can be read.                          *)
OutcomeIsTrue ==
    /\ outcome = "migrated" => /\ Version = 2 /\ Readable
                               /\ live[Sidecars] = Has(2, Current)
                               /\ ~marker.set
    /\ outcome = "rolledBack" => Readable /\ ~marker.set

(* Whatever a migration that was killed, or refused what it wrote itself,    *)
(* left behind: rolling back and retrying ends with a workspace that can   *)
(* be read and has no backup.                                              *)
BackupIsResolved == marker.set ~> ~marker.set /\ Readable

(* Append-only history: when no operation runs and no backup is left, every *)
(* event whose append returned is in the chain.                            *)
ReportedIsKept ==
    ~marker.set /\ (\A p \in Operator : op[p] = Idle) =>
        \A e \in acked : \E i \in 1..Len(Current) : Current[i] = e
=============================================================================
