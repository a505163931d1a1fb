------------------------------ MODULE EventStore ------------------------------
(***************************************************************************)
(* The files of a workspace and what writes them: appendEvents,            *)
(* writeReplaySnapshot, recoverWorkspace and rebuildReplaySnapshot          *)
(* (packages/core/src/workspace.ts) over FileBackend and SegmentedBackend.  *)
(*                                                                         *)
(* Commands that mutate run one at a time: that is what MutationCommit     *)
(* shows.  rebuildReplaySnapshot takes no lease, so one may run beside them.*)
(* Every file is replaced by atomicWrite, which is two steps here: the      *)
(* temporary file exists, and it has been renamed.                         *)
(*                                                                         *)
(* An event knows the number of the segment file it is in, so the segment  *)
(* files are one sequence.  A checkpoint is one part and its manifest, the  *)
(* sidecars of a segmented workspace are one file, and a digest of a file  *)
(* is its content.                                                         *)
(***************************************************************************)
EXTENDS Naturals, Sequences, SequencesExt

CONSTANTS
    Limit,      \* segmentEventLimit: events (version 1) or bytes (version 2) of a segment
    Interval,   \* storage.snapshotEveryEvents
    Sizes,      \* the bytes an event may take
    MaxBatch,   \* bound on the events of one append
    MaxEvents,  \* bound on the chain
    Views,      \* the number of derived view documents
    MaxRebuilds,\* bound on the rebuilds
    MaxFaults,  \* bound on the crashes and the failed writes
    Settings,   \* whether an event may set storage.backend to "file" (TRUE)
    Overlapped  \* the storage versions in which a rebuild may run beside a command

ASSUME StoreAssumption ==
    /\ {Limit, Interval, MaxBatch, Views} \subseteq Nat \ {0}
    /\ Sizes \subseteq Nat \ {0} /\ Sizes # {}
    /\ {MaxEvents, MaxRebuilds, MaxFaults} \subseteq Nat
    /\ Settings \subseteq BOOLEAN /\ FALSE \in Settings
    /\ Overlapped \subseteq {1, 2}

VARIABLES
    version,    \* metadata.storageVersion: 1 is JSON arrays, 2 is NDJSON with sidecars
    log,        \* the events in the segment files
    index,      \* how many events the sidecars cover; 0 when there are none
    tmp,        \* the temporary files: their directory and who is writing them
    parts,      \* the parts in snapshots/: what state each holds, by its version
    manifest,   \* snapshots/manifest.json
    views,      \* the version each view document shows
    job,        \* what the command and the rebuild are doing
    outcome,    \* how the last command ended
    acked,      \* the events whose append returned
    faults,     \* how many crashes and failed writes there were
    rebuilds    \* how many rebuilds were begun

disk == <<version, log, index, parts, manifest, views>>
vars == <<version, log, index, tmp, parts, manifest, views, job, outcome, acked, faults, rebuilds>>
bounds == <<faults, rebuilds>>

Writer == {"command", "rebuild"}
Directory == {"events", "snapshots", "views"}

Event == [seq : Nat, size : Sizes, plain : Settings, file : Nat]

(* The state at a version is the chain up to it. *)
NoManifest == [version |-> 0, state |-> <<>>, segments |-> <<>>, clean |-> FALSE]

(* One atomicWrite.  file is the number of the segment, part or view. *)
FileWrite(kind, file, state, segments) ==
    [kind |-> kind, file |-> file, state |-> state, segments |-> segments]

DirectoryOf(write) == CASE write.kind \in {"segment", "index"} -> "events"
                        [] write.kind \in {"part", "manifest"} -> "snapshots"
                        [] write.kind = "view" -> "views"

(* A job in progress: the writes it has left, whether it opened the first,  *)
(* the chain it replayed or extends from base on, the seed or the           *)
(* temporaries it read, and whether its digests name segments only.        *)
NoJob == [at |-> "idle", todo |-> <<>>, open |-> FALSE, chain |-> <<>>, base |-> 0,
          seed |-> NoManifest, listed |-> {}, clean |-> TRUE]

Busy(w) == job[w].at # "idle"
Put(w, j) == job' = [job EXCEPT ![w] = j]

(* How many events are in the files up to number k: files ascend in a chain.*)
UpTo(chain, k) ==
    CHOOSE n \in 0..Len(chain) :
        (n > 0 => chain[n].file <= k) /\ (n < Len(chain) => chain[n + 1].file > k)

InFile(chain, k) == SubSeq(chain, UpTo(chain, k - 1) + 1, UpTo(chain, k))
LastFile(chain) == IF chain = <<>> THEN 0 ELSE chain[Len(chain)].file

Bytes(chain) ==
    LET sum[i \in 0..Len(chain)] == IF i = 0 THEN 0 ELSE sum[i - 1] + chain[i].size
    IN  sum[Len(chain)]

(* The setting storage.backend after these events. *)
Plain(chain) == chain # <<>> /\ chain[Len(chain)].plain

-----------------------------------------------------------------------------
(* What a reader accepts. *)

(* readSegmentEvents: only segments in events/, without gaps, none empty;   *)
(* in version 1 all but the last hold exactly Limit events.                *)
SegmentsReadable ==
    /\ \A t \in tmp : t.dir # "events"
    /\ \A i \in 1..Len(log) : log[i].seq = i
    /\ \A k \in 1..LastFile(log) : InFile(log, k) # <<>>
    /\ version = 1 => \A k \in 1..LastFile(log) :
           /\ Len(InFile(log, k)) <= Limit
           /\ k < LastFile(log) => Len(InFile(log, k)) = Limit

(* readReplaySnapshot: files without a manifest are refused, as is a part   *)
(* that does not hold what the manifest says, and a version below 1.       *)
SeedReadable ==
    \/ manifest = NoManifest /\ parts = {}
    \/ /\ manifest # NoManifest
       /\ manifest.version >= 1
       /\ manifest.clean
       /\ manifest.state \in parts /\ Len(manifest.state) = manifest.version

(* readSegmentEvents under a seed m: its segments still begin as recorded,  *)
(* segments it does not know came later, and the tail continues its state.  *)
SeedMatches(m) ==
    m # NoManifest =>
        /\ m.version <= Len(log)
        /\ \A k \in {m.segments[i].file : i \in 1..Len(m.segments)} :
              IF version = 2 THEN IsPrefix(InFile(m.segments, k), InFile(log, k))
              ELSE \/ InFile(log, k) = InFile(m.segments, k)
                   \/ InFile(log, k) # <<>> /\ Last(InFile(log, k)).seq > m.version
        /\ \A i \in 1..Len(log) :
              (\A j \in 1..Len(m.segments) : m.segments[j].file # log[i].file)
                  => Last(InFile(log, log[i].file)).seq > m.version
        /\ SubSeq(log, 1, m.version) = m.state

Replays == SeedReadable /\ SegmentsReadable /\ SeedMatches(manifest)

-----------------------------------------------------------------------------
(* What appendEvents will write. *)

(* Version 2: the segment written to, and its bytes so far.  On an empty    *)
(* chain the first roll numbers the second segment 1 again.                 *)
Current(chain) ==
    [next |-> LastFile(chain), file |-> IF chain = <<>> THEN 1 ELSE LastFile(chain),
     bytes |-> Bytes(InFile(chain, LastFile(chain)))]

Filled(segment, size) ==
    IF segment.bytes > 0 /\ segment.bytes + size > Limit
    THEN [next |-> segment.next + 1, file |-> segment.next + 1, bytes |-> size]
    ELSE [next |-> segment.next, file |-> segment.file, bytes |-> segment.bytes + size]

Roll(chain, batch) ==
    LET place[i \in 0..Len(batch)] ==
            IF i = 0 THEN Current(chain) ELSE Filled(place[i - 1], batch[i].size)
    IN  [i \in 1..Len(batch) |-> place[i].file]

(* FileBackend lists the sidecars as segments; the last name is time.idx,   *)
(* here a number behind that of every segment.  (It is far from full, so no *)
(* segment is rolled.)                                                     *)
TimeIndex == MaxEvents + 1

Place(chain, batch) ==
    CASE version = 1 -> [i \in 1..Len(batch) |-> (Len(chain) + i - 1) \div Limit + 1]
      [] version = 2 /\ Plain(batch) /\ index > 0 -> [i \in 1..Len(batch) |-> TimeIndex]
      [] OTHER -> Roll(chain, batch)

Extended(chain, batch) ==
    chain \o [i \in 1..Len(batch) |->
        [seq |-> Len(chain) + i, size |-> batch[i].size, plain |-> batch[i].plain,
         file |-> Place(chain, batch)[i]]]

ViewWrites(chain) == [i \in 1..Views |-> FileWrite("view", i, chain, <<>>)]

(* Mutant: only the new events of a segment are written. *)
NewEventsOnly(chain, from) ==
    LET first == chain[from + 1].file
        new(k) == SelectSeq(chain, LAMBDA e : e.file = k /\ e.seq > from)
    IN  [j \in 1 .. LastFile(chain) - first + 1 |->
            FileWrite("segment", first + j - 1, new(first + j - 1), <<>>)]

(* Mutant: the last segment is written first. *)
Descending(chain, from) ==
    LET last == LastFile(chain)
    IN  [j \in 1 .. last - chain[from + 1].file + 1 |->
            FileWrite("segment", last + 1 - j, InFile(chain, last + 1 - j), <<>>)]

(* Each segment the new events are in, in ascending order; SegmentedBackend *)
(* rebuilds the sidecars after each of them.                               *)
SegmentWrites(chain, from) ==
    LET first == chain[from + 1].file
        last  == LastFile(chain)
        whole(k) == FileWrite("segment", k, InFile(chain, k), <<>>)
        sidecars == FileWrite("index", 0, <<>>, <<>>)
    IN  IF version = 2 /\ ~Plain(chain)
        THEN [j \in 1 .. 2 * (last - first + 1) |->
                 IF j % 2 = 1 THEN whole(first + j \div 2) ELSE sidecars]
        ELSE [j \in 1 .. last - first + 1 |-> whole(first + j - 1)]

(* Its parts, then the manifest that names them. *)
CheckpointWrites(chain, segments) ==
    <<FileWrite("part", Len(chain), chain, <<>>), FileWrite("manifest", Len(chain), chain, segments)>>

(* The append stopped on a multiple of the interval or passed one. *)
CheckpointDue(before, after) == before \div Interval < after \div Interval

-----------------------------------------------------------------------------
Init ==
    /\ version \in {1, 2}
    /\ log = <<>>
    /\ index = 0
    /\ tmp = {}
    /\ parts = {}
    /\ manifest = NoManifest
    /\ views = [i \in 1..Views |-> 0]
    /\ job = [w \in Writer |-> NoJob]
    /\ outcome = "none"
    /\ acked = {}
    /\ faults = 0
    /\ rebuilds = 0

(* atomicWrite creates the temporary file ... *)
Open(w) ==
    /\ job[w].todo # <<>> /\ ~job[w].open
    /\ tmp' = tmp \cup {[dir |-> DirectoryOf(Head(job[w].todo)), by |-> w]}
    /\ Put(w, [job[w] EXCEPT !.open = TRUE])
    /\ UNCHANGED <<disk, outcome, acked, bounds>>

(* What the rename of a file replaces. *)
Replaced(w, write) ==
    /\ log' = IF write.kind = "segment" /\ write.file # TimeIndex
              THEN SubSeq(log, 1, UpTo(log, write.file - 1)) \o write.state \o
                   SubSeq(log, UpTo(log, write.file) + 1, Len(log))
              ELSE log
    /\ index' = IF write.kind = "index" THEN Len(log) ELSE index
    /\ parts' = IF write.kind = "part"
                THEN {s \in parts : Len(s) # write.file} \cup {write.state} ELSE parts
    /\ manifest' = IF write.kind = "manifest"
                   THEN [version |-> write.file, state |-> write.state,
                         segments |-> write.segments, clean |-> job[w].clean]
                   ELSE manifest
    /\ views' = IF write.kind = "view" THEN [views EXCEPT ![write.file] = Len(write.state)] ELSE views
    /\ UNCHANGED version

(* ... and renames it over the file, if nobody removed it meanwhile. *)
Commit(w) ==
    /\ \E t \in tmp : t.by = w
    /\ Replaced(w, Head(job[w].todo))
    /\ tmp' = {t \in tmp : t.by # w}
    /\ Put(w, [job[w] EXCEPT !.todo = Tail(@), !.open = FALSE])
    /\ UNCHANGED <<outcome, acked, bounds>>

NewEvents(w) == {job[w].chain[i] : i \in job[w].base + 1 .. Len(job[w].chain)}

Fault == faults < MaxFaults /\ faults' = faults + 1 /\ UNCHANGED rebuilds

(* Mutant: nothing tells the caller that a view was not written. *)
FailSilently(w) ==
    /\ job[w].todo # <<>>
    /\ UNCHANGED disk
    /\ tmp' = {t \in tmp : t.by # w}
    /\ Put(w, NoJob)
    /\ outcome' = IF w = "command" THEN "appended" ELSE outcome
    /\ Fault
    /\ UNCHANGED acked

(* A write fails, before its rename or after it.  An append reports that,   *)
(* unless the write was that of a view: then it has succeeded, with a note. *)
Fail(w) ==
    /\ job[w].todo # <<>>
    /\ \/ UNCHANGED disk
       \/ (\E t \in tmp : t.by = w) /\ Replaced(w, Head(job[w].todo))
    /\ tmp' = {t \in tmp : t.by # w}
    /\ Put(w, NoJob)
    /\ outcome' = CASE w = "rebuild" -> outcome
                    [] job[w].at = "views" -> "unwritten"
                    [] OTHER -> "failed"
    /\ acked' = IF job[w].at = "views" THEN acked \cup NewEvents(w) ELSE acked
    /\ Fault

(* A process dies and leaves its temporary file. *)
Crash(w) ==
    /\ Busy(w)
    /\ tmp' = {IF t.by = w THEN [t EXCEPT !.by = "orphan"] ELSE t : t \in tmp}
    /\ Put(w, NoJob)
    /\ outcome' = IF w = "command" THEN "crashed" ELSE outcome
    /\ Fault
    /\ UNCHANGED <<disk, acked>>

-----------------------------------------------------------------------------
(* A command and a rebuild at the same time, in the versions Overlapped. *)
Admitted(w) ==
    /\ ~Busy(w)
    /\ version \in Overlapped \/ \A other \in Writer : ~Busy(other)

(* (The size of an event matters in version 2 only.) *)
Batch ==
    LET sizes == IF version = 2 THEN Sizes ELSE {CHOOSE s \in Sizes : TRUE}
    IN  UNION {[1..n -> [size : sizes, plain : Settings]] : n \in 1..MaxBatch}

(* The replay, the events of the batch, and the bytes of every segment they *)
(* go to.                                                                  *)
BeginAppend ==
    /\ Admitted("command")
    /\ Replays
    /\ \E batch \in Batch :
          LET chain == Extended(log, batch) IN
          /\ Len(chain) <= MaxEvents
          /\ Put("command", [NoJob EXCEPT !.at = "segments", !.chain = chain, !.base = Len(log),
                                          !.todo = SegmentWrites(chain, Len(log))])
    /\ outcome' = "none"
    /\ UNCHANGED <<disk, tmp, acked, bounds>>

(* listSegmentNames of FileBackend returns every name in events/. *)
ListsEverything(chain) == version = 1 \/ Plain(chain)
OnlySegmentsListed ==
    /\ \A t \in tmp : t.dir # "events"
    /\ version = 2 => index = 0

(* The segments written are read back, and a due checkpoint is prepared. *)
Readback ==
    LET j == job["command"] IN
    /\ j.at = "segments" /\ j.todo = <<>>
    /\ IF \A e \in NewEvents("command") : e.file # TimeIndex => InFile(log, e.file) = InFile(j.chain, e.file)
       THEN /\ Put("command", IF CheckpointDue(j.base, Len(j.chain))
                  THEN [j EXCEPT !.at = "checkpoint", !.todo = CheckpointWrites(j.chain, log),
                                 !.clean = ListsEverything(j.chain) => OnlySegmentsListed]
                  ELSE [j EXCEPT !.at = "views", !.todo = ViewWrites(j.chain)])
            /\ UNCHANGED outcome
       ELSE Put("command", NoJob) /\ outcome' = "failed"
    /\ UNCHANGED <<disk, tmp, acked, bounds>>

StartViews ==
    LET j == job["command"] IN
    /\ j.at = "checkpoint" /\ j.todo = <<>>
    /\ Put("command", [j EXCEPT !.at = "views", !.todo = ViewWrites(j.chain)])
    /\ UNCHANGED <<disk, tmp, outcome, acked, bounds>>

Return ==
    LET j == job["command"] IN
    /\ j.at \in {"views", "rebuildViews"} /\ j.todo = <<>>
    /\ Put("command", NoJob)
    /\ outcome' = IF j.at = "views" THEN "appended" ELSE "recovered"
    /\ acked' = acked \cup NewEvents("command")
    /\ UNCHANGED <<disk, tmp, bounds>>

-----------------------------------------------------------------------------
(* recoverWorkspace lists and removes temporary files, anybody's ... *)
BeginRecover ==
    /\ Admitted("command")
    /\ Put("command", [NoJob EXCEPT !.at = "sweep", !.listed = tmp])
    /\ outcome' = "none"
    /\ UNCHANGED <<disk, tmp, acked, bounds>>

Sweep ==
    LET j == job["command"] IN
    /\ j.at = "sweep"
    /\ tmp' = tmp \ j.listed
    /\ IF j.listed \subseteq tmp
       THEN Put("command", [NoJob EXCEPT !.at = "replay"]) /\ UNCHANGED outcome
       ELSE Put("command", NoJob) /\ outcome' = "failed"
    /\ UNCHANGED <<disk, acked, bounds>>

(* ... then does what rebuildWorkspaceViews does. *)
BeginViews ==
    /\ Admitted("command")
    /\ Put("command", [NoJob EXCEPT !.at = "replay"])
    /\ outcome' = "none"
    /\ UNCHANGED <<disk, tmp, acked, bounds>>

ReplayForViews ==
    /\ job["command"].at = "replay"
    /\ IF Replays
       THEN /\ Put("command", [NoJob EXCEPT !.at = "rebuildViews", !.chain = log, !.base = Len(log),
                                            !.todo = ViewWrites(log)])
            /\ UNCHANGED outcome
       ELSE Put("command", NoJob) /\ outcome' = "failed"
    /\ UNCHANGED <<disk, tmp, acked, bounds>>

-----------------------------------------------------------------------------
(* rebuildReplaySnapshot reads the seed, then the segments after it, and    *)
(* lists the segments again for the manifest.  A temporary file listed      *)
(* with them is refused, gone, or taken for a segment.                     *)
BeginRebuild ==
    /\ Admitted("rebuild")
    /\ rebuilds < MaxRebuilds /\ rebuilds' = rebuilds + 1
    /\ SeedReadable
    /\ Put("rebuild", [NoJob EXCEPT !.at = "replay", !.seed = manifest])
    /\ UNCHANGED <<disk, tmp, outcome, acked, faults>>

RebuildReplay ==
    LET j == job["rebuild"] IN
    /\ j.at = "replay"
    /\ IF SegmentsReadable /\ SeedMatches(j.seed)
       THEN Put("rebuild", [NoJob EXCEPT !.at = "digest", !.chain = log])
       ELSE Put("rebuild", NoJob)
    /\ UNCHANGED <<disk, tmp, outcome, acked, bounds>>

RebuildDigest ==
    LET j == job["rebuild"] IN
    /\ j.at = "digest"
    /\ \/ /\ ListsEverything(j.chain) \/ \A t \in tmp : t.dir # "events"
          /\ Put("rebuild", [j EXCEPT !.at = "checkpoint", !.todo = CheckpointWrites(j.chain, log),
                                       !.clean = ListsEverything(j.chain) => OnlySegmentsListed])
       \/ /\ \E t \in tmp : t.dir = "events"
          /\ Put("rebuild", NoJob)
    /\ UNCHANGED <<disk, tmp, outcome, acked, bounds>>

RebuildReturn ==
    /\ job["rebuild"].at = "checkpoint" /\ job["rebuild"].todo = <<>>
    /\ Put("rebuild", NoJob)
    /\ UNCHANGED <<disk, tmp, outcome, acked, bounds>>

-----------------------------------------------------------------------------
Next ==
    \/ \E w \in Writer : Open(w) \/ Commit(w) \/ Fail(w) \/ Crash(w)
    \/ BeginAppend \/ Readback \/ StartViews \/ Return
    \/ BeginRecover \/ Sweep \/ BeginViews \/ ReplayForViews
    \/ BeginRebuild \/ RebuildReplay \/ RebuildDigest \/ RebuildReturn

Spec == Init /\ [][Next]_vars

-----------------------------------------------------------------------------
(* No crash, failed write or rebuild beside it makes the chain lose or      *)
(* rewrite an event, and what an append reported stays in it.              *)
Chain == INSTANCE EventChain WITH chain <- log
ImplementsEventChain == Chain!Spec

(* Once the temporary files are swept, whatever was interrupted in whatever *)
(* order, the segments and the checkpoint replay: unless snapshots/ holds   *)
(* parts no manifest was ever written for, or a manifest of version 0.     *)
CheckpointPublished == parts = {} \/ (manifest # NoManifest /\ manifest.version >= 1)
ReadableOnceSwept ==
    (\A t \in tmp : t.dir # "events") /\ CheckpointPublished => Replays

(* "The manifest is replaced last, so it can only name a complete           *)
(* snapshot": of a state the chain went through.                           *)
ManifestNamesPrefix ==
    manifest # NoManifest =>
        manifest.state \in parts /\ manifest.state = SubSeq(log, 1, manifest.version)

(* What a checkpoint leaves is sound: both of the above.                     *)
CheckpointsAreSound == ReadableOnceSwept /\ ManifestNamesPrefix

(* A command that reports success without the note WORKSPACE_VIEW_UNWRITTEN *)
(* leaves every view current, and an append leaves its sidecars current.   *)
ReportedIsDerived ==
    /\ outcome \in {"appended", "recovered"} => \A i \in 1..Views : views[i] = Len(log)
    /\ outcome \in {"appended", "unwritten"} /\ version = 2 /\ ~Plain(log) => index = Len(log)

(* The checkpoint is a cache: when no process runs and no temporary file is *)
(* left, the workspace can be read.                                        *)
CheckpointNeverBlocks == tmp = {} /\ (\A w \in Writer : ~Busy(w)) => Replays

(* An event whose append returned is in the chain. *)
ReportedIsCommitted == \A e \in acked : \E i \in 1..Len(log) : log[i] = e
=============================================================================
