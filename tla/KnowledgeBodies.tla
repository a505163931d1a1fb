---------------------------- MODULE KnowledgeBodies ----------------------------
(***************************************************************************)
(* bodies/ of the knowledge store (SegmentedKnowledgeStoreBackend in         *)
(* packages/core/src/store-backend.ts).  Until a manifest exists a body is a *)
(* file of its own; from then on all bodies are lines of numbered segments, *)
(* each with an index, and a manifest names the segments with their digests. *)
(* Writing or removing one body rewrites every segment under its final name. *)
(*                                                                         *)
(* Bodies are written by the holder of the knowledge store's claim (see      *)
(* KnowledgeStore); knowledge-bodies-migrate takes neither claim nor lease. *)
(* A line is <<card, text>>, a digest is the content it was taken of, and    *)
(* a segment takes PerSegment lines in place of a number of bytes.         *)
(***************************************************************************)
EXTENDS Naturals, Sequences, FiniteSets, TLC

CONSTANTS
    Card,          \* the cards, in canonical order
    PerSegment,
    MaxWrites,     \* bound on the bodies written, removed and migrated
    Repeated,      \* a workspace may be migrated more than once
    Overlapping    \* a migration may run beside a writer

VARIABLES
    legacy,     \* the .body files
    segment,    \* the .ndjson files, by number
    index,      \* the .idx files: the cards each segment is said to hold
    manifest,   \* manifest.json: the segments it names, or NoManifest
    expected,   \* what the metadata of the live cards says their bodies are
    writer,     \* the verb that holds the claim
    migrator,   \* a migration
    writes,     \* bodies written, removed and migrated so far
    migrations,
    kills       \* history: writers and migrations that were killed

files == <<legacy, segment, index, manifest>>
bodyVars == <<files, expected, writer, migrator, writes, migrations, kills>>

NoManifest == [named |-> FALSE, segments |-> <<>>]
Nothing == [x \in {} |-> 0]
Resting == [todo |-> <<>>, chunks |-> <<>>, records |-> Nothing, card |-> 0]

(* writeKnowledgeBodiesSegmented: the records in order, cut into segments. *)
Sorted(cards) == CHOOSE s \in [1..Cardinality(cards) -> cards] :
                    \A i, j \in 1..Cardinality(cards) : i < j => s[i] < s[j]
Chunks(records) ==
    LET order == Sorted(DOMAIN records)
        n == Len(order)
        line(i) == <<order[i], records[order[i]]>>
    IN  [k \in 1..((n + PerSegment - 1) \div PerSegment) |->
            [i \in 1..(IF k * PerSegment <= n THEN PerSegment ELSE n - (k - 1) * PerSegment) |->
                line((k - 1) * PerSegment + i)]]

Cards(chunk) == {chunk[i][1] : i \in 1..Len(chunk)}

-----------------------------------------------------------------------------
(* readSegmentedManifest: segments without a manifest are an error. *)
Refused == ~manifest.named /\ DOMAIN segment \cup DOMAIN index # {}
Segmented == manifest.named

(* listKnowledgeBodies reads the indexes alone. *)
Listable == ~Refused /\ (Segmented => 1..Len(manifest.segments) \subseteq DOMAIN index)
(* Mutant: the last segment alone. *)
ListedLast == IF Segmented THEN UNION {index[k] : k \in {Len(manifest.segments)} \ {0}} ELSE DOMAIN legacy

Listed == IF Segmented THEN UNION {index[k] : k \in 1..Len(manifest.segments)} ELSE DOMAIN legacy

(* The first segment whose index names the card, if it is what the manifest *)
(* says it is.                                                             *)
Holder(c) ==
    {k \in 1..Len(manifest.segments) :
        /\ k \in DOMAIN segment \cap DOMAIN index
        /\ c \in index[k]
        /\ \A j \in 1..(k - 1) : j \in DOMAIN index /\ c \notin index[j]
        /\ segment[k] = manifest.segments[k]}

(* readKnowledgeBody; the line is found by the offset in the index. *)
ReadFrom(k, c) ==
    LET lines == {i \in 1..Len(segment[k]) : segment[k][i][1] = c}
    IN  IF lines = {} THEN {} ELSE {segment[k][CHOOSE i \in lines : TRUE][2]}

Read(c) ==
    IF Segmented THEN UNION {ReadFrom(k, c) : k \in Holder(c)}
    ELSE IF Refused \/ c \notin DOMAIN legacy THEN {} ELSE {legacy[c]}

Readable == Listable /\ \A c \in Listed : Read(c) # {}
Records == [c \in Listed |-> CHOOSE text \in Read(c) : TRUE]

-----------------------------------------------------------------------------
BodiesInit ==
    /\ legacy = Nothing /\ segment = Nothing /\ index = Nothing /\ manifest = NoManifest
    /\ expected = Nothing
    /\ writer = Resting /\ migrator = Resting
    /\ writes = 0 /\ migrations = 0 /\ kills = 0

(* Segment, index, segment, index, ..., the surplus files, the manifest. *)
Rewrite(chunks) ==
    [i \in 1..(2 * Len(chunks)) |-> <<IF i % 2 = 1 THEN "segment" ELSE "index", (i + 1) \div 2>>]
    \o <<<<"surplus", 0>>, <<"manifest", 0>>>>

Without(f, x) == [y \in DOMAIN f \ {x} |-> f[y]]

(* One call on a file.  The removal of the surplus files is one step. *)
Apply(w) ==
    LET call == Head(w.todo)[1]
        k == Head(w.todo)[2]
    IN  /\ legacy' = CASE call = "body" -> w.records @@ legacy
                       [] call = "unlink" -> Without(legacy, k)
                       [] OTHER -> legacy
        /\ segment' = CASE call = "segment" -> (k :> w.chunks[k]) @@ segment
                        [] call = "surplus" -> [j \in DOMAIN segment \cap 1..Len(w.chunks) |-> segment[j]]
                        [] OTHER -> segment
        /\ index' = CASE call = "index" -> (k :> Cards(w.chunks[k])) @@ index
                      [] call = "surplus" -> [j \in DOMAIN index \cap 1..Len(w.chunks) |-> index[j]]
                      [] OTHER -> index
        /\ manifest' = IF call = "manifest" THEN [named |-> TRUE, segments |-> w.chunks] ELSE manifest
        /\ expected' = IF call = "metadata" THEN w.records @@ expected ELSE expected

Counted == writes < MaxWrites /\ writes' = writes + 1

(* writeKnowledgeBody by a create or a refresh; its metadata file is next. *)
Put(c) ==
    /\ writer = Resting /\ (Overlapping \/ migrator = Resting) /\ Readable /\ Counted
    /\ LET text == writes + 1
           chunks == Chunks((c :> text) @@ Records)
       IN  writer' = [Resting EXCEPT !.card = c, !.records = c :> text, !.chunks = chunks,
                        !.todo = (IF Segmented THEN Rewrite(chunks) ELSE <<<<"body", c>>>>)
                                 \o <<<<"metadata", c>>>>]
    /\ UNCHANGED <<files, expected, migrator, migrations, kills>>

(* removeKnowledgeBody by a retire, whose metadata has been written. *)
Drop(c) ==
    /\ writer = Resting /\ (Overlapping \/ migrator = Resting) /\ Readable /\ Counted
    /\ c \in DOMAIN expected
    /\ expected' = Without(expected, c)
    /\ LET chunks == Chunks(Without(Records, c))
       IN  writer' = [Resting EXCEPT !.card = c, !.chunks = chunks,
                        !.todo = IF Segmented THEN Rewrite(chunks) ELSE <<<<"unlink", c>>>>]
    /\ UNCHANGED <<files, migrator, migrations, kills>>

WriterStep ==
    /\ writer.todo # <<>>
    /\ Apply(writer)
    /\ writer' = IF Len(writer.todo) = 1 THEN Resting ELSE [writer EXCEPT !.todo = Tail(@)]
    /\ UNCHANGED <<migrator, writes, migrations, kills>>

(* migrateKnowledgeBodies: the .body files are rewritten as segments, read    *)
(* back and removed, whether or not there are segments already.            *)
Migrate ==
    /\ Repeated \/ migrations = 0
    /\ migrator = Resting /\ (Overlapping \/ writer = Resting)
    /\ Listable /\ Counted
    /\ DOMAIN expected \subseteq Listed
    /\ LET chunks == Chunks(legacy)
           order == Sorted(DOMAIN legacy)
       IN  migrator' = [Resting EXCEPT !.records = legacy, !.chunks = chunks,
                          !.todo = Rewrite(chunks) \o <<<<"check", 0>>>>
                                   \o [i \in 1..Len(order) |-> <<"unlink", order[i]>>]]
    /\ migrations' = migrations + 1
    /\ UNCHANGED <<files, expected, writer, kills>>

MigratorStep ==
    /\ migrator.todo # <<>>
    /\ Apply(migrator)
    /\ migrator' = IF \/ Len(migrator.todo) = 1
                      \/ /\ Head(migrator.todo)[1] = "check"
                         /\ \E c \in DOMAIN migrator.records : Read(c) # {migrator.records[c]}
                   THEN Resting ELSE [migrator EXCEPT !.todo = Tail(@)]
    /\ UNCHANGED <<writer, writes, migrations, kills>>

(* SIGKILL; the claim of the writer is recovered (KnowledgeStore). *)
KillWriter ==
    /\ writer # Resting
    /\ writer' = Resting
    /\ kills' = kills + 1
    /\ UNCHANGED <<files, expected, migrator, writes, migrations>>

KillMigrator ==
    /\ migrator # Resting
    /\ migrator' = Resting
    /\ kills' = kills + 1
    /\ UNCHANGED <<files, expected, writer, writes, migrations>>

BodiesNext ==
    \/ \E c \in Card : Put(c) \/ Drop(c)
    \/ WriterStep \/ Migrate \/ MigratorStep
    \/ KillWriter \/ KillMigrator

BodiesSpec == BodiesInit /\ [][BodiesNext]_bodyVars

-----------------------------------------------------------------------------
(* "a live record must still carry its body": between the commands, what the *)
(* metadata calls live can be listed and read, and says what it should: the *)
(* two layouts hold the same bodies, through every rewrite and migration,   *)
(* unless one was killed.                                                  *)
LiveHasBody ==
    (writer = Resting /\ migrator = Resting /\ kills = 0)
        => /\ Listable
           /\ \A c \in DOMAIN expected : Read(c) = {expected[c]}
=============================================================================
