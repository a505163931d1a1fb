---------------------------- MODULE BoundedSearch ----------------------------
(***************************************************************************)
(* boundedSearch (scripts/injection-session.mjs): a search of explicit      *)
(* files and directories under limits of time, files, matches, depth and    *)
(* size.  What a search left undone is the scope of the next one.  The      *)
(* refusals of a scope outside the bounds are left out, and the files do    *)
(* not change between the searches.                                         *)
(***************************************************************************)
EXTENDS Naturals, Sequences, SequencesExt, FiniteSets

CONSTANTS
    Dir, File, Link,  \* the nodes of the tree
    Contents,         \* what each directory has, by name
    Root,             \* the explicit scope
    MaxFiles, MaxMatches, MaxDepth,
    MaxLines,         \* bound on the lines of a file that match
    MaxSearches       \* bound on the searches

VARIABLES
    kind,      \* of each file: "plain", "large", "unreadable" or "irregular"
    hits,      \* how many of its lines match
    queue,     \* what is to be visited
    scanned, partial, running,
    matches,   \* of this search
    seen,      \* of all searches of the scope
    searches

tree == <<kind, hits>>
vars == <<kind, hits, queue, scanned, partial, running, matches, seen, searches>>

At(node, depth) == [node |-> node, depth |-> depth]
Current == Head(queue)
Lines(f) == {f} \X (1..hits[f])

Starts(scope) ==
    /\ queue' = [i \in 1..Len(scope) |-> At(scope[i], 0)]
    /\ scanned' = 0 /\ partial' = FALSE /\ running' = TRUE /\ matches' = {}
    /\ searches' = searches + 1 /\ searches < MaxSearches

(* markPartial and break: what is queued is the next scope. *)
Stops(left) == queue' = left /\ partial' = TRUE /\ running' = FALSE

(* Mutant: what stopped the search is not part of the next scope. *)
UndoneBehind == Tail(queue)

Undone == queue

(* searchNextScope: the files first, each path once. *)
NextScope ==
    LET paths == [i \in 1..Len(queue) |-> queue[i].node]
        once == FoldLeft(LAMBDA q, n : IF Contains(q, n) THEN q ELSE Append(q, n), <<>>, paths)
    IN  SelectSeq(once, LAMBDA n : n \in File) \o SelectSeq(once, LAMBDA n : n \in Dir)

Resume ==
    /\ ~running /\ partial /\ queue # <<>>
    /\ Starts(NextScope)
    /\ UNCHANGED <<tree, seen>>

TimesOut ==
    /\ running /\ queue # <<>>
    /\ Stops(Undone)
    /\ UNCHANGED <<tree, scanned, matches, seen, searches>>

Completes ==
    /\ running /\ queue = <<>>
    /\ running' = FALSE
    /\ UNCHANGED <<tree, queue, scanned, partial, matches, seen, searches>>

VisitDirectory ==
    /\ running /\ queue # <<>> /\ Current.node \in Dir
    /\ IF Current.depth >= MaxDepth THEN Stops(Undone)
       ELSE LET entries == Contents[Current.node]
                kept == SelectSeq(entries, LAMBDA n : n \notin Link)
            IN  /\ queue' = Tail(queue) \o
                        [i \in 1..Len(kept) |-> At(kept[i], Current.depth + 1)]
                /\ partial' = (partial \/ kept # entries)
                /\ UNCHANGED running
    /\ UNCHANGED <<tree, scanned, matches, seen, searches>>

(* A file that is not read: only an irregular one is passed over. *)
VisitUnreadFile ==
    /\ running /\ queue # <<>> /\ Current.node \in File
    /\ scanned >= MaxFiles \/ kind[Current.node] # "plain"
    /\ IF scanned < MaxFiles /\ kind[Current.node] = "irregular"
         THEN queue' = Tail(queue) /\ partial' = TRUE /\ UNCHANGED running
         ELSE Stops(Undone)
    /\ UNCHANGED <<tree, scanned, matches, seen, searches>>

ReadFile ==
    /\ running /\ queue # <<>> /\ Current.node \in File
    /\ scanned < MaxFiles /\ kind[Current.node] = "plain"
    /\ LET f == Current.node
           room == MaxMatches - Cardinality(matches)
           found == {line \in Lines(f) : line[2] <= room}
       IN  /\ scanned' = scanned + 1
           /\ matches' = matches \cup found /\ seen' = seen \cup found
           /\ IF found # {} /\ Cardinality(matches') >= MaxMatches THEN Stops(Undone)
              ELSE /\ queue' = Tail(queue)
                   /\ running' = ~partial
                   /\ UNCHANGED partial
    /\ UNCHANGED <<tree, searches>>

SearchInit ==
    /\ kind \in [File -> {"plain", "large", "unreadable", "irregular"}]
    /\ hits \in [File -> 0..MaxLines]
    /\ queue = [i \in 1..Len(Root) |-> At(Root[i], 0)]
    /\ scanned = 0 /\ partial = FALSE /\ running = TRUE
    /\ matches = {} /\ seen = {} /\ searches = 1

SearchNext ==
    \/ Resume \/ TimesOut \/ Completes
    \/ VisitDirectory \/ VisitUnreadFile \/ ReadFile

SearchSpec == SearchInit /\ [][SearchNext]_vars

-----------------------------------------------------------------------------
Nodes == Dir \cup File
Below(n) == IF n \in Dir THEN ToSet(Contents[n]) \cap Nodes ELSE {}
RECURSIVE Reach(_)
Reach(found) ==
    LET more == found \cup UNION {Below(n) : n \in found}
    IN  IF more = found THEN found ELSE Reach(more)

(* Nothing of the scope is lost between the searches: each file was read    *)
(* whole, or is not regular, or is in what the next search will visit; and  *)
(* a search that says it is complete read every file ("every incomplete     *)
(* result carries the work that remains", injection-session.mjs:182).       *)
SearchIsHonest ==
    LET left == Reach({queue[i].node : i \in 1..Len(queue)})
    IN  /\ \A f \in Reach(ToSet(Root)) \cap File :
             Lines(f) \subseteq seen \/ kind[f] = "irregular" \/ f \in left
        /\ ~running /\ ~partial => queue = <<>>
=============================================================================
