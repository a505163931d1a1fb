----------------------------- MODULE DerivedViews -----------------------------
(***************************************************************************)
(* The views of a workspace and the ceilings they answer to                *)
(* (packages/core/src/workspace.ts): what an append projects before it     *)
(* writes a byte, the segments and then the views it writes, what recover  *)
(* writes again, what validate compares, what status meters and what       *)
(* export can still say.                                                   *)
(*                                                                         *)
(* Storage version 2, one command at a time under the lease.  A record of  *)
(* the index and an event have sizes; the other views are of fixed length. *)
(***************************************************************************)
EXTENDS Naturals, Sequences, FiniteSets, SequencesExt

CONSTANTS
    Work,          \* the work items
    Setting,       \* settings other than storage.segmentBytes
    Size,          \* what a work item may weigh
    Segment,       \* what storage.segmentBytes may be set to
    DefaultLimit,  \* the segment size of the metadata
    Budget,        \* bytes of a canonical document
    MaxChain,      \* the record cap
    MaxBatch,      \* bound on the members of a batch
    MaxFaults      \* bound on kills and failed view writes

VARIABLES
    log,      \* the segments, each a sequence of events
    files,    \* the view files, by name: what they show
    cmd,      \* the command in flight: [todo, docs], or Idle
    clean,    \* the last command answered, with every view written
    whole,    \* the chain ends where a batch ends
    faults

vars == <<log, files, cmd, clean, whole, faults>>

Idle == [todo |-> <<>>, docs |-> <<>>]

-----------------------------------------------------------------------------
(* The state a chain replays to.                                            *)

Empty == [version |-> 0, work |-> <<>>, settings |-> <<>>, limit |-> 0]

Without(f, k) == [x \in DOMAIN f \ {k} |-> f[x]]

With(f, k, v) == [x \in DOMAIN f \cup {k} |-> IF x = k THEN v ELSE f[x]]

Apply(st, e) ==
    [(CASE e.do = "create" -> [st EXCEPT !.work = With(@, e.key, e.value)]
        [] e.do = "delete" -> [st EXCEPT !.work = Without(@, e.key)]
        [] e.do = "set"    -> [st EXCEPT !.settings = With(@, e.key, e.value)]
        [] e.do = "unset"  -> [st EXCEPT !.settings = Without(@, e.key)]
        [] e.do = "limit"  -> [st EXCEPT !.limit = e.value])
     EXCEPT !.version = @ + 1]

Chain == FlattenSeq(log)

State(events) == FoldLeft(Apply, Empty, events)

(* The refusals of the reducers that matter here.                           *)
Admissible(st, e) ==
    CASE e.do = "create" -> e.key \notin DOMAIN st.work
      [] e.do = "delete" -> e.key \in DOMAIN st.work
      [] e.do = "unset"  -> e.key \in DOMAIN st.settings
      [] OTHER -> TRUE

Bytes(e) == IF e.do = "create" THEN e.value ELSE 1

SegmentBytes(st) == IF st.limit = 0 THEN DefaultLimit ELSE st.limit

-----------------------------------------------------------------------------
(* The views: the index of the live work, the extension index as long as    *)
(* there is a setting, and two that name the head.                          *)

Total(f) == FoldLeft(LAMBDA n, k : n + f[k], 0, SetToSeq(DOMAIN f))

HasExtensions(st) == st.settings # <<>> \/ st.limit # 0

ViewDocuments(st) ==
    LET shown == [readback |-> <<st.version, st.work>>, status |-> <<st.version, st.work>>, index |-> st.work]
    IN  IF HasExtensions(st) THEN With(shown, "extensions", <<st.settings, st.limit>>) ELSE shown

(* Measured before it is serialised; only the index grows.                  *)
Fits(st) == Total(st.work) <= Budget

(* status: the head room of each view, of the segments and of the chain.    *)
(* The segments are cut afresh at the size that holds now.                  *)
Cut(st, events) ==
    FoldLeft(LAMBDA b, e : IF b.now > 0 /\ b.now + Bytes(e) > SegmentBytes(st)
                           THEN [now |-> Bytes(e), most |-> IF b.now > b.most THEN b.now ELSE b.most]
                           ELSE [b EXCEPT !.now = @ + Bytes(e)],
             [now |-> 0, most |-> 0], events)

WorkspaceBudgets ==
    LET st == State(Chain)  c == Cut(st, Chain)
    IN  [index |-> Total(st.work), segment |-> IF c.now > c.most THEN c.now ELSE c.most,
         events |-> MaxChain - Len(Chain)]

ExportWorkspace ==
    LET all == FoldLeft(LAMBDA n, e : n + Bytes(e), 0, Chain) + Total(State(Chain).work)
    IN  IF all > Budget THEN "refused" ELSE "exported"

ValidateWorkspace ==
    LET st == State(Chain)  expected == ViewDocuments(st) IN
    IF Len(Chain) > MaxChain THEN "unreadable" ELSE
    IF ~Fits(st) THEN "over budget" ELSE
    IF \E v \in DOMAIN expected : v \notin DOMAIN files \/ files[v] # expected[v] THEN "stale" ELSE "valid"

-----------------------------------------------------------------------------
(* An append.                                                               *)

(* The segments a batch leaves: a new one when the last would grow past the *)
(* limit.  On an empty chain the first roll names the first segment again.  *)
Roll(limit, batch) ==
    FoldLeft(LAMBDA r, e :
               LET rolls == r.bytes > 0 /\ r.bytes + Bytes(e) > limit
                   next == IF rolls THEN r.next + 1 ELSE r.next
                   at == IF rolls \/ r.next > 0 THEN next ELSE 1
               IN  [next |-> next, bytes |-> IF rolls THEN Bytes(e) ELSE r.bytes + Bytes(e),
                    log |-> IF at > Len(r.log) THEN Append(r.log, <<e>>)
                            ELSE [r.log EXCEPT ![at] = Append(@, e)]],
             [next |-> Len(log), log |-> log,
              bytes |-> IF log = <<>> THEN 0 ELSE FoldLeft(LAMBDA n, e : n + Bytes(e), 0, Last(log))],
             batch).log

(* The segments that change, each with what it will hold, lowest first.     *)
Writes(new) ==
    LET changed == {i \in DOMAIN new : i > Len(log) \/ new[i] # log[i]}
    IN  [j \in 1 .. Cardinality(changed) |->
            LET i == CHOOSE x \in changed : Cardinality({y \in changed : y <= x}) = j
            IN  [at |-> i, events |-> new[i]]]

(* Each member is built on the state the ones before it leave; the count    *)
(* and the views are judged once, at the end.                               *)
AppendEvents(batch) ==
    LET after == State(Chain \o batch)
    IN  /\ cmd = Idle
        /\ \A i \in 1 .. Len(batch) : Admissible(State(Chain \o SubSeq(batch, 1, i - 1)), batch[i])
        /\ Len(Chain) + Len(batch) <= MaxChain
        /\ Fits(after)
        /\ cmd' = [todo |-> Writes(Roll(SegmentBytes(after), batch)), docs |-> ViewDocuments(after)]
        /\ clean' = FALSE
        /\ UNCHANGED <<log, files, whole, faults>>

WriteSegment ==
    /\ cmd.todo # <<>>
    /\ LET w == Head(cmd.todo)
       IN  log' = IF w.at > Len(log) THEN Append(log, w.events) ELSE [log EXCEPT ![w.at] = w.events]
    /\ cmd' = [cmd EXCEPT !.todo = Tail(@)]
    /\ whole' = (Len(cmd.todo) = 1)
    /\ UNCHANGED <<files, clean, faults>>

Order == <<"status", "extensions", "index", "readback">>

WriteView ==
    /\ cmd.todo = <<>> /\ cmd.docs # <<>>
    /\ LET i == CHOOSE j \in 1..4 : Order[j] \in DOMAIN cmd.docs
                    /\ \A k \in 1 .. (j - 1) : Order[k] \notin DOMAIN cmd.docs
           rest == Without(cmd.docs, Order[i])
       IN  /\ files' = With(files, Order[i], cmd.docs[Order[i]])
           /\ cmd' = [cmd EXCEPT !.docs = rest]
           /\ clean' = (rest = <<>>)
    /\ UNCHANGED <<log, whole, faults>>

(* A view that cannot be written is a note on the answer; the fact is kept. *)
FailView ==
    /\ cmd.todo = <<>> /\ cmd.docs # <<>>
    /\ faults < MaxFaults /\ faults' = faults + 1
    /\ cmd' = Idle
    /\ UNCHANGED <<log, files, clean, whole>>

Kill ==
    /\ cmd # Idle
    /\ faults < MaxFaults /\ faults' = faults + 1
    /\ cmd' = Idle
    /\ UNCHANGED <<log, files, clean, whole>>

(* recover: the views are projected from the chain and written again.       *)
RecoverWorkspace ==
    /\ cmd = Idle /\ ~clean
    /\ Fits(State(Chain))
    /\ cmd' = [todo |-> <<>>, docs |-> ViewDocuments(State(Chain))]
    /\ UNCHANGED <<log, files, clean, whole, faults>>

ViewsInit ==
    /\ log = <<>> /\ cmd = Idle /\ clean = TRUE /\ whole = TRUE /\ faults = 0
    /\ files = ViewDocuments(Empty)

Change ==
    [do : {"create"}, key : Work, value : Size] \cup [do : {"delete"}, key : Work, value : {0}]
    \cup [do : {"set", "unset"}, key : Setting, value : {0}] \cup [do : {"limit"}, key : {0}, value : Segment]

ViewsNext ==
    \/ \E n \in 1 .. MaxBatch : \E batch \in [1 .. n -> Change] : AppendEvents(batch)
    \/ WriteSegment \/ WriteView \/ FailView \/ Kill \/ RecoverWorkspace

-----------------------------------------------------------------------------
(* What the commands accept, the readers can read: when a command answered   *)
(* that all is written, validate says so; whatever a kill or a failed view  *)
(* left where a batch ends, recover can project again; where it cannot, the *)
(* meter of status says why; and the chain never grows past what replay     *)
(* takes.                                                                   *)
AcceptedIsReadable ==
    /\ clean => ValidateWorkspace = "valid"
    /\ whole => ValidateWorkspace \in {"valid", "stale"}
    /\ ValidateWorkspace = "over budget" <=> WorkspaceBudgets.index > Budget
    /\ Len(Chain) <= MaxChain

(* The same after a kill in the middle of a batch: false, the part that      *)
(* landed may be over the budget that the whole batch meets.                *)
LandedIsReadable == Fits(State(Chain))

(* A view no record calls for has no file: false once the only setting is    *)
(* removed, and validate does not look.                                     *)
NoViewIsOrphaned == clean => DOMAIN files = DOMAIN ViewDocuments(State(Chain))

(* The meter shows the segments as they are: false once their size changes.  *)
MeterIsTrue ==
    cmd = Idle /\ log # <<>> =>
        LET sizes == {FoldLeft(LAMBDA n, e : n + Bytes(e), 0, log[i]) : i \in DOMAIN log}
        IN  WorkspaceBudgets.segment = CHOOSE x \in sizes : \A y \in sizes : y <= x

(* What is accepted can be exported: false, the events of what was deleted   *)
(* count.                                                                    *)
AcceptedIsExportable == clean => ExportWorkspace = "exported"
=============================================================================
