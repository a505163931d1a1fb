--------------------------- MODULE InjectionFrame ---------------------------
(***************************************************************************)
(* What a session is shown of the work (scripts/injection-session.mjs): the *)
(* global frame of buildL0Injection, ordered by the events that changed a   *)
(* status, and the frame of a bound dispatch, buildBoundedTaskContext.  The *)
(* workspace is external: its work items and events are as workspace.ts     *)
(* writes them.  A row is a record's id; the byte budget is a number of     *)
(* rows.                                                                    *)
(***************************************************************************)
EXTENDS Naturals, Sequences, SequencesExt, FiniteSets, FiniteSetsExt, Functions

CONSTANTS
    Work,       \* ids, in the order canonicalIdCompare gives
    Kind,       \* of each
    Parent,     \* of each, 0 for none
    Pack,       \* the pack each is labelled with, 0 for none
    Status,
    Packs,      \* the packs a dispatch may name
    MaxLines,   \* of a frame
    MaxEvents   \* bound on the events

VARIABLES
    work,      \* the status of each item, "" before it is created
    gone,      \* the items with a tombstone
    minutes,   \* are there minutes of a conference?
    events,
    changedAt  \* the event at which each item got its status

vars == <<work, gone, minutes, events, changedAt>>

Live == {w \in Work : work[w] # ""} \ gone
ActiveReady == {w \in Live : work[w] \in {"active", "ready"}}

-----------------------------------------------------------------------------
(* Mutant: an annotation counts as a change of status. *)
SequencesByAnyEvent(log) ==
    FoldLeftDomain(LAMBDA acc, i : [acc EXCEPT ![log[i].id].at = i],
                   [w \in Work |-> [status |-> "", at |-> 0]], log)

(* statusChangeSequences: the last creation or update that changed it; any  *)
(* work event sets what the next is compared with.                          *)
StatusChangeSequences(log) ==
    FoldLeftDomain(
        LAMBDA acc, i :
            LET e == log[i] IN
            [acc EXCEPT ![e.id] =
                [status |-> e.status,
                 at |-> IF e.op \in {"created", "updated"} /\ @.status # e.status THEN i ELSE @.at]],
        [w \in Work |-> [status |-> "", at |-> 0]], log)

Rank(status) == CASE status = "active" -> 0 [] status = "ready" -> 1 [] OTHER -> 2

(* compareWork. *)
Before(at, v, w) ==
    \/ Rank(work[v]) < Rank(work[w])
    \/ /\ Rank(work[v]) = Rank(work[w])
       /\ at[v].at > at[w].at \/ (at[v].at = at[w].at /\ v < w)

(* ancestorsFor: as far as the parents are live. *)
Ancestors[w \in Work] ==
    IF Parent[w] \in Live THEN <<Parent[w]>> \o Ancestors[Parent[w]] ELSE <<>>

(* parentForKind. *)
OfKind(w, kind) == SelectSeq(Ancestors[w], LAMBDA v : Kind[v] = kind)
Nearest(w, kind) == SubSeq(OfKind(w, kind), 1, Min({1, Len(OfKind(w, kind))}))

Without(s, t) == SelectSeq(s, LAMBDA v : v \notin ToSet(t))
First(s, n) == SubSeq(s, 1, Min({n, Len(s)}))

(* The summary takes the last slot, and what it displaced is omitted too. *)
Omitted(shown, capacity) ==
    LET visible == First(shown, capacity) IN
    IF ActiveReady \subseteq ToSet(visible) \/ capacity = 0 THEN ActiveReady \ ToSet(visible)
    ELSE ActiveReady \ ToSet(First(visible, capacity - 1))

(* The items in order; the first of them, its branch, and the others. *)
Pool(at) ==
    LET ahead(w) == {v \in ActiveReady : Before(at, v, w)} IN
    [i \in 1..Cardinality(ActiveReady) |->
        CHOOSE w \in ActiveReady : Cardinality(ahead(w)) = i - 1]

Branch(w) == <<w>> \o Nearest(w, "Epic") \o Nearest(w, "Initiative")
LedBy(branch, pool) == branch \o Without(pool, branch)
Selected(pool) == IF pool = <<>> THEN <<>> ELSE LedBy(Branch(pool[1]), pool)

(* The rows that are left of the selected ones when some are omitted. *)
Fitted(selected, omitted, prefix, capacity) ==
    LET summary == omitted # {} /\ capacity > 0
        visible == First(selected, IF summary THEN capacity - 1 ELSE capacity)
    IN  [rows |-> visible, omitted |-> Cardinality(omitted), summary |-> summary,
         lines |-> prefix + Len(visible) + IF summary THEN 1 ELSE 0]

FrameOf(selected, prefix) ==
    Fitted(selected, Omitted(selected, MaxLines - prefix), prefix, MaxLines - prefix)

(* buildL0Injection. *)
GlobalFrame == FrameOf(Selected(Pool(StatusChangeSequences(events))), IF minutes THEN 1 ELSE 0)

(* The values the payload and the environment give each field, one of which *)
(* may be unreadable.                                                       *)
Unread == [role |-> "", workId |-> 0, pack |-> 0]
AtMostTwo(S) == {s \in SUBSET S : Cardinality(s) <= 2}
Input == [role : AtMostTwo({"main", "subagent", Unread.role}),
          workId : AtMostTwo(Work \cup {Unread.workId}),
          pack : AtMostTwo(Packs \cup {Unread.pack})]
Fields == DOMAIN Unread

(* normalizeDispatchContext: whole and without a conflict, or refused. *)
Binding(input, require) ==
    IF ~require /\ \A f \in Fields : input[f] = {} THEN "legacy"
    ELSE IF \E f \in Fields : Cardinality(input[f]) # 1 \/ input[f] = {Unread[f]} THEN "refused"
    ELSE "bound"

(* matchesDispatchContext: a row names items and packs. *)
MatchesDispatchContext(row, context) ==
    /\ row.ids = {} \/ context.workId \in row.ids
    /\ row.packs = {} \/ context.pack \in row.packs
    /\ row.ids \cup row.packs # {}

(* A work item is a row that names itself. *)
Matches(w, context) ==
    MatchesDispatchContext([ids |-> {w}, packs |-> {Pack[w]} \ {0}], context)

(* buildBoundedTaskContext. *)
TaskFrame(context) ==
    IF context.workId \notin Live \/ ~Matches(context.workId, context) THEN <<>>
    ELSE LET target == context.workId
             branch == <<target>> \o Reverse(Ancestors[target])
             same == IF context.role = "main"
                       THEN SetToSortSeq({w \in Live : Matches(w, context)}, <)
                       ELSE <<>>
         IN  First(branch \o Without(same, branch), MaxLines)

(* What runSessionInjection shows at the start of a session. *)
Shown(input, require) ==
    LET binding == Binding(input, require)
        the(f) == CHOOSE v \in input[f] : v # Unread[f]
    IN  CASE binding = "legacy" -> GlobalFrame.rows
          [] binding = "refused" -> <<>>
          [] OTHER -> TaskFrame([role |-> the("role"), workId |-> the("workId"),
                                 pack |-> the("pack")])

-----------------------------------------------------------------------------
Logs(op, w, status) ==
    /\ Len(events) < MaxEvents
    /\ events' = Append(events, [op |-> op, id |-> w, status |-> status])
    /\ changedAt' = [changedAt EXCEPT ![w] = IF status = work[w] THEN @ ELSE Len(events')]
    /\ work' = [work EXCEPT ![w] = status]

Create(w, status) ==
    /\ work[w] = "" /\ (Parent[w] = 0 \/ Parent[w] \in Live)
    /\ Logs("created", w, status)
    /\ UNCHANGED <<gone, minutes>>

Update(w, status) ==
    /\ w \in Live /\ Logs("updated", w, status)
    /\ UNCHANGED <<gone, minutes>>

Annotate(w) ==
    /\ w \in Live /\ Logs("annotated", w, work[w])
    /\ UNCHANGED <<gone, minutes>>

Delete(w) ==
    /\ w \in Live /\ \A v \in Live : Parent[v] # w
    /\ gone' = gone \cup {w} /\ Logs("deleted", w, work[w])
    /\ UNCHANGED minutes

Meet == minutes' = TRUE /\ UNCHANGED <<work, gone, events, changedAt>>

FrameInit ==
    /\ work = [w \in Work |-> ""] /\ gone = {} /\ minutes = FALSE
    /\ events = <<>> /\ changedAt = [w \in Work |-> 0]

FrameNext ==
    \/ Meet
    \/ \E w \in Work :
         \/ \E status \in Status : Create(w, status) \/ Update(w, status)
         \/ Annotate(w) \/ Delete(w)

FrameSpec == FrameInit /\ [][FrameNext]_vars

-----------------------------------------------------------------------------
(* The global frame fits its lines, shows first what is active, the one     *)
(* whose status changed last before the others, and every active or ready   *)
(* item is in it or counted as omitted, the one the count itself displaced  *)
(* included.                                                                *)
FrameAccountsForAll ==
    LET frame == GlobalFrame IN
    /\ frame.lines <= MaxLines
    /\ Cardinality(ActiveReady \cap ToSet(frame.rows)) + frame.omitted = Cardinality(ActiveReady)
    /\ frame.summary <=> frame.omitted > 0
    /\ frame.rows # <<>> => \A w \in ActiveReady \ {frame.rows[1]} :
         LET v == frame.rows[1] IN
         \/ Rank(work[v]) < Rank(work[w])
         \/ Rank(work[v]) = Rank(work[w]) /\ changedAt[v] > changedAt[w]

(* A child's session is shown its own item and what that belongs to, or     *)
(* nothing, whatever its payload and environment say and do not say.        *)
Child == {input \in Input : "main" \notin input.role /\ Binding(input, TRUE) # "refused"}
ChildSeesItsTask ==
    \A input \in Child :
        LET shown == ToSet(Shown(input, TRUE)) IN
        shown # {} => \E w \in Work :
            /\ input.workId = {w} /\ shown \subseteq {w} \cup ToSet(Ancestors[w])
            /\ Pack[w] = 0 \/ input.pack = {Pack[w]}

(* injection-session.mjs:729: "Main/orchestrator work gets the records      *)
(* carrying the same Pack plus its ancestry".                               *)
MainSeesItsPack ==
    \A w, v \in Live :
        Pack[w] # 0 /\ Pack[v] = Pack[w] /\ Len(Ancestors[w]) < MaxLines - 1 =>
            v \in ToSet(TaskFrame([role |-> "main", workId |-> w, pack |-> Pack[w]]))
=============================================================================
