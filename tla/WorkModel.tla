------------------------------ MODULE WorkModel ------------------------------
(***************************************************************************)
(* The governed records of a workspace (packages/core/src/workspace.ts):   *)
(* projects, work, conferences with their positions and minutes, gates,    *)
(* and the attestation boundary.                                           *)
(*                                                                         *)
(* Every verb is written twice in the code.  The verb judges its input     *)
(* against the state it has read, builds one event and the state it        *)
(* expects (the delta), reports success and writes the views from the      *)
(* delta.  Every later command rebuilds the state from the events with the *)
(* reducer materialize, which judges the event again, by conditions of its *)
(* own, and refuses the whole workspace when one of them fails.  Here      *)
(* `state' is what the reducer makes of the chain, `built' what the last   *)
(* verb expected, and `readable' becomes FALSE when the reducer refuses an *)
(* event that a verb has appended.                                         *)
(*                                                                         *)
(* Abstracted: revisions and timestamps (a verb derives them from the      *)
(* state the reducer rebuilds), digests (the digest of an extension map is *)
(* the map), names and texts (title, labels and summary are one caption),  *)
(* every advisory extension but scope, decided-by and evidence, template   *)
(* bindings.  The append itself is in MutationCommit and EventStore.       *)
(***************************************************************************)
EXTENDS Naturals, FiniteSets

CONSTANTS
  Projects, Works, Conferences, Positions, Minutes, Gates,  \* identifiers
  KindOf,         \* the kind each work is created with
  Actors,         \* the names a command can carry
  Permitted,      \* the actors the gate identity roster permits
  Captions, Scopes,
  OwnerScopes,    \* the scopes that name the Owner as the decider
  CreateStatuses, \* bound: the statuses work is created in
  Advised,        \* bound: the work whose commands carry options
  MaxRecords,     \* bound on the projects, works, conferences and gates
  None

Kinds == {"Initiative", "Epic", "Story", "Subtask", "Review", "Incident",
          "Release", "Knowledge"}

Statuses == {"planned", "ready", "active", "blocked",
             "pending-owner-acceptance", "done", "cancelled"}

ASSUME WorkModelAssumption ==
  /\ KindOf \in [Works -> Kinds]
  /\ Permitted \subseteq Actors
  /\ OwnerScopes \subseteq Scopes
  /\ CreateStatuses \subseteq Statuses
  /\ Advised \subseteq Works
  /\ MaxRecords \in Nat
VARIABLES state, built, readable
vars == <<state, built, readable>>

-----------------------------------------------------------------------------
(* Records.                                                                *)

Extensions ==
  [scope : Scopes \cup {None}, decided : BOOLEAN, evidence : BOOLEAN]

WorkRecords ==
  [project : Projects, kind : Kinds, parent : Works \cup {None},
   status : Statuses, tombstone : BOOLEAN, caption : Captions \cup {None},
   ext : Extensions]

ConferenceRecords ==
  [project : Projects, linked : SUBSET Works,
   status : {"open", "closed", "cancelled"}]

GateRecords ==
  [project : Projects, work : Works \cup {None}, ownerIntent : BOOLEAN,
   status : {"pending", "blocked", "satisfied"}, tombstone : BOOLEAN,
   evidence : Minutes \cup {None}, identity : Permitted \cup {None}]

(* None is no name and no record. *)
ASSUME NoneAssumption ==
  None \notin Works \cup Conferences \cup Minutes \cup Actors \cup Scopes \cup Captions
             \cup WorkRecords \cup ConferenceRecords \cup GateRecords

States ==
  [projects : [Projects -> {"absent", "live", "deleted"}],
   work : [Works -> WorkRecords \cup {None}],
   conferences : [Conferences -> ConferenceRecords \cup {None}],
   positions : [Positions -> Conferences \cup {None}],
   minutes : [Minutes -> Conferences \cup {None}],
   gates : [Gates -> GateRecords \cup {None}],
   attested : BOOLEAN]

EmptyState ==
  [projects |-> [p \in Projects |-> "absent"], work |-> [w \in Works |-> None],
   conferences |-> [c \in Conferences |-> None],
   positions |-> [p \in Positions |-> None], minutes |-> [m \in Minutes |-> None],
   gates |-> [g \in Gates |-> None], attested |-> FALSE]

Known(map) == {x \in DOMAIN map : map[x] # None}

LiveWork(work) == {w \in Known(work) : ~work[w].tombstone}

-----------------------------------------------------------------------------
(* Conditions the verbs and the reducer share.                             *)

Transitions ==
  ({"planned"} \X {"ready", "cancelled"})
  \cup ({"ready"} \X {"active", "blocked", "cancelled"})
  \cup ({"active"} \X {"blocked", "pending-owner-acceptance", "done", "cancelled"})
  \cup ({"blocked"} \X {"ready", "active", "cancelled"})
  \cup ({"pending-owner-acceptance"} \X {"active", "done", "cancelled"})

(* Mutant: pending and blocked flip freely, and so does satisfied. *)
GateTransitionsFree ==
  {move \in {"pending", "blocked", "satisfied"} \X {"pending", "blocked", "satisfied"} :
     move[1] # move[2]}

GateTransitions ==
  {<<"pending", "blocked">>, <<"pending", "satisfied">>,
   <<"blocked", "pending">>, <<"blocked", "satisfied">>}

Parentless == {"Initiative", "Release"}
ParentKind == [Epic |-> "Initiative", Story |-> "Epic", Subtask |-> "Story"]

(* Mutant: the tombstone of the parent is not looked at. *)
ParentFitsDeleted(work, w) ==
  LET parent == work[w].parent IN
  /\ work[w].kind \in Parentless => parent = None
  /\ work[w].kind \in DOMAIN ParentKind => parent # None
  /\ parent # None =>
       /\ work[parent] # None
       /\ work[parent].project = work[w].project
       /\ work[w].kind \in DOMAIN ParentKind =>
            work[parent].kind = ParentKind[work[w].kind]

(* The parent of a record fits it: validateWorkGraph, one round of its loop. *)
ParentFits(work, w) ==
  LET parent == work[w].parent IN
  /\ work[w].kind \in Parentless => parent = None
  /\ work[w].kind \in DOMAIN ParentKind => parent # None
  /\ parent # None =>
       /\ work[parent] # None
       /\ work[parent].project = work[w].project
       /\ work[w].kind \in DOMAIN ParentKind =>
            work[parent].kind = ParentKind[work[w].kind]
       /\ work[parent].tombstone => work[w].tombstone

ValidWorkGraph(work) ==
  /\ \A w \in Known(work) : ParentFits(work, w)
  /\ \A cycle \in SUBSET Known(work) \ {{}} :
       \E w \in cycle : work[w].parent \notin cycle

(* Mutant: only a pending gate holds work back, a blocked one lets it go. *)
PendingGateClearance(gates, w, target) ==
  target = "done" =>
    \A g \in Known(gates) :
      gates[g].work = w => gates[g].tombstone \/ gates[g].status # "pending"

(* No gate that stands on the work and is not satisfied keeps it from done. *)
GateClearance(gates, w, target) ==
  target = "done" =>
    \A g \in Known(gates) :
      gates[g].work = w => gates[g].tombstone \/ gates[g].status = "satisfied"

(* Evidence arrives with the transition to done and stays as it is. *)
TransitionEvidence(current, next) ==
  /\ [current.ext EXCEPT !.evidence = FALSE] = [next.ext EXCEPT !.evidence = FALSE]
  /\ current.ext.evidence => next.ext.evidence
  /\ next.ext.evidence /\ ~current.ext.evidence => next.status = "done"

AnnotationChanges(current, next) ==
  next.ext # current.ext \/ next.caption # current.caption

OpenConferences(s) ==
  {c \in Known(s.conferences) : s.conferences[c].status = "open"}

(* Mutant: any minutes are evidence. *)
AnyMinutes(s, gate, locator) == locator # None /\ s.minutes[locator] # None

(* A locator resolves to minutes whose conference links the work of the gate. *)
EvidenceResolves(s, gate, locator) ==
  /\ locator # None
  /\ s.minutes[locator] # None
  /\ gate.work # None => gate.work \in s.conferences[s.minutes[locator]].linked

-----------------------------------------------------------------------------
(* The reducer.                                                            *)

(* An event can carry a reference in place of the scope (byReference): the  *)
(* scope of the record it succeeds, whose extensions have the event's       *)
(* digest.                                                                  *)
ScopeResolves(s, e) ==
  IF e.byReference
  THEN /\ s.work[e.id] # None
       /\ s.work[e.id].ext.scope # None
       /\ s.work[e.id].ext = e.digest
       /\ [e.record.ext EXCEPT !.scope = s.work[e.id].ext.scope] = e.digest
  ELSE e.record.ext = e.digest

ResolvedRecord(s, e) ==
  IF e.byReference
  THEN [e.record EXCEPT !.ext.scope = s.work[e.id].ext.scope]
  ELSE e.record

WorkReplays(s, e) ==
  LET current == s.work[e.id]
      record == ResolvedRecord(s, e)
      project == s.projects[record.project]
  IN
  /\ ScopeResolves(s, e)
  /\ IF e.op = "work.created"
     THEN current = None /\ ~record.tombstone /\ ~record.ext.evidence
     ELSE /\ current # None
          /\ ~current.tombstone
          /\ record.project = current.project
          /\ record.kind = current.kind
          /\ record.parent = current.parent
          /\ record.tombstone = (e.op = "work.deleted")
  /\ e.op = "work.updated" =>
       /\ <<current.status, record.status>> \in Transitions
       /\ GateClearance(s.gates, e.id, record.status)
       /\ TransitionEvidence(current, record)
  /\ e.op = "work.annotated" =>
       /\ record.status = current.status
       /\ record.ext.evidence = current.ext.evidence
       /\ AnnotationChanges(current, record)
  /\ project # "absent"
  /\ project = "deleted" => record.tombstone
  /\ ValidWorkGraph([s.work EXCEPT ![e.id] = record])

ProjectReplays(s, e) ==
  /\ s.projects[e.id] = IF e.op = "project.created" THEN "absent" ELSE "live"
  /\ e.op = "project.deleted" =>
       \A w \in LiveWork(s.work) : s.work[w].project # e.id

(* The work a conference or a gate names is live and in its project. *)
NamesLiveWork(s, project, works) ==
  /\ s.projects[project] = "live"
  /\ \A w \in works : w \in LiveWork(s.work) /\ s.work[w].project = project

ConferenceReplays(s, e) ==
  CASE e.op = "conference.created" ->
         /\ s.conferences[e.id] = None
         /\ e.record.status = "open"
         /\ e.record.linked # {}
         /\ NamesLiveWork(s, e.record.project, e.record.linked)
    [] e.op = "conference.position.appended" ->
         /\ s.positions[e.id] = None
         /\ e.record \in OpenConferences(s)
    [] OTHER ->
         /\ e.id \in OpenConferences(s)
         /\ e.record = [s.conferences[e.id] EXCEPT !.status =
              IF e.op = "conference.closed" THEN "closed" ELSE "cancelled"]
         /\ e.op = "conference.closed" => s.minutes[e.minutes] = None

GateReplays(s, e) ==
  LET current == s.gates[e.id]
      satisfied == e.op = "gate.updated" /\ e.record.status = "satisfied"
  IN
  IF e.op = "gate.created"
  THEN /\ current = None
       /\ ~e.record.tombstone
       /\ e.record.status = "pending"
       /\ NamesLiveWork(s, e.record.project, {e.record.work} \ {None})
  ELSE /\ current # None
       /\ ~current.tombstone
       /\ e.record.tombstone = (e.op = "gate.deleted")
       /\ IF e.op = "gate.updated"
          THEN <<current.status, e.record.status>> \in GateTransitions
          ELSE e.record.status = current.status
       /\ satisfied =>
            /\ EvidenceResolves(s, current, e.record.evidence)
            /\ e.record.identity # None /\ e.actor # None =>
                 e.actor = e.record.identity
       /\ e.record = [current EXCEPT
            !.status = e.record.status, !.tombstone = e.record.tombstone,
            !.evidence = IF satisfied THEN e.record.evidence ELSE @,
            !.identity = IF satisfied THEN e.record.identity ELSE @]

ProjectOps == {"project.created", "project.updated", "project.deleted"}
WorkOps == {"work.created", "work.updated", "work.annotated", "work.deleted"}
GateOps == {"gate.created", "gate.updated", "gate.deleted"}
EnableOp == "attestation.actor.enabled"

(* From the event that enables attestation on, every event carries an actor, *)
(* and before it none does.                                                 *)
Replays(s, e) ==
  /\ (e.actor # None) = (s.attested \/ e.op = EnableOp)
  /\ CASE e.op = EnableOp -> ~s.attested
       [] e.op \in ProjectOps -> ProjectReplays(s, e)
       [] e.op \in WorkOps -> WorkReplays(s, e)
       [] e.op \in GateOps -> GateReplays(s, e)
       [] OTHER -> ConferenceReplays(s, e)

Replayed(s, e) ==
  CASE e.op = EnableOp -> [s EXCEPT !.attested = TRUE]
    [] e.op \in ProjectOps ->
         [s EXCEPT !.projects[e.id] =
            IF e.op = "project.deleted" THEN "deleted" ELSE "live"]
    [] e.op \in WorkOps -> [s EXCEPT !.work[e.id] = ResolvedRecord(s, e)]
    [] e.op \in GateOps -> [s EXCEPT !.gates[e.id] = e.record]
    [] e.op = "conference.position.appended" ->
         [s EXCEPT !.positions[e.id] = e.record]
    [] e.op = "conference.closed" ->
         [s EXCEPT !.conferences[e.id] = e.record, !.minutes[e.minutes] = e.id]
    [] OTHER -> [s EXCEPT !.conferences[e.id] = e.record]

-----------------------------------------------------------------------------
(* The verbs.  Each judges its input against the state it has read and      *)
(* hands an event and its delta to appendEvents, which demands and adds     *)
(* the actor.                                                               *)

(* Mutant: the event that enables attestation is not signed itself. *)
SignatureAfterEnable(op, actor) == IF state.attested THEN actor ELSE None

Signature(op, actor) == IF state.attested \/ op = EnableOp THEN actor ELSE None

Append(actor, e, delta) ==
  /\ readable
  /\ state.attested \/ e.op = EnableOp => actor # None
  /\ built' = delta
  /\ readable' = Replays(state, e)
  /\ state' = IF Replays(state, e) THEN Replayed(state, e) ELSE state

RoomForRecord ==
  Cardinality({p \in Projects : state.projects[p] # "absent"})
    + Cardinality(Known(state.work)) + Cardinality(Known(state.conferences))
    + Cardinality(Known(state.gates)) < MaxRecords

ProjectEvent(op, p, actor) ==
  [op |-> op, id |-> p, actor |-> Signature(op, actor)]

CreateProject(p, actor) ==
  /\ state.projects[p] = "absent"
  /\ RoomForRecord
  /\ Append(actor, ProjectEvent("project.created", p, actor),
            [state EXCEPT !.projects[p] = "live"])

UpdateProject(p, actor) ==
  /\ state.projects[p] = "live"
  /\ Append(actor, ProjectEvent("project.updated", p, actor), state)

DeleteProject(p, actor) ==
  /\ state.projects[p] = "live"
  /\ \A w \in LiveWork(state.work) : state.work[w].project # p
  /\ Append(actor, ProjectEvent("project.deleted", p, actor),
            [state EXCEPT !.projects[p] = "deleted"])

(* Mutant: the scope is replaced by a reference whatever the event. *)
WorkEventDeduplicated(op, w, record, deduplicate, actor) ==
  LET byReference == record.ext.scope # None IN
  [op |-> op, id |-> w, digest |-> record.ext, byReference |-> byReference,
   record |-> [record EXCEPT !.ext.scope = IF byReference THEN None ELSE @],
   actor |-> Signature(op, actor)]

(* A record as an event stores it: with a reference for its scope or whole. *)
WorkEvent(op, w, record, deduplicate, actor) ==
  LET byReference == deduplicate /\ record.ext.scope # None IN
  [op |-> op, id |-> w, digest |-> record.ext, byReference |-> byReference,
   record |-> [record EXCEPT !.ext.scope = IF byReference THEN None ELSE @],
   actor |-> Signature(op, actor)]

WithWork(w, record) == [state EXCEPT !.work[w] = record]

(* A Story whose scope names the Owner is done only with a minutes backlink. *)
CompletionAdmitted(record, target) ==
  record.kind = "Story" /\ target = "done" /\ record.ext.scope \in OwnerScopes =>
    record.ext.decided

Terminal == {"done", "cancelled"}

(* A done Initiative takes no new work that is still to be done. *)
ParentTakes(work, parent, status) ==
  \A p \in LiveWork(work) \cap {parent} :
    work[p].kind = "Initiative" /\ work[p].status = "done" => status \in Terminal

Created(w, project, parent, status, scope, decided, caption) ==
  [project |-> project, kind |-> KindOf[w], parent |-> parent,
   status |-> status, tombstone |-> FALSE, caption |-> caption,
   ext |-> [scope |-> scope, decided |-> decided, evidence |-> FALSE]]

CreateWork(w, project, parent, status, scope, decided, caption, actor) ==
  LET record == Created(w, project, parent, status, scope, decided, caption) IN
  /\ state.projects[project] = "live"
  /\ state.work[w] = None
  /\ RoomForRecord
  /\ ParentTakes(state.work, parent, status)
  /\ KindOf[w] = "Story" => scope # None
  /\ CompletionAdmitted(record, status)
  /\ ValidWorkGraph([state.work EXCEPT ![w] = record])
  /\ Append(actor, WorkEvent("work.created", w, record, FALSE, actor),
            WithWork(w, record))

(* The live work below w, reached without passing deleted work: what is in   *)
(* every set that has the children of w and those of its own members.       *)
Below(work, w) ==
  LET closed(S) == \A x \in LiveWork(work) : work[x].parent \in S \cup {w} => x \in S
  IN {x \in LiveWork(work) : \A S \in SUBSET LiveWork(work) : closed(S) => x \in S}

Transitioned(current, target, evidence, caption) ==
  [current EXCEPT !.status = target,
                  !.caption = IF caption = None THEN @ ELSE caption,
                  !.ext.evidence = @ \/ evidence]

TransitionWork(w, target, evidence, caption, actor) ==
  LET current == state.work[w]
      record == Transitioned(current, target, evidence, caption)
  IN
  /\ w \in LiveWork(state.work)
  /\ evidence => target = "done"
  /\ current.kind = "Story" /\ target \in {"ready", "active", "done"} =>
       current.ext.scope # None
  /\ CompletionAdmitted(current, target)
  /\ current.kind = "Initiative" /\ target = "done" =>
       \A x \in Below(state.work, w) : state.work[x].status \in Terminal
  /\ <<current.status, target>> \in Transitions
  /\ GateClearance(state.gates, w, target)
  /\ TransitionEvidence(current, record)
  /\ ValidWorkGraph([state.work EXCEPT ![w] = record])
  /\ Append(actor, WorkEvent("work.updated", w, record, TRUE, actor),
            WithWork(w, record))

(* None stands for an option that is not given. *)
Annotated(current, scope, decided, caption) ==
  [current EXCEPT !.caption = IF caption = None THEN @ ELSE caption,
                  !.ext.scope = IF scope = None THEN @ ELSE scope,
                  !.ext.decided = @ \/ decided]

AnnotateWork(w, scope, decided, caption, actor) ==
  LET current == state.work[w]
      record == Annotated(current, scope, decided, caption)
  IN
  /\ w \in LiveWork(state.work)
  /\ scope # None \/ decided \/ caption # None
  /\ AnnotationChanges(current, record)
  /\ ValidWorkGraph([state.work EXCEPT ![w] = record])
  /\ Append(actor, WorkEvent("work.annotated", w, record, FALSE, actor),
            WithWork(w, record))

DeleteWork(w, actor) ==
  LET record == [state.work[w] EXCEPT !.tombstone = TRUE] IN
  /\ w \in LiveWork(state.work)
  /\ ValidWorkGraph([state.work EXCEPT ![w] = record])
  /\ Append(actor, WorkEvent("work.deleted", w, record, TRUE, actor),
            WithWork(w, record))

EnableAttestation(actor) ==
  /\ ~state.attested
  /\ Append(actor, [op |-> EnableOp, actor |-> Signature(EnableOp, actor)],
            [state EXCEPT !.attested = TRUE])

ConferenceEvent(op, id, record, actor) ==
  [op |-> op, id |-> id, record |-> record, actor |-> Signature(op, actor)]

OpenConference(c, project, linked, actor) ==
  LET record == [project |-> project, linked |-> linked, status |-> "open"] IN
  /\ NamesLiveWork(state, project, linked)
  /\ linked # {}
  /\ state.conferences[c] = None
  /\ RoomForRecord
  /\ Append(actor, ConferenceEvent("conference.created", c, record, actor),
            [state EXCEPT !.conferences[c] = record])

AppendPosition(p, c, actor) ==
  /\ c \in OpenConferences(state)
  /\ state.positions[p] = None
  /\ Append(actor, ConferenceEvent("conference.position.appended", p, c, actor),
            [state EXCEPT !.positions[p] = c])

(* independent is the declared form of execution, covered whether the floor  *)
(* the settings put on this type of conference asks for it.                  *)
CloseConference(c, m, independent, covered, actor) ==
  LET record == [state.conferences[c] EXCEPT !.status = "closed"] IN
  /\ c \in OpenConferences(state)
  /\ state.minutes[m] = None
  /\ covered => independent
  /\ Append(actor,
            [op |-> "conference.closed", id |-> c, record |-> record,
             minutes |-> m, actor |-> Signature("conference.closed", actor)],
            [state EXCEPT !.conferences[c] = record, !.minutes[m] = c])

CancelConference(c, actor) ==
  LET record == [state.conferences[c] EXCEPT !.status = "cancelled"] IN
  /\ c \in OpenConferences(state)
  /\ Append(actor, ConferenceEvent("conference.updated", c, record, actor),
            [state EXCEPT !.conferences[c] = record])

GateEvent(op, g, record, actor) ==
  [op |-> op, id |-> g, record |-> record, actor |-> Signature(op, actor)]

WithGate(g, record) == [state EXCEPT !.gates[g] = record]

CreateGate(g, project, work, ownerIntent, actor) ==
  LET record == [project |-> project, work |-> work, ownerIntent |-> ownerIntent,
                 status |-> "pending", tombstone |-> FALSE,
                 evidence |-> None, identity |-> None]
  IN
  /\ NamesLiveWork(state, project, {work} \ {None})
  /\ state.gates[g] = None
  /\ RoomForRecord
  /\ Append(actor, GateEvent("gate.created", g, record, actor), WithGate(g, record))

IsStanding(g) == g \in Known(state.gates) /\ ~state.gates[g].tombstone

(* A move between pending and blocked. *)
TransitionGate(g, target, actor) ==
  LET record == [state.gates[g] EXCEPT !.status = target] IN
  /\ IsStanding(g)
  /\ target # "satisfied"
  /\ <<state.gates[g].status, target>> \in GateTransitions
  /\ Append(actor, GateEvent("gate.updated", g, record, actor), WithGate(g, record))

(* roster: the command brought the identity authority, which a gate that     *)
(* takes the Owner's intent demands and which then judges the actor.         *)
IdentityPermits(gate, roster, actor) ==
  /\ gate.ownerIntent => roster
  /\ roster => actor \in Permitted

SatisfyGate(g, locator, roster, actor) ==
  LET current == state.gates[g]
      record == [current EXCEPT !.status = "satisfied", !.evidence = locator,
                   !.identity = IF roster THEN actor ELSE None]
  IN
  /\ IsStanding(g)
  /\ <<current.status, "satisfied">> \in GateTransitions
  /\ IdentityPermits(current, roster, actor)
  /\ EvidenceResolves(state, current, locator)
  /\ Append(actor, GateEvent("gate.updated", g, record, actor), WithGate(g, record))

DeleteGate(g, actor) ==
  LET record == [state.gates[g] EXCEPT !.tombstone = TRUE] IN
  /\ IsStanding(g)
  /\ Append(actor, GateEvent("gate.deleted", g, record, actor), WithGate(g, record))

-----------------------------------------------------------------------------
Init == state = EmptyState /\ built = EmptyState /\ readable = TRUE

ProjectStep(actor) ==
  \E p \in Projects :
    CreateProject(p, actor) \/ UpdateProject(p, actor) \/ DeleteProject(p, actor)

(* The values of an option, for work outside Advised only the one that says *)
(* that it is not given.                                                    *)
Given(w, options, none) == IF w \in Advised THEN options \cup {none} ELSE {none}

CreateStep(actor) ==
  \E w \in Works, project \in Projects, parent \in Works \cup {None},
     status \in CreateStatuses :
    \E scope \in Given(w, Scopes, None), decided \in Given(w, {TRUE}, FALSE),
       caption \in Given(w, Captions, None) :
      CreateWork(w, project, parent, status, scope, decided, caption, actor)

WorkStep(actor) ==
  \E w \in Works :
    \/ DeleteWork(w, actor)
    \/ \E target \in Statuses, evidence \in Given(w, {TRUE}, FALSE),
          caption \in Given(w, Captions, None) :
         TransitionWork(w, target, evidence, caption, actor)
    \/ \E scope \in Given(w, Scopes, None), decided \in Given(w, {TRUE}, FALSE),
          caption \in Given(w, Captions, None) :
         AnnotateWork(w, scope, decided, caption, actor)

ConferenceStep(actor) ==
  \E c \in Conferences :
    \/ \E project \in Projects, linked \in SUBSET Works :
         OpenConference(c, project, linked, actor)
    \/ \E p \in Positions : AppendPosition(p, c, actor)
    \/ \E m \in Minutes, independent \in BOOLEAN, covered \in BOOLEAN :
         CloseConference(c, m, independent, covered, actor)
    \/ CancelConference(c, actor)

GateStep(actor) ==
  \E g \in Gates :
    \/ \E project \in Projects, work \in Works \cup {None}, ownerIntent \in BOOLEAN :
         CreateGate(g, project, work, ownerIntent, actor)
    \/ \E target \in {"pending", "blocked"} : TransitionGate(g, target, actor)
    \/ \E locator \in Minutes, roster \in BOOLEAN : SatisfyGate(g, locator, roster, actor)
    \/ DeleteGate(g, actor)

Next ==
  \E actor \in Actors \cup {None} :
    \/ ProjectStep(actor)
    \/ CreateStep(actor)
    \/ WorkStep(actor)
    \/ ConferenceStep(actor)
    \/ GateStep(actor)
    \/ EnableAttestation(actor)

Spec == Init /\ [][Next]_vars

-----------------------------------------------------------------------------
(* A transition to done that brings telemetry evidence to work with a scope. *)
ScopedEvidence ==
  \E w \in LiveWork(state.work) :
    /\ state.work[w].ext.scope # None
    /\ built = WithWork(w, Transitioned(state.work[w], "done", TRUE, built.work[w].caption))

(* What a verb has admitted, the reducer accepts, and it makes of the events *)
(* the state that the verb has reported and projected into the views.  Only  *)
(* one legal call breaks that: see AlwaysReadable.                           *)
AdmittedReplays == IF readable THEN built = state ELSE ScopedEvidence

(* No event that a verb appends is one that replay refuses: this write path  *)
(* cannot outrun replay (workspace.ts:4167).                                 *)
AlwaysReadable == readable

(* Live work is in a live project and below live work, whatever the order of *)
(* creations and deletions.                                                  *)
LiveWorkIsHeld ==
  \A w \in LiveWork(state.work) :
    /\ state.projects[state.work[w].project] = "live"
    /\ state.work[w].parent # None => state.work[w].parent \in LiveWork(state.work)

(* A satisfied gate rests on minutes of a closed conference of its project   *)
(* that links its work, and one that takes the Owner's intent on an identity *)
(* check too, also after the work or the project has been deleted.           *)
Backed(s, gate) ==
  LET c == s.minutes[gate.evidence] IN
  /\ c # None
  /\ s.conferences[c].status = "closed"
  /\ gate.work # None =>
       /\ gate.work \in s.conferences[c].linked
       /\ s.conferences[c].project = gate.project
  /\ gate.ownerIntent => gate.identity \in Permitted

SatisfiedIsBacked ==
  \A g \in Known(state.gates) :
    state.gates[g].status = "satisfied" => Backed(state, state.gates[g])

(* A done Initiative has no live child that is still to be done, whether the *)
(* child or the end of the Initiative came first.                            *)
DoneInitiativeChildren ==
  \A w \in LiveWork(state.work) :
    LET p == state.work[w].parent IN
    p # None /\ state.work[p].kind = "Initiative" /\ state.work[p].status = "done"
      => state.work[w].status \in Terminal

(* What a finished record rests on is there: no Initiative was closed over   *)
(* live children, none was put under it afterwards (workspace.ts            *)
(* 4425-4536), and a satisfied gate has minutes that stand.                 *)
DoneIsBacked == DoneInitiativeChildren /\ SatisfiedIsBacked

(* The same of all that is below it, which the verbs do not keep: the README  *)
(* tells how it comes about.                                                 *)
DoneInitiativeIsFinished ==
  \A w \in LiveWork(state.work) :
    state.work[w].kind = "Initiative" /\ state.work[w].status = "done" =>
      \A x \in Below(state.work, w) : state.work[x].status \in Terminal

(* Why these hold: their inductive strengthening.  Minutes are of a closed   *)
(* conference, and what a conference or a gate names was there, in the same *)
(* project, and can be deleted but not moved.                               *)
TypeOK == state \in States /\ built \in States /\ readable \in BOOLEAN

InProject(work, w, project) == work[w] # None /\ work[w].project = project

NamesStand ==
  /\ \A m \in Known(state.minutes) :
       LET c == state.minutes[m] IN
       state.conferences[c] # None /\ state.conferences[c].status = "closed"
  /\ \A c \in Known(state.conferences) :
       \A w \in state.conferences[c].linked :
         InProject(state.work, w, state.conferences[c].project)
  /\ \A g \in Known(state.gates) :
       LET gate == state.gates[g] IN
       /\ gate.work # None => InProject(state.work, gate.work, gate.project)
       /\ gate.status = "satisfied" => gate.evidence # None

WorkInv == LiveWorkIsHeld /\ DoneInitiativeChildren /\ NamesStand /\ SatisfiedIsBacked

(* No verb takes work to done past a gate that is neither satisfied nor      *)
(* deleted, a blocked one included.                                          *)
GateHolds ==
  [][\A w \in Known(state.work), g \in Known(state.gates) :
       /\ state.work[w].status # "done"
       /\ state.gates[g].work = w
       /\ ~state.gates[g].tombstone
       /\ state.gates[g].status # "satisfied"
       => state'.work[w].status # "done"]_vars

(* What has ended stays as it is: attestation, deleted and finished work,    *)
(* completion evidence, conferences that are closed or cancelled, minutes,   *)
(* and gates that are satisfied or deleted.                                  *)
NoReturn ==
  [][/\ state.attested => state'.attested
     /\ \A w \in Known(state.work) :
          /\ state.work[w].tombstone => state'.work[w] = state.work[w]
          /\ state.work[w].status \in Terminal =>
               state'.work[w].status = state.work[w].status
          /\ state.work[w].ext.evidence => state'.work[w].ext.evidence
     /\ \A c \in Known(state.conferences) :
          state.conferences[c].status # "open" =>
            state'.conferences[c] = state.conferences[c]
     /\ \A m \in Known(state.minutes) : state'.minutes[m] = state.minutes[m]
     /\ \A g \in Known(state.gates) :
          state.gates[g].tombstone \/ state.gates[g].status = "satisfied" =>
            [state'.gates[g] EXCEPT !.tombstone = FALSE]
              = [state.gates[g] EXCEPT !.tombstone = FALSE]]_vars
=============================================================================
