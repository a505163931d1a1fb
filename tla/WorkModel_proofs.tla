--------------------------- MODULE WorkModel_proofs ---------------------------
(***************************************************************************)
(* Proofs about WorkModel for any number of projects, work, conferences    *)
(* and gates, and any hierarchy of kinds.                                  *)
(*                                                                         *)
(* Every verb appends at most one event, and what replay makes of it is    *)
(* the delta of the verb (Lands) or nothing.  So each step has one of a    *)
(* few shapes, with what the guards of the verb say of the record it puts: *)
(* lemma Shapes.  The invariants and the action properties follow from the *)
(* shapes; AdmittedReplays needs the reducer's conditions, one by one.     *)
(***************************************************************************)
EXTENDS WorkModel, TLAPS

-----------------------------------------------------------------------------
(* Records.                                                                *)

LEMMA CreatedType ==
    ASSUME WorkModelAssumption, NEW w \in Works, NEW project \in Projects,
           NEW parent \in Works \cup {None}, NEW status \in Statuses,
           NEW scope \in Scopes \cup {None}, NEW decided \in BOOLEAN,
           NEW caption \in Captions \cup {None}
    PROVE  Created(w, project, parent, status, scope, decided, caption) \in WorkRecords
BY DEF Created, WorkRecords, Extensions, WorkModelAssumption

LEMMA TransitionedType ==
    ASSUME NEW r \in WorkRecords, NEW target \in Statuses, NEW evidence \in BOOLEAN,
           NEW caption \in Captions \cup {None}
    PROVE  LET next == Transitioned(r, target, evidence, caption) IN
           /\ next \in WorkRecords
           /\ next.project = r.project /\ next.kind = r.kind /\ next.parent = r.parent
           /\ next.status = target
           /\ next.tombstone = r.tombstone
           /\ next.ext.scope = r.ext.scope
           /\ next.ext.evidence = (r.ext.evidence \/ evidence)
           /\ ~(evidence /\ ~r.ext.evidence) => next.ext = r.ext
BY DEF Transitioned, WorkRecords, Extensions

LEMMA AnnotatedType ==
    ASSUME NEW r \in WorkRecords, NEW scope \in Scopes \cup {None}, NEW decided \in BOOLEAN,
           NEW caption \in Captions \cup {None}
    PROVE  LET next == Annotated(r, scope, decided, caption) IN
           /\ next \in WorkRecords
           /\ next.project = r.project /\ next.kind = r.kind /\ next.parent = r.parent
           /\ next.status = r.status
           /\ next.tombstone = r.tombstone
           /\ next.ext.evidence = r.ext.evidence
BY DEF Annotated, WorkRecords, Extensions

LEMMA BuriedType ==
    ASSUME NEW r \in WorkRecords
    PROVE  LET next == [r EXCEPT !.tombstone = TRUE] IN
           /\ next \in WorkRecords
           /\ next.project = r.project /\ next.kind = r.kind /\ next.parent = r.parent
           /\ next.status = r.status
           /\ next.tombstone
           /\ next.ext = r.ext
BY DEF WorkRecords

(* The scope comes back where the event had a reference in its place. *)
LEMMA Dereferenced ==
    ASSUME NEW r \in WorkRecords
    PROVE  /\ [[r EXCEPT !.ext.scope = None] EXCEPT !.ext.scope = r.ext.scope] = r
           /\ [[r EXCEPT !.ext.scope = None].ext EXCEPT !.scope = r.ext.scope] = r.ext
           /\ [r EXCEPT !.ext.scope = r.ext.scope] = r
BY DEF WorkRecords, Extensions

(* Putting one record of a map leaves the other maps as they are. *)
LEMMA PutProject ==
    ASSUME NEW s \in States, NEW p \in Projects, NEW status \in {"absent", "live", "deleted"}
    PROVE  LET t == [s EXCEPT !.projects[p] = status] IN
           /\ t \in States
           /\ t.projects = [s.projects EXCEPT ![p] = status]
           /\ t.work = s.work /\ t.conferences = s.conferences /\ t.positions = s.positions
           /\ t.minutes = s.minutes /\ t.gates = s.gates /\ t.attested = s.attested
BY DEF States

LEMMA PutWork ==
    ASSUME NEW s \in States, NEW w \in Works, NEW r \in WorkRecords
    PROVE  LET t == [s EXCEPT !.work[w] = r] IN
           /\ t \in States
           /\ t.work = [s.work EXCEPT ![w] = r]
           /\ t.projects = s.projects /\ t.conferences = s.conferences /\ t.positions = s.positions
           /\ t.minutes = s.minutes /\ t.gates = s.gates /\ t.attested = s.attested
BY DEF States

LEMMA PutConference ==
    ASSUME NEW s \in States, NEW c \in Conferences, NEW r \in ConferenceRecords
    PROVE  LET t == [s EXCEPT !.conferences[c] = r] IN
           /\ t \in States
           /\ t.conferences = [s.conferences EXCEPT ![c] = r]
           /\ t.projects = s.projects /\ t.work = s.work /\ t.positions = s.positions
           /\ t.minutes = s.minutes /\ t.gates = s.gates /\ t.attested = s.attested
BY DEF States

LEMMA PutPosition ==
    ASSUME NEW s \in States, NEW p \in Positions, NEW c \in Conferences
    PROVE  LET t == [s EXCEPT !.positions[p] = c] IN
           /\ t \in States
           /\ t.positions = [s.positions EXCEPT ![p] = c]
           /\ t.projects = s.projects /\ t.work = s.work /\ t.conferences = s.conferences
           /\ t.minutes = s.minutes /\ t.gates = s.gates /\ t.attested = s.attested
BY DEF States

LEMMA PutMinutes ==
    ASSUME NEW s \in States, NEW c \in Conferences,
           NEW r \in ConferenceRecords, NEW m \in Minutes
    PROVE  LET t == [s EXCEPT !.conferences[c] = r, !.minutes[m] = c] IN
           /\ t \in States
           /\ t.conferences = [s.conferences EXCEPT ![c] = r]
           /\ t.minutes = [s.minutes EXCEPT ![m] = c]
           /\ t.projects = s.projects /\ t.work = s.work /\ t.positions = s.positions
           /\ t.gates = s.gates /\ t.attested = s.attested
BY DEF States

LEMMA PutGate ==
    ASSUME NEW s \in States, NEW g \in Gates, NEW r \in GateRecords
    PROVE  LET t == [s EXCEPT !.gates[g] = r] IN
           /\ t \in States
           /\ t.gates = [s.gates EXCEPT ![g] = r]
           /\ t.projects = s.projects /\ t.work = s.work /\ t.conferences = s.conferences
           /\ t.positions = s.positions /\ t.minutes = s.minutes /\ t.attested = s.attested
BY DEF States

LEMMA PutAttested ==
    ASSUME NEW s \in States
    PROVE  LET t == [s EXCEPT !.attested = TRUE] IN
           /\ t \in States
           /\ t.attested = TRUE
           /\ t.projects = s.projects /\ t.work = s.work /\ t.conferences = s.conferences
           /\ t.positions = s.positions /\ t.minutes = s.minutes /\ t.gates = s.gates
BY DEF States

-----------------------------------------------------------------------------
(* What a verb does to the workspace.                                      *)

Lands(delta) ==
  /\ readable
  /\ built' = delta
  /\ readable' \in BOOLEAN
  /\ readable' => state' = delta
  /\ ~readable' => state' = state

(* The reducer makes of the event of a verb what the verb has expected. *)
LEMMA AppendLands ==
    ASSUME NEW actor, NEW e, NEW delta,
           Append(actor, e, delta), Replayed(state, e) = delta
    PROVE  Lands(delta)
<1>1. Replays(state, e) \in BOOLEAN BY DEF Replays
<1>2. QED BY <1>1 DEF Append, Lands

LEMMA ProjectLands ==
    ASSUME TypeOK, NEW p \in Projects, NEW actor, NEW op \in ProjectOps,
           NEW status \in {"live", "deleted"}, status = "deleted" <=> op = "project.deleted",
           Append(actor, ProjectEvent(op, p, actor), [state EXCEPT !.projects[p] = status])
    PROVE  Lands([state EXCEPT !.projects[p] = status])
<1> DEFINE e == ProjectEvent(op, p, actor)
<1>1. e.op = op /\ e.id = p BY DEF ProjectEvent
<1> HIDE DEF e
<1>2. /\ e.op \in ProjectOps
      /\ e.op \notin WorkOps \cup GateOps
               \cup {EnableOp, "conference.position.appended", "conference.closed"}
  BY <1>1 DEF ProjectOps, WorkOps, GateOps, EnableOp
<1>3. status = IF e.op = "project.deleted" THEN "deleted" ELSE "live" BY <1>1
<1>4. Replayed(state, e) = [state EXCEPT !.projects[p] = status]
  BY <1>1, <1>2, <1>3 DEF Replayed
<1>5. QED BY <1>4, AppendLands DEF e

LEMMA WorkLands ==
    ASSUME TypeOK, NEW w \in Works, NEW r \in WorkRecords, NEW actor, NEW op \in WorkOps,
           NEW deduplicate \in BOOLEAN, deduplicate => r.ext.scope = state.work[w].ext.scope,
           Append(actor, WorkEvent(op, w, r, deduplicate, actor), WithWork(w, r))
    PROVE  Lands(WithWork(w, r))
<1> DEFINE e == WorkEvent(op, w, r, deduplicate, actor)
<1>1. e.op = op /\ e.id = w BY DEF WorkEvent
<1>2. ResolvedRecord(state, e) = r
  BY Dereferenced DEF WorkEvent, ResolvedRecord
<1> HIDE DEF e
<1>3. /\ e.op \in WorkOps
      /\ e.op \notin ProjectOps \cup GateOps
               \cup {EnableOp, "conference.position.appended", "conference.closed"}
  BY <1>1 DEF ProjectOps, WorkOps, GateOps, EnableOp
<1>4. Replayed(state, e) = WithWork(w, r)
  BY <1>1, <1>2, <1>3 DEF Replayed, WithWork
<1>5. QED BY <1>4, AppendLands DEF e

LEMMA GateLands ==
    ASSUME NEW g \in Gates, NEW r \in GateRecords, NEW actor, NEW op \in GateOps,
           Append(actor, GateEvent(op, g, r, actor), WithGate(g, r))
    PROVE  Lands(WithGate(g, r))
<1>1. Replayed(state, GateEvent(op, g, r, actor)) = WithGate(g, r)
  BY DEF Replayed, GateEvent, WithGate, GateOps, WorkOps, ProjectOps, EnableOp
<1>2. QED BY <1>1, AppendLands

LEMMA ConferenceLands ==
    ASSUME NEW c \in Conferences, NEW r \in ConferenceRecords, NEW actor,
           NEW op \in {"conference.created", "conference.updated"},
           Append(actor, ConferenceEvent(op, c, r, actor), [state EXCEPT !.conferences[c] = r])
    PROVE  Lands([state EXCEPT !.conferences[c] = r])
<1>1. Replayed(state, ConferenceEvent(op, c, r, actor)) = [state EXCEPT !.conferences[c] = r]
  BY DEF Replayed, ConferenceEvent, GateOps, WorkOps, ProjectOps, EnableOp
<1>2. QED BY <1>1, AppendLands

LEMMA PositionLands ==
    ASSUME NEW p \in Positions, NEW c \in Conferences, NEW actor,
           Append(actor, ConferenceEvent("conference.position.appended", p, c, actor),
                  [state EXCEPT !.positions[p] = c])
    PROVE  Lands([state EXCEPT !.positions[p] = c])
<1> DEFINE e == ConferenceEvent("conference.position.appended", p, c, actor)
<1>1. Replayed(state, e) = [state EXCEPT !.positions[p] = c]
  BY DEF Replayed, ConferenceEvent, GateOps, WorkOps, ProjectOps, EnableOp
<1>2. QED BY <1>1, AppendLands

LEMMA MinutesLand ==
    ASSUME NEW c \in Conferences, NEW r \in ConferenceRecords, NEW m \in Minutes, NEW actor,
           NEW e, e.op = "conference.closed", e.id = c, e.record = r, e.minutes = m,
           Append(actor, e, [state EXCEPT !.conferences[c] = r, !.minutes[m] = c])
    PROVE  Lands([state EXCEPT !.conferences[c] = r, !.minutes[m] = c])
<1>1. Replayed(state, e) = [state EXCEPT !.conferences[c] = r, !.minutes[m] = c]
  BY DEF Replayed, GateOps, WorkOps, ProjectOps, EnableOp
<1>2. QED BY <1>1, AppendLands

LEMMA AttestationLands ==
    ASSUME NEW actor, EnableAttestation(actor)
    PROVE  Lands([state EXCEPT !.attested = TRUE])
<1> DEFINE e == [op |-> EnableOp, actor |-> Signature(EnableOp, actor)]
<1>1. Replayed(state, e) = [state EXCEPT !.attested = TRUE]
  BY DEF Replayed, GateOps, WorkOps, ProjectOps, EnableOp
<1>2. QED BY <1>1, AppendLands DEF EnableAttestation

-----------------------------------------------------------------------------
(* The shapes a delta can have, each with what the guards of its verbs say  *)
(* of the record that is put.                                              *)

PutsProject(delta) ==
  \E p \in Projects :
    \/ /\ state.projects[p] = "absent"
       /\ delta = [state EXCEPT !.projects[p] = "live"]
    \/ /\ state.projects[p] = "live"
       /\ \A w \in LiveWork(state.work) : state.work[w].project # p
       /\ delta = [state EXCEPT !.projects[p] = "deleted"]

PutsNewWork(delta) ==
  \E w \in Works, r \in WorkRecords :
    /\ state.work[w] = None
    /\ ~r.tombstone
    /\ state.projects[r.project] = "live"
    /\ ParentTakes(state.work, r.parent, r.status)
    /\ ValidWorkGraph([state.work EXCEPT ![w] = r])
    /\ delta = WithWork(w, r)

Moves(w, r) ==
  /\ <<state.work[w].status, r.status>> \in Transitions
  /\ GateClearance(state.gates, w, r.status)
  /\ r.kind = "Initiative" /\ r.status = "done" =>
       \A x \in Below(state.work, w) : state.work[x].status \in Terminal

PutsWork(delta) ==
  \E w \in LiveWork(state.work), r \in WorkRecords :
    /\ r.project = state.work[w].project
    /\ r.kind = state.work[w].kind
    /\ r.parent = state.work[w].parent
    /\ r.status = state.work[w].status \/ Moves(w, r)
    /\ state.work[w].ext.evidence => r.ext.evidence
    /\ ValidWorkGraph([state.work EXCEPT ![w] = r])
    /\ delta = WithWork(w, r)

PutsConference(delta) ==
  \E c \in Conferences, r \in ConferenceRecords :
    /\ \/ /\ state.conferences[c] = None
          /\ r.status = "open"
          /\ \A w \in r.linked : InProject(state.work, w, r.project)
       \/ /\ c \in OpenConferences(state)
          /\ r = [state.conferences[c] EXCEPT !.status = "cancelled"]
    /\ delta = [state EXCEPT !.conferences[c] = r]

PutsPosition(delta) ==
  \E p \in Positions, c \in Conferences : delta = [state EXCEPT !.positions[p] = c]

PutsMinutes(delta) ==
  \E c \in OpenConferences(state), m \in Minutes, r \in ConferenceRecords :
    /\ state.minutes[m] = None
    /\ r = [state.conferences[c] EXCEPT !.status = "closed"]
    /\ delta = [state EXCEPT !.conferences[c] = r, !.minutes[m] = c]

(* A gate that moves, and to satisfied only upon minutes and identity. *)
GateMoves(gate, r) ==
  /\ <<gate.status, r.status>> \in GateTransitions
  /\ r.status = "satisfied" =>
       /\ EvidenceResolves(state, gate, r.evidence)
       /\ gate.ownerIntent => r.identity \in Permitted

PutsGate(delta) ==
  \E g \in Gates, r \in GateRecords :
    /\ \/ /\ state.gates[g] = None
          /\ r.status = "pending"
          /\ r.work # None => InProject(state.work, r.work, r.project)
       \/ /\ IsStanding(g)
          /\ r.project = state.gates[g].project
          /\ r.work = state.gates[g].work
          /\ r.ownerIntent = state.gates[g].ownerIntent
          /\ \/ r = [state.gates[g] EXCEPT !.tombstone = TRUE]
             \/ GateMoves(state.gates[g], r)
    /\ delta = WithGate(g, r)

Shape(delta) ==
  \/ delta = state \/ delta = [state EXCEPT !.attested = TRUE]
  \/ PutsProject(delta) \/ PutsNewWork(delta) \/ PutsWork(delta)
  \/ PutsConference(delta) \/ PutsPosition(delta) \/ PutsMinutes(delta)
  \/ PutsGate(delta)

LEMMA ProjectShapes ==
    ASSUME TypeOK, NEW actor, ProjectStep(actor)
    PROVE  \E delta : Lands(delta) /\ Shape(delta)
<1> SUFFICES ASSUME NEW p \in Projects,
                    CreateProject(p, actor) \/ UpdateProject(p, actor) \/ DeleteProject(p, actor)
             PROVE  \E delta : Lands(delta) /\ Shape(delta)
  BY DEF ProjectStep
<1>1. CASE CreateProject(p, actor)
  <2>1. Lands([state EXCEPT !.projects[p] = "live"])
    BY <1>1, ProjectLands DEF CreateProject, ProjectOps
  <2>2. QED BY <1>1, <2>1 DEF Shape, PutsProject, CreateProject
<1>2. CASE UpdateProject(p, actor)
  <2>1. [state EXCEPT !.projects[p] = "live"] = state
    BY <1>2 DEF UpdateProject, TypeOK, States
  <2>2. Lands(state) BY <1>2, <2>1, ProjectLands DEF UpdateProject, ProjectOps
  <2>3. QED BY <2>2 DEF Shape
<1>3. CASE DeleteProject(p, actor)
  <2>1. Lands([state EXCEPT !.projects[p] = "deleted"])
    BY <1>3, ProjectLands DEF DeleteProject, ProjectOps
  <2>2. QED BY <1>3, <2>1 DEF Shape, PutsProject, DeleteProject
<1>4. QED BY <1>1, <1>2, <1>3

LEMMA CreateShapes ==
    ASSUME TypeOK, NEW actor, CreateStep(actor)
    PROVE  \E delta : Lands(delta) /\ Shape(delta)
<1> USE WorkModelAssumption
<1>1. PICK w \in Works, project \in Projects, parent \in Works \cup {None},
           status \in CreateStatuses, scope \in Scopes \cup {None}, decided \in BOOLEAN,
           caption \in Captions \cup {None} :
             CreateWork(w, project, parent, status, scope, decided, caption, actor)
  BY DEF CreateStep, Given
<1> DEFINE r == Created(w, project, parent, status, scope, decided, caption)
<1>2. status \in Statuses BY DEF WorkModelAssumption
<1>3. r \in WorkRecords BY <1>2, CreatedType
<1>4. Lands(WithWork(w, r)) BY <1>1, <1>3, WorkLands DEF CreateWork, WorkOps
<1>5. /\ r.project = project /\ r.parent = parent /\ r.status = status
      /\ ~r.tombstone
  BY DEF Created
<1>6. PutsNewWork(WithWork(w, r)) BY <1>1, <1>3, <1>5 DEF PutsNewWork, CreateWork
<1>7. QED BY <1>4, <1>6 DEF Shape

LEMMA LiveRecord ==
    ASSUME TypeOK, NEW w \in LiveWork(state.work)
    PROVE  w \in Works /\ state.work[w] \in WorkRecords /\ ~state.work[w].tombstone
BY NoneAssumption DEF TypeOK, States, LiveWork, Known

LEMMA TransitionShapes ==
    ASSUME TypeOK, NEW actor, NEW w \in Works, NEW target \in Statuses,
           NEW evidence \in BOOLEAN, NEW caption \in Captions \cup {None},
           TransitionWork(w, target, evidence, caption, actor)
    PROVE  \E delta : Lands(delta) /\ Shape(delta)
<1> DEFINE r == Transitioned(state.work[w], target, evidence, caption)
<1>1. w \in LiveWork(state.work) BY DEF TransitionWork
<1>2. state.work[w] \in WorkRecords BY <1>1, LiveRecord
<1>3. /\ r \in WorkRecords
      /\ r.project = state.work[w].project
      /\ r.kind = state.work[w].kind /\ r.parent = state.work[w].parent
      /\ r.status = target
      /\ r.ext.scope = state.work[w].ext.scope
      /\ state.work[w].ext.evidence => r.ext.evidence
  BY <1>2, TransitionedType
<1>4. Append(actor, WorkEvent("work.updated", w, r, TRUE, actor), WithWork(w, r))
  BY DEF TransitionWork
<1>5. Lands(WithWork(w, r)) BY <1>3, <1>4, WorkLands DEF WorkOps
<1>6. Moves(w, r) BY <1>3 DEF TransitionWork, Moves
<1>7. ValidWorkGraph([state.work EXCEPT ![w] = r]) BY DEF TransitionWork
<1> HIDE DEF r
<1>8. PutsWork(WithWork(w, r)) BY <1>1, <1>3, <1>6, <1>7 DEF PutsWork
<1>9. QED BY <1>5, <1>8 DEF Shape

LEMMA AnnotationShapes ==
    ASSUME TypeOK, NEW actor, NEW w \in Works, NEW scope \in Scopes \cup {None},
           NEW decided \in BOOLEAN, NEW caption \in Captions \cup {None},
           AnnotateWork(w, scope, decided, caption, actor)
    PROVE  \E delta : Lands(delta) /\ Shape(delta)
<1> DEFINE r == Annotated(state.work[w], scope, decided, caption)
<1>1. w \in LiveWork(state.work) BY DEF AnnotateWork
<1>2. state.work[w] \in WorkRecords BY <1>1, LiveRecord
<1>3. /\ r \in WorkRecords
      /\ r.project = state.work[w].project
      /\ r.kind = state.work[w].kind /\ r.parent = state.work[w].parent
      /\ r.status = state.work[w].status
      /\ state.work[w].ext.evidence => r.ext.evidence
  BY <1>2, AnnotatedType
<1>4. /\ Append(actor, WorkEvent("work.annotated", w, r, FALSE, actor), WithWork(w, r))
      /\ ValidWorkGraph([state.work EXCEPT ![w] = r])
  BY DEF AnnotateWork
<1> HIDE DEF r
<1>5. Lands(WithWork(w, r)) BY <1>3, <1>4, WorkLands DEF WorkOps
<1>6. PutsWork(WithWork(w, r)) BY <1>1, <1>3, <1>4 DEF PutsWork
<1>7. QED BY <1>5, <1>6 DEF Shape

LEMMA DeletionShapes ==
    ASSUME TypeOK, NEW actor, NEW w \in Works, DeleteWork(w, actor)
    PROVE  \E delta : Lands(delta) /\ Shape(delta)
<1> DEFINE r == [state.work[w] EXCEPT !.tombstone = TRUE]
<1>1. w \in LiveWork(state.work) BY DEF DeleteWork
<1>2. state.work[w] \in WorkRecords BY <1>1, LiveRecord
<1>3. /\ r \in WorkRecords
      /\ r.project = state.work[w].project
      /\ r.kind = state.work[w].kind /\ r.parent = state.work[w].parent
      /\ r.status = state.work[w].status
      /\ r.ext = state.work[w].ext
  BY <1>2, BuriedType
<1>4. /\ Append(actor, WorkEvent("work.deleted", w, r, TRUE, actor), WithWork(w, r))
      /\ ValidWorkGraph([state.work EXCEPT ![w] = r])
  BY DEF DeleteWork
<1> HIDE DEF r
<1>5. Lands(WithWork(w, r)) BY <1>3, <1>4, WorkLands DEF WorkOps
<1>6. PutsWork(WithWork(w, r)) BY <1>1, <1>3, <1>4 DEF PutsWork
<1>7. QED BY <1>5, <1>6 DEF Shape

LEMMA WorkShapes ==
    ASSUME TypeOK, NEW actor, WorkStep(actor)
    PROVE  \E delta : Lands(delta) /\ Shape(delta)
<1>1. PICK w \in Works :
        \/ DeleteWork(w, actor)
        \/ \E target \in Statuses, evidence \in BOOLEAN, caption \in Captions \cup {None} :
             TransitionWork(w, target, evidence, caption, actor)
        \/ \E scope \in Scopes \cup {None}, decided \in BOOLEAN, caption \in Captions \cup {None} :
             AnnotateWork(w, scope, decided, caption, actor)
  BY DEF WorkStep, Given
<1>2. QED BY <1>1, TransitionShapes, AnnotationShapes, DeletionShapes

LEMMA OpenRecord ==
    ASSUME TypeOK, NEW c \in OpenConferences(state), NEW status \in {"closed", "cancelled"}
    PROVE  LET r == [state.conferences[c] EXCEPT !.status = status] IN
           /\ c \in Conferences
           /\ state.conferences[c] \in ConferenceRecords
           /\ r \in ConferenceRecords
           /\ r.status = status /\ r.project = state.conferences[c].project
           /\ r.linked = state.conferences[c].linked
BY NoneAssumption DEF TypeOK, States, OpenConferences, Known, ConferenceRecords

LEMMA ConferenceShapes ==
    ASSUME TypeOK, NEW actor, ConferenceStep(actor)
    PROVE  \E delta : Lands(delta) /\ Shape(delta)
<1>1. PICK c \in Conferences :
        \/ \E project \in Projects, linked \in SUBSET Works :
             OpenConference(c, project, linked, actor)
        \/ \E p \in Positions : AppendPosition(p, c, actor)
        \/ \E m \in Minutes, independent \in BOOLEAN, covered \in BOOLEAN :
             CloseConference(c, m, independent, covered, actor)
        \/ CancelConference(c, actor)
  BY DEF ConferenceStep
<1>2. ASSUME NEW project \in Projects, NEW linked \in SUBSET Works,
             OpenConference(c, project, linked, actor)
      PROVE  \E delta : Lands(delta) /\ Shape(delta)
  <2> DEFINE r == [project |-> project, linked |-> linked, status |-> "open"]
  <2>1. r \in ConferenceRecords BY DEF ConferenceRecords
  <2>2. Lands([state EXCEPT !.conferences[c] = r])
    BY <1>2, <2>1, ConferenceLands DEF OpenConference
  <2>3. \A w \in r.linked : InProject(state.work, w, r.project)
    BY <1>2 DEF OpenConference, NamesLiveWork, InProject, LiveWork, Known
  <2>4. PutsConference([state EXCEPT !.conferences[c] = r])
    BY <1>2, <2>1, <2>3 DEF OpenConference, PutsConference
  <2>5. QED BY <2>2, <2>4 DEF Shape
<1>3. ASSUME NEW p \in Positions, AppendPosition(p, c, actor)
      PROVE  \E delta : Lands(delta) /\ Shape(delta)
  <2>1. Lands([state EXCEPT !.positions[p] = c]) BY <1>3, PositionLands DEF AppendPosition
  <2>2. PutsPosition([state EXCEPT !.positions[p] = c]) BY DEF PutsPosition
  <2>3. QED BY <2>1, <2>2 DEF Shape
<1>4. ASSUME NEW m \in Minutes, NEW independent \in BOOLEAN, NEW covered \in BOOLEAN,
             CloseConference(c, m, independent, covered, actor)
      PROVE  \E delta : Lands(delta) /\ Shape(delta)
  <2> DEFINE r == [state.conferences[c] EXCEPT !.status = "closed"]
             e == [op |-> "conference.closed", id |-> c, record |-> r,
                   minutes |-> m, actor |-> Signature("conference.closed", actor)]
  <2>1. c \in OpenConferences(state) BY <1>4 DEF CloseConference
  <2>2. r \in ConferenceRecords BY <2>1, OpenRecord
  <2>3. Append(actor, e, [state EXCEPT !.conferences[c] = r, !.minutes[m] = c])
    BY <1>4 DEF CloseConference
  <2>4. e.op = "conference.closed" /\ e.id = c /\ e.record = r /\ e.minutes = m OBVIOUS
  <2> HIDE DEF e
  <2>5. Lands([state EXCEPT !.conferences[c] = r, !.minutes[m] = c])
    BY <2>2, <2>3, <2>4, MinutesLand
  <2>6. PutsMinutes([state EXCEPT !.conferences[c] = r, !.minutes[m] = c])
    BY <1>4, <2>1, <2>2 DEF CloseConference, PutsMinutes
  <2>7. QED BY <2>5, <2>6 DEF Shape
<1>5. ASSUME CancelConference(c, actor)
      PROVE  \E delta : Lands(delta) /\ Shape(delta)
  <2> DEFINE r == [state.conferences[c] EXCEPT !.status = "cancelled"]
  <2>1. c \in OpenConferences(state) BY <1>5 DEF CancelConference
  <2>2. r \in ConferenceRecords BY <2>1, OpenRecord
  <2>3. Lands([state EXCEPT !.conferences[c] = r])
    BY <1>5, <2>2, ConferenceLands DEF CancelConference
  <2>4. PutsConference([state EXCEPT !.conferences[c] = r])
    BY <2>1, <2>2 DEF PutsConference
  <2>5. QED BY <2>3, <2>4 DEF Shape
<1>6. QED BY <1>1, <1>2, <1>3, <1>4, <1>5

LEMMA StandingRecord ==
    ASSUME TypeOK, NEW g \in Gates, IsStanding(g)
    PROVE  state.gates[g] \in GateRecords /\ ~state.gates[g].tombstone
BY NoneAssumption DEF TypeOK, States, IsStanding, Known

LEMMA GateShapes ==
    ASSUME TypeOK, NEW actor \in Actors \cup {None}, GateStep(actor)
    PROVE  \E delta : Lands(delta) /\ Shape(delta)
<1>1. PICK g \in Gates :
        \/ \E project \in Projects, work \in Works \cup {None}, ownerIntent \in BOOLEAN :
             CreateGate(g, project, work, ownerIntent, actor)
        \/ \E target \in {"pending", "blocked"} : TransitionGate(g, target, actor)
        \/ \E locator \in Minutes, roster \in BOOLEAN : SatisfyGate(g, locator, roster, actor)
        \/ DeleteGate(g, actor)
  BY DEF GateStep
<1>2. ASSUME NEW project \in Projects, NEW work \in Works \cup {None}, NEW ownerIntent \in BOOLEAN,
             CreateGate(g, project, work, ownerIntent, actor)
      PROVE  \E delta : Lands(delta) /\ Shape(delta)
  <2> DEFINE r == [project |-> project, work |-> work, ownerIntent |-> ownerIntent,
                   status |-> "pending", tombstone |-> FALSE,
                   evidence |-> None, identity |-> None]
  <2>1. r \in GateRecords BY DEF GateRecords
  <2>2. Lands(WithGate(g, r)) BY <1>2, <2>1, GateLands DEF CreateGate, GateOps
  <2>3. r.work # None => InProject(state.work, r.work, r.project)
    BY <1>2 DEF CreateGate, NamesLiveWork, InProject, LiveWork, Known
  <2>4. PutsGate(WithGate(g, r)) BY <1>2, <2>1, <2>3 DEF CreateGate, PutsGate
  <2>5. QED BY <2>2, <2>4 DEF Shape
<1>3. ASSUME NEW target \in {"pending", "blocked"}, TransitionGate(g, target, actor)
      PROVE  \E delta : Lands(delta) /\ Shape(delta)
  <2> DEFINE r == [state.gates[g] EXCEPT !.status = target]
  <2>1. IsStanding(g) BY <1>3 DEF TransitionGate
  <2>2. state.gates[g] \in GateRecords BY <2>1, StandingRecord
  <2>3. /\ r \in GateRecords
        /\ r.project = state.gates[g].project /\ r.work = state.gates[g].work
        /\ r.ownerIntent = state.gates[g].ownerIntent
        /\ r.status = target
    BY <2>2 DEF GateRecords
  <2>4. Lands(WithGate(g, r)) BY <1>3, <2>3, GateLands DEF TransitionGate, GateOps
  <2>5. GateMoves(state.gates[g], r) BY <1>3, <2>3 DEF TransitionGate, GateMoves
  <2> HIDE DEF r
  <2>6. PutsGate(WithGate(g, r)) BY <2>1, <2>3, <2>5 DEF PutsGate
  <2>7. QED BY <2>4, <2>6 DEF Shape
<1>4. ASSUME NEW locator \in Minutes, NEW roster \in BOOLEAN,
             SatisfyGate(g, locator, roster, actor)
      PROVE  \E delta : Lands(delta) /\ Shape(delta)
  <2> DEFINE r == [state.gates[g] EXCEPT !.status = "satisfied", !.evidence = locator,
                     !.identity = IF roster THEN actor ELSE None]
  <2>1. IsStanding(g) BY <1>4 DEF SatisfyGate
  <2>2. state.gates[g] \in GateRecords BY <2>1, StandingRecord
  <2>3. roster => actor \in Permitted BY <1>4 DEF SatisfyGate, IdentityPermits
  <2>4. /\ r \in GateRecords
        /\ r.project = state.gates[g].project /\ r.work = state.gates[g].work
        /\ r.ownerIntent = state.gates[g].ownerIntent
        /\ r.status = "satisfied" /\ r.evidence = locator
        /\ r.identity = IF roster THEN actor ELSE None
    BY <2>2, <2>3 DEF GateRecords
  <2>5. Append(actor, GateEvent("gate.updated", g, r, actor), WithGate(g, r))
    BY <1>4 DEF SatisfyGate
  <2> HIDE DEF r
  <2>6. Lands(WithGate(g, r)) BY <2>4, <2>5, GateLands DEF GateOps
  <2>7. GateMoves(state.gates[g], r)
    BY <1>4, <2>3, <2>4 DEF SatisfyGate, GateMoves, IdentityPermits
  <2>8. PutsGate(WithGate(g, r)) BY <2>1, <2>4, <2>7 DEF PutsGate
  <2>9. QED BY <2>6, <2>8 DEF Shape
<1>5. ASSUME DeleteGate(g, actor)
      PROVE  \E delta : Lands(delta) /\ Shape(delta)
  <2> DEFINE r == [state.gates[g] EXCEPT !.tombstone = TRUE]
  <2>1. IsStanding(g) BY <1>5 DEF DeleteGate
  <2>2. state.gates[g] \in GateRecords BY <2>1, StandingRecord
  <2>3. /\ r \in GateRecords
        /\ r.project = state.gates[g].project /\ r.work = state.gates[g].work
        /\ r.ownerIntent = state.gates[g].ownerIntent
    BY <2>2 DEF GateRecords
  <2>4. Lands(WithGate(g, r)) BY <1>5, <2>3, GateLands DEF DeleteGate, GateOps
  <2>5. PutsGate(WithGate(g, r)) BY <2>1, <2>3 DEF PutsGate
  <2>6. QED BY <2>4, <2>5 DEF Shape
<1>6. QED BY <1>1, <1>2, <1>3, <1>4, <1>5

(* Every step appends at most one event, which lands in one of the shapes.  *)
LEMMA Shapes ==
    ASSUME TypeOK, Next
    PROVE  \E delta : Lands(delta) /\ Shape(delta)
<1>1. PICK actor \in Actors \cup {None} :
        \/ ProjectStep(actor) \/ CreateStep(actor) \/ WorkStep(actor)
        \/ ConferenceStep(actor) \/ GateStep(actor) \/ EnableAttestation(actor)
  BY DEF Next
<1>2. CASE EnableAttestation(actor) BY <1>2, AttestationLands DEF Shape
<1>3. QED BY <1>1, <1>2, ProjectShapes, CreateShapes, WorkShapes, ConferenceShapes, GateShapes

-----------------------------------------------------------------------------
(* Types.                                                                  *)

LEMMA ShapeType ==
    ASSUME TypeOK, NEW delta, Shape(delta)
    PROVE  delta \in States
<1> USE DEF TypeOK
<1>1. CASE delta = state BY <1>1
<1>2. CASE delta = [state EXCEPT !.attested = TRUE] BY <1>2 DEF States
<1>3. CASE PutsProject(delta) BY <1>3 DEF PutsProject, States
<1>4. CASE PutsNewWork(delta) BY <1>4, PutWork DEF PutsNewWork, WithWork
<1>5. CASE PutsWork(delta) BY <1>5, PutWork, LiveRecord DEF PutsWork, WithWork
<1>6. CASE PutsConference(delta) BY <1>6, PutConference DEF PutsConference
<1>7. CASE PutsPosition(delta) BY <1>7 DEF PutsPosition, States
<1>8. CASE PutsMinutes(delta)
  <2>1. PICK c \in OpenConferences(state), m \in Minutes, r \in ConferenceRecords :
          delta = [state EXCEPT !.conferences[c] = r, !.minutes[m] = c]
    BY <1>8 DEF PutsMinutes
  <2>2. c \in Conferences BY OpenRecord
  <2>3. QED BY <2>1, <2>2, PutMinutes
<1>9. CASE PutsGate(delta) BY <1>9, PutGate DEF PutsGate, WithGate
<1>10. QED BY <1>1, <1>2, <1>3, <1>4, <1>5, <1>6, <1>7, <1>8, <1>9 DEF Shape

LEMMA InitType == Init => TypeOK
BY DEF Init, TypeOK, EmptyState, States

LEMMA TypeStep == TypeOK /\ [Next]_vars => TypeOK'
<1> SUFFICES ASSUME TypeOK, Next PROVE TypeOK' BY DEF vars, TypeOK
<1>1. PICK delta : Lands(delta) /\ Shape(delta) BY Shapes
<1>2. delta \in States BY <1>1, ShapeType
<1>3. QED BY <1>1, <1>2 DEF Lands, TypeOK

(* The state replay rebuilds, and the one a verb reports, are states.       *)
THEOREM Typing == Spec => []TypeOK
BY InitType, TypeStep, PTL DEF Spec

-----------------------------------------------------------------------------
(* The invariant.                                                          *)

HoldsWork == LiveWorkIsHeld /\ DoneInitiativeChildren
HoldsNames == NamesStand /\ SatisfiedIsBacked

LEMMA WorkKept ==
    ASSUME HoldsWork, state'.work = state.work, state'.projects = state.projects
    PROVE  HoldsWork'
BY DEF HoldsWork, LiveWorkIsHeld, DoneInitiativeChildren, LiveWork, Known

LEMMA BackingKept ==
    ASSUME SatisfiedIsBacked, state'.gates = state.gates,
           \A g \in Known(state.gates) : state.gates[g].status = "satisfied" =>
             LET m == state.gates[g].evidence
                 c == state.minutes[m] IN
             state'.minutes[m] = c /\ state'.conferences[c] = state.conferences[c]
    PROVE  SatisfiedIsBacked'
<1>1. ASSUME NEW g \in Known(state.gates), state.gates[g].status = "satisfied"
      PROVE  Backed(state', state.gates[g])
  <2>1. Backed(state, state.gates[g]) BY <1>1 DEF SatisfiedIsBacked
  <2>2. QED BY <1>1, <2>1 DEF Backed
<1>2. QED BY <1>1 DEF SatisfiedIsBacked

LEMMA NamesKept ==
    ASSUME HoldsNames, state'.work = state.work, state'.conferences = state.conferences,
           state'.minutes = state.minutes, state'.gates = state.gates
    PROVE  HoldsNames'
<1>1. NamesStand' BY DEF HoldsNames, NamesStand, Known, InProject
<1>2. SatisfiedIsBacked' BY BackingKept DEF HoldsNames
<1>3. QED BY <1>1, <1>2 DEF HoldsNames

(* A project is deleted only when no live work is left in it. *)
LEMMA ProjectPutHolds ==
    ASSUME TypeOK, HoldsWork, HoldsNames, PutsProject(state')
    PROVE  HoldsWork' /\ HoldsNames'
<1>1. PICK p \in Projects, status \in {"live", "deleted"} :
        /\ state' = [state EXCEPT !.projects[p] = status]
        /\ status = "deleted" => \A w \in LiveWork(state.work) : state.work[w].project # p
  BY DEF PutsProject
<1>2. /\ state'.projects = [state.projects EXCEPT ![p] = status]
      /\ state'.work = state.work /\ state'.conferences = state.conferences
      /\ state'.minutes = state.minutes /\ state'.gates = state.gates
  BY <1>1 DEF TypeOK, States
<1>3. HoldsNames' BY <1>2, NamesKept
<1>4. DoneInitiativeChildren'
  BY <1>2 DEF HoldsWork, DoneInitiativeChildren, LiveWork, Known
<1>5. LiveWorkIsHeld'
  <2>1. state.projects \in [Projects -> {"absent", "live", "deleted"}] BY DEF TypeOK, States
  <2>2. \A w \in LiveWork(state.work) : state.work[w].project \in Projects
    BY LiveRecord DEF WorkRecords
  <2>3. QED BY <1>1, <1>2, <2>1, <2>2 DEF HoldsWork, LiveWorkIsHeld, LiveWork, Known
<1>6. QED BY <1>3, <1>4, <1>5 DEF HoldsWork

(* Putting a record of work: below itself it is not, and live work is below *)
(* live work, in the graph that the verb has judged.                       *)
LEMMA PutGraph ==
    ASSUME TypeOK, NEW w \in Works, NEW r \in WorkRecords,
           ValidWorkGraph([state.work EXCEPT ![w] = r])
    PROVE  LET work == [state.work EXCEPT ![w] = r] IN
           /\ r.parent # w
           /\ \A x \in LiveWork(work) :
                work[x].parent # None => work[x].parent \in LiveWork(work)
<1> DEFINE work == [state.work EXCEPT ![w] = r]
<1>1. /\ state.work \in [Works -> WorkRecords \cup {None}]
      /\ work \in [Works -> WorkRecords \cup {None}]
      /\ work[w] = r /\ r # None
  BY NoneAssumption DEF TypeOK, States
<1>2. \A x \in Known(work) : ParentFits(work, x) BY DEF ValidWorkGraph
<1>3. r.parent # w
  <2>1. {w} \in (SUBSET Known(work)) \ {{}} BY <1>1 DEF Known
  <2>2. \E x \in {w} : work[x].parent \notin {w} BY <2>1 DEF ValidWorkGraph
  <2>3. QED BY <2>2, <1>1
<1>4. ASSUME NEW x \in LiveWork(work), work[x].parent # None
      PROVE  work[x].parent \in LiveWork(work)
  <2>1. x \in Known(work) /\ work[x] \in WorkRecords /\ ~work[x].tombstone
    BY <1>1 DEF LiveWork, Known
  <2>2. work[x].parent \in Works BY <1>4, <2>1 DEF WorkRecords
  <2>3. work[work[x].parent] # None /\ ~work[work[x].parent].tombstone
    BY <1>2, <1>4, <2>1 DEF ParentFits
  <2>4. QED BY <1>1, <2>2, <2>3 DEF LiveWork, Known
<1>5. QED BY <1>3, <1>4

LEMMA NewWorkHolds ==
    ASSUME TypeOK, HoldsWork, HoldsNames, PutsNewWork(state')
    PROVE  HoldsWork' /\ HoldsNames'
<1>1. PICK w \in Works, r \in WorkRecords :
        /\ state.work[w] = None
        /\ ~r.tombstone
        /\ state.projects[r.project] = "live"
        /\ ParentTakes(state.work, r.parent, r.status)
        /\ ValidWorkGraph([state.work EXCEPT ![w] = r])
        /\ state' = WithWork(w, r)
  BY DEF PutsNewWork
<1>2. /\ state'.work = [state.work EXCEPT ![w] = r]
      /\ state'.projects = state.projects /\ state'.conferences = state.conferences
      /\ state'.minutes = state.minutes /\ state'.gates = state.gates
  BY <1>1, PutWork DEF TypeOK, WithWork
<1>3. /\ r.parent # w
      /\ \A x \in LiveWork(state'.work) :
           state'.work[x].parent # None => state'.work[x].parent \in LiveWork(state'.work)
  BY <1>1, <1>2, PutGraph
<1>4. state.work \in [Works -> WorkRecords \cup {None}] BY DEF TypeOK, States
<1>5. /\ state'.work[w] = r
      /\ \A x \in Works : x # w => state'.work[x] = state.work[x]
  BY <1>2, <1>4
<1>6. LiveWork(state'.work) = LiveWork(state.work) \cup {w}
  BY <1>1, <1>2, <1>4, NoneAssumption DEF LiveWork, Known
<1>7. LiveWorkIsHeld'
  BY <1>1, <1>2, <1>3, <1>4, <1>5, <1>6 DEF HoldsWork, LiveWorkIsHeld
<1>8. DoneInitiativeChildren'
  <2> SUFFICES ASSUME NEW x \in LiveWork(state'.work), NEW p, p = state'.work[x].parent,
                      p # None, state'.work[p].kind = "Initiative", state'.work[p].status = "done"
               PROVE  state'.work[x].status \in Terminal
    BY DEF DoneInitiativeChildren
  <2>1. p \in LiveWork(state'.work) BY <1>3
  <2>2. CASE x = w
    <3>1. p \in LiveWork(state.work) /\ state'.work[p] = state.work[p]
      BY <1>3, <1>5, <1>6, <2>1, <2>2, <1>4 DEF LiveWork, Known
    <3>2. QED BY <1>1, <1>5, <2>2, <3>1 DEF ParentTakes
  <2>3. CASE x # w
    <3>1. x \in LiveWork(state.work) /\ state'.work[x] = state.work[x]
      BY <1>4, <1>5, <1>6, <2>3 DEF LiveWork, Known
    <3>2. p \in LiveWork(state.work) BY <3>1 DEF HoldsWork, LiveWorkIsHeld
    <3>3. p # w /\ p \in Works BY <1>1, <1>4, <3>2 DEF LiveWork, Known
    <3>4. QED BY <1>5, <3>1, <3>3 DEF HoldsWork, DoneInitiativeChildren
  <2>4. QED BY <2>2, <2>3
<1>9. HoldsNames'
  <2>1. \A x, q : InProject(state.work, x, q) => x # w BY <1>1 DEF InProject
  <2>2. \A q : \A x \in Works : InProject(state.work, x, q) => InProject(state'.work, x, q)
    BY <1>5, <2>1 DEF InProject
  <2>3. /\ \A c \in Known(state.conferences) : state.conferences[c].linked \subseteq Works
        /\ \A g \in Known(state.gates) : state.gates[g].work \in Works \cup {None}
    BY DEF TypeOK, States, Known, ConferenceRecords, GateRecords
  <2>4. NamesStand' BY <1>2, <2>2, <2>3 DEF HoldsNames, NamesStand, Known
  <2>5. SatisfiedIsBacked' BY <1>2, BackingKept DEF HoldsNames
  <2>6. QED BY <2>4, <2>5 DEF HoldsNames
<1>10. QED BY <1>7, <1>8, <1>9 DEF HoldsWork

(* The children of work are below it. *)
LEMMA ChildrenAreBelow ==
    ASSUME NEW work, NEW w, NEW x \in LiveWork(work), work[x].parent = w
    PROVE  x \in Below(work, w)
BY DEF Below

LEMMA WorkPutHolds ==
    ASSUME TypeOK, HoldsWork, HoldsNames, PutsWork(state')
    PROVE  HoldsWork' /\ HoldsNames'
<1>1. PICK w \in LiveWork(state.work), r \in WorkRecords :
        /\ r.project = state.work[w].project
        /\ r.kind = state.work[w].kind
        /\ r.parent = state.work[w].parent
        /\ r.status = state.work[w].status \/ Moves(w, r)
        /\ ValidWorkGraph([state.work EXCEPT ![w] = r])
        /\ state' = WithWork(w, r)
  BY DEF PutsWork
<1>2. w \in Works BY LiveRecord
<1>3. /\ state'.work = [state.work EXCEPT ![w] = r]
      /\ state'.projects = state.projects /\ state'.conferences = state.conferences
      /\ state'.minutes = state.minutes /\ state'.gates = state.gates
  BY <1>1, <1>2, PutWork DEF TypeOK, WithWork
<1>4. /\ r.parent # w
      /\ \A x \in LiveWork(state'.work) :
           state'.work[x].parent # None => state'.work[x].parent \in LiveWork(state'.work)
  BY <1>1, <1>2, <1>3, PutGraph
<1>5. state.work \in [Works -> WorkRecords \cup {None}] BY DEF TypeOK, States
<1>6. /\ state'.work[w] = r
      /\ \A x \in Works : x # w => state'.work[x] = state.work[x]
  BY <1>2, <1>3, <1>5
<1>7. LiveWork(state'.work) \subseteq LiveWork(state.work)
  BY <1>2, <1>3, <1>5, <1>6 DEF LiveWork, Known
<1>8. LiveWorkIsHeld'
  <2>1. \A x \in LiveWork(state.work) : state'.work[x].project = state.work[x].project
    BY <1>1, <1>6, LiveRecord
  <2>2. QED BY <1>3, <1>4, <1>7, <2>1 DEF HoldsWork, LiveWorkIsHeld
<1>9. DoneInitiativeChildren'
  <2> SUFFICES ASSUME NEW x \in LiveWork(state'.work), NEW p, p = state'.work[x].parent,
                      p # None, state'.work[p].kind = "Initiative", state'.work[p].status = "done"
               PROVE  state'.work[x].status \in Terminal
    BY DEF DoneInitiativeChildren
  <2>1. p \in LiveWork(state'.work) BY <1>4
  <2>2. /\ x \in LiveWork(state.work) /\ x \in Works
        /\ p \in LiveWork(state.work) /\ p \in Works
    BY <1>7, <2>1, LiveRecord
  <2>3. state.work[x].parent = p BY <1>1, <1>6, <2>2
  <2>4. CASE x = w
    <3>1. p # w BY <1>4, <1>6, <2>4
    <3>2. state'.work[p] = state.work[p] BY <1>6, <2>2, <3>1
    <3>3. state.work[w].status \in Terminal
      BY <2>2, <2>3, <2>4, <3>2 DEF HoldsWork, DoneInitiativeChildren
    <3>4. ~Moves(w, r) BY <3>3 DEF Moves, Transitions, Terminal
    <3>5. QED BY <1>1, <1>6, <2>4, <3>3, <3>4
  <2>5. CASE x # w /\ p = w
    <3>1. state'.work[x] = state.work[x] BY <1>6, <2>2, <2>5
    <3>2. CASE r.status = state.work[w].status
      BY <1>1, <1>6, <2>2, <2>3, <2>5, <3>1, <3>2 DEF HoldsWork, DoneInitiativeChildren
    <3>3. CASE Moves(w, r)
      <4>1. x \in Below(state.work, w) BY <2>2, <2>3, <2>5, ChildrenAreBelow
      <4>2. r.kind = "Initiative" /\ r.status = "done" BY <1>6, <2>5
      <4>3. QED BY <3>1, <3>3, <4>1, <4>2 DEF Moves
    <3>4. QED BY <1>1, <3>2, <3>3
  <2>6. CASE x # w /\ p # w
    BY <1>6, <2>2, <2>3, <2>6 DEF HoldsWork, DoneInitiativeChildren
  <2>7. QED BY <2>4, <2>5, <2>6
<1>10. HoldsNames'
  <2>1. state.work[w] # None /\ r # None BY NoneAssumption, LiveRecord
  <2>2. \A q : \A x \in Works : InProject(state.work, x, q) => InProject(state'.work, x, q)
    BY <1>1, <1>2, <1>6, <2>1 DEF InProject
  <2>3. /\ \A c \in Known(state.conferences) : state.conferences[c].linked \subseteq Works
        /\ \A g \in Known(state.gates) : state.gates[g].work \in Works \cup {None}
    BY DEF TypeOK, States, Known, ConferenceRecords, GateRecords
  <2>4. NamesStand' BY <1>3, <2>2, <2>3 DEF HoldsNames, NamesStand, Known
  <2>5. SatisfiedIsBacked' BY <1>3, BackingKept DEF HoldsNames
  <2>6. QED BY <2>4, <2>5 DEF HoldsNames
<1>11. QED BY <1>8, <1>9, <1>10 DEF HoldsWork

LEMMA ConferencePutHolds ==
    ASSUME TypeOK, HoldsWork, HoldsNames, PutsConference(state')
    PROVE  HoldsWork' /\ HoldsNames'
<1>1. PICK c \in Conferences, r \in ConferenceRecords :
        /\ \/ /\ state.conferences[c] = None
              /\ \A w \in r.linked : InProject(state.work, w, r.project)
           \/ /\ c \in OpenConferences(state)
              /\ r = [state.conferences[c] EXCEPT !.status = "cancelled"]
        /\ state' = [state EXCEPT !.conferences[c] = r]
  BY DEF PutsConference
<1>2. /\ state'.conferences = [state.conferences EXCEPT ![c] = r]
      /\ state'.projects = state.projects /\ state'.work = state.work
      /\ state'.minutes = state.minutes /\ state'.gates = state.gates
  BY <1>1, PutConference DEF TypeOK
<1>3. state.conferences \in [Conferences -> ConferenceRecords \cup {None}]
  BY DEF TypeOK, States
<1>4. HoldsWork' BY <1>2, WorkKept
<1>5. state.conferences[c] = None \/ state.conferences[c].status # "closed"
  BY <1>1 DEF OpenConferences
<1>6. \A w \in r.linked : InProject(state.work, w, r.project)
  <2>1. ASSUME c \in OpenConferences(state),
               r = [state.conferences[c] EXCEPT !.status = "cancelled"]
        PROVE  r.linked = state.conferences[c].linked /\ r.project = state.conferences[c].project
    BY <2>1, OpenRecord
  <2>2. QED BY <1>1, <2>1 DEF HoldsNames, NamesStand, OpenConferences
<1>7. ASSUME NEW d, state.conferences[d] # None, state.conferences[d].status = "closed",
             d \in Conferences
      PROVE  state'.conferences[d] = state.conferences[d]
  BY <1>2, <1>3, <1>5, <1>7
<1>8. NamesStand'
  <2>1. \A m \in Known(state'.minutes) :
          LET d == state'.minutes[m] IN
          state'.conferences[d] # None /\ state'.conferences[d].status = "closed"
    <3> SUFFICES ASSUME NEW m \in Known(state.minutes)
                 PROVE  LET d == state.minutes[m] IN
                        state'.conferences[d] # None /\ state'.conferences[d].status = "closed"
      BY <1>2
    <3>1. state.minutes[m] \in Conferences BY DEF TypeOK, States, Known
    <3>2. QED BY <1>7, <3>1 DEF HoldsNames, NamesStand
  <2>2. \A d \in Known(state'.conferences) : \A w \in state'.conferences[d].linked :
          InProject(state'.work, w, state'.conferences[d].project)
    BY <1>2, <1>3, <1>6 DEF HoldsNames, NamesStand, Known
  <2>3. QED BY <1>2, <2>1, <2>2 DEF HoldsNames, NamesStand, Known
<1>9. SatisfiedIsBacked'
  <2>1. ASSUME NEW g \in Known(state.gates), state.gates[g].status = "satisfied"
        PROVE  LET m == state.gates[g].evidence
                   d == state.minutes[m] IN
               state'.minutes[m] = d /\ state'.conferences[d] = state.conferences[d]
    <3>1. state.gates[g].evidence \in Minutes
      BY <2>1 DEF HoldsNames, NamesStand, TypeOK, States, Known, GateRecords
    <3>2. /\ state.minutes[state.gates[g].evidence] # None
          /\ state.conferences[state.minutes[state.gates[g].evidence]].status = "closed"
      BY <2>1 DEF HoldsNames, SatisfiedIsBacked, Backed
    <3>3. /\ state.minutes[state.gates[g].evidence] \in Conferences
          /\ state.gates[g].evidence \in Known(state.minutes)
      BY <3>1, <3>2 DEF Known, TypeOK, States
    <3>4. state.conferences[state.minutes[state.gates[g].evidence]] # None
      BY <3>3 DEF HoldsNames, NamesStand
    <3>5. QED BY <1>2, <1>7, <3>2, <3>3, <3>4
  <2>2. QED BY <1>2, <2>1, BackingKept DEF HoldsNames
<1>10. QED BY <1>4, <1>8, <1>9 DEF HoldsNames

LEMMA MinutesPutHolds ==
    ASSUME TypeOK, HoldsWork, HoldsNames, PutsMinutes(state')
    PROVE  HoldsWork' /\ HoldsNames'
<1>1. PICK c \in OpenConferences(state), m \in Minutes, r \in ConferenceRecords :
        /\ state.minutes[m] = None
        /\ r = [state.conferences[c] EXCEPT !.status = "closed"]
        /\ state' = [state EXCEPT !.conferences[c] = r, !.minutes[m] = c]
  BY DEF PutsMinutes
<1>2. c \in Conferences /\ c # None BY OpenRecord, NoneAssumption
<1>3. /\ state'.conferences = [state.conferences EXCEPT ![c] = r]
      /\ state'.minutes = [state.minutes EXCEPT ![m] = c]
      /\ state'.projects = state.projects /\ state'.work = state.work
      /\ state'.gates = state.gates
  BY <1>1, <1>2 DEF TypeOK, States
<1>4. /\ state.conferences \in [Conferences -> ConferenceRecords \cup {None}]
      /\ state.minutes \in [Minutes -> Conferences \cup {None}]
  BY DEF TypeOK, States
<1>5. /\ r # None /\ r.status = "closed"
      /\ r.linked = state.conferences[c].linked /\ r.project = state.conferences[c].project
      /\ state.conferences[c] # None
  BY <1>1, OpenRecord, NoneAssumption DEF OpenConferences, Known
<1>6. HoldsWork' BY <1>3, WorkKept
<1>7. \A d \in Conferences : d # c => state'.conferences[d] = state.conferences[d]
  BY <1>3, <1>4
<1>8. NamesStand'
  <2>1. \A n \in Known(state'.minutes) :
          LET d == state'.minutes[n] IN
          state'.conferences[d] # None /\ state'.conferences[d].status = "closed"
    BY <1>2, <1>3, <1>4, <1>5, <1>7 DEF HoldsNames, NamesStand, Known
  <2>2. \A d \in Known(state'.conferences) : \A w \in state'.conferences[d].linked :
          InProject(state'.work, w, state'.conferences[d].project)
    BY <1>2, <1>3, <1>4, <1>5 DEF HoldsNames, NamesStand, Known
  <2>3. QED BY <1>3, <2>1, <2>2 DEF HoldsNames, NamesStand, Known
<1>9. SatisfiedIsBacked'
  <2>1. ASSUME NEW g \in Known(state.gates), state.gates[g].status = "satisfied"
        PROVE  LET n == state.gates[g].evidence
                   d == state.minutes[n] IN
               state'.minutes[n] = d /\ state'.conferences[d] = state.conferences[d]
    <3>1. state.gates[g].evidence \in Minutes
      BY <2>1 DEF HoldsNames, NamesStand, TypeOK, States, Known, GateRecords
    <3>2. /\ state.minutes[state.gates[g].evidence] # None
          /\ state.conferences[state.minutes[state.gates[g].evidence]].status = "closed"
      BY <2>1 DEF HoldsNames, SatisfiedIsBacked, Backed
    <3>3. /\ state.minutes[state.gates[g].evidence] \in Conferences \ {c}
          /\ state.gates[g].evidence # m
      BY <1>1, <1>4, <3>1, <3>2 DEF OpenConferences
    <3>4. QED BY <1>3, <1>4, <1>7, <3>1, <3>3
  <2>2. QED BY <1>3, <2>1, BackingKept DEF HoldsNames
<1>10. QED BY <1>6, <1>8, <1>9 DEF HoldsNames

(* The minutes that satisfy a gate are of a closed conference that links its *)
(* work: both lie in one project, for a record of work does not move.       *)
LEMMA GatePutHolds ==
    ASSUME TypeOK, HoldsWork, HoldsNames, PutsGate(state')
    PROVE  HoldsWork' /\ HoldsNames'
<1>1. PICK g \in Gates, r \in GateRecords :
        /\ \/ /\ state.gates[g] = None
              /\ r.status = "pending"
              /\ r.work # None => InProject(state.work, r.work, r.project)
           \/ /\ IsStanding(g)
              /\ r.project = state.gates[g].project
              /\ r.work = state.gates[g].work
              /\ r.ownerIntent = state.gates[g].ownerIntent
              /\ \/ r = [state.gates[g] EXCEPT !.tombstone = TRUE]
                 \/ GateMoves(state.gates[g], r)
        /\ state' = WithGate(g, r)
  BY DEF PutsGate
<1>2. /\ state'.gates = [state.gates EXCEPT ![g] = r]
      /\ state'.projects = state.projects /\ state'.work = state.work
      /\ state'.conferences = state.conferences /\ state'.minutes = state.minutes
  BY <1>1, PutGate DEF TypeOK, WithGate
<1>3. /\ state.gates \in [Gates -> GateRecords \cup {None}]
      /\ state.minutes \in [Minutes -> Conferences \cup {None}]
      /\ state.conferences \in [Conferences -> ConferenceRecords \cup {None}]
  BY DEF TypeOK, States
<1>4. /\ state'.gates[g] = r
      /\ \A h \in Gates : h # g => state'.gates[h] = state.gates[h]
  BY <1>2, <1>3
<1>5. HoldsWork' BY <1>2, WorkKept
<1>6. r.work # None => InProject(state.work, r.work, r.project)
  BY <1>1 DEF HoldsNames, NamesStand, IsStanding
<1>7. ASSUME r.status = "satisfied" PROVE r.evidence # None /\ Backed(state, r)
  <2> DEFINE gate == state.gates[g]
             c == state.minutes[r.evidence]
  <2>1. gate \in GateRecords /\ g \in Known(state.gates)
    BY <1>1, <1>7, StandingRecord DEF IsStanding
  <2>2. CASE r = [gate EXCEPT !.tombstone = TRUE]
    <3>1. /\ r.status = gate.status /\ r.evidence = gate.evidence
          /\ r.work = gate.work /\ r.project = gate.project
          /\ r.ownerIntent = gate.ownerIntent /\ r.identity = gate.identity
      BY <2>1, <2>2 DEF GateRecords
    <3>2. gate.evidence # None BY <1>7, <2>1, <3>1 DEF HoldsNames, NamesStand
    <3>3. Backed(state, gate) BY <1>7, <2>1, <3>1 DEF HoldsNames, SatisfiedIsBacked
    <3>4. QED BY <3>1, <3>2, <3>3 DEF Backed
  <2>3. CASE GateMoves(gate, r)
    <3>1. EvidenceResolves(state, gate, r.evidence) BY <1>7, <2>3 DEF GateMoves
    <3>2. r.evidence \in Minutes /\ r.evidence # None /\ c # None
      BY <3>1 DEF EvidenceResolves, GateRecords
    <3>3. /\ r.evidence \in Known(state.minutes)
          /\ c \in Conferences
      BY <1>3, <3>2 DEF Known
    <3>4. state.conferences[c] # None /\ state.conferences[c].status = "closed"
      BY <3>3 DEF HoldsNames, NamesStand
    <3>5. ASSUME r.work # None
          PROVE  /\ r.work \in state.conferences[c].linked
                 /\ state.conferences[c].project = r.project
      <4>1. r.work \in state.conferences[c].linked
        BY <1>1, <1>7, <3>1, <3>5 DEF EvidenceResolves, IsStanding
      <4>2. InProject(state.work, r.work, state.conferences[c].project)
        BY <1>3, <3>3, <3>4, <4>1 DEF HoldsNames, NamesStand, Known
      <4>3. QED BY <1>6, <3>5, <4>1, <4>2 DEF InProject
    <3>6. r.ownerIntent => r.identity \in Permitted
      BY <1>1, <1>7, <2>3 DEF GateMoves, IsStanding
    <3>7. QED BY <3>2, <3>4, <3>5, <3>6 DEF Backed
  <2>4. QED BY <1>1, <1>7, <2>2, <2>3 DEF IsStanding, Known
<1>8. NamesStand'
  <2>1. \A h \in Known(state'.gates) :
          LET gate == state'.gates[h] IN
          /\ gate.work # None => InProject(state'.work, gate.work, gate.project)
          /\ gate.status = "satisfied" => gate.evidence # None
    BY <1>2, <1>3, <1>4, <1>6, <1>7 DEF HoldsNames, NamesStand, Known
  <2>2. QED BY <1>2, <2>1 DEF HoldsNames, NamesStand, Known
<1>9. SatisfiedIsBacked'
  <2>1. ASSUME NEW h \in Known(state'.gates), state'.gates[h].status = "satisfied"
        PROVE  Backed(state, state'.gates[h])
    BY <1>2, <1>3, <1>4, <1>7, <2>1 DEF HoldsNames, SatisfiedIsBacked, Known
  <2>2. \A gate : Backed(state, gate) => Backed(state', gate) BY <1>2 DEF Backed
  <2>3. QED BY <2>1, <2>2 DEF SatisfiedIsBacked
<1>10. QED BY <1>5, <1>8, <1>9 DEF HoldsNames

LEMMA InitHolds == Init => WorkInv
BY DEF Init, WorkInv, EmptyState, LiveWorkIsHeld, DoneInitiativeChildren, NamesStand,
       SatisfiedIsBacked, LiveWork, Known

LEMMA StepHolds == TypeOK /\ WorkInv /\ [Next]_vars => WorkInv'
<1> SUFFICES ASSUME TypeOK, WorkInv, [Next]_vars PROVE WorkInv' OBVIOUS
<1>1. HoldsWork /\ HoldsNames BY DEF WorkInv, HoldsWork, HoldsNames
<1>2. CASE state' = state
  BY <1>1, <1>2, WorkKept, NamesKept DEF WorkInv, HoldsWork, HoldsNames
<1>3. CASE state' # state
  <2>1. PICK delta : Lands(delta) /\ Shape(delta) BY <1>3, Shapes DEF vars
  <2>2. Shape(state') BY <1>3, <2>1 DEF Lands
  <2>3. ASSUME state' = [state EXCEPT !.attested = TRUE] \/ PutsPosition(state')
        PROVE  HoldsWork' /\ HoldsNames'
    <3>1. /\ state'.projects = state.projects /\ state'.work = state.work
          /\ state'.conferences = state.conferences /\ state'.minutes = state.minutes
          /\ state'.gates = state.gates
      BY <2>3 DEF PutsPosition, TypeOK, States
    <3>2. QED BY <1>1, <3>1, WorkKept, NamesKept
  <2>4. HoldsWork' /\ HoldsNames'
    BY <1>1, <1>3, <2>2, <2>3, ProjectPutHolds, NewWorkHolds, WorkPutHolds, ConferencePutHolds,
       MinutesPutHolds, GatePutHolds DEF Shape
  <2>5. QED BY <2>4 DEF WorkInv, HoldsWork, HoldsNames
<1>4. QED BY <1>2, <1>3

(* The inductive invariant. *)
THEOREM WorkInvariant == Spec => []WorkInv
BY InitType, TypeStep, InitHolds, StepHolds, PTL DEF Spec

(* Live work is in a live project and below live work, whatever the order in *)
(* which the verbs of the reducer (workspace.ts 4425-4740) come.            *)
THEOREM LiveWorkIsAlwaysHeld == Spec => []LiveWorkIsHeld
<1>1. WorkInv => LiveWorkIsHeld BY DEF WorkInv
<1>2. QED BY <1>1, WorkInvariant, PTL

(* Nothing is finished over live children that are not, and no gate is      *)
(* satisfied without minutes of its own project that stand.                 *)
THEOREM WhatIsDoneIsBacked == Spec => []DoneIsBacked
<1>1. WorkInv => DoneIsBacked BY DEF WorkInv, DoneIsBacked
<1>2. QED BY <1>1, WorkInvariant, PTL

-----------------------------------------------------------------------------
(* What a step may never do.                                               *)

(* What becomes of the maps in one step, as far as the next two need it.   *)
LEMMA StepOfWork ==
    ASSUME TypeOK, [Next]_vars, NEW w \in Known(state.work)
    PROVE  \/ state'.work[w] = state.work[w]
           \/ /\ ~state.work[w].tombstone
              /\ \/ state'.work[w].status = state.work[w].status
                 \/ Moves(w, state'.work[w])
              /\ state.work[w].ext.evidence => state'.work[w].ext.evidence
<1> SUFFICES ASSUME state'.work # state.work PROVE
           \/ state'.work[w] = state.work[w]
           \/ /\ ~state.work[w].tombstone
              /\ \/ state'.work[w].status = state.work[w].status
                 \/ Moves(w, state'.work[w])
              /\ state.work[w].ext.evidence => state'.work[w].ext.evidence
  OBVIOUS
<1>1. PICK delta : Lands(delta) /\ Shape(delta) BY Shapes DEF vars
<1>2. state' = delta BY <1>1 DEF Lands
<1>3. state.work \in [Works -> WorkRecords \cup {None}] /\ w \in Works /\ state \in States
  BY DEF TypeOK, States, Known
<1>4. PutsNewWork(state') \/ PutsWork(state')
  <2>1. ASSUME state' = [state EXCEPT !.attested = TRUE] PROVE FALSE
    BY <1>3, <2>1 DEF States
  <2>2. ASSUME PutsProject(state') PROVE FALSE BY <1>3, <2>2 DEF States, PutsProject
  <2>3. ASSUME PutsConference(state') PROVE FALSE BY <1>3, <2>3 DEF States, PutsConference
  <2>4. ASSUME PutsPosition(state') PROVE FALSE BY <1>3, <2>4 DEF States, PutsPosition
  <2>5. ASSUME PutsMinutes(state') PROVE FALSE BY <1>3, <2>5 DEF States, PutsMinutes
  <2>6. ASSUME PutsGate(state') PROVE FALSE BY <1>3, <2>6 DEF States, PutsGate, WithGate
  <2>7. QED BY <1>1, <1>2, <2>1, <2>2, <2>3, <2>4, <2>5, <2>6 DEF Shape
<1>5. CASE PutsNewWork(state')
  <2>1. PICK x \in Works, r \in WorkRecords : state.work[x] = None /\ state' = WithWork(x, r)
    BY <1>5 DEF PutsNewWork
  <2>2. state'.work = [state.work EXCEPT ![x] = r] BY <1>3, <2>1, PutWork DEF WithWork
  <2>3. QED BY <1>3, <2>1, <2>2 DEF Known
<1>6. CASE PutsWork(state')
  <2>1. PICK x \in LiveWork(state.work), r \in WorkRecords :
          /\ r.status = state.work[x].status \/ Moves(x, r)
          /\ state.work[x].ext.evidence => r.ext.evidence
          /\ state' = WithWork(x, r)
    BY <1>6 DEF PutsWork
  <2>2. x \in Works /\ ~state.work[x].tombstone BY LiveRecord
  <2>3. state'.work = [state.work EXCEPT ![x] = r] BY <1>3, <2>1, <2>2, PutWork DEF WithWork
  <2>4. QED BY <1>3, <2>1, <2>2, <2>3
<1>7. QED BY <1>4, <1>5, <1>6

LEMMA StepOfConferences ==
    ASSUME TypeOK, [Next]_vars
    PROVE  /\ state.attested => state'.attested
           /\ \A c \in Known(state.conferences) :
                state.conferences[c].status # "open" =>
                  state'.conferences[c] = state.conferences[c]
           /\ \A m \in Known(state.minutes) : state'.minutes[m] = state.minutes[m]
<1> DEFINE Kept == /\ state.attested => state'.attested
                   /\ \A c \in Known(state.conferences) :
                        state.conferences[c].status # "open" =>
                          state'.conferences[c] = state.conferences[c]
                   /\ \A m \in Known(state.minutes) : state'.minutes[m] = state.minutes[m]
<1>1. state \in States BY DEF TypeOK
<1>2. CASE state' = state BY <1>2
<1>3. CASE state' # state
  <2>1. Shape(state')
    <3>1. PICK delta : Lands(delta) /\ Shape(delta) BY <1>3, Shapes DEF vars
    <3>2. QED BY <1>3, <3>1 DEF Lands
  <2>2. CASE PutsConference(state')
    <3>1. PICK c \in Conferences, r \in ConferenceRecords :
            /\ state.conferences[c] = None \/ state.conferences[c].status = "open"
            /\ state' = [state EXCEPT !.conferences[c] = r]
      BY <2>2 DEF PutsConference, OpenConferences
    <3>2. QED BY <1>1, <3>1 DEF States, Known
  <2>3. CASE PutsMinutes(state')
    <3>1. PICK c \in OpenConferences(state), m \in Minutes, r \in ConferenceRecords :
            /\ state.minutes[m] = None
            /\ state' = [state EXCEPT !.conferences[c] = r, !.minutes[m] = c]
      BY <2>3 DEF PutsMinutes
    <3>2. c \in Conferences /\ state.conferences[c].status = "open"
      BY OpenRecord DEF OpenConferences
    <3>3. QED BY <1>1, <3>1, <3>2 DEF States, Known
  <2>4. ASSUME PutsProject(state') PROVE Kept BY <1>1, <2>4 DEF States, PutsProject
  <2>5. ASSUME PutsNewWork(state') PROVE Kept BY <1>1, <2>5 DEF States, PutsNewWork, WithWork
  <2>6. ASSUME PutsWork(state') PROVE Kept BY <1>1, <2>6 DEF States, PutsWork, WithWork
  <2>7. ASSUME PutsPosition(state') PROVE Kept BY <1>1, <2>7 DEF States, PutsPosition
  <2>8. ASSUME PutsGate(state') PROVE Kept BY <1>1, <2>8 DEF States, PutsGate, WithGate
  <2>9. ASSUME state' = [state EXCEPT !.attested = TRUE] PROVE Kept BY <1>1, <2>9 DEF States
  <2>10. QED BY <1>3, <2>1, <2>2, <2>3, <2>4, <2>5, <2>6, <2>7, <2>8, <2>9 DEF Shape
<1>4. QED BY <1>2, <1>3

LEMMA StepOfGates ==
    ASSUME TypeOK, [Next]_vars, NEW g \in Known(state.gates),
           state.gates[g].tombstone \/ state.gates[g].status = "satisfied"
    PROVE  [state'.gates[g] EXCEPT !.tombstone = FALSE]
             = [state.gates[g] EXCEPT !.tombstone = FALSE]
<1>1. state \in States /\ g \in Gates BY DEF TypeOK, States, Known
<1>2. CASE state'.gates = state.gates BY <1>2
<1>3. CASE state'.gates # state.gates
  <2>1. Shape(state')
    <3>1. PICK delta : Lands(delta) /\ Shape(delta) BY <1>3, Shapes DEF vars
    <3>2. QED BY <1>3, <3>1 DEF Lands
  <2>2. PutsGate(state')
    <3>1. ASSUME PutsProject(state') PROVE FALSE BY <1>1, <1>3, <3>1 DEF States, PutsProject
    <3>2. ASSUME PutsNewWork(state') PROVE FALSE
      BY <1>1, <1>3, <3>2 DEF States, PutsNewWork, WithWork
    <3>3. ASSUME PutsWork(state') PROVE FALSE BY <1>1, <1>3, <3>3 DEF States, PutsWork, WithWork
    <3>4. ASSUME PutsPosition(state') PROVE FALSE BY <1>1, <1>3, <3>4 DEF States, PutsPosition
    <3>5. ASSUME PutsConference(state') PROVE FALSE
      BY <1>1, <1>3, <3>5 DEF States, PutsConference
    <3>6. ASSUME PutsMinutes(state') PROVE FALSE BY <1>1, <1>3, <3>6 DEF States, PutsMinutes
    <3>7. ASSUME state' = [state EXCEPT !.attested = TRUE] PROVE FALSE
      BY <1>1, <1>3, <3>7 DEF States
    <3>8. QED BY <1>3, <2>1, <3>1, <3>2, <3>3, <3>4, <3>5, <3>6, <3>7 DEF Shape
  <2>3. PICK h \in Gates, r \in GateRecords :
          /\ \/ state.gates[h] = None
             \/ /\ IsStanding(h)
                /\ \/ r = [state.gates[h] EXCEPT !.tombstone = TRUE]
                   \/ GateMoves(state.gates[h], r)
          /\ state' = WithGate(h, r)
    BY <2>2 DEF PutsGate
  <2>4. state'.gates = [state.gates EXCEPT ![h] = r] BY <1>1, <2>3, PutGate DEF WithGate
  <2>5. CASE h # g BY <1>1, <2>4, <2>5 DEF States
  <2>6. CASE h = g
    <3>1. state.gates[g] \in GateRecords /\ IsStanding(g) /\ state'.gates[g] = r
      BY <1>1, <2>3, <2>4, <2>6, StandingRecord DEF Known, States
    <3>2. ~GateMoves(state.gates[g], r)
      BY <3>1 DEF GateMoves, GateTransitions, IsStanding
    <3>3. r = [state.gates[g] EXCEPT !.tombstone = TRUE] BY <2>3, <2>6, <3>2 DEF Known
    <3>4. QED BY <3>1, <3>3 DEF GateRecords
  <2>7. QED BY <2>5, <2>6
<1>4. QED BY <1>2, <1>3

(* No verb takes work to done past a gate that stands on it.               *)
THEOREM GatesHold == Spec => GateHolds
<1>1. ASSUME TypeOK, [Next]_vars, NEW w \in Known(state.work), NEW g \in Known(state.gates),
             state.work[w].status # "done", state.gates[g].work = w, ~state.gates[g].tombstone,
             state.gates[g].status # "satisfied"
      PROVE  state'.work[w].status # "done"
  <2>1. ~(Moves(w, state'.work[w]) /\ state'.work[w].status = "done")
    BY <1>1 DEF Moves, GateClearance
  <2>2. QED BY <1>1, <2>1, StepOfWork
<1>2. TypeOK /\ [Next]_vars =>
        [\A w \in Known(state.work), g \in Known(state.gates) :
           /\ state.work[w].status # "done"
           /\ state.gates[g].work = w
           /\ ~state.gates[g].tombstone
           /\ state.gates[g].status # "satisfied"
           => state'.work[w].status # "done"]_vars
  BY <1>1
<1>3. QED BY <1>2, Typing, PTL DEF GateHolds, Spec

(* What has ended stays as it is: nothing that is finished, deleted or      *)
(* closed comes back, and completion evidence is not taken away.            *)
THEOREM NothingReturns == Spec => NoReturn
<1>1. ASSUME TypeOK, [Next]_vars, NEW w \in Known(state.work)
      PROVE  /\ state.work[w].tombstone => state'.work[w] = state.work[w]
             /\ state.work[w].status \in Terminal =>
                  state'.work[w].status = state.work[w].status
             /\ state.work[w].ext.evidence => state'.work[w].ext.evidence
  <2>1. state.work[w].status \in Terminal => ~Moves(w, state'.work[w])
    BY DEF Moves, Transitions, Terminal
  <2>2. QED BY <1>1, <2>1, StepOfWork
<1>2. TypeOK /\ [Next]_vars =>
        [/\ state.attested => state'.attested
         /\ \A w \in Known(state.work) :
              /\ state.work[w].tombstone => state'.work[w] = state.work[w]
              /\ state.work[w].status \in Terminal =>
                   state'.work[w].status = state.work[w].status
              /\ state.work[w].ext.evidence => state'.work[w].ext.evidence
         /\ \A c \in Known(state.conferences) :
              state.conferences[c].status # "open" =>
                state'.conferences[c] = state.conferences[c]
         /\ \A m \in Known(state.minutes) : state'.minutes[m] = state.minutes[m]
         /\ \A g \in Known(state.gates) :
              state.gates[g].tombstone \/ state.gates[g].status = "satisfied" =>
                [state'.gates[g] EXCEPT !.tombstone = FALSE]
                  = [state.gates[g] EXCEPT !.tombstone = FALSE]]_vars
  BY <1>1, StepOfConferences, StepOfGates
<1>3. QED BY <1>2, Typing, PTL DEF NoReturn, Spec

-----------------------------------------------------------------------------
(* What a verb has admitted, the reducer accepts.                          *)

LEMMA Accepted ==
    ASSUME NEW actor, NEW e, NEW delta, Append(actor, e, delta),
           e.actor = Signature(e.op, actor),
           e.op = EnableOp => ~state.attested,
           e.op \in ProjectOps => ProjectReplays(state, e),
           e.op \in WorkOps => WorkReplays(state, e),
           e.op \in GateOps => GateReplays(state, e),
           e.op \in {EnableOp} \cup ProjectOps \cup WorkOps \cup GateOps
             \/ ConferenceReplays(state, e)
    PROVE  readable'
<1>1. (e.actor # None) = (state.attested \/ e.op = EnableOp)
  BY DEF Append, Signature
<1> DEFINE Others == {EnableOp} \cup ProjectOps \cup WorkOps \cup GateOps
<1>2. CASE e.op = EnableOp
  <2>1. Replays(state, e)
    BY <1>1, <1>2 DEF Replays, EnableOp, ProjectOps, WorkOps, GateOps
  <2>2. QED BY <2>1 DEF Append
<1>3. CASE e.op \in ProjectOps
  <2>1. e.op \notin {EnableOp} \cup WorkOps \cup GateOps
    BY <1>3 DEF EnableOp, ProjectOps, WorkOps, GateOps
  <2>2. Replays(state, e) BY <1>1, <1>3, <2>1 DEF Replays
  <2>3. QED BY <2>2 DEF Append
<1>4. CASE e.op \in WorkOps
  <2>1. e.op \notin {EnableOp} \cup ProjectOps \cup GateOps
    BY <1>4 DEF EnableOp, ProjectOps, WorkOps, GateOps
  <2>2. Replays(state, e) BY <1>1, <1>4, <2>1 DEF Replays
  <2>3. QED BY <2>2 DEF Append
<1>5. CASE e.op \in GateOps
  <2>1. e.op \notin {EnableOp} \cup ProjectOps \cup WorkOps
    BY <1>5 DEF EnableOp, ProjectOps, WorkOps, GateOps
  <2>2. Replays(state, e) BY <1>1, <1>5, <2>1 DEF Replays
  <2>3. QED BY <2>2 DEF Append
<1>6. CASE e.op \notin Others
  <2>1. Replays(state, e) BY <1>1, <1>6 DEF Replays
  <2>2. QED BY <2>1 DEF Append
<1>7. QED BY <1>2, <1>3, <1>4, <1>5, <1>6

LEMMA ProjectAccepted ==
    ASSUME TypeOK, NEW actor, ProjectStep(actor)
    PROVE  readable'
<1>1. PICK p \in Projects :
        CreateProject(p, actor) \/ UpdateProject(p, actor) \/ DeleteProject(p, actor)
  BY DEF ProjectStep
<1>2. PICK op, delta :
        /\ op \in ProjectOps
        /\ Append(actor, ProjectEvent(op, p, actor), delta)
        /\ state.projects[p] = IF op = "project.created" THEN "absent" ELSE "live"
        /\ op = "project.deleted" =>
             \A w \in LiveWork(state.work) : state.work[w].project # p
  BY <1>1 DEF CreateProject, UpdateProject, DeleteProject, ProjectOps
<1> DEFINE e == ProjectEvent(op, p, actor)
<1>3. e.op = op /\ e.id = p /\ e.actor = Signature(op, actor) BY DEF ProjectEvent
<1> HIDE DEF e
<1>4. ProjectReplays(state, e) BY <1>2, <1>3 DEF ProjectReplays
<1>5. e.op \in ProjectOps
      /\ e.op \notin {EnableOp} \cup WorkOps \cup GateOps
  BY <1>2, <1>3 DEF EnableOp, ProjectOps, WorkOps, GateOps
<1>6. Append(actor, e, delta) BY <1>2 DEF e
<1>7. QED BY <1>3, <1>4, <1>5, <1>6, Accepted

(* The event carries the record whole or with a reference that resolves.    *)
LEMMA WorkAccepted ==
    ASSUME TypeOK, NEW w \in Works, NEW r \in WorkRecords, NEW actor, NEW op \in WorkOps,
           NEW deduplicate \in BOOLEAN, NEW delta,
           Append(actor, WorkEvent(op, w, r, deduplicate, actor), delta),
           deduplicate /\ r.ext.scope # None =>
             state.work[w] # None /\ r.ext = state.work[w].ext,
           IF op = "work.created"
           THEN state.work[w] = None /\ ~r.tombstone /\ ~r.ext.evidence
           ELSE /\ state.work[w] # None
                /\ ~state.work[w].tombstone
                /\ r.project = state.work[w].project
                /\ r.kind = state.work[w].kind
                /\ r.parent = state.work[w].parent
                /\ r.tombstone = (op = "work.deleted"),
           op = "work.updated" =>
             /\ <<state.work[w].status, r.status>> \in Transitions
             /\ GateClearance(state.gates, w, r.status)
             /\ TransitionEvidence(state.work[w], r),
           op = "work.annotated" =>
             /\ r.status = state.work[w].status
             /\ r.ext.evidence = state.work[w].ext.evidence
             /\ AnnotationChanges(state.work[w], r),
           state.projects[r.project] = "live",
           ValidWorkGraph([state.work EXCEPT ![w] = r])
    PROVE  readable'
<1> DEFINE e == WorkEvent(op, w, r, deduplicate, actor)
<1>1. /\ e.op = op /\ e.id = w /\ e.actor = Signature(op, actor)
      /\ e.digest = r.ext
      /\ e.byReference = (deduplicate /\ r.ext.scope # None)
      /\ e.byReference => e.record = [r EXCEPT !.ext.scope = None]
      /\ ~e.byReference => e.record = [r EXCEPT !.ext.scope = r.ext.scope]
  BY DEF WorkEvent
<1> HIDE DEF e
<1>2. ~e.byReference => e.record = r BY <1>1, Dereferenced
<1>3. e.byReference => state.work[w] # None /\ r.ext = state.work[w].ext BY <1>1
<1>4. ScopeResolves(state, e)
  <2>1. CASE e.byReference
    <3>1. [e.record.ext EXCEPT !.scope = state.work[e.id].ext.scope] = r.ext
      <4>1. e.record.ext = [r EXCEPT !.ext.scope = None].ext BY <1>1, <2>1
      <4>2. state.work[e.id].ext.scope = r.ext.scope BY <1>1, <1>3, <2>1
      <4>3. QED BY <4>1, <4>2, Dereferenced
    <3>2. QED BY <1>1, <1>3, <2>1, <3>1 DEF ScopeResolves
  <2>2. CASE ~e.byReference BY <1>1, <1>2, <2>2 DEF ScopeResolves
  <2>3. QED BY <2>1, <2>2
<1>5. ResolvedRecord(state, e) = r
  <2>1. CASE e.byReference BY <1>1, <1>3, <2>1, Dereferenced DEF ResolvedRecord
  <2>2. CASE ~e.byReference BY <1>2, <2>2 DEF ResolvedRecord
  <2>3. QED BY <2>1, <2>2
<1>6. WorkReplays(state, e) BY <1>1, <1>4, <1>5 DEF WorkReplays
<1>7. e.op \in WorkOps
      /\ e.op \notin {EnableOp} \cup ProjectOps \cup GateOps
  BY <1>1 DEF EnableOp, ProjectOps, WorkOps, GateOps
<1>8. QED BY <1>1, <1>6, <1>7, Accepted DEF e

LEMMA CreateAccepted ==
    ASSUME TypeOK, NEW actor, CreateStep(actor)
    PROVE  readable'
<1>1. PICK w \in Works, project \in Projects, parent \in Works \cup {None},
           status \in CreateStatuses, scope \in Scopes \cup {None}, decided \in BOOLEAN,
           caption \in Captions \cup {None} :
             CreateWork(w, project, parent, status, scope, decided, caption, actor)
  BY DEF CreateStep, Given
<1> DEFINE r == Created(w, project, parent, status, scope, decided, caption)
<1>2. status \in Statuses BY WorkModelAssumption DEF WorkModelAssumption
<1>3. r \in WorkRecords BY <1>2, WorkModelAssumption, CreatedType
<1>4. ~r.tombstone /\ ~r.ext.evidence /\ r.project = project BY DEF Created
<1>5. /\ state.work[w] = None
      /\ state.projects[project] = "live"
      /\ ValidWorkGraph([state.work EXCEPT ![w] = r])
      /\ Append(actor, WorkEvent("work.created", w, r, FALSE, actor), WithWork(w, r))
  BY <1>1 DEF CreateWork
<1> HIDE DEF r
<1>6. "work.created" \in WorkOps BY DEF WorkOps
<1>7. QED BY <1>3, <1>4, <1>5, <1>6, WorkAccepted

LEMMA AnnotationAccepted ==
    ASSUME TypeOK, LiveWorkIsHeld, NEW actor, NEW w \in Works,
           NEW scope \in Scopes \cup {None}, NEW decided \in BOOLEAN,
           NEW caption \in Captions \cup {None}, AnnotateWork(w, scope, decided, caption, actor)
    PROVE  readable'
<1> DEFINE r == Annotated(state.work[w], scope, decided, caption)
<1>1. w \in LiveWork(state.work) BY DEF AnnotateWork
<1>2. state.work[w] \in WorkRecords /\ ~state.work[w].tombstone /\ state.work[w] # None
  BY <1>1, LiveRecord DEF LiveWork, Known
<1>3. /\ r \in WorkRecords
      /\ r.project = state.work[w].project
      /\ r.kind = state.work[w].kind /\ r.parent = state.work[w].parent
      /\ r.status = state.work[w].status /\ r.tombstone = state.work[w].tombstone
      /\ r.ext.evidence = state.work[w].ext.evidence
  BY <1>2, AnnotatedType
<1>4. /\ Append(actor, WorkEvent("work.annotated", w, r, FALSE, actor), WithWork(w, r))
      /\ ValidWorkGraph([state.work EXCEPT ![w] = r])
      /\ AnnotationChanges(state.work[w], r)
  BY DEF AnnotateWork
<1> HIDE DEF r
<1>5. state.projects[r.project] = "live" BY <1>1, <1>3 DEF LiveWorkIsHeld
<1>6. r.tombstone = FALSE BY <1>2, <1>3 DEF WorkRecords
<1>7. "work.annotated" \in WorkOps BY DEF WorkOps
<1>8. QED BY <1>2, <1>3, <1>4, <1>5, <1>6, <1>7, WorkAccepted

LEMMA DeletionAccepted ==
    ASSUME TypeOK, LiveWorkIsHeld, NEW actor, NEW w \in Works, DeleteWork(w, actor)
    PROVE  readable'
<1> DEFINE r == [state.work[w] EXCEPT !.tombstone = TRUE]
<1>1. w \in LiveWork(state.work) BY DEF DeleteWork
<1>2. state.work[w] \in WorkRecords /\ ~state.work[w].tombstone /\ state.work[w] # None
  BY <1>1, LiveRecord DEF LiveWork, Known
<1>3. /\ r \in WorkRecords
      /\ r.project = state.work[w].project
      /\ r.kind = state.work[w].kind /\ r.parent = state.work[w].parent
      /\ r.tombstone = TRUE /\ r.ext = state.work[w].ext
  BY <1>2 DEF WorkRecords
<1>4. /\ Append(actor, WorkEvent("work.deleted", w, r, TRUE, actor), WithWork(w, r))
      /\ ValidWorkGraph([state.work EXCEPT ![w] = r])
  BY DEF DeleteWork
<1> HIDE DEF r
<1>5. state.projects[r.project] = "live" BY <1>1, <1>3 DEF LiveWorkIsHeld
<1>6. "work.deleted" \in WorkOps BY DEF WorkOps
<1>7. QED BY <1>2, <1>3, <1>4, <1>5, <1>6, WorkAccepted

(* A transition is refused only when it brings evidence to work that had    *)
(* none: the reference in its event then has the digest of other extensions.*)
LEMMA TransitionAccepted ==
    ASSUME TypeOK, LiveWorkIsHeld, NEW actor, NEW w \in Works, NEW target \in Statuses,
           NEW evidence \in BOOLEAN, NEW caption \in Captions \cup {None},
           TransitionWork(w, target, evidence, caption, actor)
    PROVE  readable' \/ ScopedEvidence'
<1> DEFINE r == Transitioned(state.work[w], target, evidence, caption)
<1>1. w \in LiveWork(state.work) BY DEF TransitionWork
<1>2. state.work[w] \in WorkRecords /\ ~state.work[w].tombstone /\ state.work[w] # None
  BY <1>1, LiveRecord DEF LiveWork, Known
<1>3. /\ r \in WorkRecords
      /\ r.project = state.work[w].project
      /\ r.kind = state.work[w].kind /\ r.parent = state.work[w].parent
      /\ r.status = target /\ r.tombstone = state.work[w].tombstone
      /\ r.ext.scope = state.work[w].ext.scope
      /\ ~(evidence /\ ~state.work[w].ext.evidence) => r.ext = state.work[w].ext
  BY <1>2, TransitionedType
<1>4. /\ Append(actor, WorkEvent("work.updated", w, r, TRUE, actor), WithWork(w, r))
      /\ ValidWorkGraph([state.work EXCEPT ![w] = r])
      /\ <<state.work[w].status, target>> \in Transitions
      /\ GateClearance(state.gates, w, target)
      /\ TransitionEvidence(state.work[w], r)
  BY DEF TransitionWork
<1>5. CASE r.ext.scope = None \/ r.ext = state.work[w].ext
  <2> HIDE DEF r
  <2>1. state.projects[r.project] = "live" BY <1>1, <1>3 DEF LiveWorkIsHeld
  <2>2. r.tombstone = FALSE BY <1>2, <1>3 DEF WorkRecords
  <2>3. "work.updated" \in WorkOps BY DEF WorkOps
  <2>4. readable' BY <1>2, <1>3, <1>4, <1>5, <2>1, <2>2, <2>3, WorkAccepted
  <2>5. QED BY <2>4
<1>6. CASE ~readable' /\ r.ext.scope # None /\ r.ext # state.work[w].ext
  <2>1. Lands(WithWork(w, r)) BY <1>3, <1>4, WorkLands DEF WorkOps
  <2>2. state' = state /\ built' = WithWork(w, r) BY <1>6, <2>1 DEF Lands
  <2>3. target = "done" BY <1>3, <1>6 DEF TransitionWork
  <2>4. evidence = TRUE BY <1>3, <1>6
  <2>5. r = Transitioned(state.work[w], "done", TRUE, r.caption)
    BY <1>2, <2>3, <2>4 DEF Transitioned, WorkRecords, Extensions
  <2> HIDE DEF r
  <2>6. state \in States /\ w \in Works BY DEF TypeOK
  <2>7. built'.work[w] = r BY <1>3, <2>2, <2>6 DEF WithWork, States
  <2>8. w \in LiveWork(state'.work) /\ state'.work[w].ext.scope # None
    BY <1>1, <1>3, <1>6, <2>2
  <2>9. built' = [state' EXCEPT !.work[w] =
                    Transitioned(state'.work[w], "done", TRUE, built'.work[w].caption)]
    BY <2>2, <2>5, <2>7 DEF WithWork
  <2>10. QED BY <2>8, <2>9 DEF ScopedEvidence, WithWork
<1>7. QED BY <1>5, <1>6

LEMMA ConferenceAccepted ==
    ASSUME TypeOK, NEW actor, ConferenceStep(actor)
    PROVE  readable'
<1>1. PICK c \in Conferences :
        \/ \E project \in Projects, linked \in SUBSET Works :
             OpenConference(c, project, linked, actor)
        \/ \E p \in Positions : AppendPosition(p, c, actor)
        \/ \E m \in Minutes, independent \in BOOLEAN, covered \in BOOLEAN :
             CloseConference(c, m, independent, covered, actor)
        \/ CancelConference(c, actor)
  BY DEF ConferenceStep
<1>2. ASSUME NEW e, NEW delta, Append(actor, e, delta), e.actor = Signature(e.op, actor),
             e.op \in {"conference.created", "conference.position.appended",
                       "conference.closed", "conference.updated"},
             ConferenceReplays(state, e)
      PROVE  readable'
  <2>1. e.op \notin {EnableOp} \cup ProjectOps \cup WorkOps \cup GateOps
    BY <1>2 DEF EnableOp, ProjectOps, WorkOps, GateOps
  <2>2. QED BY <1>2, <2>1, Accepted
<1>3. ASSUME NEW project \in Projects, NEW linked \in SUBSET Works,
             OpenConference(c, project, linked, actor)
      PROVE  readable'
  <2> DEFINE r == [project |-> project, linked |-> linked, status |-> "open"]
             e == ConferenceEvent("conference.created", c, r, actor)
  <2>1. /\ e.op = "conference.created" /\ e.id = c /\ e.record = r
        /\ e.actor = Signature(e.op, actor)
        /\ r.status = "open" /\ r.linked = linked /\ r.project = project
    BY DEF ConferenceEvent
  <2>2. Append(actor, e, [state EXCEPT !.conferences[c] = r]) BY <1>3 DEF OpenConference
  <2>3. state.conferences[c] = None /\ linked # {} /\ NamesLiveWork(state, project, linked)
    BY <1>3 DEF OpenConference
  <2> HIDE DEF e, r
  <2>4. ConferenceReplays(state, e) BY <2>1, <2>3 DEF ConferenceReplays
  <2>5. QED BY <1>2, <2>1, <2>2, <2>4
<1>4. ASSUME NEW p \in Positions, AppendPosition(p, c, actor) PROVE readable'
  <2> DEFINE e == ConferenceEvent("conference.position.appended", p, c, actor)
  <2>1. /\ e.op = "conference.position.appended" /\ e.id = p /\ e.record = c
        /\ e.actor = Signature(e.op, actor)
    BY DEF ConferenceEvent
  <2>2. Append(actor, e, [state EXCEPT !.positions[p] = c]) BY <1>4 DEF AppendPosition
  <2> HIDE DEF e
  <2>3. ConferenceReplays(state, e) BY <1>4, <2>1 DEF ConferenceReplays, AppendPosition
  <2>4. QED BY <1>2, <2>1, <2>2, <2>3
<1>5. ASSUME NEW m \in Minutes, NEW independent \in BOOLEAN, NEW covered \in BOOLEAN,
             CloseConference(c, m, independent, covered, actor)
      PROVE  readable'
  <2> DEFINE r == [state.conferences[c] EXCEPT !.status = "closed"]
             e == [op |-> "conference.closed", id |-> c, record |-> r,
                   minutes |-> m, actor |-> Signature("conference.closed", actor)]
  <2>1. /\ e.op = "conference.closed" /\ e.id = c /\ e.record = r /\ e.minutes = m
        /\ e.actor = Signature(e.op, actor)
    OBVIOUS
  <2>2. Append(actor, e, [state EXCEPT !.conferences[c] = r, !.minutes[m] = c])
    BY <1>5 DEF CloseConference
  <2> HIDE DEF e
  <2>3. ConferenceReplays(state, e) BY <1>5, <2>1 DEF ConferenceReplays, CloseConference
  <2>4. QED BY <1>2, <2>1, <2>2, <2>3
<1>6. ASSUME CancelConference(c, actor) PROVE readable'
  <2> DEFINE r == [state.conferences[c] EXCEPT !.status = "cancelled"]
             e == ConferenceEvent("conference.updated", c, r, actor)
  <2>1. /\ e.op = "conference.updated" /\ e.id = c /\ e.record = r
        /\ e.actor = Signature(e.op, actor)
    BY DEF ConferenceEvent
  <2>2. Append(actor, e, [state EXCEPT !.conferences[c] = r]) BY <1>6 DEF CancelConference
  <2> HIDE DEF e
  <2>3. ConferenceReplays(state, e) BY <1>6, <2>1 DEF ConferenceReplays, CancelConference
  <2>4. QED BY <1>2, <2>1, <2>2, <2>3
<1>7. QED BY <1>1, <1>3, <1>4, <1>5, <1>6

LEMMA GateAccepted ==
    ASSUME TypeOK, NEW actor, GateStep(actor)
    PROVE  readable'
<1>1. PICK g \in Gates :
        \/ \E project \in Projects, work \in Works \cup {None}, ownerIntent \in BOOLEAN :
             CreateGate(g, project, work, ownerIntent, actor)
        \/ \E target \in {"pending", "blocked"} : TransitionGate(g, target, actor)
        \/ \E locator \in Minutes, roster \in BOOLEAN : SatisfyGate(g, locator, roster, actor)
        \/ DeleteGate(g, actor)
  BY DEF GateStep
<1>2. ASSUME NEW op \in GateOps, NEW r, NEW delta, Append(actor, GateEvent(op, g, r, actor), delta),
             GateReplays(state, GateEvent(op, g, r, actor))
      PROVE  readable'
  <2> DEFINE e == GateEvent(op, g, r, actor)
  <2>1. e.op = op /\ e.actor = Signature(e.op, actor) BY DEF GateEvent
  <2>2. e.op \in GateOps /\ e.op \notin {EnableOp} \cup ProjectOps \cup WorkOps
    BY <2>1 DEF EnableOp, ProjectOps, WorkOps, GateOps
  <2> HIDE DEF e
  <2>3. Append(actor, e, delta) /\ GateReplays(state, e) BY <1>2 DEF e
  <2>4. QED BY <2>1, <2>2, <2>3, Accepted
<1>3. ASSUME NEW project \in Projects, NEW work \in Works \cup {None}, NEW ownerIntent \in BOOLEAN,
             CreateGate(g, project, work, ownerIntent, actor)
      PROVE  readable'
  <2> DEFINE r == [project |-> project, work |-> work, ownerIntent |-> ownerIntent,
                   status |-> "pending", tombstone |-> FALSE,
                   evidence |-> None, identity |-> None]
  <2>1. GateReplays(state, GateEvent("gate.created", g, r, actor))
    BY <1>3 DEF CreateGate, GateEvent, GateReplays
  <2>2. Append(actor, GateEvent("gate.created", g, r, actor), WithGate(g, r))
    BY <1>3 DEF CreateGate
  <2>3. QED BY <1>2, <2>1, <2>2 DEF GateOps
<1>4. ASSUME NEW target \in {"pending", "blocked"}, TransitionGate(g, target, actor)
      PROVE  readable'
  <2> DEFINE r == [state.gates[g] EXCEPT !.status = target]
  <2>1. state.gates[g] \in GateRecords /\ ~state.gates[g].tombstone /\ state.gates[g] # None
    BY <1>4, StandingRecord DEF TransitionGate, IsStanding, Known
  <2>2. GateReplays(state, GateEvent("gate.updated", g, r, actor))
    BY <1>4, <2>1 DEF TransitionGate, GateEvent, GateReplays, GateRecords
  <2>3. Append(actor, GateEvent("gate.updated", g, r, actor), WithGate(g, r))
    BY <1>4 DEF TransitionGate
  <2>4. QED BY <1>2, <2>2, <2>3 DEF GateOps
<1>5. ASSUME NEW locator \in Minutes, NEW roster \in BOOLEAN,
             SatisfyGate(g, locator, roster, actor)
      PROVE  readable'
  <2> DEFINE r == [state.gates[g] EXCEPT !.status = "satisfied", !.evidence = locator,
                     !.identity = IF roster THEN actor ELSE None]
  <2>1. state.gates[g] \in GateRecords /\ ~state.gates[g].tombstone /\ state.gates[g] # None
    BY <1>5, StandingRecord DEF SatisfyGate, IsStanding, Known
  <2>2. GateReplays(state, GateEvent("gate.updated", g, r, actor))
    BY <1>5, <2>1 DEF SatisfyGate, GateEvent, GateReplays, GateRecords, Signature
  <2>3. Append(actor, GateEvent("gate.updated", g, r, actor), WithGate(g, r))
    BY <1>5 DEF SatisfyGate
  <2>4. QED BY <1>2, <2>2, <2>3 DEF GateOps
<1>6. ASSUME DeleteGate(g, actor) PROVE readable'
  <2> DEFINE r == [state.gates[g] EXCEPT !.tombstone = TRUE]
  <2>1. state.gates[g] \in GateRecords /\ ~state.gates[g].tombstone /\ state.gates[g] # None
    BY <1>6, StandingRecord DEF DeleteGate, IsStanding, Known
  <2>2. GateReplays(state, GateEvent("gate.deleted", g, r, actor))
    BY <1>6, <2>1 DEF DeleteGate, GateEvent, GateReplays, GateRecords
  <2>3. Append(actor, GateEvent("gate.deleted", g, r, actor), WithGate(g, r))
    BY <1>6 DEF DeleteGate
  <2>4. QED BY <1>2, <2>2, <2>3 DEF GateOps
<1>7. QED BY <1>1, <1>3, <1>4, <1>5, <1>6

LEMMA AttestationAccepted ==
    ASSUME NEW actor, EnableAttestation(actor)
    PROVE  readable'
<1> DEFINE e == [op |-> EnableOp, actor |-> Signature(EnableOp, actor)]
<1>1. e.op = EnableOp /\ e.actor = Signature(e.op, actor) OBVIOUS
<1>2. Append(actor, e, [state EXCEPT !.attested = TRUE]) /\ ~state.attested
  BY DEF EnableAttestation
<1>3. EnableOp \notin ProjectOps \cup WorkOps \cup GateOps
  BY DEF EnableOp, ProjectOps, WorkOps, GateOps
<1> HIDE DEF e
<1>4. QED BY <1>1, <1>2, <1>3, Accepted

(* An event that a verb has judged is one that replay accepts, and the state *)
(* that replay makes of it is the one the verb has reported, but for         *)
(* evidence brought to work with a scope.                                   *)
THEOREM WhatIsAdmittedReplays == Spec => []AdmittedReplays
<1>1. Init => AdmittedReplays BY DEF Init, AdmittedReplays
<1>2. TypeOK /\ WorkInv /\ AdmittedReplays /\ [Next]_vars => AdmittedReplays'
  <2> SUFFICES ASSUME TypeOK, WorkInv, AdmittedReplays, [Next]_vars PROVE AdmittedReplays'
    OBVIOUS
  <2>1. CASE UNCHANGED vars
    BY <2>1 DEF vars, AdmittedReplays, ScopedEvidence, LiveWork, Known, WithWork, Transitioned
  <2>2. CASE Next
    <3>1. PICK delta : Lands(delta) BY <2>2, Shapes
    <3>2. readable' => built' = state' BY <3>1 DEF Lands
    <3>3. PICK actor \in Actors \cup {None} :
            \/ ProjectStep(actor) \/ CreateStep(actor) \/ WorkStep(actor)
            \/ ConferenceStep(actor) \/ GateStep(actor) \/ EnableAttestation(actor)
      BY <2>2 DEF Next
    <3>4. ASSUME WorkStep(actor) PROVE readable' \/ ScopedEvidence'
      <4>1. PICK w \in Works :
              \/ DeleteWork(w, actor)
              \/ \E target \in Statuses, evidence \in BOOLEAN, caption \in Captions \cup {None} :
                   TransitionWork(w, target, evidence, caption, actor)
              \/ \E scope \in Scopes \cup {None}, decided \in BOOLEAN,
                    caption \in Captions \cup {None} :
                   AnnotateWork(w, scope, decided, caption, actor)
        BY <3>4 DEF WorkStep, Given
      <4>2. LiveWorkIsHeld BY DEF WorkInv
      <4>3. QED BY <4>1, <4>2, DeletionAccepted, AnnotationAccepted, TransitionAccepted
    <3>5. readable' \/ ScopedEvidence'
      BY <3>3, <3>4, ProjectAccepted, CreateAccepted, ConferenceAccepted, GateAccepted,
         AttestationAccepted
    <3>6. QED BY <3>2, <3>5 DEF AdmittedReplays
  <2>3. QED BY <2>1, <2>2
<1>3. QED BY <1>1, <1>2, Typing, WorkInvariant, PTL DEF Spec
===============================================================================
