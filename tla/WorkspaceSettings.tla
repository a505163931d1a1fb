--------------------------- MODULE WorkspaceSettings ---------------------------
(***************************************************************************)
(* The settings, the admitted templates and the relocation ledger of a       *)
(* workspace (settings.ts, template-admission.ts and workspace.ts of          *)
(* packages/core/src), as the chain records them and as readers of three     *)
(* kinds make them out: from genesis, from a replay snapshot, and with a       *)
(* later engine.                                                           *)
(*                                                                         *)
(* Four settings stand for the catalog: a path that may not lie inside the   *)
(* workspace (backup.destination), a bounded integer (storage.segmentBytes), *)
(* the version an engine must have (engine.requiredVersion), and a key that  *)
(* a later engine retired (fitness.windowDays).  Addresses stand for the      *)
(* directories a workspace lies in, and a path is the address it is inside.  *)
(*                                                                         *)
(* The verbs that vacate, adopt and abort a relocation are not part of the   *)
(* repository; what they may do is what relocationStateAt admits, and the    *)
(* replay snapshot, which is bound to the metadata, is taken to go with the  *)
(* metadata they replace.                                                  *)
(***************************************************************************)
EXTENDS Naturals, Sequences, FiniteSets

CONSTANTS
    Address,       \* where the workspace can lie; the first is 1
    Destination,   \* the values that are tried for backup.destination; 0 is outside
                   \* every address
    Template,      \* the documents that are offered as templates
    Engine,        \* the versions of the engine; from Retiring on a key is retired
    Retiring,
    MaxEvents,     \* bound on the events of the chain
    MaxEntries     \* bound on the entries of the ledger

VARIABLES
    chain,         \* the events
    snapshot,      \* a replay snapshot: [at, state], or NoSnapshot
    engine,        \* the engine that reads and writes now
    ledger,        \* the relocation ledger of the metadata
    address        \* where the tree lies

settingsVars == <<chain, snapshot, engine, ledger, address>>

Origin == 1        \* metadata.roots
NoSnapshot == [at |-> 0, state |-> 0]

-----------------------------------------------------------------------------
(* The catalog, and what it asks of a value. *)

Key == {"destination", "segmentBytes", "required", "windowDays"}
SegmentBytes == 0..3
Retired(e) == IF e >= Retiring THEN {"windowDays"} ELSE {}
Catalog(e) == Key \ Retired(e)

Values(k) ==
    CASE k = "destination"  -> Destination
      [] k = "segmentBytes" -> {0, 1, 2, 3}
      [] k = "required"     -> Engine
      [] k = "windowDays"   -> {1}

(* validateSettingValue, for the workspace at `root`. *)
ValueAdmitted(k, v, root) ==
    /\ k = "destination"  => v # root
    /\ k = "segmentBytes" => v \in 1..2

(* Mutant: the removal of a retired key needs the key. *)
RemoveKnown(state, e, key) ==
    [ok |-> key \in DOMAIN state.settings,
     state |-> [state EXCEPT !.settings = [k \in DOMAIN @ \ {key} |-> @[k]]]]

RemoveSetting(state, e, key) ==
    [ok |-> key \in Retired(e) \cup DOMAIN state.settings,
     state |-> IF key \in Retired(e) THEN state
               ELSE [state EXCEPT !.settings = [k \in DOMAIN @ \ {key} |-> @[k]]]]

Revision(state, key) ==
    IF key \in DOMAIN state.settings THEN state.settings[key].revision ELSE 0

UpdateSetting(state, e, key, value, revision) ==
    [ok |-> key \in Retired(e)
            \/ ( /\ ValueAdmitted(key, value, Origin)
                 /\ revision = Revision(state, key) + 1),
     state |-> IF key \in Retired(e) THEN state
               ELSE [state EXCEPT !.settings =
                        [k \in DOMAIN @ \cup {key} |->
                            IF k = key THEN [value |-> value, revision |-> revision] ELSE @[k]]]]

-----------------------------------------------------------------------------
(* Templates: a document is admitted once under its id and version.          *)

(* validateTemplateDefinition. *)
Heading == {"Goal", "Acceptance", "References"}
Kinds == {"Story", "Incident"}
DefinitionValid(t) ==
    /\ t.appliesTo \subseteq Kinds /\ t.appliesTo # {}
    /\ t.headings # {}
    /\ t.acceptance \cup t.references \subseteq t.headings
    /\ t.couplings \subseteq {"owner-decider-minutes"}

(* admitTemplate and createTemplateAdmissionRecord: the receipt carries the  *)
(* digest of the document, which is the document.                          *)
Registration(t) == <<t.id, t.version>>
AdmissionRecord(t) == [registration |-> Registration(t), template |-> t, digest |-> t]

(* validateTemplateAdmissionRecord. *)
RecordValid(r) ==
    /\ DefinitionValid(r.template)
    /\ r.registration = Registration(r.template)
    /\ r.digest = r.template

AdmitTemplateRecord(state, r) ==
    [ok |-> RecordValid(r) /\ \A s \in state.templates : s.registration # r.registration,
     state |-> [state EXCEPT !.templates = @ \cup {r}]]

(* A work item bound to a template names it and its digest, and takes the   *)
(* kind it applies to (validateBoundTemplateWork).                         *)
BoundValid(state, b) ==
    \E r \in state.templates :
        /\ r.registration = b.registration
        /\ b.kind \in r.template.appliesTo

BindWork(state, b) ==
    [ok |-> BoundValid(state, b), state |-> [state EXCEPT !.bound = @ \cup {b}]]

-----------------------------------------------------------------------------
(* materialize. *)

Nothing == [settings |-> [k \in {} |-> 0], templates |-> {}, bound |-> {}]

Arm(state, e, event) ==
    CASE event.op = "settings.updated"  -> UpdateSetting(state, e, event.key, event.value, event.revision)
      [] event.op = "settings.removed"  -> RemoveSetting(state, e, event.key)
      [] event.op = "template.admitted" -> AdmitTemplateRecord(state, event.record)
      [] event.op = "work.created"      -> BindWork(state, event.binding)

(* The events from the one after `from` on, as engine e reads them. *)
Replay(e, seed, from) ==
    LET fold[i \in from..Len(chain)] ==
            IF i = from THEN [ok |-> TRUE, state |-> seed]
            ELSE IF fold[i - 1].ok THEN Arm(fold[i - 1].state, e, chain[i])
            ELSE fold[i - 1]
    IN  fold[Len(chain)]

(* Retired keys are dropped from the settings of a snapshot. *)
Seed(e, stored) ==
    [stored EXCEPT !.settings = [k \in DOMAIN @ \ Retired(e) |-> @[k]]]

FromGenesis(e) == Replay(e, Nothing, 0)
FromSnapshot(e) ==
    IF snapshot.at = 0 THEN FromGenesis(e)
    ELSE Replay(e, Seed(e, snapshot.state), snapshot.at)

(* An engine older than the chain demands reads nothing of it. *)
Locked(e, state) ==
    "required" \in DOMAIN state.settings /\ e < state.settings["required"].value

Readable(e) == FromSnapshot(e).ok /\ ~Locked(e, FromSnapshot(e).state)

-----------------------------------------------------------------------------
(* The relocation ledger.  An entry restates its hop: where the workspace   *)
(* lay, where it goes, and the stage it is at.                             *)

RECURSIVE BindingOf(_)
BindingOf(entries) ==
    IF entries = <<>> THEN Origin
    ELSE LET entry == entries[Len(entries)]
         IN  IF entry.stage = "adopted" THEN entry.to
             ELSE BindingOf(SubSeq(entries, 1, Len(entries) - 1))

(* What validateRelocationLedger asks of an entry after those before it. *)
Appendable(entries, entry) ==
    LET previous == entries[Len(entries)]
    IN  IF entry.stage = "vacated"
            THEN /\ entries # <<>> => previous.stage # "vacated"
                 /\ entry.from = BindingOf(entries)
            ELSE /\ entries # <<>>
                 /\ previous.stage = "vacated"
                 /\ <<entry.from, entry.to>> = <<previous.from, previous.to>>

VacatedAddresses == {ledger[i].from : i \in {j \in 1..Len(ledger) : ledger[j].stage = "adopted"}}

(* relocationStateAt. *)
StateAt(a) ==
    IF ledger # <<>> /\ ledger[Len(ledger)].stage = "vacated"
        THEN CASE a = ledger[Len(ledger)].from -> "vacated"
               [] a = ledger[Len(ledger)].to   -> "adoption-required"
               [] OTHER                        -> "foreign-address"
        ELSE CASE a = BindingOf(ledger)    -> "live"
               [] a \in VacatedAddresses   -> "vacated"
               [] OTHER                    -> "foreign-address"

(* admitRelocationState. *)
Admitted(admission) ==
    \/ admission = "any"
    \/ StateAt(address) = "live"
    \/ admission = "adoption" /\ StateAt(address) = "adoption-required"
    \/ admission = "abort" /\ StateAt(address) = "vacated"

-----------------------------------------------------------------------------
SettingsInit ==
    /\ chain = <<>>
    /\ snapshot = NoSnapshot
    /\ engine \in Engine
    /\ ledger = <<>>
    /\ address = Origin

State == FromSnapshot(engine).state

(* appendEvent, by a verb that found the workspace live and readable. *)
Record(event) ==
    /\ Len(chain) < MaxEvents
    /\ Admitted("live")
    /\ Readable(engine)
    /\ chain' = Append(chain, event)
    /\ UNCHANGED <<snapshot, engine, ledger, address>>

SetWorkspaceSetting(k, v) ==
    /\ k \in Catalog(engine)
    /\ ValueAdmitted(k, v, address)
    /\ Record([op |-> "settings.updated", key |-> k, value |-> v,
               revision |-> Revision(State, k) + 1])

RemoveWorkspaceSetting(k) ==
    /\ k \in DOMAIN State.settings
    /\ Record([op |-> "settings.removed", key |-> k])

AdmitTemplate(t) ==
    /\ DefinitionValid(t)
    /\ \A r \in State.templates : r.registration # Registration(t)
    /\ Record([op |-> "template.admitted", record |-> AdmissionRecord(t)])

(* createWork with the receipt of a template. *)
CreateBoundWork(t, kind) ==
    LET binding == [registration |-> Registration(t), kind |-> kind]
    IN  /\ AdmissionRecord(t) \in State.templates
        /\ BoundValid(State, binding)
        /\ Record([op |-> "work.created", binding |-> binding])

(* A commit writes a snapshot of the state it reached. *)
TakeSnapshot ==
    /\ Admitted("live")
    /\ Readable(engine)
    /\ chain # <<>>
    /\ snapshot' = [at |-> Len(chain), state |-> State]
    /\ UNCHANGED <<chain, engine, ledger, address>>

(* A later engine is installed. *)
Upgrade ==
    /\ engine + 1 \in Engine
    /\ engine' = engine + 1
    /\ UNCHANGED <<chain, snapshot, ledger, address>>

(* The relocation verbs, and the tree being carried to another address. *)
WriteEntry(admission, entry) ==
    /\ Len(ledger) < MaxEntries
    /\ Admitted(admission)
    /\ Appendable(ledger, entry)
    /\ ledger' = Append(ledger, entry)
    /\ snapshot' = NoSnapshot
    /\ UNCHANGED <<chain, engine, address>>

Vacate ==
    \E from, to \in Address :
        /\ from # to
        /\ WriteEntry("live", [stage |-> "vacated", from |-> from, to |-> to])

Conclude(stage, admission) ==
    /\ ledger # <<>>
    /\ WriteEntry(admission, [ledger[Len(ledger)] EXCEPT !.stage = stage])

Carry ==
    /\ \E a \in Address \ {address} : address' = a
    /\ UNCHANGED <<chain, snapshot, engine, ledger>>

SettingsNext ==
    \/ \E k \in Key : \/ \E v \in Values(k) : SetWorkspaceSetting(k, v)
                      \/ RemoveWorkspaceSetting(k)
    \/ \E t \in Template : \/ AdmitTemplate(t)
                           \/ \E kind \in Kinds : CreateBoundWork(t, kind)
    \/ TakeSnapshot
    \/ Upgrade
    \/ Vacate
    \/ Conclude("adopted", "adoption")
    \/ Conclude("aborted", "abort")
    \/ Carry

SettingsSpec == SettingsInit /\ [][SettingsNext]_settingsVars

-----------------------------------------------------------------------------
(* A chain the verbs wrote is readable, by the engine that wrote it and by   *)
(* every later one, from genesis and from a snapshot, and to the same state; *)
(* a key that was retired in between is history (settings.ts:18-21 and        *)
(* workspace.ts:2233-2236).  Violated when a destination may be the address  *)
(* a workspace has left: the verb judges a path by where the workspace is,   *)
(* the reducer by where it was created.                                    *)
ReadersAgree ==
    \A e \in {d \in Engine : d >= engine} :
        FromGenesis(e).ok /\ FromSnapshot(e) = FromGenesis(e)

=============================================================================
