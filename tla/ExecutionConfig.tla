---------------------------- MODULE ExecutionConfig ----------------------------
(***************************************************************************)
(* Hosts' configurations, personas and model plans of a workspace           *)
(* (execution-config.ts, model-plan.ts and profile-store.ts of              *)
(* packages/core/src, with the verbs and the replay arms of workspace.ts).  *)
(*                                                                         *)
(* Each verb applies a function to the current state and appends one event. *)
(* A reader of the workspace has only the events: its reducer applies the   *)
(* same functions to what the events carry, and refuses the chain when one  *)
(* of them refuses or returns another record.  Here every verb appends and  *)
(* the reader folds at once, so that `replayed` is what a reader has now.   *)
(*                                                                         *)
(* What a configuration, a persona or an assignment says is left out, and   *)
(* with it revisions and times: what is kept is which of them exist, which  *)
(* point at which, and which parts an override or an effort is given for.   *)
(***************************************************************************)
EXTENDS Naturals, FiniteSets

CONSTANTS
    Host,        \* the hosts
    Setup,       \* the names of configurations
    Plan,        \* the names of model plans
    Preset,      \* the names of the core reference personas
    Custom,      \* other names of personas
    Field,       \* the fields of a persona that an override can replace
    Legacy,      \* personas of the first version a chain may begin with
    Efforts,     \* whether an assignment may come with an effort
    Unset        \* no configuration, no plan

VARIABLES
    config,      \* what the verbs made of the chain
    replayed     \* what a reader makes of it

execVars == <<config, replayed>>

Name == Preset \cup Custom
Profile == {"preset"} \X Preset \cup {"custom"} \X Name

Empty ==
    [configured |-> {},                        \* <<host, setup>>
     default    |-> [h \in Host |-> Unset],
     bound      |-> {},                        \* <<profile, host, setup>>
     custom     |-> {},
     plans      |-> [k \in {} |-> {}],         \* of <<host, plan>>
     pointer    |-> [h \in Host |-> Unset],    \* execution.*SubagentPlan
     overrides  |-> [p \in {} |-> {}],
     removed    |-> {}]                        \* the presets' tombstones

Outcome(ok, state) == [ok |-> ok, state |-> state]
Put(f, k, v) == [x \in DOMAIN f \cup {k} |-> IF x = k THEN v ELSE f[x]]
Drop(f, k) == [x \in DOMAIN f \ {k} |-> f[x]]

-----------------------------------------------------------------------------
(* Configurations, the default of a host and the pins of a persona.         *)

HostConfigSet(s, h, n) ==
    Outcome(TRUE, [s EXCEPT !.configured = @ \cup {<<h, n>>}])

HostConfigRemove(s, h, n) ==
    Outcome(/\ <<h, n>> \in s.configured
            /\ s.default[h] # n
            /\ \A p \in Profile : <<p, h, n>> \notin s.bound,
            [s EXCEPT !.configured = @ \ {<<h, n>>}])

HostConfigDefault(s, h, n) ==
    Outcome(n # Unset => <<h, n>> \in s.configured, [s EXCEPT !.default[h] = n])

(* A preset that was removed is still one. *)
PersonaExists(s, p) == p[1] = "preset" \/ p[2] \in s.custom

BindingSet(s, p, h, n) ==
    Outcome(<<h, n>> \in s.configured /\ PersonaExists(s, p),
            [s EXCEPT !.bound = {b \in @ : <<b[1], b[2]>> # <<p, h>>} \cup {<<p, h, n>>}])

BindingRemove(s, p, h) ==
    LET pins == {b \in s.bound : <<b[1], b[2]>> = <<p, h>>}
    IN  Outcome(pins # {}, [s EXCEPT !.bound = @ \ pins])

-----------------------------------------------------------------------------
(* Personas. *)

PersonaNameExists(s, n) == n \in (Preset \ s.removed) \cup s.custom

CustomSet(s, n) ==
    Outcome(/\ PersonaNameExists(s, n) => n \in s.custom
            /\ n \notin s.removed,
            [s EXCEPT !.custom = @ \cup {n}])

(* Personas of the first version are not asked whose names they take.       *)
LegacySet(s, names) == Outcome(TRUE, [s EXCEPT !.custom = @ \cup names])

Assigns(s, n) == \E k \in DOMAIN s.plans : n \in s.plans[k].assigned

CustomRemove(s, n) ==
    Outcome(/\ n \in s.custom
            /\ \A h \in Host, c \in Setup : <<<<"custom", n>>, h, c>> \notin s.bound
            /\ ~Assigns(s, n),
            [s EXCEPT !.custom = @ \ {n}])

PresetOverride(s, n, fields) ==
    Outcome(/\ n \in Preset \ (s.custom \cup s.removed)
            /\ fields # {},
            [s EXCEPT !.overrides = Put(@, n, fields)])

(* Giving a field back, or all of them (""); either brings a preset back. *)
PresetRestore(s, n, field) ==
    LET left == IF n \in DOMAIN s.overrides /\ field # ""
                    THEN s.overrides[n] \ {field} ELSE {}
    IN  Outcome(n \in Preset /\ n \in DOMAIN s.overrides \cup s.removed,
                [s EXCEPT !.overrides = IF left = {} THEN Drop(@, n) ELSE Put(@, n, left),
                          !.removed = @ \ {n}])

PresetRemove(s, n) ==
    Outcome(n \in Preset /\ ~Assigns(s, n),
            [s EXCEPT !.overrides = Drop(@, n), !.removed = @ \cup {n}])

(* What a reader is shown: the presets that are left, with the fields that  *)
(* are overridden, and the custom personas.                                 *)
Readback(s) ==
    {[name |-> n, preset |-> TRUE, overridden |-> IF n \in DOMAIN s.overrides THEN s.overrides[n] ELSE {}] :
        n \in Preset \ s.removed} \cup
    {[name |-> n, preset |-> FALSE, overridden |-> {}] : n \in s.custom}

-----------------------------------------------------------------------------
(* Model plans.  The record of a plan is what an event carries of it.       *)

Existing(s, k) ==
    IF k \in DOMAIN s.plans THEN s.plans[k]
    ELSE [assigned |-> {}, efforts |-> {}, defaultEffort |-> FALSE]

PlanSet(s, k, effort) ==
    Outcome(TRUE, [s EXCEPT !.plans = Put(@, k, [Existing(s, k) EXCEPT !.defaultEffort = effort])])

PlanAssign(s, k, n, effort) ==
    Outcome(k \in DOMAIN s.plans /\ PersonaNameExists(s, n),
            [s EXCEPT !.plans = Put(@, k, [Existing(s, k) EXCEPT
                !.assigned = @ \cup {n},
                !.efforts = IF effort THEN @ \cup {n} ELSE @])])

(* The record is spread over the old one: when no effort is left there is   *)
(* nothing to spread and the old efforts stay.                            *)
PlanUnassign(s, k, n) ==
    Outcome(k \in DOMAIN s.plans /\ n \in Existing(s, k).assigned,
            [s EXCEPT !.plans = Put(@, k, [Existing(s, k) EXCEPT
                !.assigned = @ \ {n},
                !.efforts = IF @ \ {n} = {} THEN @ ELSE @ \ {n}])])

PlanRemove(s, k) ==
    Outcome(k \in DOMAIN s.plans /\ s.pointer[k[1]] # k[2],
            [s EXCEPT !.plans = Drop(@, k)])

-----------------------------------------------------------------------------
(* The reducer. *)

Same(result, k, record) == Outcome(result.ok /\ result.state.plans[k] = record, result.state)

(* Mutant: the effort of an assignment is not carried. *)
ReplayEffortless(s, e) ==
    CASE e.op = "model-plan.assigned"  -> Same(PlanAssign(s, e.key, e.name, FALSE), e.key, e.record)
      [] OTHER -> Outcome(TRUE, s)

Replay(s, e) ==
    CASE e.op = "configuration.set"      -> HostConfigSet(s, e.host, e.setup)
      [] e.op = "configuration.removed"  -> HostConfigRemove(s, e.host, e.setup)
      [] e.op = "default.set"            -> HostConfigDefault(s, e.host, e.setup)
      [] e.op = "binding.set"            -> BindingSet(s, e.profile, e.host, e.setup)
      [] e.op = "binding.removed"        -> BindingRemove(s, e.profile, e.host)
      [] e.op = "persona.set"            -> CustomSet(s, e.name)
      [] e.op = "persona.removed"        -> CustomRemove(s, e.name)
      [] e.op = "persona-preset.override" -> PresetOverride(s, e.name, e.fields)
      [] e.op = "persona-preset.restore" -> PresetRestore(s, e.name, e.field)
      [] e.op = "persona-preset.removed" -> PresetRemove(s, e.name)
      [] e.op = "model-plan.set"         -> Same(PlanSet(s, e.key, e.record.defaultEffort), e.key, e.record)
      [] e.op = "model-plan.assigned"    -> Same(PlanAssign(s, e.key, e.name, e.effort), e.key, e.record)
      [] e.op = "model-plan.unassigned"  -> Same(PlanUnassign(s, e.key, e.name), e.key, e.record)
      [] e.op = "model-plan.removed"     -> PlanRemove(s, e.key)
      [] e.op = "settings.updated"       -> Outcome(TRUE, [s EXCEPT !.pointer[e.host] = e.plan])
      [] e.op = "settings.removed"       -> Outcome(s.pointer[e.host] # Unset,
                                                    [s EXCEPT !.pointer[e.host] = Unset])

(* appendEvent: nothing is appended when the function refuses. *)
Append(result, e) ==
    /\ result.ok
    /\ config' = result.state
    /\ replayed' = IF replayed.ok THEN Replay(replayed.state, e) ELSE replayed

ExecInit ==
    \E old \in Legacy :
        /\ config = LegacySet(Empty, old).state
        /\ replayed = Outcome(TRUE, config)

-----------------------------------------------------------------------------
(* The verbs. *)

SetHostConfiguration(h, n) ==
    Append(HostConfigSet(config, h, n), [op |-> "configuration.set", host |-> h, setup |-> n])

RemoveHostConfiguration(h, n) ==
    Append(HostConfigRemove(config, h, n), [op |-> "configuration.removed", host |-> h, setup |-> n])

SetHostDefault(h, n) ==
    Append(HostConfigDefault(config, h, n), [op |-> "default.set", host |-> h, setup |-> n])

SetPersonaBinding(p, h, n) ==
    Append(BindingSet(config, p, h, n),
           [op |-> "binding.set", profile |-> p, host |-> h, setup |-> n])

RemovePersonaBinding(p, h) ==
    Append(BindingRemove(config, p, h), [op |-> "binding.removed", profile |-> p, host |-> h])

SetCustomPersona(n) == Append(CustomSet(config, n), [op |-> "persona.set", name |-> n])

RemoveCustomPersona(n) == Append(CustomRemove(config, n), [op |-> "persona.removed", name |-> n])

(* The name of a custom persona that is not a tombstone removes that one,   *)
(* any other name a preset.                                               *)
RemovePersona(n) ==
    IF n \in config.removed \/ n \notin config.custom
        THEN Append(PresetRemove(config, n), [op |-> "persona-preset.removed", name |-> n])
        ELSE Append(CustomRemove(config, n), [op |-> "persona.removed", name |-> n])

OverridePersonaPreset(n, fields) ==
    Append(PresetOverride(config, n, fields),
           [op |-> "persona-preset.override", name |-> n, fields |-> fields])

RestorePersonaPreset(n, field) ==
    Append(PresetRestore(config, n, field),
           [op |-> "persona-preset.restore", name |-> n, field |-> field])

SetModelPlan(k, effort) ==
    LET r == PlanSet(config, k, effort)
    IN  Append(r, [op |-> "model-plan.set", key |-> k, record |-> r.state.plans[k]])

AssignModelPlan(k, n, effort) ==
    LET r == PlanAssign(config, k, n, effort)
    IN  Append(r, [op |-> "model-plan.assigned", key |-> k, name |-> n, effort |-> effort,
                   record |-> r.state.plans[k]])

UnassignModelPlan(k, n) ==
    LET r == PlanUnassign(config, k, n)
    IN  Append(r, [op |-> "model-plan.unassigned", key |-> k, name |-> n,
                   record |-> r.state.plans[k]])

RemoveModelPlan(k) == Append(PlanRemove(config, k), [op |-> "model-plan.removed", key |-> k])

(* setWorkspaceSetting and removeWorkspaceSetting of a host's plan. *)
PointToPlan(h, n) ==
    Append(Outcome(<<h, n>> \in DOMAIN config.plans, [config EXCEPT !.pointer[h] = n]),
           [op |-> "settings.updated", host |-> h, plan |-> n])

ForgetPlan(h) ==
    Append(Outcome(config.pointer[h] # Unset, [config EXCEPT !.pointer[h] = Unset]),
           [op |-> "settings.removed", host |-> h])

ExecNext ==
    \/ \E h \in Host, n \in Setup : \/ SetHostConfiguration(h, n)
                                    \/ RemoveHostConfiguration(h, n)
    \/ \E h \in Host, n \in Setup \cup {Unset} : SetHostDefault(h, n)
    \/ \E p \in Profile, h \in Host : \/ \E n \in Setup : SetPersonaBinding(p, h, n)
                                      \/ RemovePersonaBinding(p, h)
    \/ \E n \in Name : \/ SetCustomPersona(n)
                       \/ RemoveCustomPersona(n)
                       \/ RemovePersona(n)
                       \/ \E fields \in SUBSET Field : OverridePersonaPreset(n, fields)
                       \/ \E field \in Field \cup {""} : RestorePersonaPreset(n, field)
    \/ \E k \in Host \X Plan, effort \in {FALSE, Efforts} :
           \/ SetModelPlan(k, effort)
           \/ \E n \in Name : \/ AssignModelPlan(k, n, effort)
                              \/ UnassignModelPlan(k, n)
           \/ RemoveModelPlan(k)
    \/ \E h \in Host : \/ \E n \in Plan : PointToPlan(h, n)
                       \/ ForgetPlan(h)

ExecSpec == ExecInit /\ [][ExecNext]_execVars

-----------------------------------------------------------------------------
(* validateExecutionConfigState, which no verb calls; a plan is valid when  *)
(* an effort is given to personas it assigns only.                          *)
ValidPlan(plan) == plan.efforts \subseteq plan.assigned

ValidState(s) ==
    /\ \A k \in DOMAIN s.plans : ValidPlan(s.plans[k])
    /\ \A p \in DOMAIN s.overrides : p \in Preset /\ s.overrides[p] \subseteq Field
    /\ \A b \in s.bound : PersonaExists(s, b[1])

-----------------------------------------------------------------------------
(* What the state points at exists: a default and a pin name a             *)
(* configuration and a persona, a plan assigns personas that are active, a  *)
(* host's setting names a plan, and a removed preset keeps no override.     *)
(* Every part is guarded by the verb that adds the reference and by the one *)
(* that removes what it names ("Referential integrity is the engine's half  *)
(* of the bargain", execution-config.ts:198).                              *)
ReferencesResolve ==
    /\ \A h \in Host : config.default[h] # Unset => <<h, config.default[h]>> \in config.configured
    /\ \A b \in config.bound : <<b[2], b[3]>> \in config.configured /\ PersonaExists(config, b[1])
    /\ \A k \in DOMAIN config.plans, n \in Name :
           n \in config.plans[k].assigned => PersonaNameExists(config, n)
    /\ \A h \in Host : config.pointer[h] # Unset => <<h, config.pointer[h]>> \in DOMAIN config.plans
    /\ DOMAIN config.overrides \cap config.removed = {}

(* A reader of the chain has what the verbs answered: every event carries   *)
(* all that its replay arm needs (workspace.ts:2576-2696), and none of      *)
(* them makes the chain unreadable.                                       *)
ChainReplays == replayed = Outcome(TRUE, config)

(* The reader that is given a whole state, and not its events, takes every  *)
(* state the verbs make.  Violated when Efforts is TRUE: the last effort of *)
(* a plan outlives its assignment.                                          *)
StateIsValid == ValidState(config)

(* A persona is shown if and only if plans can name it; an override is      *)
(* shown in full; and no name is shown twice, or kept for a preset that was *)
(* removed, but for the names a chain of the first version came with.       *)
ReadbackIsWhole ==
    LET shown == Readback(config)
    IN  /\ {r.name : r \in shown} = {n \in Name : PersonaNameExists(config, n)}
        /\ \A n \in DOMAIN config.overrides :
               \E r \in shown : r.name = n /\ r.preset /\ r.overridden = config.overrides[n]
        /\ config.custom \cap Preset \subseteq UNION Legacy

(* The three together: references, replay and what is shown.                *)
ConfigurationIsWhole == ReferencesResolve /\ ChainReplays /\ ReadbackIsWhole
=============================================================================
