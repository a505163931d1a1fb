---------------------------- MODULE NativeDispatch ----------------------------
(***************************************************************************)
(* The dispatch of a task to a host's own agents: the four settings that   *)
(* say which model runs a class of work (packages/core/src/                *)
(* dispatch-config.ts, the dispatch commands of packages/cli/src/          *)
(* index.ts), and the adapter that resolves them before the native call    *)
(* and judges the call afterwards (scripts/dispatch-adapter.mjs).          *)
(*                                                                         *)
(* The judgement reads the settings first and the work item second, in a   *)
(* process of its own; commands fall in between.  A model and its effort   *)
(* are one value.  Of a lifecycle, role, pack and schema are left out:     *)
(* they are treated as the work id is.                                     *)
(***************************************************************************)
EXTENDS Naturals, FiniteSets, TLC

CONSTANTS
    Host, Class, Mode, Value, Work, Agent,
    Tiers,             \* the tiers, strongest first, are 1 .. Tiers
    Default,           \* the settings that no command has written
    Rows,              \* what dispatch-tiers-set may be given
    Unset,
    MaxChanges         \* bound on the settings and work commands

VARIABLES
    config,    \* [classes, tiers, modes, mode]
    work,      \* by item: [status, scope]
    prepared,  \* the resolution a caller took, or Unset
    spawn,     \* what it was given for the native call, or Unset
    check,     \* the judgement in flight, or Unset
    valid,     \* the last call judged valid, or Unset
    changes

vars == <<config, work, prepared, spawn, check, valid, changes>>

DispatchInit ==
    /\ config = Default
    /\ work = [w \in Work |-> [status |-> "ready", scope |-> 1]]
    /\ prepared = Unset /\ spawn = Unset /\ check = Unset /\ valid = Unset
    /\ changes = 0

-----------------------------------------------------------------------------
(* The settings.  Each command merges into what is set: a class or a row of *)
(* a mode is added to the others, a host's tiers are replaced as a whole.   *)

Changed(c) ==
    /\ changes < MaxChanges /\ changes' = changes + 1 /\ config' = c
    /\ UNCHANGED <<work, prepared, spawn, check, valid>>

SetClass(c, dispatch) ==
    Changed([config EXCEPT !.classes = (c :> dispatch) @@ @])

SetTiers(h, row) ==
    Changed([config EXCEPT !.tiers = (h :> row) @@ @])

SetMode(m, c, tier) ==
    LET old == IF m \in DOMAIN config.modes THEN config.modes[m] ELSE <<>>
    IN  Changed([config EXCEPT !.modes = (m :> ((c :> tier) @@ old)) @@ @])

(* settings-set: the mode is a name, whether or not it is one of the modes. *)
NameMode(m) == Changed([config EXCEPT !.mode = m])

(* settings-remove: what the engine ships with comes back.                  *)
RemoveSetting(key) == Changed([config EXCEPT ![key] = Default[key]])

ChangeWork(w, status, scope) ==
    /\ changes < MaxChanges /\ changes' = changes + 1
    /\ work' = [work EXCEPT ![w] = [status |-> status, scope |-> scope]]
    /\ UNCHANGED <<config, prepared, spawn, check, valid>>

-----------------------------------------------------------------------------
(* Resolution: the tier a mode maps the class to, or the next weaker one    *)
(* the host has a model for.  Only the very tier asked for is executable.   *)

Resolvable(c, class, mode) ==
    class \in DOMAIN c.classes /\ mode \in DOMAIN c.modes /\ class \in DOMAIN c.modes[mode]

Offered(c, host, from) ==
    {t \in from .. Tiers : host \in DOMAIN c.tiers /\ c.tiers[host][t] # Unset}

Resolution(c, host, class, mode) ==
    LET asked == c.modes[mode][class]
        offered == Offered(c, host, asked)
        tier == IF offered = {} THEN 0 ELSE CHOOSE t \in offered : \A u \in offered : t <= u
    IN  [host |-> host, class |-> class, mode |-> mode, dispatch |-> c.classes[class],
         asked |-> asked, tier |-> tier,
         value |-> IF tier = 0 THEN Unset ELSE c.tiers[host][tier]]

Executable(r) == r.dispatch /\ r.tier = r.asked

Prepare(host, class, mode) ==
    /\ prepared = Unset /\ check = Unset /\ valid = Unset
    /\ Resolvable(config, class, mode)
    /\ LET r == Resolution(config, host, class, mode)
       IN  Executable(r) /\ prepared' = [res |-> r, source |-> config]
    /\ UNCHANGED <<config, work, spawn, check, valid, changes>>

-----------------------------------------------------------------------------
(* The lifecycle of an agent, declared or observed; a field not given is    *)
(* Unset.                                                                   *)

Fresh(l) == l.phase = "task-pack"

(* The fields that are wrong in themselves.                                 *)
Problems(l) ==
    (IF l.phase = Unset THEN {"phase"} ELSE {}) \cup
    (IF l.work = Unset THEN {"work"} ELSE {}) \cup
    (IF l.phase # "clarification" /\ l.value = Unset THEN {"value"} ELSE {}) \cup
    (IF l.new = Unset \/ (Fresh(l) /\ l.new # "yes") \/ (l.phase = "clarification" /\ l.new # "no")
     THEN {"new"} ELSE {}) \cup
    (IF l.fork = "all" \/ (Fresh(l) /\ l.fork # "none") THEN {"fork"} ELSE {}) \cup
    (IF (Fresh(l) /\ l.running = "yes") \/ (l.phase = "clarification" /\ l.running # "yes")
     THEN {"running"} ELSE {}) \cup
    (IF l.before # Unset /\ l.before.agent = l.agent THEN {"agent"} ELSE {}) \cup
    (IF l.before # Unset /\ Fresh(l) /\ l.before.running THEN {"before"} ELSE {}) \cup
    (IF l.evidence = "claim" THEN {"evidence"} ELSE {})

Compared == {"work", "phase", "value", "new", "fork", "running", "before"}

Differ(l, o, f) == l[f] # Unset /\ o[f] # Unset /\ l[f] # o[f]

(* What was observed is compared with what was declared; what is missing, or *)
(* wrong in itself in a field that is compared, is no contradiction.        *)
Evidence(l, o) ==
    IF o = Unset THEN "unknown" ELSE
    IF (\E f \in Compared : Differ(l, o, f)) \/ Problems(o) \ (Compared \ {"before"}) # {} THEN "red" ELSE
    IF o.native /\ o.evidence = "known" THEN "green" ELSE "unknown"

(* The lifecycle of the call: the model it does not name is the resolved    *)
(* one.  Only Codex is asked for one; the others may name a work item.      *)
Declared(l, r) == [l EXCEPT !.value = IF @ = Unset THEN r.value ELSE @]

Dispatchable(l, r) ==
    LET d == Declared(l, r)
    IN  /\ d.value = r.value
        /\ r.host = "codex" => l.work # Unset /\ Problems(d) = {}

Build(l) ==
    /\ prepared # Unset /\ spawn = Unset /\ check = Unset
    /\ Dispatchable(l, prepared.res)
    /\ spawn' = [value |-> prepared.res.value, life |-> l]
    /\ UNCHANGED <<config, work, prepared, check, valid, changes>>

-----------------------------------------------------------------------------
(* The judgement of a call: value is the model that ran, scope the scope it *)
(* was told.                                                                *)

(* Mutant: only the resolution's inputs are compared with the current ones. *)
MatchesInputs(p, r) ==
    p.res.host = r.host /\ p.res.class = r.class /\ p.res.mode = r.mode

MatchesCurrent(p, r) == p.res = r /\ p.source = config

Begin(value, item, scope) ==
    /\ spawn # Unset /\ check = Unset
    /\ LET p == prepared.res  l == spawn.life
       IN  /\ Resolvable(config, p.class, p.mode)
           /\ LET r == Resolution(config, p.host, p.class, p.mode)
              IN  /\ MatchesCurrent(prepared, r) /\ Executable(r)
                  /\ value = r.value /\ Dispatchable(l, r)
                  /\ item # Unset => (l.work # Unset => l.work = item)
                  /\ item # Unset \/ l.work # Unset
                  /\ check' = [res |-> r, work |-> IF l.work # Unset THEN l.work ELSE item,
                               scope |-> scope]
    /\ UNCHANGED <<config, work, prepared, spawn, valid, changes>>

Live(item) == work[item].status \in {"ready", "active"} /\ work[item].scope # Unset

Conclude(o) ==
    /\ check # Unset
    /\ Live(check.work)
    /\ check.scope # Unset => check.scope = work[check.work].scope
    /\ LET l == Declared(spawn.life, check.res)
       IN  /\ check.res.host = "codex" => Evidence(l, o) # "red"
           /\ valid' = [value |-> check.res.value, work |-> check.work, told |-> check.scope,
                        life |-> IF check.res.host = "codex" THEN l ELSE Unset, seen |-> o,
                        given |-> spawn.value, item |-> work[check.work],
                        still |-> check.res.value = (IF Resolvable(config, check.res.class, check.res.mode)
                                    THEN Resolution(config, check.res.host, check.res.class, check.res.mode).value
                                    ELSE Unset)]
    /\ prepared' = Unset /\ spawn' = Unset /\ check' = Unset
    /\ UNCHANGED <<config, work, changes>>

(* Any refusal, and the next call.                                          *)
Abandon ==
    /\ prepared # Unset \/ valid # Unset
    /\ prepared' = Unset /\ spawn' = Unset /\ check' = Unset /\ valid' = Unset
    /\ UNCHANGED <<config, work, changes>>

(* What a caller declares and what a host shows; only Codex is asked.       *)
Blank == [phase |-> Unset, work |-> Unset, value |-> Unset, new |-> Unset, fork |-> Unset,
          running |-> Unset, agent |-> Unset, before |-> Unset, evidence |-> "none"]

Lifecycle(host) ==
    IF host # "codex" THEN {[Blank EXCEPT !.work = w] : w \in Work \cup {Unset}}
    ELSE [phase : {"task-pack", "clarification"}, work : Work \cup {Unset}, value : {Unset},
          new : {"yes", "no", Unset}, fork : {"none", "all", Unset}, running : {"yes", "no", Unset},
          agent : Agent, before : {Unset} \cup [agent : Agent, running : BOOLEAN],
          evidence : {"known"}]

Observation(host) ==
    IF host # "codex" THEN {Unset}
    ELSE {Unset} \cup
         [phase : {"task-pack", "clarification", Unset}, work : Work \cup {Unset},
          value : Value \cup {Unset}, new : {"yes", "no", Unset}, fork : {"none", "all", Unset},
          running : {"yes", Unset}, agent : {Unset}, before : {Unset},
          evidence : {"known", "claim"}, native : {TRUE}]

DispatchNext ==
    \/ \E c \in Class, b \in BOOLEAN : SetClass(c, b)
    \/ \E h \in Host, r \in Rows : SetTiers(h, r)
    \/ \E m \in Mode, c \in Class, t \in 1 .. Tiers : SetMode(m, c, t)
    \/ \E m \in Mode : NameMode(m)
    \/ \E k \in DOMAIN Default : RemoveSetting(k)
    \/ \E w \in Work, s \in {"active", "done"}, x \in {1, 2, Unset} : ChangeWork(w, s, x)
    \/ \E h \in Host, c \in Class, m \in Mode \cup {config.mode} : Prepare(h, c, m)
    \/ prepared # Unset /\ \E l \in Lifecycle(prepared.res.host) : Build(l)
    \/ \E v \in Value, w \in Work \cup {Unset}, x \in {1, Unset} : Begin(v, w, x)
    \/ check # Unset /\ \E o \in Observation(check.res.host) : Conclude(o)
    \/ Abandon

DispatchSpec == DispatchInit /\ [][DispatchNext]_vars

-----------------------------------------------------------------------------
(* A call that is judged valid ran the model it was handed, about an item   *)
(* that could be worked on and whose scope is the one it was told; under    *)
(* Codex nothing observed of it contradicts what was declared, and a fresh  *)
(* round is neither forked nor its own predecessor.                         *)
DispatchIsBound ==
    valid # Unset =>
        /\ valid.value = valid.given
        /\ valid.item.status \in {"ready", "active"} /\ valid.told \in {Unset, valid.item.scope}
        /\ valid.life # Unset /\ valid.seen # Unset =>
              /\ ~\E f \in Compared : Differ(valid.life, valid.seen, f)
              /\ Fresh(valid.life) =>
                    /\ valid.seen.fork # "all" /\ valid.seen.new # "no"
                    /\ valid.life.before # Unset =>
                          ~valid.life.before.running /\ valid.life.before.agent # valid.life.agent

(* What is observed keeps the rules a declaration has to keep: false where   *)
(* the declaration leaves a field out, a fresh round seen to share a running *)
(* task and a clarification seen to fork are valid.                         *)
ObservedKeepsTheRules ==
    valid # Unset /\ valid.life # Unset /\ valid.seen # Unset =>
        valid.seen.fork # "all" /\ (Fresh(valid.life) => valid.seen.running # "yes")

(* The settings still resolve to the model when the judgement is given:     *)
(* false, they are read before the work item.                               *)
ResolvedAtOnce == valid # Unset => valid.still
=============================================================================
