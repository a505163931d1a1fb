----------------------------- MODULE GateBatch -----------------------------
(***************************************************************************)
(* The formal batch (scripts/operational-batch-entry.mjs and               *)
(* scripts/final-gate-plan.mjs): native work, the processes of the host and *)
(* the candidate are observed, a batch that qualifies is observed again,   *)
(* the roots the changes affect are planned, reusing receipts of this      *)
(* process, and run one after the other between two readings of their      *)
(* inputs; then everything is observed a third time.  The world moves      *)
(* between any two steps.  The entry reports its environment with every    *)
(* change, so there always is an effective one; its inputs are one tuple   *)
(* for all roots.  Malformed observations and plans are left out, and so   *)
(* are the legacy plans without an observer.                               *)
(***************************************************************************)
EXTENDS Naturals, Sequences, SequencesExt, FiniteSets

CONSTANTS
    Order,       \* the roots of the roster, as they run
    Impact,      \* the roots that each version of the source affects
    Unmapped,    \* the versions with a change that no root is mapped to
    KnownEnv,    \* the environments the entry knows
    Task, Needs, \* the bound work and what each of it depends on
    PostAction,  \* work that comes after the gate
    MaxSource, MaxEnv, MaxMoves, MaxBatches,  \* bounds
    Restores     \* whether an edit may bring an older version back

VARIABLES
    world,     \* source, committed or not, archive, environment, processes, roster
    work,      \* state, revision and result of each bound work
    receipts,  \* of this process, as they were issued
    pc, phase, \* the step, and the observation: "first", "before" or "after"
    seen,      \* what is observed
    key,       \* of the batch: candidate and queue
    plan,      \* inputs, roots to run and roots reused
    failed,    \* a root did not pass
    verdict,
    passed,    \* the keys of completed batches, which a caller may repeat
    moves, batches

batchVars == <<world, work, receipts, pc, phase, seen, key, plan, failed, verdict,
               passed, moves, batches>>
control == <<pc, phase, seen, key, plan, failed, verdict, passed, batches, receipts>>

Gate == ToSet(Order)
Nothing == "none"
NoPlan == [inputs |-> Nothing, run |-> <<>>, reused |-> {}]
Unseen == [work |-> Nothing, busy |-> TRUE, stable |-> FALSE, candidate |-> 0]

-----------------------------------------------------------------------------
(* What is qualified. *)

Active == Task \ PostAction

(* A result is recorded for the candidate it was reached with. *)
Recorded(t) == seen.work[t].state = "recorded"

(* In an acceptance stage a recorded result completes. *)
Complete(t) == Recorded(t) \/ seen.work[t].state = "done"

(* A block counts only with a reason. *)
ReallyBlocked(t) == seen.work[t].state = "blocked"

DependenciesHold ==
    \A t \in Active : \A d \in Needs[t] : d \in Task /\ (d \in PostAction \/ ~ReallyBlocked(d))

NothingRemains == \A t \in Active : Complete(t) \/ ReallyBlocked(t)

ResultsAreCurrent ==
    \A t \in Active : Recorded(t) => seen.work[t].for = seen.candidate

Qualified ==
    /\ DependenciesHold /\ NothingRemains
    /\ ~seen.busy /\ seen.stable
    /\ ResultsAreCurrent

KeySeen == [candidate |-> seen.candidate, queue |-> seen.work]

Repeats(known) == KeySeen \in known

-----------------------------------------------------------------------------
(* What is planned. *)

Inputs == [source |-> world.source, clean |-> world.clean, env |-> world.env]

(* A green run, or a red one whose codes the roster still accepts. *)
Passes(e) == e.ok /\ (e.green \/ e.gate \in world.accepted)

Evidence(g) == Last(SelectSeq(receipts, LAMBDA e : e.gate = g))

Reusable(g) ==
    /\ \E i \in 1..Len(receipts) : receipts[i].gate = g
    /\ Evidence(g).inputs = Inputs /\ Passes(Evidence(g))

Affected == Impact[world.source]
Mapped == world.source \notin Unmapped

Disposition(g) ==
    IF g \notin Affected THEN "not-applicable"
    ELSE IF Reusable(g) THEN "reused" ELSE "run"

With(disposition) == {g \in Gate : Disposition(g) = disposition}

Executable == Mapped /\ world.env \in KnownEnv

-----------------------------------------------------------------------------
Step(from, to) == pc = from /\ pc' = to
Ends(result) ==
    /\ pc' = "idle" /\ verdict' = result
    /\ UNCHANGED <<world, work, receipts, phase, seen, key, plan, failed, passed, moves, batches>>

Begin ==
    /\ batches < MaxBatches
    /\ Step("idle", "list")
    /\ phase' = "first" /\ seen' = Unseen /\ key' = Nothing /\ plan' = NoPlan
    /\ failed' = FALSE /\ verdict' = Nothing
    /\ batches' = batches + 1
    /\ UNCHANGED <<world, work, receipts, passed, moves>>

Observes(from, to, field, value) ==
    /\ Step(from, to)
    /\ seen' = [seen EXCEPT ![field] = value]
    /\ UNCHANGED <<world, work, receipts, phase, key, plan, failed, verdict, passed,
                   moves, batches>>

ListWork == Observes("list", "show", "work", work)

(* Each work is shown, at the revision that was listed. *)
ShowWork ==
    /\ pc = "show"
    /\ IF \E t \in Task : work[t].rev # seen.work[t].rev THEN Ends("not verifiable")
       ELSE Observes("show", "processes", "work", work)

SeeProcesses == Observes("processes", "candidate", "busy", world.busy)

(* The tree is clean and the archive is of its commit. *)
Stable == world.clean /\ world.archive = world.source

SeeCandidate ==
    /\ Step("candidate", "qualify")
    /\ seen' = [seen EXCEPT !.stable = Stable, !.candidate = world.archive]
    /\ UNCHANGED <<world, work, receipts, phase, key, plan, failed, verdict, passed,
                   moves, batches>>

Advances(to, next, k) ==
    /\ pc' = to /\ phase' = next /\ key' = k
    /\ UNCHANGED <<world, work, receipts, seen, plan, failed, verdict, passed, moves, batches>>

QualifyFirst ==
    /\ pc = "qualify" /\ phase = "first"
    /\ \E known \in {{}, passed} :
         IF ~Qualified THEN Ends("not ready")
         ELSE IF Repeats(known) THEN Ends("idempotent")
         ELSE Advances("list", "before", KeySeen)

Recheck ==
    /\ pc = "qualify" /\ phase = "before"
    /\ IF Qualified /\ KeySeen = key THEN Advances("plan", "before", key)
       ELSE Ends("rejected")

RecheckAfter ==
    /\ pc = "qualify" /\ phase = "after"
    /\ IF Qualified /\ KeySeen = key
       THEN /\ pc' = "idle" /\ verdict' = "completed" /\ passed' = passed \cup {key}
            /\ UNCHANGED <<world, work, receipts, phase, seen, key, plan, failed, moves, batches>>
       ELSE Ends("failed")

PlanRoots ==
    /\ pc = "plan"
    /\ IF ~Executable THEN Ends("failed")
       ELSE /\ plan' = [inputs |-> Inputs, reused |-> With("reused"),
                        run |-> SelectSeq(Order, LAMBDA g : g \in With("run"))]
            /\ pc' = "aggregate"
            /\ UNCHANGED <<world, work, receipts, phase, seen, key, failed, verdict,
                           passed, moves, batches>>

(* A reading of the inputs: a plan whose inputs are no longer so is over. *)
Reads(from, to) ==
    /\ pc = from
    /\ IF Inputs # plan.inputs THEN Ends("failed")
       ELSE /\ pc' = to
            /\ UNCHANGED <<world, work, receipts, phase, seen, key, plan, failed, verdict,
                           passed, moves, batches>>

ReadAggregate == Reads("aggregate", IF plan.run = <<>> THEN "finish" ELSE "before")
ReadBefore == Reads("before", "start")

StartRoot ==
    /\ Step("start", "run")
    /\ receipts' = Append(receipts, [gate |-> Head(plan.run), inputs |-> plan.inputs,
                                     began |-> Inputs, ended |-> Nothing, ok |-> FALSE,
                                     green |-> FALSE])
    /\ UNCHANGED <<world, work, phase, seen, key, plan, failed, verdict, passed, moves, batches>>

(* issueGateReceipt: a red root is accepted by a code of its own group. *)
EndRoot ==
    /\ Step("run", "after")
    /\ \E green, excused \in BOOLEAN :
         /\ excused => ~green /\ Last(receipts).gate \in world.accepted
         /\ receipts' = [receipts EXCEPT ![Len(receipts)].ended = Inputs,
                                         ![Len(receipts)].green = green,
                                         ![Len(receipts)].ok = green \/ excused]
    /\ UNCHANGED <<world, work, phase, seen, key, plan, failed, verdict, passed, moves, batches>>

NextRoot ==
    /\ plan' = [plan EXCEPT !.run = Tail(@)]
    /\ failed' = (failed \/ ~Passes(Last(receipts)))
    /\ pc' = IF Tail(plan.run) = <<>> THEN "finish" ELSE "before"
    /\ UNCHANGED <<world, work, receipts, phase, seen, key, verdict, passed, moves, batches>>

(* Mutant: the inputs are not read again after the run. *)
ReadAfterNothing == pc = "after" /\ NextRoot

(* A root that failed does not stop the later ones; a drift does. *)
ReadAfter ==
    /\ pc = "after"
    /\ IF Inputs # plan.inputs THEN Ends("failed") ELSE NextRoot

Finish ==
    /\ pc = "finish"
    /\ IF failed THEN Ends("failed") ELSE Advances("list", "after", key)

-----------------------------------------------------------------------------
(* The world: edits and commits, the archive of the candidate, the runtime, *)
(* processes, the work, and a withdrawn exception of the roster.            *)
Moves ==
    /\ moves < MaxMoves /\ moves' = moves + 1
    /\ UNCHANGED control

Edit ==
    /\ Moves /\ UNCHANGED work
    /\ \E s \in 1..MaxSource :
         /\ (s = world.source + 1) \/ (Restores /\ s < world.source)
         /\ world' = [world EXCEPT !.source = s, !.clean = FALSE]

Commit ==
    /\ ~world.clean /\ Moves /\ UNCHANGED work
    /\ world' = [world EXCEPT !.clean = TRUE]

Pack ==
    /\ world.clean /\ world.archive # world.source /\ Moves /\ UNCHANGED work
    /\ world' = [world EXCEPT !.archive = world.source]

ChangeRuntime ==
    /\ world.env < MaxEnv /\ Moves /\ UNCHANGED work
    /\ world' = [world EXCEPT !.env = @ + 1]

StartOrStop ==
    /\ Moves /\ UNCHANGED work
    /\ world' = [world EXCEPT !.busy = ~@]

Withdraw ==
    /\ world.accepted # {} /\ Moves /\ UNCHANGED work
    /\ world' = [world EXCEPT !.accepted = {}]

DoWork ==
    /\ Moves /\ UNCHANGED world
    /\ \E t \in Task : \E s \in {"active", "done", "recorded", "blocked", "stuck"} \ {work[t].state} :
         work' = [work EXCEPT ![t] = [state |-> s, rev |-> @.rev + 1,
                                      for |-> IF s = "recorded" THEN world.archive ELSE 0]]

(* The process ends, and its receipts with it. *)
Restart ==
    /\ pc # "idle" \/ receipts # <<>>
    /\ pc' = "idle" /\ receipts' = <<>> /\ verdict' = Nothing
    /\ UNCHANGED <<world, work, phase, seen, key, plan, failed, passed, moves, batches>>

BatchInit ==
    /\ world \in [source : {1, 2}, clean : {TRUE}, archive : {1}, env : {1}, busy : {FALSE},
                  accepted : {{Order[1]}}]
    /\ work \in [Task -> {[state |-> "recorded", rev |-> 1, for |-> 1],
                          [state |-> "blocked", rev |-> 1, for |-> 0]}]
    /\ receipts = <<>> /\ pc = "idle" /\ phase = "first"
    /\ seen = Unseen /\ key = Nothing /\ plan = NoPlan /\ failed = FALSE /\ verdict = Nothing
    /\ passed = {} /\ moves = 0 /\ batches = 0

BatchNext ==
    \/ Begin \/ ListWork \/ ShowWork \/ SeeProcesses \/ SeeCandidate
    \/ QualifyFirst \/ Recheck \/ RecheckAfter
    \/ PlanRoots \/ ReadAggregate \/ ReadBefore \/ StartRoot \/ EndRoot \/ ReadAfter \/ Finish
    \/ Edit \/ Commit \/ Pack \/ ChangeRuntime \/ StartOrStop \/ Withdraw \/ DoWork
    \/ Restart

BatchSpec == BatchInit /\ [][BatchNext]_batchVars

-----------------------------------------------------------------------------
(* A completed batch is earned: every root its candidate affects has passed, *)
(* now or before, in a run that began and ended with the inputs the plan    *)
(* was made of, and those are the archived candidate's, as are the results  *)
(* of the work it was called for.                                           *)
PassIsEarned ==
    verdict = "completed" =>
        /\ plan.inputs.source = key.candidate /\ plan.inputs.clean
        /\ \A t \in Active : key.queue[t].state = "recorded" => key.queue[t].for = key.candidate
        /\ \A g \in Impact[key.candidate] :
             LET runs == SelectSeq(receipts, LAMBDA e : e.gate = g)
             IN  /\ runs # <<>>
                 /\ Last(runs).ok
                 /\ Last(runs).began = plan.inputs /\ Last(runs).ended = plan.inputs
=============================================================================
