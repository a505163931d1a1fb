------------------------------ MODULE StopPact ------------------------------
(***************************************************************************)
(* The run contract of tools/stop-pact: one file per user, made and ended   *)
(* by the commands of cli.mjs, read by the Stop hook of every session       *)
(* (hook.mjs, and codex-executor.mjs for Codex sessions), which may hold    *)
(* the session's stop.  Nothing locks the file: a hook writes the pact it   *)
(* read when it began.  A command reads and writes in one step.             *)
(***************************************************************************)
EXTENDS Naturals, Sequences, SequencesExt

CONSTANTS
    Session,
    Codex,        \* the sessions of the Codex host
    Unset,
    Ending,       \* the statuses that end a run
    Cap,          \* maxConsecutiveBlocks
    TTL,
    MaxTime, MaxUses, MaxStarts,  \* bounds
    Bindings,     \* whether a pact can name a work item
    Overlapping   \* whether a command can fall within the firing of a hook

VARIABLES
    pact,      \* the file, or Unset
    hook,      \* of each session, the firing of its hook
    uses,      \* tool uses in the transcript of each session
    streak,    \* blocks of each session since it worked, stopped or a run began
    answered,  \* what the commands answered since the run began
    time, starts

vars == <<pact, hook, uses, streak, answered, time, starts>>

Idle == [pc |-> "idle", saw |-> Unset, continuation |-> FALSE]
Active == pact # Unset /\ pact.active

NewPact(session, work) ==
    [active |-> TRUE, status |-> "running", session |-> session, work |-> work,
     expires |-> time + TTL, count |-> 0, last |-> Unset, history |-> <<"running">>]

Migrated(p, status) ==
    [p EXCEPT !.status = status, !.active = FALSE, !.history = Append(@, status)]

-----------------------------------------------------------------------------
(* The commands.                                                            *)

Commands == Overlapping \/ \A s \in Session : hook[s].pc = "idle"

StartRun(force, session, work) ==
    /\ Commands /\ starts < MaxStarts
    /\ ~Active \/ force
    /\ pact' = NewPact(session, work)
    /\ answered' = <<"running">> /\ starts' = starts + 1
    /\ streak' = [s \in Session |-> 0]
    /\ UNCHANGED <<hook, uses, time>>

Migrate(status) ==
    /\ Commands /\ Active
    /\ pact' = Migrated(pact, status)
    /\ answered' = Append(answered, status)
    /\ UNCHANGED <<hook, uses, streak, time, starts>>

-----------------------------------------------------------------------------
(* A firing of the hook.                                                    *)

Allow(s) ==
    /\ hook' = [hook EXCEPT ![s] = Idle]
    /\ streak' = [streak EXCEPT ![s] = 0]

(* Only the blocks of the decider have a valve.                             *)
Block(s, counted) ==
    /\ hook' = [hook EXCEPT ![s] = Idle]
    /\ streak' = [streak EXCEPT ![s] = IF counted THEN @ + 1 ELSE @]

Others(p, s) == p.session # Unset /\ p.session # s

(* A firing that has nothing to judge: no active pact, or a batch.          *)
PassOver(s) ==
    /\ hook[s].pc = "idle"
    /\ Allow(s)
    /\ UNCHANGED <<pact, uses, answered, time, starts>>

(* A Codex event that does not say what the session did, or not whole.      *)
Incomplete(s) == s \in Codex /\ PassOver(s)

Fire(s, continuation) ==
    /\ hook[s].pc = "idle" /\ Active
    /\ continuation => streak[s] > 0
    /\ hook' = [hook EXCEPT ![s] =
                 [pc |-> IF continuation \/ Others(pact, s) THEN "decide" ELSE "binding",
                  saw |-> pact, continuation |-> continuation]]
    /\ UNCHANGED <<pact, uses, streak, answered, time, starts>>

(* readAdvisoryVerify: whether the work item named has a command to run.    *)
FindCommand(s) ==
    /\ hook[s].pc = "binding"
    /\ \E pc \in {"decide", "verify"} :
          /\ pc = "verify" => hook[s].saw.work
          /\ hook' = [hook EXCEPT ![s].pc = pc]
    /\ UNCHANGED <<pact, uses, streak, answered, time, starts>>

(* bindingFailure: the work item named cannot be read.                      *)
Unreadable(s) ==
    /\ hook[s].pc = "binding" /\ hook[s].saw.work
    /\ Block(s, FALSE)
    /\ UNCHANGED <<pact, uses, answered, time, starts>>

RunVerification(s) ==
    /\ hook[s].pc = "verify"
    /\ Allow(s) \/ Block(s, FALSE)
    /\ UNCHANGED <<pact, uses, answered, time, starts>>

(* Of the model: one that is not known is left free.                        *)
Modes == {"enforce", "observe"}

(* workedSinceLastBlock: what is not known is no work.                      *)
Worked(s, p, known) == known /\ (p.last = Unset \/ uses[s] > p.last)

(* decide: the verdict on a firing and the pact it leaves.                  *)
Verdict(s, p, mode, known, continuation) ==
    LET worked == Worked(s, p, known)
        bound == [p EXCEPT !.session = s]
        allow(code, q) == [code |-> code, block |-> FALSE, pact |-> q]
    IN  IF Others(p, s) THEN allow("OTHER_SESSION", [p EXCEPT !.count = 0])
        ELSE IF time >= p.expires THEN allow("PACT_EXPIRED", Migrated(p, "expired"))
        ELSE IF continuation THEN allow("STOP_HOOK_ACTIVE", p)
        ELSE IF mode = "observe" THEN allow("OBSERVE_WOULD_BLOCK", bound)
        ELSE IF ~worked /\ p.count >= Cap
             THEN allow("ESCALATION_RELEASE", [bound EXCEPT !.count = 0])
        ELSE [code |-> "BLOCK_RUNNING", block |-> TRUE,
              pact |-> [bound EXCEPT !.count = IF worked THEN 1 ELSE p.count + 1,
                                     !.last = IF known THEN uses[s] ELSE @]]

(* Mutant: every verdict leaves its effects, a bystander's too.             *)
WrittenAlways(verdict, p) == verdict.pact

(* applyEffects: a firing that does not own the pact writes nothing.        *)
Written(verdict, p) == IF verdict.code = "OTHER_SESSION" THEN p ELSE verdict.pact

(* The firing ends by the verdict on the pact it read, whatever is there.   *)
Conclude(s, mode, known) ==
    /\ hook[s].pc = "decide"
    /\ LET saw == hook[s].saw
           verdict == Verdict(s, saw, mode, known, hook[s].continuation)
           next == Written(verdict, saw)
       IN  /\ pact' = IF next # saw THEN next ELSE pact
           /\ IF verdict.block THEN Block(s, TRUE) ELSE Allow(s)
    /\ UNCHANGED <<uses, answered, time, starts>>

Decide(s) ==
    /\ s \notin Codex
    /\ \E mode \in Modes, known \in BOOLEAN : Conclude(s, mode, known)

DecideCodex(s) ==
    /\ s \in Codex
    /\ \E mode \in Modes : Conclude(s, mode, TRUE)

(* The host gives up on a hook after ten seconds, and the stop proceeds.    *)
HostKills(s) ==
    /\ hook[s].pc # "idle"
    /\ Allow(s)
    /\ UNCHANGED <<pact, uses, answered, time, starts>>

Work(s) ==
    /\ hook[s].pc = "idle" /\ uses[s] < MaxUses
    /\ uses' = [uses EXCEPT ![s] = @ + 1]
    /\ streak' = [streak EXCEPT ![s] = 0]
    /\ UNCHANGED <<pact, hook, answered, time, starts>>

Tick ==
    /\ time < MaxTime
    /\ time' = time + 1
    /\ UNCHANGED <<pact, hook, uses, streak, answered, starts>>

PactInit ==
    /\ pact = Unset /\ answered = <<>> /\ time = 0 /\ starts = 0
    /\ hook = [s \in Session |-> Idle]
    /\ uses = [s \in Session |-> 0] /\ streak = [s \in Session |-> 0]

PactNext ==
    \/ \E force \in BOOLEAN, session \in Session \cup {Unset}, work \in Bindings :
         StartRun(force, session, work)
    \/ \E status \in Ending : Migrate(status)
    \/ \E s \in Session :
         \/ PassOver(s) \/ Incomplete(s)
         \/ FindCommand(s) \/ Unreadable(s) \/ RunVerification(s)
         \/ Decide(s) \/ DecideCodex(s) \/ HostKills(s) \/ Work(s)
         \/ \E continuation \in BOOLEAN : Fire(s, continuation)
    \/ Tick

PactSpec == PactInit /\ [][PactNext]_vars

-----------------------------------------------------------------------------
(* No run traps a session: the decider lets it stop after Cap blocks in a   *)
(* row, at most twice as many when its transcript becomes readable in       *)
(* between (README.md, "Never trap a session").  And a run the commands     *)
(* answered for is as they answered: ended once it is ended, and with each  *)
(* answer in its history, but for an expiry at its end (pact.mjs:69-72).    *)
PactReleases ==
    /\ \A s \in Session : streak[s] <= 2 * Cap
    /\ answered # <<>> =>
         /\ pact.active => Last(answered) = "running"
         /\ pact.history \in {answered, Append(answered, "expired")}
=============================================================================
