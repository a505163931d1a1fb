-------------------------- MODULE InjectionSession --------------------------
(***************************************************************************)
(* The delivery ledger of knowledge injection: runSessionInjection          *)
(* (scripts/knowledge-inject.mjs), the document and the lock it keeps       *)
(* (scripts/injection-session.mjs) and the hook that runs it in a child     *)
(* process and acknowledges what it parsed                                  *)
(* (scripts/knowledge-inject-hook.mjs).                                     *)
(*                                                                         *)
(* The lock is a file created exclusively.  Its holder reads the document   *)
(* of all sessions, works for seconds on its copy, replaces the file and    *)
(* unlinks the lock, whatever file has that name by then.  A waiting        *)
(* process gives up after 10 s and unlinks a lock older than 60 s, which it *)
(* judges before it unlinks.  The hook kills a child after 25 s, so that    *)
(* only the lock of a killed process gets that old, and no process that     *)
(* was waiting when the child was killed is still waiting then.             *)
(*                                                                         *)
(* A card is what recall finds, of one byte.  The work frame (L0), which is *)
(* sent again on purpose, the judge and the translator are left out.        *)
(***************************************************************************)
EXTENDS Naturals, FiniteSets, FiniteSetsExt

CONSTANTS
    Hook,        \* the hooks that run at a time
    Session,
    Card,
    Mode,        \* "pending" is the delivery the hook asks for, "immediate" the default
    Budget,      \* injection.budgetBytes
    MaxPrompts,  \* bound on the hooks started
    MaxFaults,   \* bound on the kills and the outputs lost
    Parallel,    \* may two hooks of a session overlap?
    Contended    \* may two processes wait for a lock that got old?

VARIABLES
    document,  \* state.json: what each session was offered and has received
    lock,      \* state.lock: "free", its live holder, or "dead", "old" of a killed one
    hook,      \* what each hook is doing
    given,     \* how often the host received each card in each session
    prompts,
    faults

vars == <<document, lock, hook, given, prompts, faults>>

NoEntry == [emitted |-> {}, pending |-> {}, l1Bytes |-> 0]
Resting == [pc |-> "idle", act |-> "", session |-> "", mode |-> "", found |-> {},
            retry |-> FALSE, copy |-> <<>>, offered |-> {}]

Waiting(h) == hook[h].pc \in {"lock", "judged"}
Goes(h, pc) == hook' = [hook EXCEPT ![h].pc = pc]
Ends(h) == hook' = [hook EXCEPT ![h] = Resting]

(* runInject: one retry, for what RETRYABLE_INJECTION_REASONS names. *)
Retries(h) ==
    IF hook[h].retry \/ hook[h].mode = "immediate" THEN Ends(h)
    ELSE hook' = [hook EXCEPT ![h].pc = "lock", ![h].act = "generate", ![h].retry = TRUE,
                              ![h].copy = <<>>, ![h].offered = {}]

Receives(h) ==
    given' = [given EXCEPT ![hook[h].session] =
                  [c \in Card |-> @[c] + IF c \in hook[h].offered THEN 1 ELSE 0]]

-----------------------------------------------------------------------------
(* The host fires a hook; recall finds the same cards for a prompt. *)
Prompt(h, s, mode, found) ==
    /\ hook[h] = Resting /\ prompts < MaxPrompts
    /\ Parallel \/ \A g \in Hook : hook[g].session # s
    /\ prompts' = prompts + 1
    /\ hook' = [hook EXCEPT ![h] = [Resting EXCEPT !.pc = "lock", !.act = "generate",
                                    !.session = s, !.mode = mode, !.found = found]]
    /\ UNCHANGED <<document, lock, given, faults>>

(* tryAcquireLock and readDocument. *)
Acquire(h) ==
    /\ hook[h].pc = "lock" /\ lock = "free"
    /\ lock' = h
    /\ hook' = [hook EXCEPT ![h].pc = "hold", ![h].copy = document]
    /\ UNCHANGED <<document, given, prompts, faults>>

(* The lock of a killed process is 60 s old. *)
GrowsOld ==
    /\ lock = "dead" /\ \A h \in Hook : ~Waiting(h)
    /\ lock' = "old"
    /\ UNCHANGED <<document, hook, given, prompts, faults>>

(* statSync: the lock is old. *)
JudgeOld(h) ==
    /\ hook[h].pc = "lock" /\ lock = "old"
    /\ Contended \/ \A g \in Hook \ {h} : ~Waiting(g)
    /\ Goes(h, "judged")
    /\ UNCHANGED <<document, lock, given, prompts, faults>>

(* unlinkSync: whatever has that name now. *)
BreakLock(h) ==
    /\ hook[h].pc = "judged"
    /\ lock' = "free" /\ Goes(h, "lock")
    /\ UNCHANGED <<document, given, prompts, faults>>

(* INJECTION_SESSION_LOCK_TIMEOUT: of a child it ends the hook, and of an   *)
(* acknowledgement it is INJECT_DELIVERY_ACK_FAILED, which is retried.      *)
LockTimesOut(h) ==
    /\ hook[h].pc = "lock" /\ lock \notin {"free", "old"}
    /\ IF hook[h].act = "ack" THEN Retries(h) ELSE Ends(h)
    /\ UNCHANGED <<document, lock, given, prompts, faults>>

(* Mutant: a repeated attempt looks at nothing that was delivered. *)
DedupeByPendingOnly(h) == IF hook[h].retry THEN {} ELSE hook[h].copy[hook[h].session].pending

(* deduplicateCandidates of runSessionInjection. *)
Dedupe(h) ==
    LET entry == hook[h].copy[hook[h].session]
    IN  entry.emitted \cup IF hook[h].retry THEN {} ELSE entry.pending

(* buildBoundedCandidateContext: as many as the allowance lets through. *)
Fresh(h) ==
    LET allowance == Budget - hook[h].copy[hook[h].session].l1Bytes
        fresh == hook[h].found \ Dedupe(h)
    IN  IF allowance <= 0 THEN {{}} ELSE kSubset(Min({allowance, Cardinality(fresh)}), fresh)

(* Only an immediate delivery is accounted for. *)
Entered(entry, mode, ids) ==
    IF mode = "pending"
      THEN [entry EXCEPT !.pending = @ \cup (ids \ entry.emitted)]
      ELSE [entry EXCEPT !.emitted = @ \cup ids, !.pending = @ \ ids,
                         !.l1Bytes = @ + Cardinality(ids)]

(* runSessionInjection: the copy of the document replaces the file. *)
Generate(h) ==
    /\ hook[h].pc = "hold" /\ hook[h].act = "generate"
    /\ \E ids \in Fresh(h) :
         /\ document' = [hook[h].copy EXCEPT
                ![hook[h].session] = Entered(@, hook[h].mode, ids)]
         /\ hook' = [hook EXCEPT ![h].pc = "written", ![h].offered = ids]
    /\ UNCHANGED <<lock, given, prompts, faults>>

(* acknowledgeInjection. *)
Acknowledged(entry, ids) ==
    [entry EXCEPT !.emitted = @ \cup (ids \cap entry.pending), !.pending = @ \ ids]

Acknowledge(h) ==
    /\ hook[h].pc = "hold" /\ hook[h].act = "ack"
    /\ document' = [hook[h].copy EXCEPT
            ![hook[h].session] = Acknowledged(@, hook[h].offered)]
    /\ Goes(h, "written")
    /\ UNCHANGED <<lock, given, prompts, faults>>

(* release, and the output or the return that follows it. *)
Release(h) ==
    /\ hook[h].pc = "written"
    /\ lock' = "free"
    /\ IF hook[h].act = "ack"
         THEN Receives(h) /\ Ends(h)
         ELSE Goes(h, "answered") /\ UNCHANGED given
    /\ UNCHANGED <<document, prompts, faults>>

(* runInjectAttempt parsed the answer: what is pending is acknowledged      *)
(* before the host gets it.                                                 *)
Parse(h) ==
    /\ hook[h].pc = "answered"
    /\ IF hook[h].mode = "immediate" \/ hook[h].offered = {}
         THEN Receives(h) /\ Ends(h)
         ELSE /\ hook' = [hook EXCEPT ![h].pc = "lock", ![h].act = "ack"]
              /\ UNCHANGED given
    /\ UNCHANGED <<document, lock, prompts, faults>>

(* The 25 s of a child are over, or its output is truncated; or the host    *)
(* ends the hook itself.                                                    *)
Fault(h) ==
    /\ hook[h] # Resting /\ faults < MaxFaults
    /\ faults' = faults + 1
    /\ lock' = IF lock = h THEN "dead" ELSE lock
    /\ IF hook[h].act = "ack" THEN Ends(h) ELSE Retries(h)
    /\ UNCHANGED <<document, given, prompts>>

InjectInit ==
    /\ document = [s \in Session |-> NoEntry]
    /\ lock = "free"
    /\ hook = [h \in Hook |-> Resting]
    /\ given = [s \in Session |-> [c \in Card |-> 0]]
    /\ prompts = 0 /\ faults = 0

InjectNext ==
    \/ GrowsOld
    \/ \E h \in Hook :
         \/ \E s \in Session, mode \in Mode, found \in SUBSET Card \ {{}} :
              Prompt(h, s, mode, found)
         \/ Acquire(h) \/ JudgeOld(h) \/ BreakLock(h) \/ LockTimesOut(h)
         \/ Generate(h) \/ Acknowledge(h) \/ Release(h) \/ Parse(h) \/ Fault(h)

InjectSpec == InjectInit /\ [][InjectNext]_vars

-----------------------------------------------------------------------------
(* The ledger is true: what the host received is recorded as received, and  *)
(* it received nothing twice.  The document is rewritten whole by every     *)
(* session's hooks from copies they read seconds before, and a retry offers *)
(* again what the ledger says is pending.                                   *)
LedgerIsTrue ==
    \A s \in Session, c \in Card : given[s][c] > 0 =>
        c \in document[s].emitted /\ given[s][c] = 1

(* tests/injection-session.test.mjs:251: "a sixty-prompt session stays      *)
(* under the cumulative budget".                                            *)
WithinBudget ==
    \A s \in Session : MapThenSumSet(LAMBDA c : given[s][c], Card) <= Budget
=============================================================================
