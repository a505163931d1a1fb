----------------------------- MODULE CommandLine -----------------------------
(***************************************************************************)
(* The command line (packages/cli/src/index.ts): what one invocation does, *)
(* in which order, and what it answers.                                    *)
(*                                                                         *)
(* A governed verb asks the receipt store whether it could take a receipt, *)
(* takes the workspace lease, reads the head, resolves the expected        *)
(* version, appends, brings the knowledge store up to the new head, gives  *)
(* the lease back, writes its time receipt and answers.  The knowledge     *)
(* verbs take no lease; each knows the store by the version it was given   *)
(* and works under the claim of the store.  `told' is the answer of the    *)
(* last command of a process: "completed", the reason of its refusal, or   *)
(* nothing when it was killed.                                             *)
(*                                                                         *)
(* Abstracted: the records the verbs write (WorkModel, WorkspaceSettings,  *)
(* ExecutionConfig), so a verb is refused here by the version alone; how   *)
(* the lease is taken over (WorkspaceLease) and the append is done         *)
(* (MutationCommit), the content of the knowledge store (KnowledgeStore)   *)
(* and of the receipts (AttestationStore); the parsing of arguments, but   *)
(* for the two spellings of the expected version.                          *)
(***************************************************************************)
EXTENDS Naturals, Sequences, FiniteSets

CONSTANTS
  Process,
  Verb,        \* bound: the verbs that are called, of those Arm knows
  MaxCalls,    \* bound on the commands
  MaxEvents,   \* bound on the length of the chain
  MaxFaults,   \* bound on kills and on damage to the receipt store
  Overlapping, \* whether knowledge-init may run beside a governed verb
  None

VARIABLES
  chain,    \* for every event the number of the command that appended it
  residue,  \* a killed append has left a file that no reader accepts
  views,    \* the version the views show
  healthy,  \* the receipt store is consistent and can be written
  receipts, \* the events that have a time receipt
  marker,   \* the knowledge store: the head it is bound to and its version
  claim,    \* who works on the knowledge store
  broken,   \* a live card of the store links work that has been deleted
  lease,    \* who holds the workspace lease; None also when it is stale
  cmd, told, calls, faults

clVars == <<chain, residue, views, healthy, receipts, marker, claim, broken,
            lease, cmd, told, calls, faults>>

-----------------------------------------------------------------------------
(* The arms of the dispatcher: whether the verb takes the lease, how many    *)
(* events it appends, whether it can be asked for a receipt and whether its  *)
(* answer says that the views are behind.                                    *)

Governed(adds, notes) ==
  [leased |-> TRUE, adds |-> adds, attests |-> TRUE, notes |-> notes]
Leased == [leased |-> TRUE, adds |-> 0, attests |-> FALSE, notes |-> FALSE]
Unleased == [leased |-> FALSE, adds |-> 0, attests |-> FALSE, notes |-> FALSE]

ProjectArm == Governed(1, TRUE)
WorkArm == Governed(1, TRUE)
WorkDeleteArm == Governed(1, TRUE)
BatchArm == Governed(2, TRUE)
ConferenceArm == Governed(1, TRUE)
CloseArm == Governed(1, TRUE)
DistillArm == Governed(1, FALSE)
GateArm == Governed(1, TRUE)
SettingsArm == Governed(1, FALSE)
TemplateArm == Governed(1, FALSE)
DispatchArm == Governed(1, TRUE)
RecoverArm == [Leased EXCEPT !.notes = TRUE]
ArtifactArm == Leased
SnapshotArm == Leased
KnowledgeArm == Unleased
ReadArm == Unleased

Arm(verb) ==
  CASE verb = "project" -> ProjectArm
    [] verb = "work" -> WorkArm
    [] verb = "delete" -> WorkDeleteArm
    [] verb = "batch" -> BatchArm
    [] verb = "conference" -> ConferenceArm
    [] verb = "close" -> CloseArm
    [] verb = "distill" -> DistillArm
    [] verb = "gate" -> GateArm
    [] verb = "settings" -> SettingsArm
    [] verb = "template" -> TemplateArm
    [] verb = "dispatch" -> DispatchArm
    [] verb = "recover" -> RecoverArm
    [] verb = "artifact" -> ArtifactArm
    [] verb = "snapshot" -> SnapshotArm
    [] verb \in {"capture", "rebase", "init", "unclaim"} -> KnowledgeArm
    [] verb \in {"validated", "materialized"} -> ReadArm

-----------------------------------------------------------------------------
Top == Len(chain)
HasStore == marker # None
Idle == [pc |-> "idle"]
At(p, pc) == cmd[p].pc = pc

(* The command goes on at pc. *)
Go(p, pc) == cmd' = [cmd EXCEPT ![p].pc = pc]

(* The command c of p has ended with this answer. *)
Told(p, c, reason) ==
  /\ told' = [told EXCEPT ![p] =
       [id |-> c.id, verb |-> c.verb, attest |-> c.attest, given |-> c.given,
        reason |-> reason, behind |-> c.behind]]
  /\ cmd' = [cmd EXCEPT ![p] = Idle]

Answer(p, reason) == Told(p, cmd[p], reason)

(* What a refusal under the lease does: the lease is given back first. *)
Refused(p, reason) == cmd' = [cmd EXCEPT ![p].pc = "release", ![p].error = reason]

(* The spellings of an expected version: the number the caller has read, or   *)
(* the literal "head", here None.                                             *)
Spellings(verb) == IF Arm(verb).adds > 0 THEN {Top, None} ELSE {None}

(* The versions of the knowledge store a caller may know; the automatic       *)
(* verbs have none.                                                           *)
StoreVersions == IF HasStore THEN {marker.version} ELSE {0}

(* The arguments have been read and the receipt store is asked before the     *)
(* lease, so that what would refuse the receipt refuses the command.          *)
Call(p, verb, given, attest) ==
  LET c == [pc |-> IF Arm(verb).leased THEN "lease" ELSE verb,
            verb |-> verb, id |-> calls + 1, given |-> given, attest |-> attest,
            before |-> None, basis |-> None, expected |-> 0, at |-> 0,
            behind |-> FALSE, error |-> None]
  IN
  /\ attest => Arm(verb).attests
  /\ calls' = calls + 1
  /\ IF attest /\ ~healthy THEN Told(p, c, "ATTESTATION_STORE_INCONSISTENT")
     ELSE cmd' = [cmd EXCEPT ![p] = c] /\ told' = [told EXCEPT ![p] = None]
  /\ UNCHANGED <<chain, residue, views, healthy, receipts, marker, claim, broken,
                 lease, faults>>

(* withLease acquires; a lease another command holds refuses this one. *)
TakeLease(p) ==
  /\ At(p, "lease")
  /\ IF lease = None
     THEN lease' = p /\ Go(p, "before") /\ UNCHANGED told
     ELSE Answer(p, "WORKSPACE_LOCKED") /\ UNCHANGED lease
  /\ UNCHANGED <<chain, residue, views, healthy, receipts, marker, claim, broken,
                 calls, faults>>

(* The head before the operation; a workspace that cannot be read has none,   *)
(* which is not an error of this read.                                        *)
ReadBefore(p) ==
  /\ At(p, "before")
  /\ cmd' = [cmd EXCEPT ![p].before = IF residue THEN None ELSE Top,
                        ![p].pc = IF cmd[p].verb = "distill" THEN "basis"
                                  ELSE IF Arm(cmd[p].verb).adds > 0 THEN "resolve"
                                  ELSE cmd[p].verb]
  /\ UNCHANGED <<chain, residue, views, healthy, receipts, marker, claim, broken,
                 lease, told, calls, faults>>

(* A strict read of the knowledge store: no claim, bound to the head, every   *)
(* link of a live card alive.                                                 *)
Strict == HasStore /\ claim = None /\ marker.head = Top /\ ~broken /\ ~residue

(* conference-close --distill reads the store before it appends.              *)
ReadBasis(p) ==
  /\ At(p, "basis")
  /\ IF Strict
     THEN cmd' = [cmd EXCEPT ![p].basis = marker.version, ![p].pc = "resolve"]
     ELSE Refused(p, "KNOWLEDGE_REFUSED_BEFORE")
  /\ UNCHANGED <<chain, residue, views, healthy, receipts, marker, claim, broken,
                 lease, told, calls, faults>>

(* The expected version: "head" is the version of the workspace as it is read *)
(* under the lease.                                                           *)
Resolved(p) == IF cmd[p].given = None THEN Top ELSE cmd[p].given

Resolve(p) ==
  /\ At(p, "resolve")
  /\ IF residue
     THEN Refused(p, "WORKSPACE_UNREADABLE")
     ELSE cmd' = [cmd EXCEPT ![p].expected = Resolved(p), ![p].pc = "append"]
  /\ UNCHANGED <<chain, residue, views, healthy, receipts, marker, claim, broken,
                 lease, told, calls, faults>>

(* The append of a verb: its events, one for each member of a batch, and then *)
(* the views, whose failure (shown) leaves the events committed.              *)
AppendEvents(p, shown) ==
  LET n == Arm(cmd[p].verb).adds IN
  /\ At(p, "append")
  /\ Top + n <= MaxEvents
  /\ IF residue \/ cmd[p].expected # Top
     THEN /\ Refused(p, IF residue THEN "WORKSPACE_UNREADABLE"
                        ELSE "WORKSPACE_VERSION_CONFLICT")
          /\ UNCHANGED <<chain, views, broken>>
     ELSE /\ chain' = chain \o [i \in 1..n |-> cmd[p].id]
          /\ views' = IF shown THEN Top + n ELSE views
          /\ broken' = (broken \/ (cmd[p].verb = "delete" /\ HasStore))
          /\ cmd' = [cmd EXCEPT ![p].at = Top + n, ![p].behind = ~shown,
               ![p].pc = IF cmd[p].verb = "distill" THEN "distill" ELSE "bound"]
  /\ UNCHANGED <<residue, healthy, receipts, marker, claim, lease, told, calls,
                 faults>>

(* The store is bound to the head, under its claim, from a known version; a   *)
(* card whose work is gone holds the rebase up unless the caller retires it.  *)
Rebases(p, retire) ==
  claim = None /\ marker.version = cmd[p].basis /\ (retire \/ ~broken) /\ ~residue

(* The rebase after a close, and one card for the decision of its minutes.    *)
Distill(p, captured) ==
  /\ At(p, "distill")
  /\ IF Rebases(p, FALSE)
     THEN /\ marker' = [head |-> Top,
                        version |-> marker.version + IF captured THEN 2 ELSE 1]
          /\ IF captured THEN Go(p, "bound") ELSE Refused(p, "KNOWLEDGE_REFUSED")
     ELSE Refused(p, "KNOWLEDGE_REFUSED") /\ UNCHANGED marker
  /\ UNCHANGED <<chain, residue, views, healthy, receipts, claim, broken, lease,
                 told, calls, faults>>

(* Mutant: the rebase is left to the next writer when the store is behind.    *)
NeedsRebaseFromBefore(p) ==
  /\ cmd[p].before # None
  /\ cmd[p].before # Top
  /\ HasStore
  /\ marker.head = cmd[p].before

(* The automatic rebase: when the command has moved the head and there is a   *)
(* store that is not at it.                                                   *)
NeedsRebase(p) ==
  /\ cmd[p].before # None
  /\ cmd[p].before # Top
  /\ HasStore
  /\ marker.head # Top

(* autoRebaseKnowledgeAfterWorkspaceWrite, up to its read of the version. *)
ReadMarker(p) ==
  /\ At(p, "bound")
  /\ IF ~NeedsRebase(p) THEN Go(p, "release")
     ELSE IF claim = None /\ ~broken /\ ~residue
     THEN cmd' = [cmd EXCEPT ![p].basis = marker.version, ![p].pc = "autorebase"]
     ELSE Refused(p, "KNOWLEDGE_REFUSED")
  /\ UNCHANGED <<chain, residue, views, healthy, receipts, marker, claim, broken,
                 lease, told, calls, faults>>

AutoRebase(p) ==
  /\ At(p, "autorebase")
  /\ IF Rebases(p, FALSE)
     THEN marker' = [head |-> Top, version |-> marker.version + 1] /\ Go(p, "release")
     ELSE Refused(p, "KNOWLEDGE_REFUSED") /\ UNCHANGED marker
  /\ UNCHANGED <<chain, residue, views, healthy, receipts, claim, broken, lease,
                 told, calls, faults>>

(* recover sweeps what a killed append has left and writes the views. *)
Recover(p, shown) ==
  /\ At(p, "recover")
  /\ residue' = FALSE
  /\ views' = IF shown THEN Top ELSE views
  /\ cmd' = [cmd EXCEPT ![p].behind = ~shown, ![p].pc = "bound"]
  /\ UNCHANGED <<chain, healthy, receipts, marker, claim, broken, lease, told,
                 calls, faults>>

(* artifact-put and snapshot-manifest use the lease as their quiet moment. *)
WorkQuietly(p) ==
  /\ cmd[p].pc \in {"artifact", "snapshot"}
  /\ IF residue THEN Refused(p, "WORKSPACE_UNREADABLE") ELSE Go(p, "release")
  /\ UNCHANGED <<chain, residue, views, healthy, receipts, marker, claim, broken,
                 lease, told, calls, faults>>

(* The finally of withLease; what was thrown is thrown on. *)
Release(p) ==
  /\ At(p, "release")
  /\ lease' = None
  /\ IF cmd[p].error # None THEN Answer(p, cmd[p].error)
     ELSE IF cmd[p].attest THEN Go(p, "attest") /\ UNCHANGED told
     ELSE Answer(p, "completed")
  /\ UNCHANGED <<chain, residue, views, healthy, receipts, marker, claim, broken,
                 calls, faults>>

(* The event a receipt is named by: the head the command has committed. *)
Receipted(p) == cmd[p].at

(* emitTimeAttestation, outside the lease. *)
Attest(p) ==
  /\ At(p, "attest")
  /\ IF healthy
     THEN receipts' = receipts \cup {Receipted(p)} /\ Answer(p, "completed")
     ELSE Answer(p, "ATTESTATION_RECEIPT_UNWRITTEN") /\ UNCHANGED receipts
  /\ UNCHANGED <<chain, residue, views, healthy, marker, claim, broken, lease,
                 calls, faults>>

-----------------------------------------------------------------------------
(* The verbs without a lease.                                              *)

(* A read that verifies the views, or one that asks the events alone. *)
Read(p) ==
  /\ cmd[p].pc \in {"validated", "materialized"}
  /\ Answer(p, IF residue THEN "WORKSPACE_UNREADABLE"
               ELSE IF cmd[p].verb = "validated" /\ views # Top THEN "WORKSPACE_VIEW_STALE"
               ELSE "completed")
  /\ UNCHANGED <<chain, residue, views, healthy, receipts, marker, claim, broken,
                 lease, calls, faults>>

(* knowledge-init reads the head and writes the marker later. *)
ReadForInit(p) ==
  /\ At(p, "init")
  /\ Overlapping \/ lease = None
  /\ IF residue \/ Top = 0 \/ HasStore
     THEN Answer(p, "KNOWLEDGE_REFUSED") /\ UNCHANGED marker
     ELSE IF Overlapping
     THEN cmd' = [cmd EXCEPT ![p].basis = Top, ![p].pc = "marker"] /\ UNCHANGED <<told, marker>>
     ELSE marker' = [head |-> Top, version |-> 0] /\ Answer(p, "completed")
  /\ UNCHANGED <<chain, residue, views, healthy, receipts, claim, broken, lease,
                 calls, faults>>

WriteMarker(p) ==
  /\ At(p, "marker")
  /\ IF HasStore THEN Answer(p, "KNOWLEDGE_REFUSED") /\ UNCHANGED marker
     ELSE /\ marker' = [head |-> cmd[p].basis, version |-> 0]
          /\ Answer(p, IF cmd[p].basis = Top THEN "completed" ELSE "KNOWLEDGE_REFUSED")
  /\ UNCHANGED <<chain, residue, views, healthy, receipts, claim, broken, lease,
                 calls, faults>>

(* A card is written, or the store rebased with what blocks it retired: the   *)
(* claim is taken after a first look and the version judged under it.         *)
TakeClaim(p) ==
  /\ cmd[p].pc \in {"capture", "rebase"}
  /\ IF IF cmd[p].verb = "capture" THEN Strict ELSE HasStore /\ claim = None /\ ~residue
     THEN /\ claim' = p
          /\ cmd' = [cmd EXCEPT ![p].basis = Top, ![p].pc = "claimed"]
          /\ UNCHANGED told
     ELSE Answer(p, "KNOWLEDGE_REFUSED") /\ UNCHANGED claim
  /\ UNCHANGED <<chain, residue, views, healthy, receipts, marker, broken, lease,
                 calls, faults>>

WriteStore(p) ==
  LET rebase == cmd[p].verb = "rebase"
      judged == /\ ~residue
                /\ cmd[p].given = marker.version
                /\ rebase \/ (marker.head = Top /\ ~broken)
  IN
  /\ At(p, "claimed")
  /\ claim' = None
  /\ marker' = IF judged
               THEN [head |-> IF rebase THEN cmd[p].basis ELSE marker.head,
                     version |-> marker.version + 1]
               ELSE marker
  /\ broken' = (broken /\ ~(judged /\ rebase))
  /\ Answer(p, IF judged THEN "completed" ELSE "KNOWLEDGE_REFUSED")
  /\ UNCHANGED <<chain, residue, views, healthy, receipts, lease, calls, faults>>

(* knowledge-recover removes the claim of a process that is gone, once the    *)
(* store is bound to the head.                                                *)
Unclaim(p) ==
  /\ At(p, "unclaim")
  /\ LET served == claim = "left" /\ marker.head = Top /\ ~residue /\ ~broken IN
     /\ claim' = IF served THEN None ELSE claim
     /\ Answer(p, IF served THEN "completed" ELSE "KNOWLEDGE_REFUSED")
  /\ UNCHANGED <<chain, residue, views, healthy, receipts, marker, broken, lease,
                 calls, faults>>

-----------------------------------------------------------------------------
(* A kill leaves the claim, a lease that the next command takes over, and in  *)
(* an append perhaps the events and perhaps a file nobody reads past.         *)
Kill(p) ==
  /\ faults < MaxFaults
  /\ faults' = faults + 1
  /\ ~At(p, "idle")
  /\ cmd' = [cmd EXCEPT ![p] = Idle]
  /\ lease' = IF lease = p THEN None ELSE lease
  /\ claim' = IF claim = p THEN "left" ELSE claim
  /\ \E left \in {residue} \cup (IF At(p, "append") THEN {TRUE} ELSE {}) :
       residue' = left
  /\ UNCHANGED <<chain, views, healthy, receipts, marker, broken, told, calls>>

(* The receipt store is damaged, or repaired (AttestationStore). *)
Damage ==
  /\ healthy
  /\ faults < MaxFaults
  /\ faults' = faults + 1
  /\ healthy' = FALSE
  /\ UNCHANGED <<chain, residue, views, receipts, marker, claim, broken, lease, cmd,
                 told, calls>>

Repair ==
  /\ ~healthy
  /\ healthy' = TRUE
  /\ UNCHANGED <<chain, residue, views, receipts, marker, claim, broken, lease, cmd,
                 told, calls, faults>>

(* A workspace with or without a knowledge store; the store is bound to the   *)
(* head, or behind it since the last command deleted work that it links; the  *)
(* views are current or behind; an append may have been killed.               *)
LineInit ==
  /\ chain = <<0, 0>>
  /\ residue \in BOOLEAN
  /\ views \in IF residue THEN {2} ELSE {1, 2}
  /\ healthy = TRUE
  /\ receipts = {}
  /\ marker \in {None} \cup [head : {1, 2}, version : {0}]
  /\ broken = (HasStore /\ marker.head = 1)
  /\ claim = None
  /\ lease = None
  /\ cmd = [p \in Process |-> Idle]
  /\ told = [p \in Process |-> None]
  /\ calls = 0
  /\ faults = 0

(* A knowledge verb is given the version of the store instead. *)
Calls(p) ==
  /\ At(p, "idle") /\ calls < MaxCalls
  /\ \E verb \in Verb, attest \in BOOLEAN :
     \E given \in IF verb \in {"capture", "rebase"} THEN StoreVersions ELSE Spellings(verb) :
        Call(p, verb, given, attest)

Governs(p) ==
  \/ TakeLease(p) \/ ReadBefore(p) \/ ReadBasis(p) \/ Resolve(p)
  \/ \E shown \in BOOLEAN : AppendEvents(p, shown) \/ Recover(p, shown)
  \/ \E captured \in BOOLEAN : Distill(p, captured)
  \/ ReadMarker(p) \/ AutoRebase(p) \/ WorkQuietly(p)
  \/ Release(p) \/ Attest(p)

Keeps(p) ==
  \/ Read(p) \/ ReadForInit(p) \/ WriteMarker(p) \/ TakeClaim(p) \/ WriteStore(p)
  \/ Unclaim(p)

LineNext ==
  \/ \E p \in Process : Calls(p) \/ Governs(p) \/ Keeps(p) \/ Kill(p)
  \/ Damage
  \/ Repair

LineSpec == LineInit /\ [][LineNext]_clVars

-----------------------------------------------------------------------------
(* attestation-verify: the writes without a receipt, from the first that has  *)
(* one.  A batch carries the receipt of its last event, and the events of one *)
(* instant, here of one command, are covered by it.                           *)
Uncovered ==
  {e \in 1..Top :
     /\ \E r \in receipts : r <= e
     /\ ~\E r \in receipts : r >= e /\ chain[r] = chain[e]}

EventsOf(id) == {e \in 1..Top : chain[e] = id}

Before ==
  {"WORKSPACE_LOCKED", "ATTESTATION_STORE_INCONSISTENT", "WORKSPACE_VERSION_CONFLICT",
   "WORKSPACE_UNREADABLE", "KNOWLEDGE_REFUSED_BEFORE"}

(* What a governed verb answers is what it has done, whatever ran beside it:  *)
(* a refusal of the lease, the version, the receipt store or the first look   *)
(* at the knowledge store has appended nothing, "head" is never refused for   *)
(* its version, a completed command has all of its events and its receipt,    *)
(* has left no knowledge store behind its events and the views only where it  *)
(* says so, and a receipt that is reported missing is one of a command that   *)
(* landed.                                                                    *)
AnswersAreTrue ==
  \A p \in Process : told[p] # None /\ Arm(told[p].verb).adds > 0 =>
    LET t == told[p]
        events == EventsOf(t.id)
    IN
    /\ t.reason \in Before => events = {}
    /\ ~(t.reason = "WORKSPACE_VERSION_CONFLICT" /\ t.given = None)
    /\ t.reason = "ATTESTATION_RECEIPT_UNWRITTEN" => events # {} /\ events \cap receipts = {}
    /\ t.reason = "completed" =>
         /\ Cardinality(events) = Arm(t.verb).adds
         /\ t.attest => events \cap receipts # {} /\ events \cap Uncovered = {}
         /\ HasStore => \A e \in events : marker.head >= e
         /\ Arm(t.verb).notes /\ ~t.behind => \A e \in events : views >= e

(* Whatever fails after the commit of a command that was asked for a receipt  *)
(* says that the write has landed (specs/time-attestation-v1.md:239-248).     *)
LandedWriteSaysSo ==
  \A p \in Process : told[p] # None /\ told[p].attest =>
    (EventsOf(told[p].id) # {} /\ EventsOf(told[p].id) \cap receipts = {}
       => told[p].reason = "ATTESTATION_RECEIPT_UNWRITTEN")
=============================================================================
