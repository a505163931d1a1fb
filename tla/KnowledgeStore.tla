---------------------------- MODULE KnowledgeStore ----------------------------
(***************************************************************************)
(* The knowledge store (packages/core/src/knowledge-core.ts): a directory   *)
(* of cards derived beside the workspace.  A card is a metadata file and a  *)
(* body file; store.json (the marker) binds the whole to one head of the    *)
(* event chain and carries the version every verb compares; views/ holds    *)
(* an index rebuilt from the metadata.                                     *)
(*                                                                         *)
(* The knowledge verbs take no workspace lease.  Each scans the store,      *)
(* creates mutation.claim, scans again, writes its files one at a time,     *)
(* removes the claim, and scans a last time before it reports.  Workspace   *)
(* commands run under the lease and rebase the store after their event.    *)
(*                                                                         *)
(* One scan is one step.  Heads are numbered; a card is linked to work that *)
(* a later event may delete.  Texts, owners, digests and budgets are left   *)
(* out: `last` stands for what a revision says, `text` for the body bytes. *)
(***************************************************************************)
EXTENDS Naturals

CONSTANTS
    Process,
    NoProcess,
    Card,              \* the identifiers, derived from the external keys
    MaxVersion,        \* bound: no mutation starts at this version
    MaxHead,           \* bound on the workspace's events
    MaxFaults,         \* bound on kills and failed writes
    OverlapRecovery    \* two operators may recover at once

ASSUME KnowledgeAssumption ==
    /\ NoProcess \notin Process
    /\ Card \subseteq Nat \ {0}
    /\ {MaxVersion, MaxHead, MaxFaults} \subseteq Nat
    /\ OverlapRecovery \in BOOLEAN

VARIABLES
    head,      \* the head of the event chain
    gone,      \* the work that cards are linked to is deleted
    marker,    \* store.json
    meta,      \* metadata/: a function on the cards that have a file
    body,      \* bodies/
    view,      \* views/index.json
    claim,     \* mutation.claim: the process named in it
    litter,    \* the leftovers a scan refuses: a .tmp- file, a released- file
    article,   \* the article files that exist
    lease,     \* the command that holds the workspace lease
    proc,      \* the commands in flight
    faults,    \* kills so far, and failed writes
    named      \* history: the highest version a reader could list, and its cards

store == <<marker, meta, body, view, litter>>
vars  == <<head, gone, store, claim, article, lease, proc, faults, named>>

BatchVerbs == {"promote", "reject", "retire", "reverify", "policy"}
(* A new card: active, or linked to work, or a candidate with or without the *)
(* source and evidence that a promotion asks for, or the index of an article. *)
Shapes == {"plain", "linked", "candidate", "uncited", "article"}

KnowledgeIndex(m, cards) == [marker |-> m, cards |-> cards]

Nothing == [c \in {} |-> 0]
With(f, c, x) == [d \in DOMAIN f \cup {c} |-> IF d = c THEN x ELSE f[d]]
Idle == [at |-> "idle", verb |-> "none", card |-> 0, over |-> 0, shape |-> "plain",
         expected |-> 0, seen |-> Nothing, bound |-> 0, ok |-> FALSE, owner |-> NoProcess,
         members |-> 0, todo |-> {},
         plan |-> [marker |-> [head |-> 0, version |-> 0], meta |-> Nothing]]

Live(cards) == {c \in DOMAIN cards : cards[c].life # "retired"}

(* validateMetadataLinks: the live cards whose work is gone. *)
LinkInvalid == {c \in Live(meta) : meta[c].linked /\ gone}

(* scanKnowledgeStore.  allowClaim: the claim file must be there; strict:   *)
(* the marker names the chain's head; rebase: links are not checked;       *)
(* full: bodies are read and compared.                                     *)
Scan(allowClaim, strict, full, rebase, staleIndex) ==
    /\ litter = {}
    /\ (claim # NoProcess) = allowClaim
    /\ strict => marker.head = head
    /\ DOMAIN body \subseteq DOMAIN meta
    /\ Live(meta) \subseteq DOMAIN body
    /\ full => \A c \in DOMAIN body : body[c] = meta[c].text
    /\ rebase \/ LinkInvalid = {}
    /\ \A c \in DOMAIN meta : meta[c].over = 0 \/ meta[c].over \in DOMAIN meta
    /\ staleIndex \/ view = KnowledgeIndex(marker, meta)

Readable == Scan(FALSE, FALSE, FALSE, FALSE, FALSE)
Admitted(rebase) == Scan(FALSE, ~rebase, TRUE, rebase, FALSE)

(* isDefaultSelectable, for a card that is fresh and not withheld: an article *)
(* is listed on demand.                                                    *)
DefaultSelectable(c) ==
    /\ meta[c].kind # "article"
    /\ meta[c].by = 0
    /\ meta[c].state # "rejected"
    /\ meta[c].life = "active"

-----------------------------------------------------------------------------
(* initializeKnowledgeStore, in a workspace that has a head. *)
Init ==
    /\ head = 1 /\ gone = FALSE
    /\ marker = [head |-> 1, version |-> 0]
    /\ meta = Nothing /\ body = Nothing
    /\ view = KnowledgeIndex(marker, Nothing)
    /\ claim = NoProcess /\ litter = {} /\ article = {} /\ lease = NoProcess
    /\ proc = [p \in Process |-> Idle]
    /\ faults = [killed |-> 0, failed |-> 0]
    /\ named = [version |-> 0, cards |-> Nothing]

Faulty == faults.killed + faults.failed < MaxFaults

At(p, point) == proc[p].at = point
Put(p, m) == proc' = [proc EXCEPT ![p] = m]
Goto(p, point) == Put(p, [proc[p] EXCEPT !.at = point])

(* What a verb is told to expect: a version and the revision of its card, as *)
(* a list has just shown them.  A batch threads its own.                   *)
Revisions == [c \in DOMAIN meta |-> meta[c].rev]

Request(m, verb, card, over, shape) ==
    [m EXCEPT !.at = "admit", !.verb = verb, !.card = card, !.over = over, !.shape = shape]

Fresh(p, more) == [proc[p] EXCEPT !.expected = marker.version, !.seen = Revisions, !.members = more]

(* A command ends: createKnowledgeArticle removes its file on any error,   *)
(* and a workspace command gives its lease back.                           *)
Refuse(p) ==
    /\ Put(p, Idle)
    /\ article' = IF proc[p].verb = "create" /\ proc[p].shape = "article"
                  THEN article \ {proc[p].card} ELSE article
    /\ lease' = IF lease = p THEN NoProcess ELSE lease

Callable == Readable /\ marker.version < MaxVersion

(* createKnowledgeUnit, captureKnowledgeUnit. *)
CallCreate(p, m) ==
    \E c \in Card, over \in {0} \cup DOMAIN meta, shape \in Shapes \ {"article"} :
        c # over /\ Put(p, Request(m, "create", c, over, shape))

CallVerb(p, m, verbs) ==
    \E verb \in verbs, c \in DOMAIN meta : Put(p, Request(m, verb, c, 0, "plain"))

(* One verb, or the first member of a batch of at most two. *)
Call(p) ==
    /\ Callable
    /\ \E more \in 0..1 : CallCreate(p, Fresh(p, more)) \/ CallVerb(p, Fresh(p, more), BatchVerbs)
    /\ UNCHANGED <<head, gone, store, claim, article, lease, faults>>

CallRefresh(p) ==
    /\ Callable
    /\ CallVerb(p, Fresh(p, 0), {"refresh"})
    /\ UNCHANGED <<head, gone, store, claim, article, lease, faults>>

CallRebase(p) ==
    /\ Callable
    /\ \E shape \in {"plain", "retireInvalid"} : Put(p, Request(Fresh(p, 0), "rebase", 0, 0, shape))
    /\ UNCHANGED <<head, gone, store, claim, article, lease, faults>>

(* createKnowledgeArticle writes its file, exclusively, before anything else. *)
CallArticle(p) ==
    /\ Callable
    /\ \E c \in Card \ article :
         /\ article' = article \cup {c}
         /\ Put(p, Request(Fresh(p, 0), "create", c, 0, "article"))
    /\ UNCHANGED <<head, gone, store, claim, lease, faults>>

(* applyKnowledgeBatch goes on with its second member. *)
NextMember(p) ==
    /\ At(p, "next") /\ marker.version < MaxVersion
    /\ LET m == [proc[p] EXCEPT !.members = 0]
       IN  CallCreate(p, m) \/ CallVerb(p, m, BatchVerbs)
    /\ UNCHANGED <<head, gone, store, claim, article, lease, faults>>

(* materializeWorkspace, then mutationAdmissionScan. *)
Admit(p) ==
    /\ At(p, "admit")
    /\ IF Admitted(proc[p].verb = "rebase")
       THEN /\ Put(p, [proc[p] EXCEPT !.at = "claim", !.bound = head])
            /\ UNCHANGED <<article, lease>>
       ELSE Refuse(p)
    /\ UNCHANGED <<head, gone, store, claim, faults>>

(* Mutant: without O_EXCL. *)
OverwriteClaim(p) ==
    /\ At(p, "claim")
    /\ claim' = p /\ Goto(p, "scan")
    /\ UNCHANGED <<head, gone, store, article, lease, faults>>

(* acquireMutationClaim. *)
Claim(p) ==
    /\ At(p, "claim")
    /\ IF claim = NoProcess
       THEN claim' = p /\ Goto(p, "scan") /\ UNCHANGED <<article, lease>>
       ELSE Refuse(p) /\ UNCHANGED claim
    /\ UNCHANGED <<head, gone, store, faults>>

-----------------------------------------------------------------------------
(* The record a verb writes over a card. *)
Bump(c, verb) == [meta[c] EXCEPT !.rev = @ + 1, !.last = verb]

(* buildMetadata: what is written active is written promoted. *)
NewCard(m) ==
    LET candidate == m.shape \in {"candidate", "uncited"} IN
    [rev |-> 1, life |-> IF candidate THEN "candidate" ELSE "active",
     state |-> IF candidate THEN "candidate" ELSE "promoted",
     by |-> 0, over |-> m.over, linked |-> m.shape = "linked", kind |-> m.shape,
     text |-> 1, last |-> "create"]

(* assertPromotableProvenance, wherever a record is promoted. *)
ShapeValid(card) == card.state = "promoted" => card.kind # "uncited"

(* The refusals of each verb between the second scan and the first write,   *)
(* and the record it writes.                                               *)
Creatable(m) ==
    /\ m.card \notin DOMAIN meta
    /\ m.over # 0 => m.over \in Live(meta)
    /\ m.shape = "linked" => ~gone

Known(m) ==
    /\ m.card \in DOMAIN meta \cap DOMAIN m.seen
    /\ meta[m.card].rev = m.seen[m.card]

Transitioned(m) == [Bump(m.card, m.verb) EXCEPT !.state = IF m.verb = "promote" THEN "promoted" ELSE "rejected"]
Transitionable(m) ==
    /\ Known(m)
    /\ meta[m.card].state = "candidate"
    /\ meta[m.card].life # "retired"
    /\ ShapeValid(Transitioned(m))

Retirable(m) == Known(m) /\ meta[m.card].life # "retired"
Retired(m) == [Bump(m.card, m.verb) EXCEPT !.life = "retired"]

Reverifiable(m) == Known(m) /\ meta[m.card].state = "promoted" /\ meta[m.card].life # "retired"

Refreshable(m) ==
    /\ Known(m)
    /\ meta[m.card].kind = "article"
    /\ meta[m.card].life # "retired"
    /\ m.card \in article
Refreshed(m) == [Bump(m.card, m.verb) EXCEPT !.text = @ + 1]

Rebasable(m) == m.shape = "retireInvalid" \/ LinkInvalid = {}

Guarded(m) ==
    /\ marker.version = m.expected
    /\ CASE m.verb = "create" -> Creatable(m)
         [] m.verb \in {"promote", "reject"} -> Transitionable(m)
         [] m.verb = "retire" -> Retirable(m)
         [] m.verb = "reverify" -> Reverifiable(m)
         [] m.verb = "refresh" -> Refreshable(m)
         [] m.verb = "policy" -> Known(m)
         [] m.verb = "rebase" -> Rebasable(m)

Written(m) ==
    CASE m.verb \in {"promote", "reject"} -> Transitioned(m)
      [] m.verb = "retire" -> Retired(m)
      [] m.verb = "refresh" -> Refreshed(m)
      [] OTHER -> Bump(m.card, m.verb)

NextMarker(m) == [head |-> IF m.verb = "rebase" THEN m.bound ELSE marker.head,
                  version |-> marker.version + 1]

(* The card that a new one replaces carries the mark. *)
Superseded(m) == [Bump(m.over, "superseded") EXCEPT !.by = m.card]

(* The cards as the verb leaves them. *)
Created(m) == With(IF m.over = 0 THEN meta ELSE With(meta, m.over, Superseded(m)), m.card, NewCard(m))
Rebased == [c \in DOMAIN meta |->
              IF c \in LinkInvalid THEN [Bump(c, "retire") EXCEPT !.life = "retired"] ELSE meta[c]]

Projected(m) ==
    CASE m.verb = "create" -> Created(m)
      [] m.verb = "rebase" -> Rebased
      [] OTHER -> With(meta, m.card, Written(m))

(* The files it writes, in the order of their kinds; a rebase retires its   *)
(* cards in the order of their identifiers.  A retired card's body is      *)
(* removed last.                                                           *)
File(kind, c) == [kind |-> kind, card |-> c]
Commit == {File("marker", 0), File("view", 0)}

Rank == [body |-> 0, meta |-> 1, replaced |-> 2, marker |-> 3, view |-> 4, drop |-> 5]
Precedes(f, g) == \/ Rank[f.kind] < Rank[g.kind]
                  \/ Rank[f.kind] = Rank[g.kind] /\ f.card < g.card

Files(m) ==
    Commit \cup
    CASE m.verb = "create" -> {File("body", m.card), File("meta", m.card)}
                                  \cup {File("replaced", c) : c \in {m.over} \ {0}}
      [] m.verb = "refresh" -> {File("body", m.card), File("meta", m.card)}
      [] m.verb = "retire" -> {File("meta", m.card), File("drop", m.card)}
      [] m.verb = "rebase" -> {File("meta", c) : c \in LinkInvalid}
      [] OTHER -> {File("meta", m.card)}

(* The scan under the claim, the comparison of versions, the guards. *)
Plan(p) ==
    /\ At(p, "scan")
    /\ LET m == proc[p] IN
       Put(p, IF Scan(TRUE, m.verb # "rebase", TRUE, m.verb = "rebase", FALSE) /\ Guarded(m)
              THEN [m EXCEPT !.at = "write", !.ok = TRUE, !.todo = Files(m),
                             !.plan = [marker |-> NextMarker(m), meta |-> Projected(m)]]
              ELSE [m EXCEPT !.at = "release"])
    /\ UNCHANGED <<head, gone, store, claim, article, lease, faults>>

(* writeKnowledgeBody, writeKnowledgeMetadata, writeKnowledgeMarker and      *)
(* writeIndex: one file each.                                              *)
Apply(m, f) ==
    /\ body' = CASE f.kind = "body" -> With(body, f.card, m.plan.meta[f.card].text)
                 [] f.kind = "drop" -> [c \in DOMAIN body \ {f.card} |-> body[c]]
                 [] OTHER -> body
    /\ meta' = IF f.kind \in {"meta", "replaced"} THEN With(meta, f.card, m.plan.meta[f.card])
               ELSE meta
    /\ marker' = IF f.kind = "marker" THEN m.plan.marker ELSE marker
    /\ view' = IF f.kind = "view" THEN KnowledgeIndex(m.plan.marker, m.plan.meta) ELSE view

Due(m) == {f \in m.todo : \A g \in m.todo \ {f} : Precedes(f, g)}

Write(p) ==
    /\ At(p, "write")
    /\ \E f \in Due(proc[p]) :
         /\ Apply(proc[p], f)
         /\ Put(p, [proc[p] EXCEPT !.todo = @ \ {f},
                                   !.at = IF proc[p].todo = {f} THEN "release" ELSE "write"])
    /\ UNCHANGED <<head, gone, litter, claim, article, lease, faults>>

(* A write throws (the disk is full): the finally block releases the claim. *)
FailWrite(p) ==
    /\ At(p, "write") /\ Faulty
    /\ faults' = [faults EXCEPT !.failed = @ + 1]
    /\ Put(p, [proc[p] EXCEPT !.at = "release", !.ok = FALSE])
    /\ UNCHANGED <<head, gone, store, claim, article, lease>>

(* releaseMutationClaim renames the claim it knows to released- and removes it. *)
Owner(p) == IF proc[p].verb = "recover" THEN proc[p].owner ELSE p

Release(p) ==
    /\ At(p, "release")
    /\ claim' = IF claim = Owner(p) THEN NoProcess ELSE claim
    /\ IF proc[p].ok /\ claim = Owner(p)
       THEN Goto(p, "final") /\ UNCHANGED <<article, lease>> ELSE Refuse(p)
    /\ UNCHANGED <<head, gone, store, faults>>

(* The last scan, outside the claim: another command may be at work by now.  *)
(* A batch goes on, after a create with the version this scan found.       *)
Final(p) ==
    /\ At(p, "final")
    /\ LET m == proc[p]
           revisions == [c \in DOMAIN m.seen \cup {m.card} |->
                           IF c = m.card THEN m.plan.meta[c].rev ELSE m.seen[c]]
       IN  IF ~Admitted(FALSE) THEN Refuse(p)
           ELSE /\ Put(p, IF m.members = 0 THEN Idle
                          ELSE [Idle EXCEPT !.at = "next", !.seen = revisions,
                                  !.expected = IF m.verb = "create" THEN marker.version
                                               ELSE m.plan.marker.version])
                /\ lease' = IF lease = p THEN NoProcess ELSE lease
                /\ UNCHANGED article
    /\ UNCHANGED <<head, gone, store, claim, faults>>

-----------------------------------------------------------------------------
(* withLease: a workspace command appends its event; the store is a derived  *)
(* surface, rebased afterwards when the head has moved.                    *)
AppendEvent(p) ==
    /\ lease = NoProcess /\ head < MaxHead
    /\ lease' = p
    /\ head' = head + 1
    /\ gone' \in {gone, TRUE}
    /\ Put(p, [Idle EXCEPT !.at = "marker", !.verb = "rebase"])
    /\ UNCHANGED <<store, claim, article, faults>>

(* autoRebaseKnowledgeAfterWorkspaceWrite: readKnowledgeStoreMarker. *)
AutoRebase(p) ==
    /\ At(p, "marker")
    /\ IF Readable /\ marker.head # head
       THEN Put(p, [proc[p] EXCEPT !.at = "admit", !.expected = marker.version])
            /\ UNCHANGED <<article, lease>>
       ELSE Refuse(p)
    /\ UNCHANGED <<head, gone, store, claim, faults>>

-----------------------------------------------------------------------------
(* writeAtomic replaces a file by way of a .tmp- file and writes a new one in *)
(* place: a kill in between leaves half a file, which no scan admits.  Half *)
(* a new body is an orphan already.                                        *)
Tearable(f) == f.kind # "drop" /\ (f.kind = "body" => f.card \in DOMAIN body)

Die(p) ==
    /\ Faulty /\ faults' = [faults EXCEPT !.killed = @ + 1]
    /\ Put(p, [Idle EXCEPT !.at = "dead"])
    /\ lease' = IF lease = p THEN NoProcess ELSE lease
    /\ UNCHANGED <<head, gone, marker, meta, body, view, article>>

(* SIGKILL; a lease left behind is reclaimed (WorkspaceLease).              *)
Kill(p) ==
    /\ proc[p].at \in {"claim", "scan", "write", "release", "final"}
    /\ Die(p)
    /\ UNCHANGED <<litter, claim>>

KillInWrite(p) ==
    /\ At(p, "write") /\ \E f \in Due(proc[p]) : Tearable(f)
    /\ Die(p)
    /\ litter' = litter \cup {"half a file"}
    /\ UNCHANGED claim

KillInRelease(p) ==
    /\ At(p, "release") /\ claim = Owner(p)
    /\ Die(p)
    /\ litter' = litter \cup {"released"}
    /\ claim' = NoProcess

(* recoverKnowledgeStore: the claim of a dead process is read, ... *)
Recover(p) ==
    /\ claim # NoProcess /\ At(claim, "dead")
    /\ OverlapRecovery \/ \A q \in Process : proc[q].verb # "recover"
    /\ Put(p, [Idle EXCEPT !.at = "recover", !.verb = "recover", !.owner = claim])
    /\ UNCHANGED <<head, gone, store, claim, article, lease, faults>>

(* Mutant: the version is not advanced. *)
KeptVersion == marker

(* ... an index that differs under the marker's own version advances it, ... *)
RecoveredMarker ==
    IF view.marker.version = marker.version /\ view # KnowledgeIndex(marker, meta)
    THEN [marker EXCEPT !.version = @ + 1] ELSE marker

(* ... and marker, index and the retired cards' bodies are put right, after *)
(* a scan that still demands the chain's head of marker and index both.    *)
PlanRecovery(p) ==
    /\ At(p, "recover")
    /\ Put(p, IF /\ Scan(TRUE, TRUE, TRUE, FALSE, TRUE)
                 /\ claim = proc[p].owner
                 /\ view.marker.head = marker.head
              THEN [proc[p] EXCEPT !.at = "write", !.ok = TRUE,
                      !.plan = [marker |-> RecoveredMarker, meta |-> meta],
                      !.todo = Commit \cup {File("drop", c) : c \in DOMAIN body \ Live(meta)}]
              ELSE Idle)
    /\ UNCHANGED <<head, gone, store, claim, article, lease, faults>>

(* What an idle process may begin, and how a command that has begun goes on. *)
Begin(p) ==
    /\ At(p, "idle")
    /\ \/ Call(p) \/ CallRefresh(p) \/ CallRebase(p) \/ CallArticle(p)
       \/ AppendEvent(p) \/ Recover(p)

GoOn(p) ==
    /\ proc[p].at \notin {"idle", "dead"}
    /\ \/ NextMember(p) \/ Admit(p) \/ Claim(p) \/ Plan(p) \/ Write(p) \/ FailWrite(p)
       \/ Release(p) \/ Final(p) \/ AutoRebase(p) \/ PlanRecovery(p)
       \/ Kill(p) \/ KillInWrite(p) \/ KillInRelease(p)

Next ==
    /\ \E p \in Process : Begin(p) \/ GoOn(p)
    /\ named' = IF Readable' /\ marker'.version > named.version
                THEN [version |-> marker'.version, cards |-> meta'] ELSE named

Spec == Init /\ [][Next]_vars

-----------------------------------------------------------------------------
(* Some cards, each with a value of V. *)
SomeCards(f, V) == DOMAIN f \subseteq Card /\ f \in [DOMAIN f -> V]

AnyCard == Card \cup {0}
Stamp == [head : Nat, version : Nat]
CardRecord ==
    [rev : Nat, life : {"candidate", "active", "retired"}, state : {"candidate", "promoted", "rejected"},
     by : AnyCard, over : AnyCard, linked : BOOLEAN, kind : Shapes, text : Nat,
     last : {"create", "superseded", "refresh"} \cup BatchVerbs]

Point == {"idle", "dead", "admit", "claim", "scan", "write", "release", "final", "next",
          "marker", "recover"}
Verb == {"none", "create", "refresh", "rebase", "recover"} \cup BatchVerbs
AnyShape == Shapes \cup {"retireInvalid"}
AnyProcess == Process \cup {NoProcess}
AnyFile == [kind : DOMAIN Rank, card : AnyCard]

Command(m) ==
    /\ m \in [at : Point, verb : Verb, card : AnyCard, over : AnyCard, shape : AnyShape,
               expected : Nat, seen : {m.seen}, bound : Nat, ok : BOOLEAN, owner : AnyProcess,
               members : 0..1, todo : SUBSET AnyFile, plan : {m.plan}]
    /\ SomeCards(m.seen, Nat)
    /\ m.plan \in [marker : Stamp, meta : {m.plan.meta}] /\ SomeCards(m.plan.meta, CardRecord)

TypeOK ==
    /\ head \in Nat /\ gone \in BOOLEAN
    /\ marker \in Stamp /\ SomeCards(meta, CardRecord) /\ SomeCards(body, Nat)
    /\ view \in [marker : Stamp, cards : {view.cards}] /\ SomeCards(view.cards, CardRecord)
    /\ claim \in AnyProcess
    /\ litter \subseteq {"half a file", "released"}
    /\ article \subseteq Card
    /\ lease \in AnyProcess
    /\ proc = [p \in Process |-> proc[p]] /\ \A p \in Process : Command(proc[p])
    /\ faults \in [killed : Nat, failed : Nat]
    /\ named \in [version : Nat, cards : {named.cards}] /\ SomeCards(named.cards, CardRecord)

(* A version names one content: whenever readers are served, the cards they *)
(* see under a version are the cards anyone ever saw under it, whichever    *)
(* commands were killed and recovered in between.  Checkpoints, contexts    *)
(* and the verbs' own compare-and-set rely on it.                          *)
VersionNamesContent ==
    [][Readable' => \/ marker'.version > named.version
                    \/ marker'.version = named.version /\ meta' = named.cards]_vars

(* A store that nobody has claimed is whole, so that every verb finds it so: *)
(* the claim is given back only after the last file.  Half-written files,  *)
(* a released- file and a write that failed are the exceptions.            *)
UnclaimedIsWhole ==
    (claim = NoProcess /\ litter = {} /\ faults.failed = 0)
        => Scan(FALSE, FALSE, TRUE, TRUE, FALSE)

(* "The replaced card carries the mark, so ... default retrieval drops the  *)
(* loser without deleting it": a live card's predecessor is no default      *)
(* answer once the store can be read.                                      *)
ReplacedIsNotDefault ==
    Readable => \A c \in Live(meta) : meta[c].over # 0 => ~DefaultSelectable(meta[c].over)
=============================================================================
