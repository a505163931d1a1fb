--------------------------- MODULE ContextRouter ---------------------------
(***************************************************************************)
(* The context a task is given (context-router.ts): a request offers       *)
(* candidates and asks to read some bodies; an authority receipt, issued   *)
(* for that request and for an admitted profile, says which bodies and how *)
(* much.  The router takes every fresh candidate or fails, and the result  *)
(* can be validated on its own, without the request.                       *)
(*                                                                         *)
(* A digest is the value it is taken of; sizes are units of the budgets; a *)
(* place is the path workspace, project, work, as far as it is given.      *)
(***************************************************************************)
EXTENDS Naturals, Sequences, SequencesExt, FiniteSets

CONSTANTS
    Candidate,    \* what may be offered: [id, kind, place, fresh, size]
    Target,       \* the place the task works at
    Budget,       \* budgets of one pool: [count, bytes]
    Terms,        \* when and at which risk a task runs: [at, risk]
    Conditions,   \* what a receipt demands of them: [from, until, risk]
    Profile,      \* profile admissions: [effective, reads]
    MaxOffers, MaxEdits   \* bounds

VARIABLES
    request,      \* [offers, reads, budget, terms, effective]
    authority,    \* the receipts issued: none or one
    result,       \* what the router answered: none or one result
    edits

vars == <<request, authority, result, edits>>

Bodies == {c \in Candidate : c.kind = "body"}
Ids(cs) == {c.id : c \in cs}

(* checkScope: a candidate of the workspace, of the project, or of the work *)
(* the request names.                                                       *)
InScope(c) == IsPrefix(c.place, Target)

(* validateContextRouteRequest.                                             *)
ValidRequest(q) ==
    /\ Cardinality(q.offers) = Cardinality(Ids(q.offers))
    /\ \A c \in q.offers : InScope(c)

InOrder(cs) == SetToSortSeq(cs, LAMBDA c, d : c.id < d.id)

Unused == [ok |-> TRUE, count |-> 0, bytes |-> 0, taken |-> <<>>]

(* boundedPush: one entry too many ends the whole command.                  *)
Push(budget, use, c) ==
    [ok |-> use.ok /\ use.count + 1 <= budget.count /\ use.bytes + c.size <= budget.bytes,
     count |-> use.count + 1, bytes |-> use.bytes + c.size, taken |-> Append(use.taken, c)]

PushAll(budget, cs) == FoldLeft(LAMBDA use, c : Push(budget, use, c), Unused, InOrder(cs))

Use(pool) == [count |-> pool.count, bytes |-> pool.bytes]

Routed(q) ==
    LET fresh == {c \in q.offers : c.kind # "body" /\ c.fresh}
        metadata == PushAll(q.budget, {c \in fresh : c.kind = "metadata"})
        references == PushAll(q.budget, {c \in fresh : c.kind = "reference"})
        reads == PushAll(q.budget, {c \in q.offers : c.kind = "body" /\ c.id \in q.reads})
    IN  [ok |-> metadata.ok /\ references.ok /\ reads.ok,
         metadata |-> metadata.taken, references |-> references.taken, reads |-> reads.taken,
         use |-> <<Use(metadata), Use(references), Use(reads)>>,
         excluded |-> InOrder({c \in q.offers : c.kind # "body" /\ ~c.fresh})]

(* What the receipt and the profile's admission must say of the request.    *)
Admitted(q, a, profile) ==
    /\ q = a.request /\ q.effective = a.effective
    /\ a.conditions.from <= q.terms.at /\ q.terms.at <= a.conditions.until
    /\ q.terms.risk >= a.conditions.risk
    /\ q.budget.count <= a.budget.count /\ q.budget.bytes <= a.budget.bytes
    /\ profile = a.profile
    /\ profile.effective = q.effective
    /\ profile.reads

Readable(q, a) ==
    \A id \in q.reads : id \in a.reads /\ \E c \in q.offers \cap Bodies : c.id = id /\ c.fresh

(* validateContextRouteResult, which has the result alone.                  *)
Ascending(cs) == \A i, j \in DOMAIN cs : i < j => cs[i].id < cs[j].id

Sums(cs) == [count |-> Len(cs), bytes |-> FoldLeft(LAMBDA n, c : n + c.size, 0, cs)]

ValidResult(r) ==
    /\ \A c \in Range(r.metadata) : c.kind = "metadata"
    /\ \A c \in Range(r.references) : c.kind = "reference"
    /\ \A cs \in {r.metadata, r.references, r.reads, r.excluded} : Ascending(cs)
    /\ r.use = <<Sums(r.metadata), Sums(r.references), Sums(r.reads)>>

-----------------------------------------------------------------------------
(* The caller writes a request, and may change it once a receipt is issued. *)
ContextInit ==
    /\ request \in {q \in [offers : {cs \in SUBSET Candidate : Cardinality(cs) <= MaxOffers},
                           reads : SUBSET Ids(Bodies), budget : Budget, terms : Terms,
                           effective : {p.effective : p \in Profile}] :
                      q.reads \subseteq Ids(q.offers)}
    /\ authority = {} /\ result = {} /\ edits = 0

(* The operator issues a receipt for a request that calculates a digest.    *)
IssueAuthority ==
    /\ ValidRequest(request) /\ authority = {}
    /\ \E reads \in SUBSET Ids(Bodies), budget \in Budget, conditions \in Conditions, p \in Profile :
          authority' = {[request |-> request, effective |-> request.effective, profile |-> p,
                         reads |-> reads, budget |-> budget, conditions |-> conditions]}
    /\ UNCHANGED <<request, result, edits>>

EditRequest ==
    /\ authority # {} /\ edits < MaxEdits /\ edits' = edits + 1
    /\ \/ \E c \in request.offers : request' = [request EXCEPT !.offers = @ \ {c}]
       \/ \E ids \in SUBSET Ids(Bodies) : request' = [request EXCEPT !.reads = ids]
       \/ \E terms \in Terms : request' = [request EXCEPT !.terms = terms]
       \/ \E budget \in Budget : request' = [request EXCEPT !.budget = budget]
    /\ result' = {} /\ UNCHANGED authority

Route ==
    /\ ValidRequest(request)
    /\ \E a \in authority, p \in Profile : Admitted(request, a, p) /\ Readable(request, a)
    /\ Routed(request).ok
    /\ result' = {Routed(request)}
    /\ UNCHANGED <<request, authority, edits>>

ContextNext == IssueAuthority \/ EditRequest \/ Route

ContextSpec == ContextInit /\ [][ContextNext]_vars

-----------------------------------------------------------------------------
(* What is routed the validator accepts; every candidate of the request is  *)
(* in it or listed as left out, every body that was asked for is in it and  *)
(* none that was not allowed; and the whole is within what the receipt      *)
(* grants, which the request may have narrowed.                             *)
RoutedAsAdmitted ==
    \A r \in result, a \in authority :
      /\ ValidResult(r)
      /\ request.offers \ Bodies = Range(r.metadata \o r.references \o r.excluded)
      /\ Ids(Range(r.reads)) = request.reads /\ request.reads \subseteq a.reads
      /\ \A cs \in {r.metadata, r.references, r.reads} :
            Sums(cs).count <= a.budget.count /\ Sums(cs).bytes <= a.budget.bytes
=============================================================================
