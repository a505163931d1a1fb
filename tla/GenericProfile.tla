--------------------------- MODULE GenericProfile ---------------------------
(***************************************************************************)
(* The profile an operation runs under (generic-profile.ts): a request     *)
(* stacks layers over the framework's defaults, the operator admits that   *)
(* very stack by a receipt, and an operation is authorised by resolving    *)
(* the two together.  A layer may narrow what the layers below it allow;   *)
(* who the profile is bound to changes only by a rebind that its owner     *)
(* approved and the receipt admits.                                        *)
(*                                                                         *)
(* Grants stand for write paths, tools, classifications, operations and    *)
(* units of the budgets; owner fields are the demands of their binding,    *)
(* none for the unbound profile.  A digest is the value it is taken of.    *)
(***************************************************************************)
EXTENDS Naturals, Sequences, FiniteSets

CONSTANTS
    Offer,       \* the layers: [kind, tampers, restricts, owner]
    Rebinding,   \* the rebinds: [target, owner]
    Operation, ReadOnly,
    Place,       \* the contexts an operation may be asked for in
    MaxLayers

VARIABLES
    request,   \* [layers, rebind]
    receipt,   \* the receipts the operator has issued: none or the last one
    answer     \* the authorisations the last question was answered with

vars == <<request, receipt, answer>>

Precedence == <<"release", "imported", "workspace", "project", "command">>
UserOwned == {"workspace", "project", "command"}

Kinds(q) == {l.kind : l \in q.layers}

(* Restrictions and owner fields are optional: none, or a set of the one.   *)
ValidLayer(l) ==
    /\ l.tampers \/ l.restricts # {} \/ l.owner # {}
    /\ l.kind = "imported" => l.restricts # {} /\ ~l.tampers /\ l.owner = {}

ValidRebind(x) == x.owner # {}

Base == [ok |-> TRUE, grants |-> Operation, owner |-> {}, applied |-> FALSE]

(* Mutant: a layer is held to what the framework allows only.               *)
NarrowsBase(effective, l) == \A g \in l.restricts : g \subseteq Operation

Narrows(effective, l) == \A g \in l.restricts : g \subseteq effective.grants

Moves(effective, l) == \E o \in l.owner : o # effective.owner

Rebound(q, l) ==
    /\ l.kind \in UserOwned
    /\ \E x \in q.rebind : x.target = l.kind /\ l.owner = {x.owner}

Stack(q, effective, l) ==
    [ok |-> /\ effective.ok /\ ~l.tampers /\ Narrows(effective, l)
            /\ Moves(effective, l) => Rebound(q, l),
     grants |-> IF l.restricts = {} THEN effective.grants
                ELSE CHOOSE g \in l.restricts : TRUE,
     owner |-> IF Moves(effective, l) THEN CHOOSE o \in l.owner : TRUE ELSE effective.owner,
     applied |-> effective.applied \/ Moves(effective, l)]

Resolved(q) ==
    LET upTo[n \in 0..Len(Precedence)] ==
          IF n = 0 THEN Base
          ELSE LET here == {l \in q.layers : l.kind = Precedence[n]}
               IN  IF here = {} THEN upTo[n - 1]
                   ELSE Stack(q, upTo[n - 1], CHOOSE l \in here : TRUE)
        all == upTo[Len(Precedence)]
    IN  [all EXCEPT !.ok = /\ @ /\ Cardinality(Kinds(q)) = Cardinality(q.layers)
                           /\ \A l \in q.layers : ValidLayer(l)
                           /\ \A x \in q.rebind : ValidRebind(x)
                           /\ q.rebind # {} => all.applied]

(* calculateGenericProfileAdmissionClaims: the admissions it derives.       *)
Admissions(q) ==
    {[rebind |-> x, layer |-> l] : x \in q.rebind, l \in q.layers} \cap
    {a \in [rebind : Rebinding, layer : Offer] : a.rebind.target = a.layer.kind}

Claimable(q, cold) ==
    /\ Resolved(q).ok
    /\ \A x \in q.rebind : x.target \in Kinds(q)
    /\ cold => q.layers = {} /\ q.rebind = {}

Effective(q, cold) == [profile |-> Resolved(q), cold |-> cold]

(* resolveGenericProfile, with the admission it was read with.              *)
Admitted(q, r) ==
    /\ q = r.request
    /\ q.layers = r.layers
    /\ q.rebind = {} => r.owner = {}
    /\ \A x \in q.rebind : \E a \in r.owner :
          a.rebind = x /\ a.layer \in q.layers /\ a.layer.kind = x.target
    /\ r.cold => q.layers = {} /\ q.rebind = {}
    /\ Resolved(q).ok
    /\ Effective(q, r.cold) = r.effective

(* authorizeGenericProfileOperation.                                        *)
Authorised(q, r, o, place) ==
    /\ Admitted(q, r)
    /\ o \in r.governed
    /\ ~r.cold
    /\ Resolved(q).owner = {} => o \in ReadOnly
    /\ o \in Resolved(q).grants
    /\ Resolved(q).owner \subseteq place

-----------------------------------------------------------------------------
AddLayer ==
    /\ \E l \in Offer \ request.layers : request' = [request EXCEPT !.layers = @ \cup {l}]
    /\ Cardinality(request.layers) < MaxLayers
    /\ answer' = {} /\ UNCHANGED receipt

DropLayer ==
    /\ \E l \in request.layers : request' = [request EXCEPT !.layers = @ \ {l}]
    /\ answer' = {} /\ UNCHANGED receipt

ChangeRebind ==
    /\ \E x \in {{}} \cup {{y} : y \in Rebinding} : request' = [request EXCEPT !.rebind = x]
    /\ answer' = {} /\ UNCHANGED receipt

(* The operator writes what the claims say; which actions it governs, and   *)
(* whether the claims were of the same disposition, is up to the operator.  *)
IssueReceipt ==
    /\ \E cold, other \in BOOLEAN, governed \in {ReadOnly, Operation} :
          /\ Claimable(request, cold) /\ Claimable(request, other)
          /\ receipt' = {[request |-> request, layers |-> request.layers,
                          owner |-> Admissions(request), governed |-> governed,
                          cold |-> cold, effective |-> Effective(request, other)]}
    /\ answer' = {} /\ UNCHANGED request

Ask ==
    /\ \E r \in receipt, o \in Operation, place \in Place :
          /\ Authorised(request, r, o, place)
          /\ answer' = {[operation |-> o, place |-> place]}
    /\ UNCHANGED <<request, receipt>>

ProfileInit == request = [layers |-> {}, rebind |-> {}] /\ receipt = {} /\ answer = {}

ProfileNext == AddLayer \/ DropLayer \/ ChangeRebind \/ IssueReceipt \/ Ask

ProfileSpec == ProfileInit /\ [][ProfileNext]_vars

-----------------------------------------------------------------------------
(* What is authorised no layer of the request forbids, the receipt governs, *)
(* and nobody but the owner has let anyone write: a layer that was imported *)
(* or released binds the profile to nothing, and a binding holds where the  *)
(* approved rebind says and nowhere else.                                   *)
AuthorisedByAll ==
    \A given \in answer :
      /\ \A l \in request.layers : \A g \in l.restricts : given.operation \in g
      /\ \A r \in receipt : r.request = request /\ given.operation \in r.governed
      /\ given.operation \notin ReadOnly =>
           \E x \in request.rebind : x.target \in UserOwned /\ x.owner \subseteq given.place
=============================================================================
