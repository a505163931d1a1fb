------------------------ MODULE KnowledgeStore_proofs ------------------------
(***************************************************************************)
(* Proofs about KnowledgeStore for any number of processes, cards, faults  *)
(* and versions.  Recoveries do not overlap (OverlapRecovery = FALSE): two *)
(* operators that recover the same dead claim at once both write.          *)
(*                                                                         *)
(* The inductive invariant StoreInv says that the claim excludes            *)
(* (Exclusive), how far the one writer has come towards its plan (Writing), *)
(* that the store is whole while nobody writes (QuietIsSound), and which    *)
(* versions the index may carry (Versioned).                               *)
(***************************************************************************)
EXTENDS KnowledgeStore, TLAPS

(* The files still to be written.  What a command has asked for, and what   *)
(* its plan covers.                                                        *)
Pending(m, kind, c) == File(kind, c) \in m.todo

(* The verbs on one card. *)
OnOneCard == BatchVerbs \cup {"refresh"}

Planned(m) ==
    \A f \in m.todo : f.kind \in {"body", "meta", "replaced"} => f.card \in DOMAIN m.plan.meta

Asked(m) ==
    /\ m.verb = "create" => m.card \in Card /\ m.shape \in Shapes
    /\ m.verb = "rebase" => m.members = 0
    /\ m.at \in {"admit", "claim", "scan", "marker"} =>
          m.verb \in OnOneCard \cup {"create", "rebase"}
    /\ m.at \in {"idle", "next", "dead"} => m.verb = "none"
    /\ m.at = "recover" => m.members = 0 /\ m.verb = "recover"
    /\ m.at = "final" => m.ok
    /\ m.ok => /\ m.at \in {"write", "release", "final"}
               /\ m.members # 0 => m.card \in DOMAIN m.plan.meta
    /\ Planned(m)

Asking == \A p \in Process : Asked(proc[p])

(* Between the claim and its release; a recovery acts for a dead claim. *)
Holding(p) == proc[p].at \in {"scan", "write", "release"}
Recovering(p) == proc[p].verb = "recover"

Exclusive ==
    /\ \A p \in Process : Holding(p) /\ ~Recovering(p) => claim = p
    /\ \A p \in Process : Recovering(p) =>
          /\ proc[p].at \in {"recover", "write", "release", "final"}
          /\ proc[p].at # "final" => /\ proc[p].owner \in Process
                                     /\ claim = proc[p].owner
                                     /\ At(claim, "dead")
    /\ \A p, q \in Process : Recovering(p) /\ Recovering(q) => p = q

(* The plan's version is later than the index's, or names the same cards. *)
Newer(m) ==
    \/ m.plan.marker.version > view.marker.version
    \/ m.plan.marker.version = view.marker.version /\ m.plan.meta = view.cards

(* The store agrees with the plan, apart from the files still to be written. *)
HalfWritten(m) ==
    /\ Pending(m, "marker", 0) => Pending(m, "view", 0)
    /\ Pending(m, "marker", 0) \/ marker = m.plan.marker
    /\ IF Pending(m, "view", 0) THEN Newer(m) ELSE view = KnowledgeIndex(m.plan.marker, m.plan.meta)
    /\ DOMAIN meta \subseteq DOMAIN m.plan.meta
    /\ \A c \in DOMAIN m.plan.meta :
          \/ Pending(m, "meta", c) \/ Pending(m, "replaced", c)
          \/ c \in DOMAIN meta /\ meta[c] = m.plan.meta[c]
    /\ DOMAIN body \subseteq DOMAIN m.plan.meta
    /\ \A c \in Live(m.plan.meta) : Pending(m, "body", c) \/ c \in DOMAIN body
    /\ \A c \in DOMAIN body : Pending(m, "body", c) \/ body[c] = m.plan.meta[c].text
    /\ \A c \in Live(m.plan.meta) : ~Pending(m, "drop", c)
    /\ \A c \in DOMAIN m.plan.meta :
          m.plan.meta[c].over = 0 \/ m.plan.meta[c].over \in DOMAIN m.plan.meta

Writing == \A p \in Process : At(p, "write") => HalfWritten(proc[p])

(* What a full scan asks of the files. *)
Sound ==
    /\ DOMAIN body \subseteq DOMAIN meta
    /\ Live(meta) \subseteq DOMAIN body
    /\ \A c \in DOMAIN body : body[c] = meta[c].text
    /\ \A c \in DOMAIN meta : meta[c].over = 0 \/ meta[c].over \in DOMAIN meta
    /\ view = KnowledgeIndex(marker, meta)

(* Nobody is between a plan and its last file. *)
Quiet == claim = NoProcess \/ \E p \in Process : proc[p].at \in {"scan", "release"} /\ claim = Owner(p)

QuietIsSound == Quiet /\ litter = {} /\ faults.failed = 0 => Sound

(* No index is ahead of the marker, and none is behind what readers saw. *)
Versioned ==
    /\ named.version <= view.marker.version
    /\ view.marker.version <= marker.version
    /\ view.marker.version = named.version => view.cards = named.cards

StoreInv == TypeOK /\ Asking /\ Exclusive /\ Writing /\ QuietIsSound /\ Versioned

-----------------------------------------------------------------------------
(* With keeps the types of a partial function. *)
LEMMA WithType ==
    ASSUME NEW V, NEW f, SomeCards(f, V), NEW c \in Card, NEW x \in V
    PROVE  SomeCards(With(f, c, x), V)
BY DEF With, SomeCards

(* The function on no card has every type. *)
LEMMA NothingType == ASSUME NEW V PROVE SomeCards(Nothing, V)
BY DEF SomeCards, Nothing

(* An idle command, and one that has died. *)
LEMMA IdleTyped ==
    /\ Command(Idle) /\ Asked(Idle)
    /\ Command([Idle EXCEPT !.at = "dead"]) /\ Asked([Idle EXCEPT !.at = "dead"])
<1>1. SomeCards(Nothing, Nat) /\ SomeCards(Nothing, CardRecord) BY NothingType
<1>2. Command(Idle)
  BY <1>1 DEF Command, Idle, Point, Verb, AnyCard, AnyShape, AnyProcess, Shapes, Stamp
<1>3. Command([Idle EXCEPT !.at = "dead"])
  <2>1. "dead" \in Point BY DEF Point
  <2>2. QED BY <1>2, <2>1 DEF Command
<1>4. Asked(Idle) /\ Asked([Idle EXCEPT !.at = "dead"]) BY <1>2 DEF Asked, Planned, Idle
<1>5. QED BY <1>2, <1>3, <1>4

(* A step that leaves its command typed leaves all of them typed. *)
LEMMA PutTyped ==
    ASSUME TypeOK, Asking, NEW p \in Process, NEW m, Command(m), Asked(m), Put(p, m)
    PROVE  /\ proc' = [q \in Process |-> proc'[q]]
           /\ \A q \in Process : Command(proc'[q]) /\ Asked(proc'[q])
BY DEF TypeOK, Asking, Put

(* A request is a command, whatever it asks for. *)
LEMMA RequestTyped ==
    ASSUME NEW m, Command(m), Planned(m), ~m.ok,
           NEW verb \in BatchVerbs \cup {"create", "refresh", "rebase"},
           NEW c \in AnyCard, NEW over \in AnyCard, NEW shape \in AnyShape,
           verb = "create" => c \in Card /\ shape \in Shapes,
           verb = "rebase" => m.members = 0
    PROVE  Command(Request(m, verb, c, over, shape)) /\ Asked(Request(m, verb, c, over, shape))
<1>1. verb \in Verb /\ "admit" \in Point BY DEF Verb, Point
<1>2. Command(Request(m, verb, c, over, shape)) BY <1>1 DEF Command, Request
<1>3. Asked(Request(m, verb, c, over, shape))
  <2>1. /\ Request(m, verb, c, over, shape).todo = m.todo
        /\ Request(m, verb, c, over, shape).plan = m.plan
    BY DEF Request, Command
  <2>2. Planned(Request(m, verb, c, over, shape)) BY <2>1 DEF Planned
  <2>3. QED BY <2>2 DEF Asked, Request, Command, OnOneCard
<1>4. QED BY <1>2, <1>3

-----------------------------------------------------------------------------
(* What the verbs write. *)
LEMMA BumpType ==
    ASSUME TypeOK, NEW c \in DOMAIN meta,
           NEW verb \in {"create", "superseded", "refresh"} \cup BatchVerbs
    PROVE  /\ Bump(c, verb) \in CardRecord
           /\ Bump(c, verb).life = meta[c].life /\ Bump(c, verb).text = meta[c].text
           /\ Bump(c, verb).over = meta[c].over
<1>1. meta[c] \in CardRecord BY DEF TypeOK, SomeCards
<1>2. /\ Bump(c, verb).life = meta[c].life /\ Bump(c, verb).text = meta[c].text
      /\ Bump(c, verb).over = meta[c].over
  BY <1>1 DEF Bump, CardRecord
<1>3. meta[c].rev + 1 \in Nat BY <1>1 DEF CardRecord
<1>4. Bump(c, verb) \in CardRecord BY <1>1, <1>3 DEF Bump, CardRecord
<1>5. QED BY <1>2, <1>4

(* The record a create writes. *)
LEMMA NewCardType ==
    ASSUME NEW m, Command(m), m.shape \in Shapes
    PROVE  /\ NewCard(m) \in CardRecord
           /\ NewCard(m).over = m.over /\ NewCard(m).text = 1
<1>1. m.over \in AnyCard BY DEF Command
<1>2. QED BY <1>1 DEF NewCard, CardRecord, AnyCard

(* The record a verb on one card writes: only a retire changes whether the *)
(* card is live, only a refresh its text.                                 *)
LEMMA WrittenType ==
    ASSUME TypeOK, NEW m, Command(m), m.verb \in OnOneCard, Guarded(m)
    PROVE  /\ m.card \in DOMAIN meta
           /\ Written(m) \in CardRecord
           /\ Written(m).over = meta[m.card].over
           /\ m.verb # "retire" => Written(m).life = meta[m.card].life
           /\ m.verb = "retire" => Written(m).life = "retired"
           /\ m.verb # "refresh" => Written(m).text = meta[m.card].text
<1>1. m.card \in DOMAIN meta
  BY DEF Guarded, OnOneCard, BatchVerbs, Known, Transitionable, Retirable, Reverifiable, Refreshable
<1> DEFINE b == Bump(m.card, m.verb)
<1>2. /\ b \in CardRecord /\ b.life = meta[m.card].life /\ b.text = meta[m.card].text
      /\ b.over = meta[m.card].over
  BY <1>1, BumpType DEF OnOneCard
<1> HIDE DEF b
<1>3. CASE m.verb \in {"promote", "reject"}
  <2>1. Written(m) = [b EXCEPT !.state = IF m.verb = "promote" THEN "promoted" ELSE "rejected"]
    BY <1>3 DEF Written, Transitioned, b
  <2>2. QED BY <1>1, <1>2, <1>3, <2>1 DEF CardRecord
<1>4. CASE m.verb = "retire"
  <2>1. Written(m) = [b EXCEPT !.life = "retired"] BY <1>4 DEF Written, Retired, b
  <2>2. QED BY <1>1, <1>2, <1>4, <2>1 DEF CardRecord
<1>5. CASE m.verb = "refresh"
  <2>1. Written(m) = [b EXCEPT !.text = @ + 1] BY <1>5 DEF Written, Refreshed, b
  <2>2. QED BY <1>1, <1>2, <1>5, <2>1 DEF CardRecord
<1>6. CASE m.verb \notin {"promote", "reject", "retire", "refresh"}
  <2>1. Written(m) = b BY <1>6 DEF Written, b
  <2>2. QED BY <1>1, <1>2, <1>6, <2>1
<1>7. QED BY <1>3, <1>4, <1>5, <1>6

(* The cards as a verb leaves them, among them those it was asked about. *)
LEMMA ProjectedType ==
    ASSUME TypeOK, NEW m, Command(m), Asked(m), m.verb \in OnOneCard \cup {"create", "rebase"},
           Guarded(m)
    PROVE  /\ SomeCards(Projected(m), CardRecord)
           /\ m.verb # "rebase" => m.card \in DOMAIN Projected(m)
           /\ m.verb = "create" /\ m.over # 0 => m.over \in DOMAIN Projected(m)
<1>1. SomeCards(meta, CardRecord) BY DEF TypeOK
<1>2. CASE m.verb = "create"
  <2>1. Projected(m) = Created(m) BY <1>2 DEF Projected
  <2>2. m.card \in Card /\ m.shape \in Shapes BY <1>2 DEF Asked
  <2>3. NewCard(m) \in CardRecord BY <2>2, NewCardType
  <2>4. CASE m.over = 0
    <3>1. Projected(m) = With(meta, m.card, NewCard(m)) BY <2>1, <2>4 DEF Created
    <3>2. SomeCards(Projected(m), CardRecord) BY <1>1, <2>2, <2>3, <3>1, WithType
    <3>3. QED BY <1>2, <2>4, <3>1, <3>2 DEF With
  <2>5. CASE m.over # 0
    <3>1. m.over \in DOMAIN meta /\ m.over \in Card
      BY <1>1, <1>2, <2>5 DEF Guarded, Creatable, Live, SomeCards
    <3>2. Superseded(m) \in CardRecord
      <4>1. Bump(m.over, "superseded") \in CardRecord BY <3>1, BumpType
      <4>2. QED BY <2>2, <4>1 DEF Superseded, CardRecord, AnyCard
    <3>3. SomeCards(With(meta, m.over, Superseded(m)), CardRecord) BY <1>1, <3>1, <3>2, WithType
    <3> DEFINE w == With(meta, m.over, Superseded(m))
    <3>4. m.over \in DOMAIN w BY DEF With
    <3>5. Projected(m) = With(w, m.card, NewCard(m)) BY <2>1, <2>5 DEF Created
    <3> HIDE DEF w
    <3>6. SomeCards(Projected(m), CardRecord) BY <2>2, <2>3, <3>3, <3>5, WithType DEF w
    <3>7. m.card \in DOMAIN Projected(m) /\ m.over \in DOMAIN Projected(m)
      BY <3>4, <3>5 DEF With
    <3>8. QED BY <3>6, <3>7
  <2>6. QED BY <1>2, <2>4, <2>5
<1>3. CASE m.verb = "rebase"
  <2>1. Projected(m) = Rebased BY <1>3 DEF Projected
  <2>2. ASSUME NEW c \in DOMAIN meta PROVE Rebased[c] \in CardRecord
    <3>1. Bump(c, "retire") \in CardRecord BY BumpType DEF BatchVerbs
    <3>2. meta[c] \in CardRecord BY <1>1 DEF SomeCards
    <3>3. QED BY <3>1, <3>2 DEF Rebased, CardRecord
  <2>3. QED BY <1>1, <1>3, <2>1, <2>2 DEF SomeCards, Rebased
<1>4. CASE m.verb \in OnOneCard
  <2>1. Projected(m) = With(meta, m.card, Written(m)) BY <1>4 DEF Projected, OnOneCard, BatchVerbs
  <2>2. m.card \in DOMAIN meta /\ Written(m) \in CardRecord BY <1>4, WrittenType
  <2>3. m.card \in Card BY <1>1, <2>2 DEF SomeCards
  <2>4. QED BY <1>1, <1>4, <2>1, <2>2, <2>3, WithType DEF With, OnOneCard, BatchVerbs
<1>5. QED BY <1>2, <1>3, <1>4

(* The files of a plan name cards the plan knows. *)
LEMMA FilesType ==
    ASSUME TypeOK, NEW m, Command(m), Asked(m), m.verb \in OnOneCard \cup {"create", "rebase"},
           Guarded(m)
    PROVE  /\ Files(m) \subseteq AnyFile
           /\ \A f \in Files(m) : f.kind \in {"body", "meta", "replaced"} => f.card \in DOMAIN Projected(m)
<1>1. m.card \in AnyCard /\ m.over \in AnyCard BY DEF Command
<1>2. LinkInvalid \subseteq DOMAIN meta /\ DOMAIN meta \subseteq Card
  BY DEF LinkInvalid, Live, TypeOK, SomeCards
<1>3. Files(m) \subseteq AnyFile
  BY <1>1, <1>2 DEF Files, Commit, File, AnyFile, Rank, AnyCard
<1>4. m.verb = "rebase" => DOMAIN Projected(m) = DOMAIN meta
  BY DEF Projected, Rebased
<1>5. \A f \in Files(m) : f.kind \in {"body", "meta", "replaced"} => f.card \in DOMAIN Projected(m)
  BY <1>1, <1>2, <1>4, ProjectedType DEF Files, Commit, File
<1>6. QED BY <1>3, <1>5

-----------------------------------------------------------------------------
(* Commands stay commands, and files stay files. *)
Commands == /\ proc = [p \in Process |-> proc[p]]
            /\ \A p \in Process : Command(proc[p]) /\ Asked(proc[p])

(* A command that ends in a refusal. *)
LEMMA RefuseTyped ==
    ASSUME TypeOK, Asking, NEW p \in Process, Refuse(p)
    PROVE  Commands' /\ article' \subseteq Card /\ lease' \in AnyProcess
<1>1. Commands' BY IdleTyped, PutTyped DEF Refuse, Commands
<1>2. QED BY <1>1 DEF Refuse, TypeOK, AnyProcess

(* A call of create or of a verb on one card. *)
LEMMA CallTyped ==
    ASSUME TypeOK, Asking, NEW p \in Process, NEW m, Command(m), Planned(m), ~m.ok,
           \/ CallCreate(p, m)
           \/ \E verbs \in SUBSET OnOneCard : CallVerb(p, m, verbs)
    PROVE  Commands'
<1>1. DOMAIN meta \subseteq Card BY DEF TypeOK, SomeCards
<1>2. CASE CallCreate(p, m)
  <2>1. PICK c \in Card, over \in {0} \cup DOMAIN meta, shape \in Shapes \ {"article"} :
             Put(p, Request(m, "create", c, over, shape))
    BY <1>2 DEF CallCreate
  <2>2. c \in AnyCard /\ over \in AnyCard /\ shape \in AnyShape BY <1>1 DEF AnyCard, AnyShape
  <2>3. QED BY <2>1, <2>2, RequestTyped, PutTyped DEF Commands
<1>3. CASE \E verbs \in SUBSET OnOneCard : CallVerb(p, m, verbs)
  <2>1. PICK verb \in OnOneCard, c \in DOMAIN meta : Put(p, Request(m, verb, c, 0, "plain"))
    BY <1>3 DEF CallVerb
  <2>2. c \in AnyCard /\ 0 \in AnyCard /\ "plain" \in AnyShape
    BY <1>1 DEF AnyCard, AnyShape, Shapes
  <2>3. QED BY <2>1, <2>2, RequestTyped, PutTyped DEF Commands, OnOneCard, BatchVerbs
<1>4. QED BY <1>2, <1>3

(* The steps of an idle process. *)
LEMMA BeginTyped ==
    ASSUME TypeOK, Asking, NEW p \in Process, Begin(p)
    PROVE  Commands' /\ head' \in Nat /\ gone' \in BOOLEAN /\ article' \subseteq Card
           /\ lease' \in AnyProcess /\ UNCHANGED <<store, claim, faults>>
<1> DEFINE m == proc[p]
<1>1. Command(m) /\ Planned(m) /\ ~m.ok BY DEF TypeOK, Asking, Asked, Begin, At
<1>2. ASSUME NEW more \in 0..1 PROVE Command(Fresh(p, more)) /\ Planned(Fresh(p, more))
                                     /\ Fresh(p, more).members = more /\ ~Fresh(p, more).ok
  <2>1. SomeCards(Revisions, Nat) BY DEF Revisions, TypeOK, SomeCards, CardRecord
  <2>2. marker.version \in Nat BY DEF TypeOK, Stamp
  <2>3. Command(Fresh(p, more)) BY <1>1, <2>1, <2>2 DEF Fresh, Command
  <2>4. Planned(Fresh(p, more)) BY <1>1 DEF Fresh, Planned, Command
  <2>5. QED BY <1>1, <2>3, <2>4 DEF Fresh, Command
<1>3. CASE Call(p)
  <2>1. PICK more \in 0..1 : CallCreate(p, Fresh(p, more)) \/ CallVerb(p, Fresh(p, more), BatchVerbs)
    BY <1>3 DEF Call
  <2>2. Commands' BY <1>2, <2>1, CallTyped DEF OnOneCard
  <2>3. QED BY <1>3, <2>2 DEF Call, TypeOK
<1>4. CASE CallRefresh(p)
  <2>1. CallVerb(p, Fresh(p, 0), {"refresh"}) BY <1>4 DEF CallRefresh
  <2>2. Commands' BY <1>2, <2>1, CallTyped DEF OnOneCard
  <2>3. QED BY <1>4, <2>2 DEF CallRefresh, TypeOK
<1>5. CASE CallRebase(p)
  <2>1. PICK shape \in {"plain", "retireInvalid"} : Put(p, Request(Fresh(p, 0), "rebase", 0, 0, shape))
    BY <1>5 DEF CallRebase
  <2>2. 0 \in AnyCard /\ shape \in AnyShape BY DEF AnyCard, AnyShape, Shapes
  <2>3. Commands' BY <1>2, <2>1, <2>2, RequestTyped, PutTyped DEF Commands
  <2>4. QED BY <1>5, <2>3 DEF CallRebase, TypeOK
<1>6. CASE CallArticle(p)
  <2>1. PICK c \in Card \ article : /\ article' = article \cup {c}
                                    /\ Put(p, Request(Fresh(p, 0), "create", c, 0, "article"))
    BY <1>6 DEF CallArticle
  <2>2. c \in AnyCard /\ 0 \in AnyCard /\ "article" \in AnyShape /\ "article" \in Shapes
    BY DEF AnyCard, AnyShape, Shapes
  <2> DEFINE n == Request(Fresh(p, 0), "create", c, 0, "article")
  <2>3. Command(n) /\ Asked(n) BY <1>2, <2>2, RequestTyped
  <2> HIDE DEF n
  <2>4. Commands' BY <2>1, <2>3, PutTyped DEF Commands, n
  <2>5. QED BY <1>6, <2>1, <2>4 DEF CallArticle, TypeOK
<1>7. CASE AppendEvent(p)
  <2> DEFINE n == [Idle EXCEPT !.at = "marker", !.verb = "rebase"]
  <2>1. "marker" \in Point /\ "rebase" \in Verb BY DEF Point, Verb
  <2>2. Command(n) BY <2>1, IdleTyped DEF Command
  <2>3. Asked(n) BY IdleTyped DEF Asked, Planned, Command, Idle
  <2>4. Commands' BY <1>7, <2>2, <2>3, PutTyped DEF AppendEvent, Commands
  <2>5. gone' \in BOOLEAN BY <1>7, Zenon DEF AppendEvent, TypeOK
  <2>6. head' = head + 1 /\ head \in Nat BY <1>7, Zenon DEF AppendEvent, TypeOK
  <2>7. /\ article' = article /\ lease' = p /\ UNCHANGED <<store, claim, faults>>
        /\ article \subseteq Card
    BY <1>7, Zenon DEF AppendEvent, TypeOK
  <2>8. head' \in Nat BY <2>6
  <2>9. p \in AnyProcess BY DEF AnyProcess
  <2>10. QED BY <2>4, <2>5, <2>7, <2>8, <2>9, Zenon
<1>8. CASE Recover(p)
  <2> DEFINE n == [Idle EXCEPT !.at = "recover", !.verb = "recover", !.owner = claim]
  <2>1. "recover" \in Point /\ "recover" \in Verb /\ claim \in AnyProcess BY DEF Point, Verb, TypeOK
  <2>2. Command(n) BY <2>1, IdleTyped DEF Command
  <2>3. Asked(n) BY IdleTyped DEF Asked, Planned, Command, Idle
  <2>4. Commands' BY <1>8, <2>2, <2>3, PutTyped DEF Recover, Commands
  <2>5. QED BY <1>8, <2>4 DEF Recover, TypeOK
<1>9. QED BY <1>3, <1>4, <1>5, <1>6, <1>7, <1>8 DEF Begin

(* One file written: the store keeps its types. *)
LEMMA WriteTyped ==
    ASSUME TypeOK, Asking, NEW p \in Process, At(p, "write"), NEW f \in Due(proc[p]),
           Apply(proc[p], f)
    PROVE  /\ marker' \in Stamp /\ SomeCards(meta', CardRecord) /\ SomeCards(body', Nat)
           /\ view' \in [marker : Stamp, cards : {view'.cards}] /\ SomeCards(view'.cards, CardRecord)
<1> DEFINE m == proc[p]
<1>1. Command(m) /\ Planned(m) BY DEF TypeOK, Asking, Asked
<1>2. f \in m.todo /\ f \in AnyFile BY <1>1 DEF Due, Command
<1>3. m.plan.marker \in Stamp /\ SomeCards(m.plan.meta, CardRecord) BY <1>1 DEF Command
<1>4. marker' \in Stamp BY <1>3 DEF Apply, TypeOK
<1>5. /\ view' \in [marker : Stamp, cards : {view'.cards}] /\ SomeCards(view'.cards, CardRecord)
  BY <1>3 DEF Apply, KnowledgeIndex, TypeOK
<1>6. ASSUME f.kind \in {"body", "meta", "replaced"}
      PROVE  f.card \in Card /\ m.plan.meta[f.card] \in CardRecord /\ m.plan.meta[f.card].text \in Nat
  BY <1>1, <1>2, <1>3, <1>6 DEF Planned, SomeCards, CardRecord
<1>7. SomeCards(meta', CardRecord)
  BY <1>3, <1>6, WithType DEF Apply, TypeOK
<1>8. SomeCards(body', Nat)
  <2>1. CASE f.kind = "body" BY <1>6, <2>1, WithType DEF Apply, TypeOK
  <2>2. CASE f.kind = "drop" BY <2>2 DEF Apply, TypeOK, SomeCards
  <2>3. CASE f.kind \notin {"body", "drop"} BY <2>3 DEF Apply, TypeOK
  <2>4. QED BY <2>1, <2>2, <2>3
<1>9. QED BY <1>4, <1>5, <1>7, <1>8

(* The steps of a command that has begun. *)
LEMMA GoOnTyped ==
    ASSUME TypeOK, Asking, NEW p \in Process, GoOn(p)
    PROVE  Commands' /\ head' \in Nat /\ gone' \in BOOLEAN
           /\ marker' \in Stamp /\ SomeCards(meta', CardRecord) /\ SomeCards(body', Nat)
           /\ view' \in [marker : Stamp, cards : {view'.cards}] /\ SomeCards(view'.cards, CardRecord)
           /\ claim' \in AnyProcess /\ litter' \subseteq {"half a file", "released"}
           /\ article' \subseteq Card /\ lease' \in AnyProcess
           /\ faults' \in [killed : Nat, failed : Nat]
<1> DEFINE m == proc[p]
<1>1. Command(m) /\ Asked(m) /\ Planned(m) BY DEF TypeOK, Asking, Asked
<1>2. p \in AnyProcess /\ NoProcess \in AnyProcess BY DEF AnyProcess
<1>3. UNCHANGED store => /\ marker' \in Stamp /\ SomeCards(meta', CardRecord) /\ SomeCards(body', Nat)
           /\ view' \in [marker : Stamp, cards : {view'.cards}] /\ SomeCards(view'.cards, CardRecord)
           /\ litter' \subseteq {"half a file", "released"}
  BY DEF store, TypeOK
<1>4. CASE NextMember(p)
  <2> DEFINE n == [m EXCEPT !.members = 0]
  <2>1. Command(n) /\ Planned(n) /\ ~n.ok BY <1>1, <1>4 DEF Command, Planned, Asked, NextMember, At
  <2>2. CallCreate(p, n) \/ CallVerb(p, n, BatchVerbs) BY <1>4 DEF NextMember
  <2>3. Commands' BY <2>1, <2>2, CallTyped DEF OnOneCard
  <2>4. QED BY <1>3, <1>4, <2>3 DEF NextMember, TypeOK
<1>5. CASE Admit(p)
  <2>1. CASE Refuse(p) BY <1>3, <1>5, <2>1, RefuseTyped DEF Admit, TypeOK
  <2>2. CASE ~Refuse(p)
    <3> DEFINE n == [m EXCEPT !.at = "claim", !.bound = head]
    <3>1. "claim" \in Point /\ head \in Nat BY DEF Point, TypeOK
    <3>2. Command(n) BY <1>1, <3>1 DEF Command
    <3>3. Asked(n) BY <1>1, <1>5 DEF Asked, Planned, Command, Admit, At
    <3>4. Put(p, n) /\ UNCHANGED <<article, lease>> BY <1>5, <2>2 DEF Admit
    <3>5. Commands' BY <3>2, <3>3, <3>4, PutTyped DEF Commands
    <3>6. QED BY <1>3, <1>5, <3>4, <3>5 DEF Admit, TypeOK
  <2>3. QED BY <2>1, <2>2
<1>6. CASE Claim(p)
  <2>1. CASE Refuse(p) /\ UNCHANGED claim BY <1>3, <1>6, <2>1, RefuseTyped DEF Claim, TypeOK
  <2>2. CASE ~(Refuse(p) /\ UNCHANGED claim)
    <3> DEFINE n == [m EXCEPT !.at = "scan"]
    <3>1. "scan" \in Point BY DEF Point
    <3>2. Command(n) BY <1>1, <3>1 DEF Command
    <3>3. Asked(n) BY <1>1, <1>6 DEF Asked, Planned, Command, Claim, At
    <3>4. Put(p, n) /\ claim' = p /\ UNCHANGED <<article, lease>> BY <1>6, <2>2 DEF Claim, Goto
    <3>5. Commands' BY <3>2, <3>3, <3>4, PutTyped DEF Commands
    <3>6. QED BY <1>2, <1>3, <1>6, <3>4, <3>5 DEF Claim, TypeOK
  <2>3. QED BY <2>1, <2>2
<1>7. CASE Plan(p)
  <2> DEFINE plan == [marker |-> NextMarker(m), meta |-> Projected(m)]
             n == [m EXCEPT !.at = "write", !.ok = TRUE, !.todo = Files(m), !.plan = plan]
             r == [m EXCEPT !.at = "release"]
  <2>1. "write" \in Point /\ "release" \in Point BY DEF Point
  <2>2. CASE Guarded(m) /\ Put(p, n)
    <3>1. m.verb \in OnOneCard \cup {"create", "rebase"} BY <1>1, <1>7 DEF Plan, At, Asked
    <3>2. NextMarker(m) \in Stamp
      <4>1. m.bound \in Nat BY <1>1 DEF Command
      <4>2. marker.head \in Nat /\ marker.version \in Nat BY DEF TypeOK, Stamp
      <4>3. QED BY <4>1, <4>2 DEF NextMarker, Stamp
    <3>3. SomeCards(Projected(m), CardRecord) /\ Files(m) \subseteq AnyFile
      BY <1>1, <2>2, <3>1, ProjectedType, FilesType
    <3>4. Command(n) BY <1>1, <2>1, <3>2, <3>3 DEF Command
    <3>5. /\ n.todo = Files(m) /\ n.plan = plan /\ n.at = "write" /\ n.verb = m.verb
          /\ n.card = m.card /\ n.shape = m.shape /\ n.members = m.members
      BY <1>1 DEF Command
    <3>6. Planned(n) BY <1>1, <2>2, <3>1, <3>5, FilesType DEF Planned
    <3>7. m.members # 0 => m.card \in DOMAIN Projected(m)
      BY <1>1, <2>2, <3>1, ProjectedType DEF Asked
    <3>8. Asked(n) BY <1>1, <3>5, <3>6, <3>7 DEF Asked
    <3>9. Commands' BY <2>2, <3>4, <3>8, PutTyped DEF Commands
    <3>10. QED BY <1>3, <1>7, <3>9 DEF Plan, TypeOK
  <2>3. CASE Put(p, r)
    <3>1. Command(r) BY <1>1, <2>1 DEF Command
    <3>2. ~m.ok BY <1>1, <1>7 DEF Plan, At, Asked
    <3>3. Asked(r) BY <1>1, <3>2 DEF Asked, Planned, Command
    <3>4. Commands' BY <2>3, <3>1, <3>3, PutTyped DEF Commands
    <3>5. QED BY <1>3, <1>7, <3>4 DEF Plan, TypeOK
  <2>4. QED BY <1>7, <2>2, <2>3 DEF Plan
<1>8. CASE Write(p)
  <2>1. PICK f \in Due(m) :
          /\ Apply(m, f)
          /\ Put(p, [m EXCEPT !.todo = @ \ {f}, !.at = IF m.todo = {f} THEN "release" ELSE "write"])
    BY <1>8 DEF Write
  <2> DEFINE at == IF m.todo = {f} THEN "release" ELSE "write"
             n == [m EXCEPT !.todo = @ \ {f}, !.at = at]
  <2>2. at \in {"release", "write"} /\ at \in Point BY DEF Point
  <2>3. m.todo \ {f} \subseteq AnyFile BY <1>1 DEF Command
  <2> HIDE DEF at
  <2>4. Command(n) BY <1>1, <2>2, <2>3 DEF Command
  <2>5. Asked(n) BY <1>1, <1>8, <2>2 DEF Asked, Planned, Command, Write, At
  <2>6. Commands' BY <2>1, <2>4, <2>5, PutTyped DEF Commands, at
  <2>7. At(p, "write") BY <1>8 DEF Write
  <2>8. QED BY <1>8, <2>1, <2>6, <2>7, WriteTyped DEF Write, TypeOK
<1>9. CASE FailWrite(p)
  <2> DEFINE n == [m EXCEPT !.at = "release", !.ok = FALSE]
  <2>1. "release" \in Point BY DEF Point
  <2>2. Command(n) BY <1>1, <2>1 DEF Command
  <2>3. Asked(n) BY <1>1 DEF Asked, Planned, Command
  <2>4. Commands' BY <1>9, <2>2, <2>3, PutTyped DEF FailWrite, Commands
  <2>5. faults' \in [killed : Nat, failed : Nat]
    <3>1. faults \in [killed : Nat, failed : Nat] BY DEF TypeOK
    <3>2. faults' = [faults EXCEPT !.failed = @ + 1] BY <1>9 DEF FailWrite
    <3>3. QED BY <3>1, <3>2
  <2>6. QED BY <1>3, <1>9, <2>4, <2>5 DEF FailWrite, TypeOK
<1>10. CASE Release(p)
  <2>1. claim' \in AnyProcess BY <1>2, <1>10 DEF Release, TypeOK
  <2>2. CASE Refuse(p) BY <1>3, <1>10, <2>1, <2>2, RefuseTyped DEF Release, TypeOK
  <2>3. CASE ~Refuse(p)
    <3> DEFINE n == [m EXCEPT !.at = "final"]
    <3>1. "final" \in Point BY DEF Point
    <3>2. Command(n) BY <1>1, <3>1 DEF Command
    <3>3. Asked(n) BY <1>1, <1>10, <2>3 DEF Asked, Planned, Command, Release
    <3>4. Put(p, n) /\ UNCHANGED <<article, lease>> BY <1>10, <2>3 DEF Release, Goto
    <3>5. Commands' BY <3>2, <3>3, <3>4, PutTyped DEF Commands
    <3>6. QED BY <1>3, <1>10, <2>1, <3>4, <3>5 DEF Release, TypeOK
  <2>4. QED BY <2>2, <2>3
<1>11. CASE Final(p)
  <2>1. CASE Refuse(p) BY <1>3, <1>11, <2>1, RefuseTyped DEF Final, TypeOK
  <2>2. CASE ~Refuse(p)
    <3> DEFINE revisions == [c \in DOMAIN m.seen \cup {m.card} |->
                               IF c = m.card THEN m.plan.meta[c].rev ELSE m.seen[c]]
               version == IF m.verb = "create" THEN marker.version ELSE m.plan.marker.version
               n == [Idle EXCEPT !.at = "next", !.seen = revisions, !.expected = version]
    <3>1. Put(p, IF m.members = 0 THEN Idle ELSE n) /\ UNCHANGED article
          /\ lease' = IF lease = p THEN NoProcess ELSE lease
      BY <1>11, <2>2 DEF Final
    <3>2. "next" \in Point BY DEF Point
    <3>3. version \in Nat BY <1>1 DEF Command, TypeOK, Stamp
    <3>4. CASE m.members = 0
      <4>1. Commands' BY <3>1, <3>4, IdleTyped, PutTyped DEF Commands
      <4>2. QED BY <1>2, <1>3, <1>11, <3>1, <4>1 DEF Final, TypeOK
    <3>5. CASE m.members # 0
      <4>1. m.card \in DOMAIN m.plan.meta
        BY <1>1, <1>11, <3>5 DEF Final, At, Asked
      <4>2. m.card \in Card /\ m.plan.meta[m.card].rev \in Nat
        BY <1>1, <4>1 DEF Command, SomeCards, CardRecord
      <4>3. SomeCards(revisions, Nat) BY <1>1, <4>2 DEF Command, SomeCards
      <4>4. Command(n) BY <3>2, <3>3, <4>3, IdleTyped DEF Command
      <4>5. Asked(n) BY IdleTyped DEF Asked, Planned, Command, Idle
      <4>6. Commands' BY <3>1, <3>5, <4>4, <4>5, PutTyped DEF Commands
      <4>7. QED BY <1>2, <1>3, <1>11, <3>1, <4>6 DEF Final, TypeOK
    <3>6. QED BY <3>4, <3>5
  <2>3. QED BY <2>1, <2>2
<1>12. CASE AutoRebase(p)
  <2>1. CASE Refuse(p) BY <1>3, <1>12, <2>1, RefuseTyped DEF AutoRebase, TypeOK
  <2>2. CASE ~Refuse(p)
    <3> DEFINE n == [m EXCEPT !.at = "admit", !.expected = marker.version]
    <3>1. "admit" \in Point /\ marker.version \in Nat BY DEF Point, TypeOK, Stamp
    <3>2. Command(n) BY <1>1, <3>1 DEF Command
    <3>3. Asked(n) BY <1>1, <1>12 DEF Asked, Planned, Command, AutoRebase, At
    <3>4. Put(p, n) /\ UNCHANGED <<article, lease>> BY <1>12, <2>2 DEF AutoRebase
    <3>5. Commands' BY <3>2, <3>3, <3>4, PutTyped DEF Commands
    <3>6. QED BY <1>3, <1>12, <3>4, <3>5 DEF AutoRebase, TypeOK
  <2>3. QED BY <2>1, <2>2
<1>13. CASE Kill(p) \/ KillInWrite(p) \/ KillInRelease(p)
  <2>1. Die(p) BY <1>13 DEF Kill, KillInWrite, KillInRelease
  <2>2. Commands' BY <2>1, IdleTyped, PutTyped DEF Die, Commands
  <2>3. faults' \in [killed : Nat, failed : Nat]
    <3>1. faults \in [killed : Nat, failed : Nat] BY DEF TypeOK
    <3>2. faults' = [faults EXCEPT !.killed = @ + 1] BY <2>1 DEF Die
    <3>3. QED BY <3>1, <3>2
  <2>4. claim' \in AnyProcess /\ litter' \subseteq {"half a file", "released"}
    BY <1>2, <1>13 DEF Kill, KillInWrite, KillInRelease, TypeOK
  <2>5. QED BY <1>2, <2>1, <2>2, <2>3, <2>4 DEF Die, TypeOK
<1>14. CASE PlanRecovery(p)
  <2>1. CASE Put(p, Idle)
    <3>1. Commands' BY <2>1, IdleTyped, PutTyped DEF Commands
    <3>2. QED BY <1>3, <1>14, <3>1 DEF PlanRecovery, TypeOK
  <2>2. CASE ~Put(p, Idle)
    <3> DEFINE todo == Commit \cup {File("drop", c) : c \in DOMAIN body \ Live(meta)}
               plan == [marker |-> RecoveredMarker, meta |-> meta]
               n == [m EXCEPT !.at = "write", !.ok = TRUE, !.plan = plan, !.todo = todo]
    <3>1. "write" \in Point BY DEF Point
    <3>2. RecoveredMarker \in Stamp
      <4>1. marker \in Stamp BY DEF TypeOK
      <4>2. [marker EXCEPT !.version = @ + 1] \in Stamp BY <4>1 DEF Stamp
      <4>3. QED BY <4>1, <4>2 DEF RecoveredMarker
    <3>3. DOMAIN body \subseteq Card /\ SomeCards(meta, CardRecord) BY DEF TypeOK, SomeCards
    <3>4. todo \subseteq AnyFile BY <3>3 DEF Commit, File, AnyFile, Rank, AnyCard
    <3>5. Command(n) BY <1>1, <3>1, <3>2, <3>3, <3>4 DEF Command
    <3>6. Planned(n) BY <1>1 DEF Planned, Command, Commit, File
    <3>7. Asked(n) BY <1>1, <1>14, <3>6 DEF Asked, Command, PlanRecovery, At
    <3>8. Put(p, n) BY <1>14, <2>2 DEF PlanRecovery
    <3>9. Commands' BY <3>5, <3>7, <3>8, PutTyped DEF Commands
    <3>10. QED BY <1>3, <1>14, <3>9 DEF PlanRecovery, TypeOK
  <2>3. QED BY <2>1, <2>2
<1>15. QED BY <1>4, <1>5, <1>6, <1>7, <1>8, <1>9, <1>10, <1>11, <1>12, <1>13, <1>14 DEF GoOn

(* The typing is inductive, with what commands have asked for. *)
LEMMA TypedStep ==
    ASSUME TypeOK, Asking, [Next]_vars
    PROVE  TypeOK' /\ Asking'
<1>1. CASE UNCHANGED vars BY <1>1 DEF TypeOK, Asking, vars, store
<1>2. CASE Next
  <2>1. ASSUME marker' \in Stamp, SomeCards(meta', CardRecord)
        PROVE  named' \in [version : Nat, cards : {named'.cards}] /\ SomeCards(named'.cards, CardRecord)
    BY <1>2, <2>1 DEF Next, TypeOK, Stamp
  <2>2. PICK p \in Process : Begin(p) \/ GoOn(p) BY <1>2 DEF Next
  <2>3. CASE Begin(p)
    <3>1. /\ Commands' /\ head' \in Nat /\ gone' \in BOOLEAN /\ article' \subseteq Card
          /\ lease' \in AnyProcess /\ UNCHANGED <<store, claim, faults>>
      BY <2>3, BeginTyped
    <3>2. QED BY <2>1, <3>1 DEF TypeOK, Asking, Commands, store
  <2>4. CASE GoOn(p) BY <2>1, <2>4, GoOnTyped DEF TypeOK, Asking, Commands
  <2>5. QED BY <2>2, <2>3, <2>4
<1>3. QED BY <1>1, <1>2

-----------------------------------------------------------------------------
(* One command at a time between its claim and its release. *)
LEMMA OneHolder ==
    ASSUME Exclusive, NEW p \in Process, NEW q \in Process, Holding(p), Holding(q)
    PROVE  p = q
BY DEF Exclusive, Holding, At

(* A step is the step of one command. *)
LEMMA OthersStay ==
    ASSUME TypeOK, NEW p \in Process, NEW q \in Process, q # p, Begin(p) \/ GoOn(p)
    PROVE  proc'[q] = proc[q]
BY DEF TypeOK, Put, Goto, Refuse, Begin, GoOn, Call, CallCreate, CallVerb, CallRefresh, CallRebase,
       CallArticle, NextMember, Admit, Claim, Plan, Write, FailWrite, Release, Final, AppendEvent,
       AutoRebase, Kill, KillInWrite, KillInRelease, Die, Recover, PlanRecovery

(* Put leaves a process at what it was given. *)
LEMMA PutLeads ==
    ASSUME TypeOK, NEW p \in Process, NEW n, Put(p, n)
    PROVE  proc'[p] = n
BY DEF TypeOK, Put

(* Where an idle command and a dead one stand. *)
LEMMA IdleFields ==
    /\ Idle.at = "idle" /\ Idle.verb = "none"
    /\ [Idle EXCEPT !.at = "dead"].at = "dead" /\ [Idle EXCEPT !.at = "dead"].verb = "none"
BY DEF Idle

(* Where a request stands. *)
LEMMA RequestFields ==
    ASSUME NEW m, Command(m), NEW verb, NEW c, NEW over, NEW shape
    PROVE  /\ Request(m, verb, c, over, shape).at = "admit"
           /\ Request(m, verb, c, over, shape).verb = verb
BY DEF Command, Request

(* Where a step leaves its command and the claim: outside the claim, at the *)
(* scan under a claim it has just made, between claim and release, or at   *)
(* the end of them.                                                        *)
Outside(p) ==
    /\ proc'[p].at \notin {"scan", "write", "release"}
    /\ proc'[p].verb # "recover"
    /\ claim' = claim
Enters(p) ==
    /\ claim = NoProcess /\ claim' = p
    /\ proc'[p].at = "scan" /\ proc'[p].verb # "recover"
Inside(p) ==
    /\ Holding(p) \/ (At(p, "recover") /\ Recovering(p))
    /\ proc'[p].at = "write" => Plan(p) \/ PlanRecovery(p) \/ Write(p)
    /\ proc'[p].at = "release" => Plan(p) \/ FailWrite(p) \/ Write(p)
    /\ proc'[p].at \in {"write", "release"}
    /\ proc'[p].verb = proc[p].verb /\ proc'[p].owner = proc[p].owner
    /\ claim' = claim
Leaves(p) ==
    /\ At(p, "release")
    /\ proc'[p].at \in {"idle", "final", "dead"}
    /\ proc'[p].verb = "recover" => proc'[p].at = "final" /\ Recovering(p)
    /\ claim' = IF claim = Owner(p) THEN NoProcess ELSE claim

(* An idle process begins outside the claim, or with a recovery. *)
LEMMA BeginLeads ==
    ASSUME TypeOK, Asking, NEW p \in Process, Begin(p)
    PROVE  Outside(p) \/ Recover(p)
<1>1. Command(proc[p]) BY DEF TypeOK
<1>2. ASSUME NEW more \in 0..1 PROVE Command(Fresh(p, more))
  <2>1. SomeCards(Revisions, Nat) BY DEF Revisions, TypeOK, SomeCards, CardRecord
  <2>2. QED BY <1>1, <2>1 DEF Fresh, Command, TypeOK, Stamp
<1>3. ASSUME NEW more \in 0..1, NEW verb, verb # "recover", NEW c, NEW over, NEW shape,
             Put(p, Request(Fresh(p, more), verb, c, over, shape)), claim' = claim
      PROVE  Outside(p)
  BY <1>2, <1>3, RequestFields, PutLeads DEF Outside
<1>4. CASE Call(p)
  <2>1. PICK more \in 0..1 : CallCreate(p, Fresh(p, more)) \/ CallVerb(p, Fresh(p, more), BatchVerbs)
    BY <1>4 DEF Call
  <2>2. claim' = claim BY <1>4 DEF Call
  <2>3. QED BY <1>3, <2>1, <2>2 DEF CallCreate, CallVerb, BatchVerbs
<1>5. CASE CallRefresh(p) BY <1>3, <1>5 DEF CallRefresh, CallVerb
<1>6. CASE CallRebase(p) BY <1>3, <1>6 DEF CallRebase
<1>7. CASE CallArticle(p) BY <1>3, <1>7 DEF CallArticle
<1>8. CASE AppendEvent(p)
  <2> DEFINE n == [Idle EXCEPT !.at = "marker", !.verb = "rebase"]
  <2>1. n.at = "marker" /\ n.verb = "rebase" BY DEF Idle
  <2>2. Put(p, n) /\ claim' = claim BY <1>8, Zenon DEF AppendEvent
  <2> HIDE DEF n
  <2>3. QED BY <2>1, <2>2, PutLeads DEF Outside
<1>9. QED BY <1>4, <1>5, <1>6, <1>7, <1>8 DEF Begin

(* A recovery begins without a change of the claim. *)
LEMMA RecoverLeads ==
    ASSUME TypeOK, NEW p \in Process, Recover(p)
    PROVE  proc'[p].at = "recover" /\ claim' = claim
<1> DEFINE n == [Idle EXCEPT !.at = "recover", !.verb = "recover", !.owner = claim]
<1>1. n.at = "recover" BY DEF Idle
<1>2. Put(p, n) /\ claim' = claim BY DEF Recover
<1> HIDE DEF n
<1>3. QED BY <1>1, <1>2, PutLeads

(* A command that has begun takes one of the four kinds of step. *)
LEMMA GoOnLeads ==
    ASSUME TypeOK, Asking, NEW p \in Process, GoOn(p)
    PROVE  Outside(p) \/ Enters(p) \/ Inside(p) \/ Leaves(p)
<1> DEFINE m == proc[p]
<1>1. Command(m) /\ Asked(m) BY DEF TypeOK, Asking
<1>2. ASSUME Refuse(p), claim' = claim PROVE Outside(p)
  BY <1>2, IdleFields, PutLeads DEF Refuse, Outside
<1>3. CASE NextMember(p)
  <2> DEFINE n == [m EXCEPT !.members = 0]
  <2>1. Command(n) BY <1>1 DEF Command
  <2>2. CallCreate(p, n) \/ CallVerb(p, n, BatchVerbs) BY <1>3 DEF NextMember
  <2>3. PICK verb, c, over, shape :
             /\ verb \in BatchVerbs \cup {"create"}
             /\ Put(p, Request(n, verb, c, over, shape))
    BY <2>2 DEF CallCreate, CallVerb
  <2>4. claim' = claim BY <1>3 DEF NextMember
  <2>5. QED BY <2>1, <2>3, <2>4, RequestFields, PutLeads DEF Outside, BatchVerbs
<1>4. CASE Admit(p)
  <2> DEFINE n == [m EXCEPT !.at = "claim", !.bound = head]
  <2>1. n.at = "claim" /\ n.verb = m.verb BY <1>1 DEF Command
  <2>2. m.verb # "recover" BY <1>1, <1>4 DEF Admit, At, Asked, OnOneCard, BatchVerbs
  <2>3. (Refuse(p) \/ Put(p, n)) /\ claim' = claim BY <1>4 DEF Admit
  <2> HIDE DEF n
  <2>4. QED BY <1>2, <2>1, <2>2, <2>3, PutLeads DEF Outside
<1>5. CASE Claim(p)
  <2>1. CASE claim # NoProcess BY <1>2, <1>5, <2>1 DEF Claim
  <2>2. CASE claim = NoProcess
    <3> DEFINE n == [m EXCEPT !.at = "scan"]
    <3>1. n.at = "scan" /\ n.verb = m.verb BY <1>1 DEF Command
    <3>2. m.verb # "recover" BY <1>1, <1>5 DEF Claim, At, Asked, OnOneCard, BatchVerbs
    <3>3. claim' = p /\ Put(p, n) BY <1>5, <2>2 DEF Claim, Goto
    <3> HIDE DEF n
    <3>4. QED BY <2>2, <3>1, <3>2, <3>3, PutLeads DEF Enters
  <2>3. QED BY <2>1, <2>2
<1>6. CASE Plan(p)
  <2> DEFINE a == [m EXCEPT !.at = "write", !.ok = TRUE, !.todo = Files(m),
                            !.plan = [marker |-> NextMarker(m), meta |-> Projected(m)]]
             b == [m EXCEPT !.at = "release"]
  <2>1. Put(p, a) \/ Put(p, b) BY <1>6 DEF Plan
  <2>2. /\ a.at = "write" /\ a.verb = m.verb /\ a.owner = m.owner
        /\ b.at = "release" /\ b.verb = m.verb /\ b.owner = m.owner
    BY <1>1 DEF Command
  <2> HIDE DEF a, b
  <2>3. Holding(p) /\ claim' = claim BY <1>6 DEF Plan, At, Holding
  <2>4. QED BY <1>6, <2>1, <2>2, <2>3, PutLeads DEF Inside
<1>7. CASE Write(p)
  <2>1. PICK f \in Due(m) :
          Put(p, [m EXCEPT !.todo = @ \ {f}, !.at = IF m.todo = {f} THEN "release" ELSE "write"])
    BY <1>7 DEF Write
  <2> DEFINE n == [m EXCEPT !.todo = @ \ {f}, !.at = IF m.todo = {f} THEN "release" ELSE "write"]
  <2>2. n.at \in {"write", "release"} /\ n.verb = m.verb /\ n.owner = m.owner BY <1>1 DEF Command
  <2>3. Put(p, n) BY <2>1
  <2> HIDE DEF n
  <2>4. Holding(p) /\ claim' = claim BY <1>7 DEF Write, At, Holding
  <2>5. QED BY <1>7, <2>2, <2>3, <2>4, PutLeads DEF Inside
<1>8. CASE FailWrite(p)
  <2> DEFINE n == [m EXCEPT !.at = "release", !.ok = FALSE]
  <2>1. n.at = "release" /\ n.verb = m.verb /\ n.owner = m.owner BY <1>1 DEF Command
  <2>2. Holding(p) /\ claim' = claim /\ Put(p, n) BY <1>8 DEF FailWrite, At, Holding
  <2> HIDE DEF n
  <2>3. QED BY <1>8, <2>1, <2>2, PutLeads DEF Inside
<1>9. CASE Release(p)
  <2> DEFINE n == [m EXCEPT !.at = "final"]
  <2>1. n.at = "final" /\ n.verb = m.verb BY <1>1 DEF Command
  <2>2. Put(p, n) \/ Put(p, Idle) BY <1>9 DEF Release, Goto, Refuse
  <2>3. At(p, "release") /\ claim' = IF claim = Owner(p) THEN NoProcess ELSE claim
    BY <1>9 DEF Release
  <2> HIDE DEF n
  <2>4. QED BY <2>1, <2>2, <2>3, IdleFields, PutLeads DEF Leaves, Recovering
<1>10. CASE Final(p)
  <2>1. claim' = claim BY <1>10 DEF Final
  <2>2. CASE ~Refuse(p)
    <3>1. PICK seen, expected : Put(p, IF m.members = 0 THEN Idle
               ELSE [Idle EXCEPT !.at = "next", !.seen = seen, !.expected = expected])
      BY <1>10, <2>2 DEF Final
    <3> DEFINE n == [Idle EXCEPT !.at = "next", !.seen = seen, !.expected = expected]
    <3>2. n.at = "next" /\ n.verb = "none" BY DEF Idle
    <3>3. Put(p, n) \/ Put(p, Idle) BY <3>1
    <3> HIDE DEF n
    <3>4. QED BY <2>1, <3>2, <3>3, IdleFields, PutLeads DEF Outside
  <2>3. QED BY <1>2, <2>1, <2>2
<1>11. CASE AutoRebase(p)
  <2> DEFINE n == [m EXCEPT !.at = "admit", !.expected = marker.version]
  <2>1. n.at = "admit" /\ n.verb = m.verb BY <1>1 DEF Command
  <2>2. m.verb # "recover" BY <1>1, <1>11 DEF AutoRebase, At, Asked, OnOneCard, BatchVerbs
  <2>3. (Refuse(p) \/ Put(p, n)) /\ claim' = claim BY <1>11 DEF AutoRebase
  <2> HIDE DEF n
  <2>4. QED BY <1>2, <2>1, <2>2, <2>3, PutLeads DEF Outside
<1>12. CASE Kill(p) \/ KillInWrite(p) \/ KillInRelease(p)
  <2> DEFINE n == [Idle EXCEPT !.at = "dead"]
  <2>1. Put(p, n) BY <1>12 DEF Kill, KillInWrite, KillInRelease, Die
  <2>2. n.at = "dead" /\ n.verb = "none" BY IdleFields
  <2> HIDE DEF n
  <2>3. \/ claim' = claim
        \/ At(p, "release") /\ claim = Owner(p) /\ claim' = NoProcess
    BY <1>12 DEF Kill, KillInWrite, KillInRelease
  <2>4. QED BY <2>1, <2>2, <2>3, PutLeads DEF Outside, Leaves
<1>13. CASE PlanRecovery(p)
  <2> DEFINE n == [m EXCEPT !.at = "write", !.ok = TRUE,
                      !.plan = [marker |-> RecoveredMarker, meta |-> meta],
                      !.todo = Commit \cup {File("drop", c) : c \in DOMAIN body \ Live(meta)}]
  <2>1. Put(p, n) \/ Put(p, Idle) BY <1>13 DEF PlanRecovery
  <2>2. n.at = "write" /\ n.verb = m.verb /\ n.owner = m.owner BY <1>1 DEF Command
  <2>3. At(p, "recover") /\ claim' = claim BY <1>13 DEF PlanRecovery
  <2>4. Recovering(p) BY <1>1, <2>3 DEF Asked, At, Recovering
  <2> HIDE DEF n
  <2>5. QED BY <1>13, <2>1, <2>2, <2>3, <2>4, IdleFields, PutLeads DEF Outside, Inside
<1>14. QED BY <1>3, <1>4, <1>5, <1>6, <1>7, <1>8, <1>9, <1>10, <1>11, <1>12, <1>13 DEF GoOn

-----------------------------------------------------------------------------
(* The exclusion that the claim gives, kept by every kind of step. *)
LEMMA ExclusiveStep ==
    ASSUME OverlapRecovery = FALSE, TypeOK, Asking, Exclusive, [Next]_vars
    PROVE  Exclusive'
<1>1. CASE UNCHANGED vars BY <1>1 DEF Exclusive, Holding, Recovering, At, vars
<1>2. CASE Next
  <2>1. PICK p \in Process : Begin(p) \/ GoOn(p) BY <1>2 DEF Next
  <2>2. \A q \in Process : q # p => proc'[q] = proc[q] BY <2>1, OthersStay
  <2>3. ~At(p, "dead") BY <2>1 DEF Begin, GoOn, At
  <2>4. \A q \in Process : q # p => /\ Holding(q)' <=> Holding(q)
                                    /\ Recovering(q)' <=> Recovering(q)
    BY <2>2 DEF Holding, Recovering
  <2>5. ASSUME claim' = claim,
               \/ ~Holding(p)' /\ ~Recovering(p)'
               \/ Inside(p)
        PROVE  Exclusive'
    <3>1. \A q \in Process : Holding(q)' /\ ~Recovering(q)' => claim' = q
      BY <2>4, <2>5 DEF Exclusive, Inside, Recovering
    <3>2. \A q \in Process : Recovering(q)' =>
             /\ proc'[q].at \in {"recover", "write", "release", "final"}
             /\ proc'[q].at # "final" => proc'[q].owner \in Process /\ claim' = proc'[q].owner
      BY <2>2, <2>4, <2>5 DEF Exclusive, Inside, Recovering, Holding, At
    <3>3. \A q \in Process : Recovering(q)' /\ proc'[q].at # "final" => At(claim, "dead")'
      BY <2>2, <2>3, <2>4, <2>5 DEF Exclusive, Inside, Recovering, Holding, At
    <3>4. \A q, r \in Process : Recovering(q)' /\ Recovering(r)' => q = r
      BY <2>4, <2>5 DEF Exclusive, Inside, Recovering
    <3>5. QED BY <3>1, <3>2, <3>3, <3>4 DEF Exclusive
  <2>6. CASE Outside(p) BY <2>5, <2>6 DEF Outside, Holding, Recovering
  <2>7. CASE Inside(p) BY <2>5, <2>7 DEF Inside
  <2>8. CASE Enters(p)
    <3>1. \A q \in Process : Recovering(q) => proc[q].at = "final"
      BY <2>8, KnowledgeAssumption DEF Exclusive, Enters, KnowledgeAssumption
    <3>2. \A q \in Process : ~Holding(q)
      BY <2>8, <3>1, KnowledgeAssumption DEF Exclusive, Holding, Enters, KnowledgeAssumption
    <3>3. ~Recovering(p)' BY <2>8 DEF Enters, Recovering
    <3>4. \A q \in Process : Recovering(q)' => proc'[q].at = "final" BY <2>2, <2>4, <3>1, <3>3
    <3>5. \A q \in Process : Holding(q)' => claim' = q BY <2>4, <2>8, <3>2 DEF Enters
    <3>6. \A q, r \in Process : Recovering(q)' /\ Recovering(r)' => q = r
      BY <2>4, <3>3 DEF Exclusive
    <3>7. QED BY <3>4, <3>5, <3>6 DEF Exclusive
  <2>9. CASE Leaves(p)
    <3>1. \A q \in Process : ~Holding(q)' BY <2>4, <2>9, OneHolder DEF Leaves, Holding, At
    <3>2. \A q \in Process : q # p /\ Recovering(q) => proc[q].at = "final"
      BY <2>9 DEF Exclusive, Holding, At, Leaves
    <3>3. \A q \in Process : Recovering(q)' => proc'[q].at = "final"
      BY <2>2, <2>9, <3>2 DEF Recovering, Leaves
    <3>4. \A q, r \in Process : Recovering(q)' /\ Recovering(r)' => q = r
      BY <2>4, <2>9 DEF Exclusive, Recovering, Leaves
    <3>5. QED BY <3>1, <3>3, <3>4 DEF Exclusive
  <2>10. CASE Recover(p)
    <3> DEFINE n == [Idle EXCEPT !.at = "recover", !.verb = "recover", !.owner = claim]
    <3>1. n.at = "recover" /\ n.verb = "recover" /\ n.owner = claim BY DEF Idle
    <3>2. /\ Put(p, n) /\ claim' = claim /\ claim # NoProcess /\ At(claim, "dead")
          /\ \A q \in Process : ~Recovering(q)
      BY <2>10 DEF Recover, Recovering
    <3>3. claim \in Process /\ claim # p BY <2>3, <3>2 DEF TypeOK, AnyProcess
    <3> HIDE DEF n
    <3>4. proc'[p] = n BY <3>2, PutLeads
    <3>5. \A q \in Process : Recovering(q)' => q = p BY <2>4, <3>2
    <3>6. \A q \in Process : Holding(q)' => claim' = q
      BY <2>4, <3>1, <3>2, <3>4 DEF Exclusive, Holding
    <3>7. At(claim, "dead")' BY <2>2, <3>2, <3>3 DEF At
    <3>8. QED BY <3>1, <3>2, <3>3, <3>4, <3>5, <3>6, <3>7 DEF Exclusive
  <2>11. QED BY <2>1, <2>6, <2>7, <2>8, <2>9, <2>10, BeginLeads, GoOnLeads
<1>3. QED BY <1>1, <1>2

-----------------------------------------------------------------------------
(* The steps that write no file of the store. *)
LEMMA OnlyWriteWrites ==
    ASSUME NEW p \in Process, Begin(p) \/ GoOn(p), ~Write(p)
    PROVE  UNCHANGED <<marker, meta, body, view>>
BY DEF store, Begin, GoOn, Call, CallRefresh, CallRebase, CallArticle, NextMember, Admit, Claim, Plan,
       FailWrite, Release, Final, AppendEvent, AutoRebase, Kill, KillInWrite, KillInRelease, Die,
       Recover, PlanRecovery

(* The write of a file brings the store nearer to the plan. *)
LEMMA WriteNearer ==
    ASSUME TypeOK, Asking, NEW p \in Process, At(p, "write"), HalfWritten(proc[p]),
           NEW f \in Due(proc[p]), Apply(proc[p], f), NEW n,
           n.todo = proc[p].todo \ {f}, n.plan = proc[p].plan
    PROVE  HalfWritten(n)'
<1> DEFINE m == proc[p]
           plan == m.plan.meta
<1>1. Command(m) /\ Planned(m) BY DEF TypeOK, Asking, Asked
<1>2. f \in m.todo /\ f \in AnyFile BY <1>1 DEF Due, Command
<1>3. f = File(f.kind, f.card) BY <1>2 DEF AnyFile, File
<1>4. \A kind, c : Pending(n, kind, c)' <=> Pending(m, kind, c) /\ ~(f.kind = kind /\ f.card = c)
  BY <1>3 DEF Pending, File
<1>5. n.plan = m.plan /\ (f.kind \in {"body", "meta", "replaced"} => f.card \in DOMAIN plan)
  BY <1>1, <1>2 DEF Planned
<1>6. Pending(n, "marker", 0)' => Pending(n, "view", 0)'
  <2>1. SUFFICES ASSUME Pending(m, "marker", 0), f = File("view", 0) PROVE FALSE
    BY <1>3, <1>4 DEF HalfWritten, Pending
  <2>2. Precedes(f, File("marker", 0))
    BY <2>1 DEF Due, Pending, File
  <2>3. QED BY <2>1, <2>2 DEF Precedes, Rank, File
<1>7. Pending(n, "marker", 0)' \/ marker' = n.plan.marker
  BY <1>4, <1>5 DEF HalfWritten, Apply
<1>8. IF Pending(n, "view", 0)' THEN Newer(n)' ELSE view' = KnowledgeIndex(n.plan.marker, n.plan.meta)
  <2>1. CASE f.kind = "view"
    <3>1. view' = KnowledgeIndex(m.plan.marker, plan) BY <2>1 DEF Apply
    <3>2. Newer(n)' BY <1>5, <3>1 DEF Newer, KnowledgeIndex
    <3>3. QED BY <1>5, <3>1, <3>2
  <2>2. CASE f.kind # "view"
    <3>1. view' = view BY <2>2 DEF Apply
    <3>2. Newer(m) => Newer(n)' BY <1>5, <3>1 DEF Newer
    <3>3. Pending(n, "view", 0)' <=> Pending(m, "view", 0) BY <1>4, <2>2
    <3>4. QED BY <1>5, <3>1, <3>2, <3>3 DEF HalfWritten
  <2>3. QED BY <2>1, <2>2
<1>9. meta' = IF f.kind \in {"meta", "replaced"} THEN With(meta, f.card, plan[f.card]) ELSE meta
  BY DEF Apply
<1>10. DOMAIN meta' \subseteq DOMAIN plan
  BY <1>5, <1>9 DEF HalfWritten, With
<1>11. ASSUME NEW c \in DOMAIN plan, ~Pending(n, "meta", c)', ~Pending(n, "replaced", c)'
       PROVE  c \in DOMAIN meta' /\ meta'[c] = plan[c]
  <2>1. CASE f.kind \in {"meta", "replaced"} /\ f.card = c BY <1>9, <2>1 DEF With
  <2>2. CASE ~(f.kind \in {"meta", "replaced"} /\ f.card = c)
    <3>1. c \in DOMAIN meta /\ meta[c] = plan[c] BY <1>4, <1>11, <2>2 DEF HalfWritten
    <3>2. QED BY <1>9, <2>2, <3>1 DEF With
  <2>3. QED BY <2>1, <2>2
<1>12. body' = IF f.kind = "body" THEN With(body, f.card, plan[f.card].text)
               ELSE IF f.kind = "drop" THEN [c \in DOMAIN body \ {f.card} |-> body[c]] ELSE body
  BY DEF Apply
<1>13. DOMAIN body' \subseteq DOMAIN plan
  BY <1>5, <1>12 DEF HalfWritten, With
<1>14. ASSUME NEW c \in Live(plan) PROVE Pending(n, "body", c)' \/ c \in DOMAIN body'
  <2>1. ~(f.kind = "drop" /\ f.card = c) BY <1>2, <1>3 DEF HalfWritten, Pending
  <2>2. QED BY <1>4, <1>12, <2>1 DEF HalfWritten, With
<1>15. ASSUME NEW c \in DOMAIN body', ~Pending(n, "body", c)' PROVE body'[c] = plan[c].text
  BY <1>4, <1>12, <1>15 DEF HalfWritten, With
<1>16. \A c \in Live(plan) : ~Pending(n, "drop", c)'
  BY <1>4 DEF HalfWritten
<1>17. \A c \in DOMAIN plan : plan[c].over = 0 \/ plan[c].over \in DOMAIN plan
  BY DEF HalfWritten
<1> HIDE DEF plan
<1>18. QED
  BY <1>5, <1>6, <1>7, <1>8, <1>10, <1>11, <1>13, <1>14, <1>15, <1>16, <1>17 DEF HalfWritten, plan

(* The plan of a verb begins from a store that its scan found whole. *)
LEMMA PlanBegins ==
    ASSUME KnowledgeAssumption, TypeOK, NEW m, Command(m), Asked(m),
           m.verb \in OnOneCard \cup {"create", "rebase"}, Guarded(m),
           Scan(TRUE, m.verb # "rebase", TRUE, m.verb = "rebase", FALSE), NEW n,
           n.todo = Files(m), n.plan = [marker |-> NextMarker(m), meta |-> Projected(m)]
    PROVE  HalfWritten(n)
<1> DEFINE plan == Projected(m)
<1>1. /\ DOMAIN body \subseteq DOMAIN meta /\ Live(meta) \subseteq DOMAIN body
      /\ \A c \in DOMAIN body : body[c] = meta[c].text
      /\ \A c \in DOMAIN meta : meta[c].over = 0 \/ meta[c].over \in DOMAIN meta
      /\ view = KnowledgeIndex(marker, meta)
  BY DEF Scan
<1>2. n.plan.meta = plan /\ n.plan.marker = NextMarker(m) BY DEF plan
<1>3. Pending(n, "marker", 0) /\ Pending(n, "view", 0) BY DEF Pending, Files, Commit
<1>4. Newer(n)
  <2>1. marker.version \in Nat BY DEF TypeOK, Stamp
  <2>2. view.marker = marker BY <1>1 DEF KnowledgeIndex
  <2>3. QED BY <1>2, <2>1, <2>2 DEF Newer, NextMarker
<1> DEFINE Goal == /\ DOMAIN meta \subseteq DOMAIN plan
                   /\ \A c \in DOMAIN plan :
                         \/ Pending(n, "meta", c) \/ Pending(n, "replaced", c)
                         \/ c \in DOMAIN meta /\ meta[c] = plan[c]
                   /\ \A c \in Live(plan) : Pending(n, "body", c) \/ c \in DOMAIN body
                   /\ \A c \in DOMAIN body : Pending(n, "body", c) \/ body[c] = plan[c].text
                   /\ \A c \in Live(plan) : ~Pending(n, "drop", c)
                   /\ \A c \in DOMAIN plan : plan[c].over = 0 \/ plan[c].over \in DOMAIN plan
<1>5. ASSUME m.verb = "create" PROVE Goal
  <2>1. plan = Created(m) BY <1>5 DEF Projected
  <2>2. m.card \notin DOMAIN meta /\ m.card \in Card /\ m.shape \in Shapes
        /\ (m.over # 0 => m.over \in Live(meta))
    BY <1>5 DEF Guarded, Creatable, Asked
  <2>3. NewCard(m).over = m.over /\ NewCard(m).text = 1 BY <2>2, NewCardType
  <2>4. /\ Pending(n, "body", m.card) /\ Pending(n, "meta", m.card)
        /\ m.over # 0 => Pending(n, "replaced", m.over)
        /\ \A c : ~Pending(n, "drop", c)
    BY <1>5 DEF Pending, Files, Commit, File
  <2>5. CASE m.over = 0
    BY <1>1, <2>1, <2>2, <2>3, <2>4, <2>5 DEF Created, With, Live
  <2>6. CASE m.over # 0
    <3> DEFINE s == Superseded(m)
    <3>1. m.over \in DOMAIN meta BY <2>2, <2>6 DEF Live
    <3>2. s.life = meta[m.over].life /\ s.text = meta[m.over].text /\ s.over = meta[m.over].over
      <4>1. /\ Bump(m.over, "superseded") \in CardRecord
            /\ Bump(m.over, "superseded").life = meta[m.over].life
            /\ Bump(m.over, "superseded").text = meta[m.over].text
            /\ Bump(m.over, "superseded").over = meta[m.over].over
        BY <3>1, BumpType
      <4>2. QED BY <4>1 DEF Superseded, CardRecord
    <3> HIDE DEF s
    <3>3. plan = With(With(meta, m.over, s), m.card, NewCard(m)) BY <2>1, <2>6 DEF Created, s
    <3>4. QED BY <1>1, <2>2, <2>3, <2>4, <2>6, <3>1, <3>2, <3>3 DEF With, Live
  <2>7. QED BY <2>5, <2>6
<1>6. ASSUME m.verb = "rebase" PROVE Goal
  <2>1. plan = Rebased BY <1>6 DEF Projected
  <2>2. /\ \A c \in LinkInvalid : Pending(n, "meta", c)
        /\ \A c : ~Pending(n, "drop", c)
    BY <1>6 DEF Pending, Files, Commit, File
  <2>3. LinkInvalid \subseteq DOMAIN meta /\ DOMAIN plan = DOMAIN meta
    BY <2>1 DEF LinkInvalid, Live, Rebased
  <2>4. ASSUME NEW c \in LinkInvalid
        PROVE  plan[c].life = "retired" /\ plan[c].text = meta[c].text /\ plan[c].over = meta[c].over
    <3>1. /\ Bump(c, "retire") \in CardRecord /\ Bump(c, "retire").text = meta[c].text
          /\ Bump(c, "retire").over = meta[c].over
      BY <2>3, BumpType DEF BatchVerbs
    <3>2. plan[c] = [Bump(c, "retire") EXCEPT !.life = "retired"] BY <2>1, <2>3 DEF Rebased
    <3>3. QED BY <3>1, <3>2 DEF CardRecord
  <2>5. \A c \in DOMAIN meta \ LinkInvalid : plan[c] = meta[c] BY <2>1 DEF Rebased
  <2> HIDE DEF plan
  <2>6. Live(plan) \subseteq Live(meta) BY <2>3, <2>4, <2>5 DEF Live
  <2>7. \A c \in DOMAIN meta : plan[c].text = meta[c].text /\ plan[c].over = meta[c].over
    BY <2>4, <2>5
  <2>8. QED BY <1>1, <2>2, <2>3, <2>5, <2>6, <2>7
<1>7. ASSUME m.verb \in OnOneCard PROVE Goal
  <2> DEFINE w == Written(m)
  <2>1. plan = With(meta, m.card, w) BY <1>7 DEF Projected, OnOneCard, BatchVerbs
  <2>2. /\ m.card \in DOMAIN meta /\ w.over = meta[m.card].over
        /\ m.verb # "retire" => w.life = meta[m.card].life
        /\ m.verb = "retire" => w.life = "retired"
        /\ m.verb # "refresh" => w.text = meta[m.card].text
    BY <1>7, WrittenType
  <2>3. /\ Pending(n, "meta", m.card)
        /\ m.verb = "refresh" => Pending(n, "body", m.card)
        /\ \A c : Pending(n, "drop", c) => c = m.card /\ m.verb = "retire"
    BY <1>7 DEF Pending, Files, Commit, File, OnOneCard, BatchVerbs
  <2> HIDE DEF w
  <2>4. QED BY <1>1, <2>1, <2>2, <2>3 DEF With, Live
<1>8. Goal BY <1>5, <1>6, <1>7
<1> HIDE DEF plan
<1>9. QED BY <1>1, <1>2, <1>3, <1>4, <1>8 DEF HalfWritten

(* The plan of a recovery begins from a store whose cards are right. *)
LEMMA RecoveryBegins ==
    ASSUME KnowledgeAssumption, TypeOK, Versioned, Scan(TRUE, TRUE, TRUE, FALSE, TRUE), NEW n,
           n.todo = Commit \cup {File("drop", c) : c \in DOMAIN body \ Live(meta)},
           n.plan = [marker |-> RecoveredMarker, meta |-> meta]
    PROVE  HalfWritten(n)
<1>1. /\ DOMAIN body \subseteq DOMAIN meta /\ Live(meta) \subseteq DOMAIN body
      /\ \A c \in DOMAIN body : body[c] = meta[c].text
      /\ \A c \in DOMAIN meta : meta[c].over = 0 \/ meta[c].over \in DOMAIN meta
  BY DEF Scan
<1>2. n.plan.meta = meta /\ n.plan.marker = RecoveredMarker OBVIOUS
<1>3. /\ Pending(n, "marker", 0) /\ Pending(n, "view", 0)
      /\ \A c : Pending(n, "drop", c) => c \notin Live(meta)
  BY DEF Pending, Commit, File
<1>4. Newer(n)
  <2>1. marker \in Stamp /\ view.marker \in Stamp BY DEF TypeOK
  <2>2. [marker EXCEPT !.version = @ + 1].version = marker.version + 1 BY <2>1 DEF Stamp
  <2>3. marker.version \in Nat /\ view.marker.version \in Nat
        /\ view.marker.version <= marker.version
    BY <2>1 DEF Stamp, Versioned
  <2>4. view = KnowledgeIndex(marker, meta) => view.cards = meta BY DEF KnowledgeIndex
  <2>5. QED BY <1>2, <2>2, <2>3, <2>4 DEF Newer, RecoveredMarker
<1>5. QED BY <1>1, <1>2, <1>3, <1>4 DEF HalfWritten

-----------------------------------------------------------------------------
(* A plan that nobody writes stays as far as it is. *)
LEMMA HalfWrittenKept ==
    ASSUME NEW m, HalfWritten(m), UNCHANGED <<marker, meta, body, view>>
    PROVE  HalfWritten(m)'
BY DEF HalfWritten, Newer

(* The one writer stays on the way to its plan. *)
LEMMA WritingStep ==
    ASSUME TypeOK, Asking, Exclusive, Writing, Versioned, KnowledgeAssumption,
           NEW p \in Process, Begin(p) \/ GoOn(p)
    PROVE  Writing'
<1> DEFINE m == proc[p]
<1>1. Command(m) /\ Asked(m) BY DEF TypeOK, Asking
<1>2. ASSUME ~Write(p), NEW q \in Process, q # p, At(q, "write")' PROVE HalfWritten(proc[q])'
  BY <1>2, OnlyWriteWrites, OthersStay, HalfWrittenKept DEF At, Writing
<1>3. CASE Write(p)
  <2>1. ASSUME NEW q \in Process, q # p PROVE ~At(q, "write")'
    BY <1>3, <2>1, OthersStay, OneHolder DEF At, Write, Holding
  <2>2. PICK f \in Due(m) :
          /\ Apply(m, f)
          /\ Put(p, [m EXCEPT !.todo = @ \ {f}, !.at = IF m.todo = {f} THEN "release" ELSE "write"])
    BY <1>3 DEF Write
  <2> DEFINE n == [m EXCEPT !.todo = @ \ {f}, !.at = IF m.todo = {f} THEN "release" ELSE "write"]
  <2>3. n.todo = m.todo \ {f} /\ n.plan = m.plan BY <1>1 DEF Command
  <2>4. proc'[p] = n BY <2>2 DEF TypeOK, Put
  <2> HIDE DEF n
  <2>5. At(p, "write") /\ HalfWritten(m) BY <1>3 DEF Write, Writing
  <2>6. PICK w : w = n OBVIOUS
  <2>7. HalfWritten(w)' BY <2>2, <2>3, <2>5, <2>6, WriteNearer
  <2>8. QED BY <2>1, <2>4, <2>6, <2>7 DEF Writing
<1>4. CASE Plan(p)
  <2>1. m.verb \in OnOneCard \cup {"create", "rebase"} BY <1>1, <1>4 DEF Plan, At, Asked
  <2> DEFINE n == [m EXCEPT !.at = "write", !.ok = TRUE, !.todo = Files(m),
                            !.plan = [marker |-> NextMarker(m), meta |-> Projected(m)]]
             r == [m EXCEPT !.at = "release"]
  <2>2. /\ n.todo = Files(m) /\ n.plan = [marker |-> NextMarker(m), meta |-> Projected(m)]
        /\ r.at = "release"
    BY <1>1 DEF Command
  <2>3. \/ Put(p, r)
        \/ Put(p, n) /\ Guarded(m) /\ Scan(TRUE, m.verb # "rebase", TRUE, m.verb = "rebase", FALSE)
    BY <1>4 DEF Plan
  <2>4. UNCHANGED <<marker, meta, body, view>> BY <1>4 DEF Plan, store
  <2> HIDE DEF n, r
  <2>5. CASE Put(p, r)
    <3>1. proc'[p] = r BY <2>5 DEF TypeOK, Put
    <3>2. ~Write(p) BY <1>4 DEF Plan, Write, At
    <3>3. QED BY <1>2, <2>2, <3>1, <3>2 DEF Writing, At
  <2>6. CASE ~Put(p, r)
    <3>1. proc'[p] = n BY <2>3, <2>6 DEF TypeOK, Put
    <3>2. HalfWritten(n) BY <1>1, <2>1, <2>2, <2>3, <2>6, PlanBegins
    <3>3. PICK w : w = n OBVIOUS
    <3>4. HalfWritten(w)' BY <2>4, <3>2, <3>3, HalfWrittenKept
    <3>5. ~Write(p) BY <1>4 DEF Plan, Write, At
    <3>6. QED BY <1>2, <3>1, <3>3, <3>4, <3>5 DEF Writing
  <2>7. QED BY <2>5, <2>6
<1>5. CASE PlanRecovery(p)
  <2> DEFINE n == [m EXCEPT !.at = "write", !.ok = TRUE,
                      !.plan = [marker |-> RecoveredMarker, meta |-> meta],
                      !.todo = Commit \cup {File("drop", c) : c \in DOMAIN body \ Live(meta)}]
  <2>1. /\ n.todo = Commit \cup {File("drop", c) : c \in DOMAIN body \ Live(meta)}
        /\ n.plan = [marker |-> RecoveredMarker, meta |-> meta]
    BY <1>1 DEF Command
  <2>2. \/ Put(p, Idle)
        \/ Put(p, n) /\ Scan(TRUE, TRUE, TRUE, FALSE, TRUE)
    BY <1>5 DEF PlanRecovery
  <2>3. UNCHANGED <<marker, meta, body, view>> /\ ~Write(p)
    BY <1>5 DEF PlanRecovery, store, Write, At
  <2> HIDE DEF n
  <2>4. CASE Put(p, Idle)
    <3>1. proc'[p] = Idle BY <2>4 DEF TypeOK, Put
    <3>2. QED BY <1>2, <2>3, <3>1, IdleFields DEF Writing, At
  <2>5. CASE ~Put(p, Idle)
    <3>1. proc'[p] = n BY <2>2, <2>5 DEF TypeOK, Put
    <3>2. HalfWritten(n) BY <2>1, <2>2, <2>5, RecoveryBegins
    <3>3. PICK w : w = n OBVIOUS
    <3>4. HalfWritten(w)' BY <2>3, <3>2, <3>3, HalfWrittenKept
    <3>5. QED BY <1>2, <2>3, <3>1, <3>3, <3>4 DEF Writing
  <2>6. QED BY <2>4, <2>5
<1>6. CASE ~Write(p) /\ ~Plan(p) /\ ~PlanRecovery(p)
  <2>1. ~At(p, "write")'
    BY <1>6, BeginLeads, GoOnLeads, RecoverLeads DEF At, Outside, Enters, Inside, Leaves
  <2>2. QED BY <1>2, <1>6, <2>1 DEF Writing
<1>7. QED BY <1>3, <1>4, <1>5, <1>6

(* The claim is given back over a whole store, or over a fault. *)
LEMMA QuietIsSoundStep ==
    ASSUME TypeOK, Asking, Exclusive, Writing, Writing', TypeOK', QuietIsSound, KnowledgeAssumption,
           NEW p \in Process, Begin(p) \/ GoOn(p)
    PROVE  QuietIsSound'
<1> DEFINE m == proc[p]
<1>1. \A q \in Process : q # p => proc'[q] = proc[q] BY OthersStay
<1>2. SUFFICES ASSUME Quiet', litter' = {}, faults'.failed = 0 PROVE Sound'
  BY DEF QuietIsSound
<1>3. UNCHANGED <<marker, meta, body, view>> /\ Sound => Sound' BY DEF Sound
<1>4. litter = {} /\ faults.failed = 0
  <2>1. CASE Write(p) BY <1>2, <2>1 DEF Write
  <2>2. CASE Begin(p)
    <3>1. litter' = litter /\ faults' = faults
      BY <2>2, Zenon DEF Begin, Call, CallRefresh, CallRebase, CallArticle, AppendEvent, Recover, store
    <3>2. QED BY <1>2, <3>1
  <2>3. CASE FailWrite(p)
    <3>1. faults \in [killed : Nat, failed : Nat] BY DEF TypeOK
    <3>2. faults' = [faults EXCEPT !.failed = @ + 1] BY <2>3 DEF FailWrite
    <3>3. faults'.failed # 0 BY <3>1, <3>2
    <3>4. QED BY <1>2, <3>3
  <2>4. CASE Kill(p) \/ KillInWrite(p) \/ KillInRelease(p)
    <3>1. faults \in [killed : Nat, failed : Nat] BY DEF TypeOK
    <3>2. faults' = [faults EXCEPT !.killed = @ + 1] BY <2>4 DEF Kill, KillInWrite, KillInRelease, Die
    <3>3. faults'.failed = faults.failed BY <3>1, <3>2
    <3>4. litter' = {} => litter = {} BY <2>4 DEF Kill, KillInWrite, KillInRelease
    <3>5. QED BY <1>2, <3>3, <3>4
  <2>5. CASE NextMember(p) \/ Admit(p) \/ Claim(p) \/ Plan(p) \/ Release(p) \/ Final(p)
             \/ AutoRebase(p) \/ PlanRecovery(p)
    <3>1. litter' = litter /\ faults' = faults
      BY <2>5 DEF NextMember, Admit, Claim, Plan, Release, Final, AutoRebase, PlanRecovery, store
    <3>2. QED BY <1>2, <3>1
  <2>6. QED BY <2>1, <2>2, <2>3, <2>4, <2>5 DEF GoOn
<1>5. ASSUME Quiet, ~Write(p) PROVE Sound'
  BY <1>3, <1>4, <1>5, OnlyWriteWrites DEF QuietIsSound
<1>6. ASSUME claim' = claim, proc'[p].at \notin {"scan", "release"} PROVE Quiet
  <2>1. CASE claim' = NoProcess BY <1>6, <2>1 DEF Quiet
  <2>2. CASE claim' # NoProcess
    <3>1. PICK q \in Process : proc'[q].at \in {"scan", "release"} /\ claim' = Owner(q)'
      BY <1>2, <2>2 DEF Quiet
    <3>2. q # p BY <1>6, <3>1
    <3>3. proc'[q] = proc[q] BY <1>1, <3>2
    <3>4. QED BY <1>6, <3>1, <3>3 DEF Quiet, Owner
  <2>3. QED BY <2>1, <2>2
<1>7. CASE Write(p)
  <2>1. Holding(p) /\ claim' = claim BY <1>7 DEF Write, Holding, At
  <2>2. claim # NoProcess
    BY <2>1, KnowledgeAssumption DEF Exclusive, Holding, KnowledgeAssumption
  <2>3. PICK q \in Process : proc'[q].at \in {"scan", "release"} BY <1>2, <2>1, <2>2 DEF Quiet
  <2>4. q = p
    <3>1. q # p => Holding(q) BY <1>1, <2>3 DEF Holding
    <3>2. QED BY <2>1, <3>1, OneHolder
  <2>5. PICK f \in Due(m) :
          /\ Apply(m, f)
          /\ Put(p, [m EXCEPT !.todo = @ \ {f}, !.at = IF m.todo = {f} THEN "release" ELSE "write"])
    BY <1>7 DEF Write
  <2>6. Command(m) BY DEF TypeOK
  <2> DEFINE n == [m EXCEPT !.todo = @ \ {f}, !.at = IF m.todo = {f} THEN "release" ELSE "write"]
  <2>7. /\ n.todo = m.todo \ {f} /\ n.plan = m.plan
        /\ n.at = IF m.todo = {f} THEN "release" ELSE "write"
    BY <2>6 DEF Command
  <2>8. Put(p, n) BY <2>5
  <2> HIDE DEF n
  <2>9. proc'[p] = n BY <2>8, PutLeads
  <2>10. n.todo = {} BY <2>3, <2>4, <2>7, <2>9
  <2>11. PICK w : w = n OBVIOUS
  <2>12. HalfWritten(w)'
    BY <1>7, <2>5, <2>7, <2>11, WriteNearer DEF Write, Writing
  <2>13. SomeCards(w.plan.meta, CardRecord) BY <2>6, <2>7, <2>11 DEF Command
  <2>14. w.todo = {} BY <2>10, <2>11
  <2>15. \A kind, c : ~Pending(w, kind, c)' BY <2>14 DEF Pending
  <2>16. DOMAIN meta' = DOMAIN w.plan.meta /\ \A c \in DOMAIN meta' : meta'[c] = w.plan.meta[c]
    BY <2>12, <2>15 DEF HalfWritten
  <2>17. meta' = w.plan.meta
    <3>1. meta' = [c \in DOMAIN meta' |-> meta'[c]] BY DEF TypeOK, SomeCards
    <3>2. w.plan.meta = [c \in DOMAIN meta' |-> w.plan.meta[c]] BY <2>13, <2>16 DEF SomeCards
    <3>3. QED BY <2>16, <3>1, <3>2
  <2>18. QED BY <2>12, <2>15, <2>17 DEF HalfWritten, Sound
<1>8. CASE ~Write(p)
  <2>1. CASE Outside(p) \/ Recover(p)
    BY <1>5, <1>6, <1>8, <2>1, RecoverLeads DEF Outside
  <2>2. CASE Enters(p) BY <1>5, <1>8, <2>2 DEF Enters, Quiet
  <2>3. CASE Leaves(p)
    <3>1. Holding(p) BY <2>3 DEF Leaves, Holding, At
    <3>2. claim = Owner(p) BY <3>1 DEF Exclusive, Owner, Recovering, Holding
    <3>3. Quiet BY <2>3, <3>2 DEF Quiet, Leaves, At
    <3>4. QED BY <1>5, <1>8, <3>3
  <2>4. CASE Inside(p)
    <3>1. CASE proc'[p].at = "write" BY <1>5, <1>6, <1>8, <2>4, <3>1 DEF Inside
    <3>2. CASE Plan(p)
      <4>1. At(p, "scan") BY <3>2 DEF Plan
      <4>2. claim = Owner(p) BY <4>1 DEF Exclusive, Owner, Recovering, Holding, At
      <4>3. Quiet BY <4>1, <4>2 DEF Quiet, At
      <4>4. QED BY <1>5, <1>8, <4>3
    <3>3. CASE FailWrite(p)
      <4>1. faults \in [killed : Nat, failed : Nat] BY DEF TypeOK
      <4>2. faults' = [faults EXCEPT !.failed = @ + 1] BY <3>3 DEF FailWrite
      <4>3. faults'.failed # 0 BY <4>1, <4>2
      <4>4. QED BY <1>2, <4>3
    <3>4. QED BY <1>8, <2>4, <3>1, <3>2, <3>3 DEF Inside
  <2>5. QED BY <2>1, <2>2, <2>3, <2>4, BeginLeads, GoOnLeads
<1>9. QED BY <1>7, <1>8

(* What the store shows after a step, against the names given before it. *)
LEMMA NamesGrow ==
    ASSUME TypeOK, Writing, Versioned, NEW p \in Process, Begin(p) \/ GoOn(p)
    PROVE  /\ named.version <= view'.marker.version
           /\ view'.marker.version <= marker'.version
           /\ view'.marker.version = named.version => view'.cards = named.cards
<1>1. CASE ~Write(p) BY <1>1, OnlyWriteWrites DEF Versioned
<1>2. CASE Write(p)
  <2> DEFINE m == proc[p]
  <2>1. PICK f \in Due(m) : Apply(m, f) BY <1>2 DEF Write
  <2>2. HalfWritten(m) /\ Command(m) BY <1>2 DEF Write, Writing, TypeOK
  <2>3. /\ named.version \in Nat /\ view.marker.version \in Nat /\ marker.version \in Nat
        /\ m.plan.marker.version \in Nat
    BY <2>2 DEF TypeOK, Stamp, Command
  <2>4. f \in m.todo BY DEF Due
  <2>5. CASE f.kind = "view"
    <3>1. ~Pending(m, "marker", 0)
      <4>1. SUFFICES ASSUME Pending(m, "marker", 0) PROVE FALSE OBVIOUS
      <4>2. Precedes(f, File("marker", 0)) BY <2>5, <4>1 DEF Due, Pending, File
      <4>3. QED BY <2>5, <4>2 DEF Precedes, Rank, File
    <3>2. marker' = m.plan.marker BY <2>1, <2>2, <2>5, <3>1 DEF HalfWritten, Apply
    <3>3. view'.marker = m.plan.marker /\ view'.cards = m.plan.meta
      BY <2>1, <2>5 DEF Apply, KnowledgeIndex
    <3>4. \/ Newer(m)
          \/ view.marker = m.plan.marker /\ view.cards = m.plan.meta
      BY <2>2 DEF HalfWritten, KnowledgeIndex
    <3>5. QED BY <2>3, <3>2, <3>3, <3>4 DEF Newer, Versioned
  <2>6. CASE f.kind = "marker"
    <3>1. marker' = m.plan.marker /\ view' = view BY <2>1, <2>6 DEF Apply
    <3>2. \/ Newer(m)
          \/ view.marker = m.plan.marker
      BY <2>2 DEF HalfWritten, KnowledgeIndex
    <3>3. QED BY <2>3, <3>1, <3>2 DEF Newer, Versioned
  <2>7. CASE f.kind \notin {"view", "marker"}
    <3>1. marker' = marker /\ view' = view BY <2>1, <2>7 DEF Apply
    <3>2. QED BY <3>1 DEF Versioned
  <2>8. QED BY <2>5, <2>6, <2>7
<1>3. QED BY <1>1, <1>2

(* Versions and the contents that readers are shown under them. *)
LEMMA VersionedStep ==
    ASSUME TypeOK, TypeOK', Writing, Versioned, [Next]_vars
    PROVE  /\ Versioned'
           /\ Readable' => \/ marker'.version > named.version
                           \/ marker'.version = named.version /\ meta' = named.cards
<1>1. Readable' => view' = KnowledgeIndex(marker', meta') BY DEF Readable, Scan
<1>2. /\ named.version \in Nat /\ view'.marker.version \in Nat /\ marker'.version \in Nat
  BY DEF TypeOK, Stamp
<1>3. /\ named.version <= view'.marker.version
      /\ view'.marker.version <= marker'.version
      /\ view'.marker.version = named.version => view'.cards = named.cards
  <2>1. CASE UNCHANGED vars BY <2>1 DEF vars, store, Versioned
  <2>2. CASE Next BY <2>2, NamesGrow DEF Next
  <2>3. QED BY <2>1, <2>2
<1>4. Readable' => view'.marker = marker' /\ view'.cards = meta' BY <1>1 DEF KnowledgeIndex
<1>5. \/ named' = named
      \/ Readable' /\ named' = [version |-> marker'.version, cards |-> meta']
  BY DEF Next, vars
<1>6. Versioned' BY <1>2, <1>3, <1>4, <1>5 DEF Versioned
<1>7. QED BY <1>2, <1>3, <1>4, <1>6

-----------------------------------------------------------------------------
(* The store as initializeKnowledgeStore leaves it. *)
LEMMA InitInv == Init => StoreInv
<1> SUFFICES ASSUME Init PROVE StoreInv OBVIOUS
<1>1. SomeCards(Nothing, Nat) /\ SomeCards(Nothing, CardRecord) BY NothingType
<1>2. TypeOK
  BY <1>1, IdleTyped DEF Init, TypeOK, Stamp, KnowledgeIndex, AnyProcess
<1>3. Asking BY IdleTyped DEF Init, Asking
<1>4. Exclusive BY IdleFields DEF Init, Exclusive, Holding, Recovering
<1>5. Writing BY IdleFields DEF Init, Writing, At
<1>6. Sound BY DEF Init, Sound, Nothing, Live, KnowledgeIndex
<1>7. Versioned BY DEF Init, Versioned, KnowledgeIndex
<1>8. QED BY <1>2, <1>3, <1>4, <1>5, <1>6, <1>7 DEF StoreInv, QuietIsSound

(* The invariant is inductive. *)
LEMMA StoreInvStep ==
    ASSUME OverlapRecovery = FALSE, StoreInv, [Next]_vars
    PROVE  StoreInv'
<1>1. TypeOK' /\ Asking' BY TypedStep DEF StoreInv
<1>2. Exclusive' BY ExclusiveStep DEF StoreInv
<1>3. Versioned' BY <1>1, VersionedStep DEF StoreInv
<1>4. CASE UNCHANGED vars
  <2>1. Writing' BY <1>4 DEF StoreInv, Writing, At, HalfWritten, Newer, vars, store
  <2>2. QuietIsSound' BY <1>4 DEF StoreInv, QuietIsSound, Quiet, Sound, Owner, vars, store
  <2>3. QED BY <1>1, <1>2, <1>3, <2>1, <2>2 DEF StoreInv
<1>5. CASE Next
  <2>1. PICK p \in Process : Begin(p) \/ GoOn(p) BY <1>5 DEF Next
  <2>2. Writing' BY <2>1, KnowledgeAssumption, WritingStep DEF StoreInv
  <2>3. QuietIsSound' BY <1>1, <2>1, <2>2, KnowledgeAssumption, QuietIsSoundStep DEF StoreInv
  <2>4. QED BY <1>1, <1>2, <1>3, <2>2, <2>3 DEF StoreInv
<1>6. QED BY <1>4, <1>5

(* The types of the files, of the claim and of the commands. *)
THEOREM KnowledgeTyping == Spec => []TypeOK
<1>1. Init => TypeOK /\ Asking BY InitInv DEF StoreInv
<1>2. TypeOK /\ Asking /\ [Next]_vars => TypeOK' /\ Asking' BY TypedStep
<1>3. QED BY <1>1, <1>2, PTL DEF Spec

(* One writer at a time under mutation.claim; its files, its plan and the   *)
(* version in store.json stay consistent through kills and recoveries.     *)
THEOREM KnowledgeInvariant ==
    ASSUME OverlapRecovery = FALSE
    PROVE  Spec => []StoreInv
<1>1. Init => StoreInv BY InitInv
<1>2. StoreInv /\ [Next]_vars => StoreInv' BY StoreInvStep
<1>3. QED BY <1>1, <1>2, PTL DEF Spec

(* A store without a claim, without litter and without a write that failed  *)
(* passes the full scan: releaseMutationClaim runs after the last file.    *)
THEOREM WhatIsUnclaimedIsWhole ==
    ASSUME OverlapRecovery = FALSE
    PROVE  Spec => []UnclaimedIsWhole
<1>1. StoreInv => UnclaimedIsWhole
  BY DEF StoreInv, QuietIsSound, Quiet, Sound, UnclaimedIsWhole, Scan
<1>2. QED BY <1>1, KnowledgeInvariant, PTL

(* Whenever readers are served, a version of the marker that was ever       *)
(* listed names the cards it named then, also after kills and recoveries.  *)
THEOREM VersionsNameContents ==
    ASSUME OverlapRecovery = FALSE
    PROVE  Spec => VersionNamesContent
<1>1. StoreInv /\ [Next]_vars =>
        [Readable' => \/ marker'.version > named.version
                      \/ marker'.version = named.version /\ meta' = named.cards]_vars
  BY VersionedStep, StoreInvStep DEF StoreInv
<1>2. QED BY <1>1, KnowledgeInvariant, PTL DEF Spec, VersionNamesContent
=============================================================================
