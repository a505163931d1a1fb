---------------------------- MODULE KnowledgeCards ----------------------------
(***************************************************************************)
(* What a knowledge card says, and who is shown it                          *)
(* (packages/core/src/knowledge-core.ts): the verbs that write, promote,    *)
(* retire, re-verify, refresh and re-date a card, and the five readings of  *)
(* the store, the list, the search, the context candidates, the body and    *)
(* the checkpoint, each with its own test of which cards count.             *)
(*                                                                         *)
(* KnowledgeStore is about the files, the claim and the versions; here a    *)
(* verb that writes is one step.  A text is a sequence of words.  One file  *)
(* is the source of every card that names one.                             *)
(***************************************************************************)
EXTENDS Naturals, FiniteSets, FiniteSetsExt, Functions, TLC

CONSTANTS
    Card,              \* the identifiers, in their canonical order
    Shape,             \* the inputs of knowledge-create
    Text,              \* what an article may say: [subject, summary, snippet]
    Age,               \* the maximum ages a policy may set; 0 is none
    Project,           \* the live projects
    Strict,            \* the kinds that need a source and evidence
    Threshold, Limit,  \* the conflict threshold, the page size
    Unset,
    Skew,              \* a writer's clock may run ahead of a reader's
    MaxTime, MaxHead, MaxWrites, MaxEdits

VARIABLES
    now,
    head, marker,      \* the head of the chain, and the head the store is bound to
    cards,             \* the metadata of the cards that exist
    bodies,            \* their bodies
    file,              \* the content of the source file, 0 when it is missing
    withdrawn,         \* history: the cards replaced, rejected or retired
    writes, edits

vars == <<now, head, marker, cards, bodies, file, withdrawn, writes, edits>>

Ids == DOMAIN cards

BodyOf(m) == <<m.subject, m.summary>>

CardsInit ==
  /\ now = 0 /\ head = 1 /\ marker = 1
  /\ cards = [c \in {} |-> 0] /\ bodies = [c \in {} |-> 0]
  /\ file = 1 /\ withdrawn = {}
  /\ writes = 0 /\ edits = 0

-----------------------------------------------------------------------------
(* Which records are admitted.                                             *)

Promotable(m) ==
  /\ m.owned
  /\ m.kind \in Strict => m.source # "none" /\ m.evidence
  /\ m.tags # {} /\ m.snippet # <<>>

ScopeHolds(m) ==
  /\ m.scope = "workspace" => m.project = Unset /\ m.roles = {}
  /\ m.scope = "project" => m.project \in Project /\ m.roles = {}
  /\ m.scope = "role" => m.roles # {}
  /\ m.project # Unset => m.project \in Project

Admissible(m) ==
  /\ m.promotion = "promoted" => Promotable(m)
  /\ m.lifecycle # "retired" => ScopeHolds(m)
  /\ m.state = "unknown" => m.verified = Unset

-----------------------------------------------------------------------------
(* Freshness.  A clock alone makes no card stale unless its policy says so. *)

Dated(m) == m.maxAge # 0 /\ m.verified # Unset /\ m.state # "unknown"

(* One card verified after the instant asked about fails the whole reading. *)
Evaluable(at) == \A c \in Ids : Dated(cards[c]) => cards[c].verified <= at

Fresh(m, at) ==
  /\ m.state # "stale"
  /\ Dated(m) => at - m.verified <= m.maxAge

-----------------------------------------------------------------------------
(* Relevance.                                                              *)

Occurrences(text, w) == Cardinality({i \in DOMAIN text : text[i] = w})

TagScore(tag, w) == IF tag = <<w>> THEN 12 ELSE 3 * Occurrences(tag, w)

WordScore(m, w) ==
  8 * Occurrences(m.subject, w) + 4 * Occurrences(m.summary, w)
    + 2 * Occurrences(m.snippet, w) + MapThenSumSet(LAMBDA t : TagScore(t, w), m.tags)

Score(m, search) == MapThenSumSet(LAMBDA w : WordScore(m, w), search)

WordsOf(m) ==
  Range(m.subject) \cup Range(m.summary) \cup Range(m.snippet) \cup UNION {Range(t) : t \in m.tags}

(* Mutant: the snippet is not searched.                                    *)
SnippetUnsearched(m, search) ==
  search \cap (Range(m.subject) \cup Range(m.summary) \cup UNION {Range(t) : t \in m.tags}) # {}

SearchMatches(m, search) == search \cap WordsOf(m) # {}

(* The live cards that are about what a new subject is about.              *)
Conflicts(subject, excluded) ==
  {c \in Ids \ excluded : cards[c].lifecycle # "retired"
                            /\ Score(cards[c], Range(subject)) >= Threshold}

-----------------------------------------------------------------------------
(* The readings.                                                           *)

NotWithdrawn(m, at) ==
  /\ m.replacedBy = Unset /\ m.promotion # "rejected" /\ m.lifecycle = "active"
  /\ m.exported /\ Fresh(m, at)

DefaultSelectable(m, at) == NotWithdrawn(m, at) /\ m.disposition = "default"

ExplicitlySelectable(m, at) == NotWithdrawn(m, at) /\ m.disposition # "excluded"

Query(search, explicit, only) == [search |-> search, explicit |-> explicit, only |-> only]

Plain == Query({}, FALSE, <<>>)

(* The cards a query selects; the list widens to explicit-only ones when it *)
(* searches, the context candidates never do.  `only` holds the filters.    *)
Selected(q, widens) ==
  {c \in Ids :
     /\ IF widens /\ (q.explicit \/ q.search # {})
        THEN ExplicitlySelectable(cards[c], now) ELSE DefaultSelectable(cards[c], now)
     /\ \A f \in DOMAIN q.only : cards[c][f] = q.only[f]
     /\ q.search = {} \/ SearchMatches(cards[c], q.search)}

Before(q, c, d) ==
  LET mine == Score(cards[c], q.search)  theirs == Score(cards[d], q.search)
  IN mine > theirs \/ (mine = theirs /\ c < d)

Page(q, widens, offset) ==
  LET all == Selected(q, widens)
      Rank(c) == Cardinality({d \in all : Before(q, d, c)})
  IN [ids |-> {c \in all : offset <= Rank(c) /\ Rank(c) < offset + Limit},
      truncated |-> offset + Limit < Cardinality(all)]

(* A role has no tier of its own among the context's scopes.               *)
Candidate(m) ==
  [scope |-> IF m.scope = "project" THEN "project" ELSE "workspace",
   project |-> IF m.scope = "project" THEN m.project ELSE Unset, fresh |-> Fresh(m, now)]

BodyOpens(m, at) ==
  m.promotion # "rejected" /\ Fresh(m, at) /\ m.disposition # "excluded" /\ m.lifecycle # "retired"

(* A checkpoint is never taken of a store that trails its chain.           *)
Checkpoint ==
  IF marker = head THEN {c \in Ids : DefaultSelectable(cards[c], now)} ELSE {}

SourceStatus(m) ==
  IF m.source # "file" THEN "uncheckable" ELSE
  IF file = 0 THEN "missing" ELSE IF m.digest = file THEN "unchanged" ELSE "changed"

-----------------------------------------------------------------------------
(* The verbs.  Each scans strictly: a store that trails takes no write.     *)

Writable == marker = head /\ writes < MaxWrites

Write(c, m) ==
  /\ Admissible(m)
  /\ cards' = (c :> m) @@ cards
  /\ writes' = writes + 1
  /\ UNCHANGED <<now, head, marker, file, edits>>

(* buildMetadata: what its writer calls active is promoted as it is written. *)
Built(s, target, declared) ==
  s @@ [promotion |-> IF s.lifecycle = "active" THEN "promoted" ELSE "candidate",
        verified |-> IF s.verifies THEN now + s.ahead ELSE Unset,
        digest |-> IF s.source = "file" THEN file ELSE 0,
        supersedes |-> target, replacedBy |-> Unset, coexists |-> declared]

Create(c, s, target, coexist) ==
  LET hits == Conflicts(s.subject, {c, target})
      m == Built(s, target, IF target = Unset THEN hits ELSE {})
      old == [cards[target] EXCEPT !.replacedBy = c]
  IN /\ Writable /\ c \notin Ids
     /\ s.ahead # 0 => Skew
     /\ target # Unset => cards[target].lifecycle # "retired"
     /\ hits # {} /\ target = Unset => coexist
     /\ Admissible(m)
     /\ target # Unset => Admissible(old)
     /\ cards' = (c :> m) @@ (IF target = Unset THEN cards ELSE [cards EXCEPT ![target] = old])
     /\ bodies' = (c :> BodyOf(m)) @@ bodies
     /\ withdrawn' = withdrawn \cup ({target} \ {Unset})
     /\ writes' = writes + 1
     /\ UNCHANGED <<now, head, marker, file, edits>>

Transition(c, outcome) ==
  /\ Writable /\ cards[c].promotion = "candidate" /\ cards[c].lifecycle # "retired"
  /\ Write(c, [cards[c] EXCEPT !.promotion = outcome])
  /\ withdrawn' = withdrawn \cup (IF outcome = "rejected" THEN {c} ELSE {})
  /\ UNCHANGED bodies

Retire(c) ==
  /\ Writable /\ cards[c].lifecycle # "retired"
  /\ Write(c, [cards[c] EXCEPT !.lifecycle = "retired"])
  /\ bodies' = [d \in DOMAIN bodies \ {c} |-> bodies[d]]
  /\ withdrawn' = withdrawn \cup {c}

Reverify(c) ==
  /\ Writable /\ cards[c].promotion = "promoted" /\ cards[c].lifecycle # "retired"
  /\ Write(c, [cards[c] EXCEPT !.verified = now, !.state = "fresh"])
  /\ UNCHANGED <<bodies, withdrawn>>

(* The policy may be changed of any card, a retired one too.               *)
UpdatePolicy(c, age) ==
  /\ Writable
  /\ Write(c, [cards[c] EXCEPT !.maxAge = age, !.state = IF age = 0 THEN "fresh" ELSE @])
  /\ UNCHANGED <<bodies, withdrawn>>

(* refreshKnowledgeArticle: the index card of an article, from its file;    *)
(* word 0 is the tag it is filed under.                                     *)
Refresh(c, t) ==
  /\ Writable /\ cards[c].kind = "reference" /\ cards[c].disposition = "explicit-only"
  /\ cards[c].lifecycle # "retired" /\ cards[c].source = "file" /\ file # 0
  /\ LET m == t @@ [cards[c] EXCEPT !.tags = {<<0>>}, !.digest = file,
                                    !.state = "fresh", !.verified = now]
     IN Write(c, m) /\ bodies' = [bodies EXCEPT ![c] = BodyOf(m)]
  /\ UNCHANGED withdrawn

(* A workspace event, and the rebase that binds the store to its head.      *)
Event ==
  /\ head < MaxHead /\ head' = head + 1
  /\ UNCHANGED <<now, marker, cards, bodies, file, withdrawn, writes, edits>>

Rebase ==
  /\ marker < head /\ marker' = head
  /\ UNCHANGED <<now, head, cards, bodies, file, withdrawn, writes, edits>>

Tick ==
  /\ now < MaxTime /\ now' = now + 1
  /\ UNCHANGED <<head, marker, cards, bodies, file, withdrawn, writes, edits>>

EditSource ==
  /\ edits < MaxEdits /\ edits' = edits + 1
  /\ file' \in 0..MaxEdits + 1 /\ file' # file
  /\ UNCHANGED <<now, head, marker, cards, bodies, withdrawn, writes>>

CardsNext ==
  \/ \E c \in Card, s \in Shape, t \in Ids \cup {Unset}, b \in BOOLEAN : Create(c, s, t, b)
  \/ \E c \in Ids, o \in {"promoted", "rejected"} : Transition(c, o)
  \/ \E c \in Ids : Retire(c) \/ Reverify(c)
  \/ \E c \in Ids, a \in Age : UpdatePolicy(c, a)
  \/ \E c \in Ids, t \in Text : Refresh(c, t)
  \/ Event \/ Rebase \/ Tick \/ EditSource

-----------------------------------------------------------------------------
(* What is listed is found by each word it stores, is offered as context,   *)
(* has a body that opens, and is in the checkpoint; the pages of a listing   *)
(* hold every card once.                                                   *)
ReadingsAgree ==
  LET listed == Selected(Plain, TRUE) IN
  /\ Selected(Plain, FALSE) = listed
  /\ marker = head => Checkpoint = listed
  /\ \A c \in listed :
       /\ \A w \in WordsOf(cards[c]) : c \in Selected(Query({w}, FALSE, <<>>), TRUE)
       /\ BodyOpens(cards[c], now) /\ c \in DOMAIN bodies /\ bodies[c] = BodyOf(cards[c])
       /\ LET x == Candidate(cards[c])
          IN x.fresh /\ (x.scope = "workspace" <=> x.project = Unset)
       /\ Cardinality({k \in 0..Cardinality(listed) : c \in Page(Plain, TRUE, k * Limit).ids}) = 1

(* A card that was replaced, rejected or retired answers no later reading,   *)
(* and its replacement says what it replaced.                               *)
WithdrawnStays ==
  \A c \in withdrawn :
    /\ \A x \in BOOLEAN : c \notin Selected(Query(WordsOf(cards[c]), x, <<>>), TRUE)
    /\ c \notin Checkpoint
    /\ cards[c].replacedBy # Unset => cards[cards[c].replacedBy].supersedes = c

(* Of two cards about the same thing that both answer by default, the later  *)
(* says that it replaces one or stands beside the other.                    *)
ConflictsAreDeclared ==
  \A c, d \in Selected(Plain, TRUE) :
    c # d => \/ Score(cards[c], Range(cards[d].subject)) < Threshold
             \/ c \in cards[d].coexists \/ cards[d].supersedes # Unset
             \/ d \in cards[c].coexists \/ cards[c].supersedes # Unset

SelectionsAgree ==
  Evaluable(now) /\ ReadingsAgree /\ WithdrawnStays /\ ConflictsAreDeclared

(* A re-verification answers what the source check asks for, as its report    *)
(* says ("reverify-or-retire"): false, the card keeps the digest it had.     *)
VerifiedIsAligned ==
  [][\A c \in Ids : Reverify(c) => SourceStatus(cards'[c]) # "changed"]_vars
=============================================================================
