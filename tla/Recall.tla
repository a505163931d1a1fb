------------------------------- MODULE Recall -------------------------------
(***************************************************************************)
(* The ranked answer over cards, minutes and work (recall.ts, and the      *)
(* recall command that feeds it).  The index is derived: two tables and a  *)
(* map, kept per workspace between two questions, rewritten row by row     *)
(* when the checkpoint of chain and knowledge store has moved, thrown away *)
(* when too many are kept.                                                 *)
(*                                                                         *)
(* A text is a few words.  The score of a word is the weight of the fields *)
(* it is in, times how rare it is among the rows of the table, not divided *)
(* by lengths: what a table must get right is which rows it holds.         *)
(***************************************************************************)
EXTENDS Integers, Sequences, SequencesExt, FiniteSets, FiniteSetsExt

CONSTANTS
    Workspace,
    Source,       \* the records of a workspace: [id, kind, key, part]
    Text,         \* what a record says: [title, summary, extra], the last two of words
    Start,        \* what the sources hold at the start
    Query,        \* what is asked: [words, keys], each key once
    CacheLimit, Limit, Tau,
    Quota,        \* by kind: how many of it an answer has at most
    KeyScore,     \* the score of a record that is named by its key
    MaxChanges, MaxQuestions      \* bounds

VARIABLES
    content,      \* by workspace and source: absent, or [title, summary, extra]
    head,         \* by workspace: the events on its chain
    asking,       \* the question in flight: none, or what the chain said
    cache,        \* the kept indexes, the one used last at the end
    answer,       \* none, or [hits, fresh, documents]
    changes, questions

recallVars == <<content, head, asking, cache, answer, changes, questions>>

Absent == <<>>

-----------------------------------------------------------------------------
(* recallDocuments: what else a record has is a card's snippet, the         *)
(* decisions of minutes, the status of a work item.                         *)
Document(s, text) ==
    [id |-> s.id, kind |-> s.kind, key |-> s.key, part |-> s.part, title |-> text.title,
     body |-> text.summary \o (IF s.kind = "work" THEN <<>> ELSE text.extra),
     tags |-> IF s.kind = "work" THEN text.extra ELSE <<>>,
     summary |-> text.summary]

Documents(texts) ==
    FoldLeft(LAMBDA ds, s : IF texts[s] = Absent THEN ds ELSE Append(ds, Document(s, texts[s])),
             <<>>, Source)

(* documentDigest.                                                          *)
Digest(d) == <<d.key, d.title, d.body, d.tags>>

-----------------------------------------------------------------------------
(* An index: the rows it has, in the order they came to be; the table of    *)
(* prose and the table of keys, by row; and the map of the keys.            *)
Nothing == [rows |-> <<>>, prose |-> {}, keyed |-> {}, next |-> 1]

Stays(ds, row) == \E d \in Range(ds) : d.id = row.document.id /\ Digest(d) = row.digest

Cleared(index, ds) ==
    LET kept == SelectSeq(index.rows, LAMBDA row : Stays(ds, row))
        has(e) == \E row \in Range(kept) : row.row = e.row
    IN  [index EXCEPT !.rows = kept, !.prose = {e \in @ : has(e)}, !.keyed = {e \in @ : has(e)}]

Inserted(index, d) ==
    [rows |-> Append(index.rows, [row |-> index.next, digest |-> Digest(d), document |-> d]),
     prose |-> index.prose \cup {[row |-> index.next, title |-> d.title, body |-> d.body, tags |-> d.tags]},
     keyed |-> index.keyed \cup {[row |-> index.next, part |-> d.part]},
     next |-> index.next + 1]

(* #apply: what moved goes, what is new or moved comes.                     *)
Applied(index, ds) ==
    LET left == Cleared(index, ds)
        has(d) == \E row \in Range(left.rows) : row.document.id = d.id
    IN  FoldLeft(LAMBDA i, d : IF has(d) THEN i ELSE Inserted(i, d), left, ds)

-----------------------------------------------------------------------------
Occurs(w, words) == Cardinality({i \in DOMAIN words : words[i] = w})

Weighed(w, e) == (IF e.title = w THEN 8 ELSE 0) + 5 * Occurs(w, e.tags) + 3 * Occurs(w, e.body)

(* A word that half of the rows have says nothing.                          *)
Rarity(table, found) == Max({0, Cardinality(table) - 2 * Cardinality(found)})

ProseScore(index, w, e) ==
    Weighed(w, e) * Rarity(index.prose, {f \in index.prose : Weighed(w, f) > 0})

KeyedScore(index, w) == Rarity(index.keyed, {f \in index.keyed : f.part = w})

(* search: a record that both tables find has the better of the two scores. *)
Scores(index, words, row) ==
    {MapThenSumSet(LAMBDA w : ProseScore(index, w, e), words) : e \in {f \in index.prose : f.row = row}} \cup
    {KeyedScore(index, w) : w \in {v \in words : \E e \in index.keyed : e.row = row /\ e.part = v}}

(* A key names the last row that has it.                                    *)
Named(index, q) ==
    LET rows(k) == {i \in DOMAIN index.rows : index.rows[i].document.key = k}
        known == SelectSeq(q.keys, LAMBDA k : rows(k) # {})
    IN  [n \in DOMAIN known |-> Max(rows(known[n]))]

Hit(index, i, score) == [document |-> index.rows[i].document, row |-> index.rows[i].row, score |-> score]

Ranked(index, q) ==
    LET named == Named(index, q)
        best(i) == Max(Scores(index, q.words, index.rows[i].row) \cup {0})
        found == {i \in DOMAIN index.rows \ Range(named) : best(i) > 0}
    IN  [n \in DOMAIN named |-> Hit(index, named[n], KeyScore)] \o
        SetToSortSeq({Hit(index, i, best(i)) : i \in found},
                     LAMBDA x, y : x.score > y.score \/ (x.score = y.score /\ x.row < y.row))

(* selectRecallHits: the floor, a quarter of the best, the kind's quota,    *)
(* the limit.                                                               *)
Selected(ranked) ==
    LET best == Max({0} \cup {h.score : h \in {x \in Range(ranked) : x.score # KeyScore}})
        high(h) == h.score = KeyScore \/ (h.score >= Tau /\ 4 * h.score >= best)
        taken(hits, kind) == Len(SelectSeq(hits, LAMBDA h : h.document.kind = kind))
        all == FoldLeft(LAMBDA hits, h :
                   IF high(h) /\ taken(hits, h.document.kind) < Quota[h.document.kind]
                   THEN Append(hits, h) ELSE hits, <<>>, ranked)
    IN  SubSeq(all, 1, Min({Limit, Len(all)}))

-----------------------------------------------------------------------------
RecallInit ==
    /\ content = [w \in Workspace |-> Start]
    /\ head = [w \in Workspace |-> 0]
    /\ asking = {} /\ cache = <<>> /\ answer = {} /\ changes = 0 /\ questions = 0

(* A command writes a record: minutes are written once, a card is a record  *)
(* of the knowledge store and not an event of the chain.                    *)
Change ==
    /\ changes < MaxChanges /\ changes' = changes + 1
    /\ \E w \in Workspace, s \in Range(Source), text \in Text \cup {Absent} :
          /\ text # content[w][s]
          /\ s.kind = "minutes" => content[w][s] = Absent
          /\ content' = [content EXCEPT ![w][s] = text]
          /\ head' = [head EXCEPT ![w] = @ + (IF s.kind = "card" THEN 0 ELSE 1)]
    /\ answer' = {} /\ UNCHANGED <<asking, cache, questions>>

(* The command reads the workspace ...                                      *)
ReadChain ==
    /\ asking = {} /\ questions < MaxQuestions /\ questions' = questions + 1
    /\ \E w \in Workspace :
          asking' = {[workspace |-> w, head |-> head[w], texts |-> content[w]]}
    /\ answer' = {} /\ UNCHANGED <<content, head, cache, changes>>

(* ... and then the cards; a store that cannot be read counts as none.      *)
Read(a, cards) ==
    [s \in Range(Source) |->
        IF s.kind # "card" THEN a.texts[s] ELSE IF cards THEN content[a.workspace][s] ELSE Absent]

Checkpoint(a, texts) ==
    [head |-> a.head, cards |-> {Document(s, texts[s]) : s \in
        {t \in Range(Source) : t.kind = "card" /\ texts[t] # Absent}}]

Kept(w) == {e \in Range(cache) : e.key = w}

(* recall: the index of the cache as it is, brought up to date, or a new    *)
(* one; the one used longest ago goes when there are too many.              *)
Current(w, checkpoint, ds) ==
    IF Kept(w) = {} THEN Applied(Nothing, ds)
    ELSE LET e == CHOOSE e \in Kept(w) : TRUE
         IN  IF e.checkpoint = checkpoint THEN e.index ELSE Applied(e.index, ds)

Latest(entries) ==
    SubSeq(entries, Max({1, Len(entries) - CacheLimit + 1}), Len(entries))

Recall ==
    /\ \E a \in asking, q \in Query, cards \in BOOLEAN :
          LET texts == Read(a, cards)
              ds == Documents(texts)
              checkpoint == Checkpoint(a, texts)
              index == Current(a.workspace, checkpoint, ds)
          IN  /\ cache' = Latest(Append(SelectSeq(cache, LAMBDA e : e.key # a.workspace),
                                  [key |-> a.workspace, checkpoint |-> checkpoint, index |-> index]))
              /\ answer' = {[hits |-> Selected(Ranked(index, q)),
                             fresh |-> Selected(Ranked(Applied(Nothing, ds), q)),
                             documents |-> Range(ds)]}
    /\ asking' = {} /\ UNCHANGED <<content, head, changes, questions>>

RecallNext == Change \/ ReadChain \/ Recall

RecallSpec == RecallInit /\ [][RecallNext]_recallVars

-----------------------------------------------------------------------------
(* An answer is about the records the command has read, each with the text  *)
(* it was found by, and ranks them as an index would that is made for this  *)
(* question: whichever of equally good records it names, keeping the index  *)
(* changes no answer.                                                       *)
AnswersAreCurrent ==
    \A a \in answer :
      /\ \A h \in Range(a.hits) : \E d \in a.documents : d.id = h.document.id /\ Digest(d) = Digest(h.document)
      /\ [i \in DOMAIN a.hits |-> a.hits[i].score] = [i \in DOMAIN a.fresh |-> a.fresh[i].score]

(* ... and shows of each the summary it has.  Violated: a word that moves   *)
(* from the summary of a card to its snippet leaves the digest as it was.   *)
SummariesAreCurrent ==
    \A a \in answer : {h.document : h \in Range(a.hits)} \subseteq a.documents
=============================================================================
