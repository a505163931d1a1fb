---------------------------- MODULE PromptRecall ----------------------------
(***************************************************************************)
(* One prompt of a session on its way to recall: runInjection and the judge *)
(* of runSessionInjection (scripts/knowledge-inject.mjs), and the models    *)
(* they call, each in a process group of its own                            *)
(* (UninjectedModelCall, scripts/injection-session.mjs).                    *)
(*                                                                         *)
(* A prompt in a language the workspace is not asked in is owed a           *)
(* translation.  The settings say so before recall, recall says so itself:  *)
(* two readings, and a translator that answers once.  The workspace and     *)
(* recall are external; the ledger's lock, its budget and its pending       *)
(* deliveries are InjectionSession's.                                       *)
(***************************************************************************)
EXTENDS Naturals, Sequences, SequencesExt, FiniteSets, FiniteSetsExt

CONSTANTS
    Row,         \* what recall may find
    Retired,     \* the rows with a supersededBy
    Linked,      \* the rows that carry the work or the pack of the dispatch
    Finds,       \* what recall finds for "prompt" and for its translation "text"
    Room,        \* how many rows fit one prompt
    MaxPrompts,  \* bound on the prompts
    MaxChanges,  \* bound on the changes of the language settings
    MaxReads     \* bound on the tools that read a record

VARIABLES
    owes,     \* is the prompt, by the settings of now, owed a translation?
    prompt,   \* the prompt in work
    model,    \* the process group of the translator and of the observer
    emitted,  \* the rows the session was given
    pulled,   \* the rows it has read itself, as recorded
    counts    \* prompts, changes and reads so far

vars == <<owes, prompt, model, emitted, pulled, counts>>

Unasked == [translator |-> "fresh", observer |-> "fresh"]

NoPrompt ==
  [pc |-> "idle", kind |-> "main", by |-> "none", judges |-> FALSE, owed |-> FALSE,
   translated |-> "none", heard |-> "none", ok |-> FALSE, found |-> {}, killed |-> FALSE]

Counts(what, bound) ==
  counts[what] < bound /\ counts' = [counts EXCEPT ![what] = @ + 1]

RecallInit ==
  /\ owes \in BOOLEAN /\ prompt = NoPrompt /\ model = Unasked
  /\ emitted = {} /\ pulled = <<>>
  /\ counts = [prompts |-> 0, changes |-> 0, reads |-> 0]

(* runSessionInjection, up to recall: a dispatch is refused, unbound or      *)
(* bound; a subagent runs no auxiliary model.  The translator is a model or  *)
(* a bundle of translations, which may lack this prompt or repeat it.        *)
Begin(kind, by, judges) ==
  /\ prompt.pc = "idle" /\ Counts("prompts", MaxPrompts)
  /\ kind = "subagent" => by = "none" /\ ~judges
  /\ prompt' = [NoPrompt EXCEPT !.pc = IF kind = "refused" THEN "refused" ELSE "settings",
                                !.kind = kind, !.by = by, !.judges = judges]
  /\ model' = Unasked
  /\ UNCHANGED <<owes, emitted, pulled>>

Goes(changed) == prompt' = changed /\ UNCHANGED <<owes, emitted, pulled, counts>>

(* queryLanguageAnswer; an unreadable catalog owes nothing.                  *)
ReadSettings(readable) ==
  /\ prompt.pc = "settings"
  /\ LET owed == readable /\ owes /\ prompt.by # "none"
     IN Goes([prompt EXCEPT !.owed = owed, !.pc = IF owed THEN "translate" ELSE "recall"])
  /\ UNCHANGED model

-----------------------------------------------------------------------------
Asks == prompt.pc \in {"translate", "again", "judge"}
Asked == IF prompt.pc = "judge" THEN "observer" ELSE "translator"

(* bundleTranslator. *)
LookUp ==
  /\ prompt.pc \in {"translate", "again"} /\ prompt.heard = "none" /\ prompt.by # "model"
  /\ Goes([prompt EXCEPT !.heard = prompt.by]) /\ UNCHANGED model

(* UninjectedModelCall.call: used once, and not at all if it does not start. *)
Call(starts) ==
  /\ Asks /\ prompt.heard = "none" /\ (prompt.pc # "judge" => prompt.by = "model")
  /\ LET runs == model[Asked] = "fresh" /\ starts IN
     /\ model' = [model EXCEPT ![Asked] = IF runs THEN "running" ELSE "gone"]
     /\ Goes([prompt EXCEPT !.heard = IF runs THEN "waiting" ELSE "failed"])

(* The process exits or its time is up; others of its group may go on.       *)
Exit ==
  /\ Asks /\ model[Asked] = "running"
  /\ model' = [model EXCEPT ![Asked] = "left"]
  /\ UNCHANGED <<owes, prompt, emitted, pulled, counts>>

(* ensureProcessGroupEmpty, before the answer is taken.                      *)
EmptyGroup(answer) ==
  /\ Asks /\ model[Asked] = "left"
  /\ model' = [model EXCEPT ![Asked] = "gone"]
  /\ Goes([prompt EXCEPT !.heard = answer])

Heard(answers) == prompt.heard \in answers
Unheard == [prompt EXCEPT !.heard = "none"]

-----------------------------------------------------------------------------
(* A translation before recall counts if it differs from the prompt.         *)
Translate ==
  /\ prompt.pc = "translate" /\ ~Heard({"none", "waiting"})
  /\ Goes([Unheard EXCEPT !.pc = "recall",
                          !.translated = IF Heard({"text"}) THEN "text" ELSE "none"])
  /\ UNCHANGED model

Answer(query) == Finds[query]
Query == IF prompt.translated = "text" THEN "text" ELSE "prompt"

(* invokeRecall.  What recall says is owed matters to a prompt that has not  *)
(* been translated.                                                         *)
Recall(ok) ==
  /\ prompt.pc = "recall"
  /\ LET owed == prompt.owed \/ (ok /\ owes)
         again == ok /\ owed /\ prompt.translated = "none" /\ prompt.by # "none"
     IN Goes([prompt EXCEPT !.ok = ok, !.owed = owed,
                            !.found = IF ok THEN Answer(Query) ELSE {},
                            !.pc = IF again THEN "again" ELSE "answered"])
  /\ UNCHANGED model

TranslateAgain ==
  /\ prompt.pc = "again" /\ ~Heard({"none", "waiting"})
  /\ Goes(IF Heard({"text", "same"}) THEN [prompt EXCEPT !.pc = "second"]
                                     ELSE [Unheard EXCEPT !.pc = "answered"])
  /\ UNCHANGED model

(* A second recall that fails keeps the first answer.                        *)
RecallAgain(ok) ==
  /\ prompt.pc = "second"
  /\ Goes([Unheard EXCEPT !.pc = "answered",
                          !.translated = IF ok THEN prompt.heard ELSE @,
                          !.found = IF ok THEN Answer(IF Heard({"text"}) THEN "text" ELSE "prompt")
                                          ELSE @])
  /\ UNCHANGED model

-----------------------------------------------------------------------------
(* filterCandidatesByDispatchContext. *)
Candidates ==
  IF prompt.kind = "main" THEN prompt.found ELSE prompt.found \cap Linked

(* deduplicateCandidates. *)
Fresh == Candidates \ (Retired \cup emitted)

(* The judge is asked of every fresh row, of which some will not fit.        *)
Judges == /\ prompt.pc = "answered" /\ prompt.judges
          /\ Goes([prompt EXCEPT !.pc = "judge"]) /\ UNCHANGED model

Judged == prompt.pc = "judge" /\ ~Heard({"none", "waiting"})

Deliver(given) ==
  /\ prompt.pc = "refused" \/ Judged \/ (prompt.pc = "answered" /\ ~prompt.judges)
  /\ given \subseteq Fresh
  /\ LET fits == Cardinality(Fresh) <= Room IN Cardinality(given) = IF fits THEN Cardinality(Fresh) ELSE Room
  /\ emitted' = emitted \cup given
  /\ prompt' = [Unheard EXCEPT !.pc = "idle"]
  /\ UNCHANGED <<owes, model, pulled, counts>>

(* The hook kills its child after 25 s; a model's group is not the child's.  *)
Kill ==
  /\ Asks /\ model[Asked] \in {"running", "left"}
  /\ prompt' = [NoPrompt EXCEPT !.killed = TRUE]
  /\ UNCHANGED <<owes, model, emitted, pulled, counts>>

(* pullCorrelation: the first record the output of work-show or              *)
(* knowledge-body names, at any depth, that was given and is not recorded.   *)
Pull(named) ==
  /\ prompt.pc = "idle" /\ Counts("reads", MaxReads)
  /\ LET news == emitted \ ToSet(pulled)
     IN \/ ToSet(named) \cap news = {} /\ UNCHANGED pulled
        \/ \E i \in DOMAIN named :
             /\ named[i] \in news /\ \A j \in 1..i - 1 : named[j] \notin news
             /\ pulled' = Append(pulled, named[i])
  /\ UNCHANGED <<owes, prompt, model, emitted>>

Change ==
  /\ Counts("changes", MaxChanges) /\ owes' = ~owes
  /\ UNCHANGED <<prompt, model, emitted, pulled>>

RecallNext ==
  \/ \E kind \in {"main", "bound", "subagent", "refused"}, judges \in BOOLEAN,
        by \in {"none", "model", "text", "same", "unknown"} : Begin(kind, by, judges)
  \/ \E readable \in BOOLEAN : ReadSettings(readable)
  \/ LookUp
  \/ \E starts \in BOOLEAN : Call(starts)
  \/ Exit
  \/ \E answer \in {"text", "same", "failed"} : EmptyGroup(answer)
  \/ Translate
  \/ \E ok \in BOOLEAN : Recall(ok)
  \/ TranslateAgain
  \/ \E ok \in BOOLEAN : RecallAgain(ok)
  \/ Judges
  \/ \E given \in SUBSET Row : Deliver(given)
  \/ Kill
  \/ \E named \in SeqOf(Row, 2) : Pull(named)
  \/ Change

RecallSpec == RecallInit /\ [][RecallNext]_vars

-----------------------------------------------------------------------------
(* What is reported is what recall answered to the query that is reported;   *)
(* a prompt fails only with its first recall; a subagent has asked no model; *)
(* a model asked has ended before its answer is used, and with the prompt    *)
(* unless that was killed; and a row read counts once, of those given.       *)
PromptIsAnswered ==
  /\ prompt.pc \in {"answered", "judge"} /\ prompt.ok => prompt.found = Answer(Query)
  /\ prompt.pc \in {"answered", "judge"} /\ ~prompt.ok => prompt.found = {}
  /\ prompt.kind = "subagent" => model = Unasked
  /\ \A i \in DOMAIN model : model[i] \in {"running", "left"} =>
       \/ prompt.killed
       \/ Asks /\ i = Asked /\ Heard({"waiting"})
  /\ ToSet(pulled) \subseteq emitted \ Retired /\ IsInjective(pulled)
=============================================================================
