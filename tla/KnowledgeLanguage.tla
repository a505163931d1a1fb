--------------------------- MODULE KnowledgeLanguage ---------------------------
(***************************************************************************)
(* The language of a knowledge card (packages/core/src/                     *)
(* knowledge-language.ts): a workspace may record the language its cards    *)
(* are written in and the languages it is asked in.  A write then needs the *)
(* answers of the recorded economy model, translations of the fields that   *)
(* are in another language and three or four phrasings of the question in   *)
(* every prompt language; a question in any other language is owed a        *)
(* translation.  The engine calls no model: the answers come with the call. *)
(*                                                                         *)
(* A field is the language it is detected to be in; a phrasing is counted.  *)
(***************************************************************************)
EXTENDS Naturals, FiniteSets

CONSTANTS
    Language, Field, Model,
    Unset,
    MaxChanges         \* bound on the changes of the settings

VARIABLES
    settings,          \* artifact.language, retrieval.promptLanguages, the economy tier
    card,              \* the card written last, or Unset
    changes

vars == <<settings, card, changes>>

Settings ==
  [artifact : Language \cup {Unset}, prompts : SUBSET Language, economy : Model \cup {Unset}]

(* What a caller brings: the model it names, the language its translations   *)
(* are in, and how many phrasings it has in each language it answers for.    *)
Bundle ==
  [model : Model, speaks : Language \cup {Unset},
   phrasings : UNION {[ls -> {2, 3, 5}] : ls \in SUBSET Language}]

(* Unless others are declared the prompt language is the card's own.        *)
PromptLanguages(p) ==
  IF p.prompts # {} THEN p.prompts ELSE {p.artifact} \ {Unset}

Translated(text, target, b) ==
  [f \in Field |-> IF text[f] = target THEN target ELSE b.speaks]

Admitted(text, p, b) ==
  /\ b # Unset /\ p.economy = b.model
  /\ \A f \in Field : Translated(text, p.artifact, b)[f] = p.artifact
  /\ PromptLanguages(p) \subseteq DOMAIN b.phrasings
  /\ \A l \in PromptLanguages(p) : b.phrasings[l] \in 3..4

LanguageInit == settings \in Settings /\ card = Unset /\ changes = 0

(* applyWriteLanguagePolicy.  A write the policy does not admit is refused   *)
(* and leaves no card.                                                      *)
Write(text, b) ==
  /\ card = Unset
  /\ settings.artifact # Unset => Admitted(text, settings, b)
  /\ card' = IF settings.artifact = Unset
             THEN [prose |-> text, phrased |-> {}, under |-> settings]
             ELSE [prose |-> Translated(text, settings.artifact, b),
                   phrased |-> PromptLanguages(settings), under |-> settings]
  /\ UNCHANGED <<settings, changes>>

Change ==
  /\ changes < MaxChanges /\ changes' = changes + 1
  /\ settings' \in Settings
  /\ UNCHANGED card

LanguageNext ==
  \/ \E text \in [Field -> Language], b \in Bundle \cup {Unset} : Write(text, b)
  \/ Change

LanguageSpec == LanguageInit /\ [][LanguageNext]_vars

-----------------------------------------------------------------------------
(* resolveQueryLanguage: a question in language l is to be translated into   *)
(* the language of the cards.                                               *)
TranslationOwed(p, l) ==
  /\ p.artifact # Unset /\ l # p.artifact
  /\ PromptLanguages(p) # {} /\ l \notin PromptLanguages(p)

Matches(c, l) == l \in c.phrased \/ \A f \in Field : c.prose[f] = l

(* In whatever language a question is asked, it or the translation it is     *)
(* owed is in a language the card can be matched in, as long as the settings *)
(* are those it was written under.                                          *)
QuestionsReach ==
  card # Unset /\ card.under = settings /\ settings.artifact # Unset =>
    \A l \in Language :
      Matches(card, IF TranslationOwed(settings, l) THEN settings.artifact ELSE l)

(* The same of settings changed since: false, no card is written again.     *)
QuestionsReachOldCards ==
  card # Unset /\ settings.artifact # Unset =>
    \A l \in Language :
      Matches(card, IF TranslationOwed(settings, l) THEN settings.artifact ELSE l)
=============================================================================
