------------------------------ MODULE MCStores ------------------------------
(* The stores beside the event log, each in a small instance: the records  *)
(* the engine keeps of hosts, personas, settings and templates, and the    *)
(* files it and its scripts keep of knowledge bodies, receipts, artifacts  *)
(* and copies of the container.                                            *)
(*                                                                         *)
(* The components do not interact.  The first state picks one of them,     *)
(* whose variables are the first slots; the slots it has no use for stay   *)
(* as they are.                                                            *)
EXTENDS Naturals, TLC

CONSTANTS Process, None

VARIABLES part, s1, s2, s3, s4, s5, s6, s7, s8, s9, s10, s11, s12, s13, s14

slots == <<part, s1, s2, s3, s4, s5, s6, s7, s8, s9, s10, s11, s12, s13, s14>>

Free14 == s14 = 0
Free13 == s13 = 0 /\ Free14
Free12 == s12 = 0 /\ Free13
Free11 == s11 = 0 /\ Free12
Free10 == s10 = 0 /\ Free11
Free9 == s9 = 0 /\ Free10
Free8 == s8 = 0 /\ Free9
Free7 == s7 = 0 /\ Free8
Free6 == s6 = 0 /\ Free7
Free5 == s5 = 0 /\ Free6
Free4 == s4 = 0 /\ Free5
Free3 == s3 = 0 /\ Free4
Free2 == s2 = 0 /\ Free3

Kept14 == UNCHANGED s14
Kept13 == UNCHANGED s13 /\ Kept14
Kept12 == UNCHANGED s12 /\ Kept13
Kept11 == UNCHANGED s11 /\ Kept12
Kept10 == UNCHANGED s10 /\ Kept11
Kept9 == UNCHANGED s9 /\ Kept10
Kept8 == UNCHANGED s8 /\ Kept9
Kept7 == UNCHANGED s7 /\ Kept8
Kept6 == UNCHANGED s6 /\ Kept7
Kept5 == UNCHANGED s5 /\ Kept6
Kept4 == UNCHANGED s4 /\ Kept5
Kept3 == UNCHANGED s3 /\ Kept4
Kept2 == UNCHANGED s2 /\ Kept3

Document(v, kinds, acceptance, couplings) ==
  [id |-> "story", version |-> v, appliesTo |-> kinds, headings |-> {"Goal", "Acceptance"},
   acceptance |-> acceptance, references |-> {}, couplings |-> couplings]

(* Two documents of one version, and one that names a heading it lacks. *)
MCTemplate ==
  {Document(1, {"Story"}, {"Acceptance"}, {}),
   Document(1, {"Story", "Incident"}, {}, {"owner-decider-minutes"}),
   Document(2, {"Story", "Incident"}, {"References"}, {})}

Execution == INSTANCE ExecutionConfig WITH
    Host <- {"codex"}, Setup <- {"fast", "deep"}, Plan <- {"plan"},
    Preset <- {"verity"}, Custom <- {"scribe"},
    Field <- {"role", "mission"}, Legacy <- {{}, {"verity"}},
    Efforts <- TRUE, Unset <- None,
    config <- s1, replayed <- s2

Settings == INSTANCE WorkspaceSettings WITH
    Address <- {1, 2}, Destination <- {2, 0}, Template <- MCTemplate,
    Engine <- {0, 1}, Retiring <- 1, MaxEvents <- 3, MaxEntries <- 3,
    chain <- s1, snapshot <- s2, engine <- s3, ledger <- s4,
    address <- s5

Bodies == INSTANCE KnowledgeBodies WITH
    Card <- {1, 2, 3}, PerSegment <- 1, MaxWrites <- 5,
    Repeated <- FALSE, Overlapping <- FALSE,
    legacy <- s1, segment <- s2, index <- s3, manifest <- s4,
    expected <- s5, writer <- s6, migrator <- s7, writes <- s8,
    migrations <- s9, kills <- s10

Receipts == INSTANCE AttestationStore WITH
    Receipt <- {1, 2}, PerSegment <- 1, MaxCrashes <- 1,
    lock <- s1, run <- s2, pc <- s3, op <- s4, judged <- s5,
    legacy <- s6, segment <- s7, manifest <- s8, backup <- s9,
    baseline <- s10, chain <- s11, reported <- s12, torn <- s13,
    crashes <- s14

Artifacts == INSTANCE ArtifactStore WITH
    Digest <- {1, 2}, Root <- {"r", "s"}, MaxFaults <- 2,
    lease <- s1, setting <- s2, blob <- s3, index <- s4, pc <- s5,
    put <- s6, faults <- s7

Copies == INSTANCE ChainBackup WITH
    Runner <- Process, Retention <- 1, Interval <- 1, MaxVersion <- 2,
    MaxArchive <- 2, MaxTime <- 2, MaxFaults <- 1,
    version <- s1, time <- s2, faults <- s3, named <- s4,
    archive <- s5, manifest <- s6, remote <- s7, local <- s8,
    offsite <- s9, pc <- s10, job <- s11

Ledger == INSTANCE InjectionSession WITH
    Hook <- {"g", "h"}, Session <- {"s", "t"}, Card <- {"c", "d"},
    Mode <- {"pending", "immediate"}, Budget <- 1, MaxPrompts <- 2,
    MaxFaults <- 1, Parallel <- FALSE, Contended <- FALSE,
    document <- s1, lock <- s2, hook <- s3, given <- s4,
    prompts <- s5, faults <- s6

Frame == INSTANCE InjectionFrame WITH
    Work <- 1..3, Kind <- <<"Initiative", "Epic", "Story">>,
    Parent <- <<0, 1, 2>>, Pack <- <<0, 1, 1>>, Packs <- {1, 2},
    Status <- {"ready", "active", "done"}, MaxLines <- 3, MaxEvents <- 4,
    work <- s1, gone <- s2, minutes <- s3, events <- s4, changedAt <- s5

Search == INSTANCE BoundedSearch WITH
    Dir <- {"d", "e"}, File <- {"f", "g"}, Link <- {"l"}, Root <- <<"d">>,
    Contents <- [d |-> <<"e", "f", "l">>, e |-> <<"g">>],
    MaxFiles <- 1, MaxMatches <- 2, MaxDepth <- 1, MaxLines <- 3, MaxSearches <- 3,
    kind <- s1, hits <- s2, queue <- s3, scanned <- s4, partial <- s5,
    running <- s6, matches <- s7, seen <- s8, searches <- s9

Outputs == INSTANCE OutputSession WITH
    Process <- 1..3, MaxKills <- 2, Contended <- FALSE,
    acq <- s1, astage <- s2, lock <- s3, owner <- s4, ostage <- s5,
    rclaim <- s6, rstage <- s7, pc <- s8, held <- s9, opened <- s10,
    group <- s11, solo <- s12, kills <- s13

Batch == INSTANCE GateBatch WITH
    Order <- <<"g", "h">>, Impact <- <<{"g"}, {"g", "h"}, {"g"}>>,
    Unmapped <- {3}, KnownEnv <- {1, 2},
    Task <- {"t", "u"}, Needs <- [t |-> {}, u |-> {"t"}], PostAction <- {},
    MaxSource <- 3, MaxEnv <- 2, MaxMoves <- 2, MaxBatches <- 2, Restores <- FALSE,
    world <- s1, work <- s2, receipts <- s3, pc <- s4, phase <- s5,
    seen <- s6, key <- s7, plan <- s8, failed <- s9, verdict <- s10,
    passed <- s11, moves <- s12, batches <- s13

Line == INSTANCE CommandLine WITH
    Verb <- {"batch", "distill", "delete", "recover", "artifact", "validated",
             "init", "capture", "rebase", "unclaim"},
    MaxCalls <- 2, MaxEvents <- 4, MaxFaults <- 1, Overlapping <- FALSE,
    chain <- s1, residue <- s2, views <- s3, healthy <- s4, receipts <- s5,
    marker <- s6, claim <- s7, broken <- s8, lease <- s9, cmd <- s10,
    told <- s11, calls <- s12, faults <- s13

Pact == INSTANCE StopPact WITH
    Session <- {"s", "c"}, Codex <- {"c"}, Unset <- None, Ending <- {"completed"},
    Cap <- 1, TTL <- 1, MaxTime <- 1, MaxUses <- 1, MaxStarts <- 2,
    Bindings <- BOOLEAN, Overlapping <- FALSE,
    pact <- s1, hook <- s2, uses <- s3, streak <- s4, answered <- s5,
    time <- s6, starts <- s7

Control == INSTANCE TestController WITH
    MaxKids <- 2, MaxKills <- 2, MaxRuns <- 1,
    task <- s1, run <- s2, lock <- s3, boot <- s4, seen <- s5,
    code <- s6, errors <- s7, reaper <- s8, ctl <- s9, kids <- s10,
    ledger <- s11, blamed <- s12, kills <- s13

Layer(kind, tampers, restricts, owner) ==
  [kind |-> kind, tampers |-> tampers, restricts |-> restricts, owner |-> owner]

(* Layers that restrict, that bind, that do both, and one that may not.    *)
MCOffer ==
  {Layer("release", FALSE, {{"read"}}, {}), Layer("release", TRUE, {}, {}),
   Layer("imported", FALSE, {{"read"}}, {}),
   Layer("imported", FALSE, {{"read", "write"}}, {{"w"}}),
   Layer("workspace", FALSE, {{"read", "write"}}, {{"w"}}),
   Layer("workspace", FALSE, {{"write"}}, {}),
   Layer("project", FALSE, {}, {{"w", "p"}}),
   Layer("project", FALSE, {{"read", "write"}}, {}),
   Layer("project", FALSE, {{"read"}}, {{}}),
   Layer("command", FALSE, {{"write"}}, {{"w"}})}

Layers == INSTANCE GenericProfile WITH
    Offer <- MCOffer, Operation <- {"read", "write"}, ReadOnly <- {"read"},
    Rebinding <- [target : {"release", "workspace", "project", "command"},
                  owner : {{"w"}, {"w", "p"}}],
    Place <- {{}, {"w"}, {"w", "p"}}, MaxLayers <- 2,
    request <- s1, receipt <- s2, answer <- s3

Authority == INSTANCE OperatorAuthority WITH
    MaxGeneration <- 2, MaxReceipt <- 2, MaxTime <- 1, MaxWrites <- 4,
    time <- s1, pins <- s2, bundle <- s3, receipt <- s4, ban <- s5,
    told <- s6, cmd <- s7, writes <- s8

Offered(id, kind, place, fresh, size) ==
  [id |-> id, kind |-> kind, place |-> place, fresh |-> fresh, size |-> size]

(* Two that exceed a budget together, one out of scope, two of one name.   *)
MCCandidate ==
  {Offered(1, "metadata", <<"w">>, TRUE, 1), Offered(2, "metadata", <<"w", "p">>, TRUE, 2),
   Offered(3, "reference", <<"w">>, FALSE, 1), Offered(4, "body", <<"w", "p", "k">>, TRUE, 1),
   Offered(5, "body", <<"w">>, TRUE, 2), Offered(6, "reference", <<"w", "q">>, TRUE, 1),
   Offered(3, "body", <<"w">>, FALSE, 1)}

Router == INSTANCE ContextRouter WITH
    Candidate <- MCCandidate, Target <- <<"w", "p", "k">>,
    Budget <- {[count |-> 1, bytes |-> 3], [count |-> 2, bytes |-> 2]},
    Terms <- {[at |-> 0, risk |-> 1], [at |-> 2, risk |-> 0]},
    Conditions <- {[from |-> 0, until |-> 1, risk |-> 0], [from |-> 1, until |-> 2, risk |-> 1]},
    Profile <- [effective : {1}, reads : BOOLEAN], MaxOffers <- 2, MaxEdits <- 1,
    request <- s1, authority <- s2, result <- s3, edits <- s4

Guard == INSTANCE SpawnGuard WITH
    Group <- {1, 2}, Purpose <- {"t", "u"}, Pid <- {1}, Dereg <- {1},
    Overlapping <- FALSE, MaxLines <- 2, MaxSpawns <- 1, MaxTorn <- 1,
    registry <- s1, process <- s2, owed <- s3, dereg <- s4, detect <- s5,
    answer <- s6, spawns <- s7, torn <- s8

Says(title, summary, extra) == [title |-> title, summary |-> summary, extra |-> extra]

Entry(i, kind, word) == [id |-> i, kind |-> kind, key |-> i, part |-> word]

MCSource == <<Entry(1, "card", 1), Entry(2, "card", 2), Entry(3, "minutes", 2), Entry(4, "work", 2)>>

Recalled == INSTANCE Recall WITH
    Workspace <- {1, 2}, Source <- MCSource,
    Text <- {Says(1, <<1>>, <<2>>), Says(1, <<1, 2>>, <<>>)},
    Start <- [s \in {MCSource[i] : i \in 1..4} |->
                 IF s.id = 1 THEN Says(1, <<1>>, <<2>>)
                 ELSE IF s.id = 3 THEN <<>> ELSE Says(2, <<2>>, <<2>>)],
    Query <- {[words |-> {1}, keys |-> <<>>], [words |-> {1, 2}, keys |-> <<4, 2>>]},
    CacheLimit <- 1, Limit <- 2, Tau <- 1, KeyScore <- 99,
    Quota <- [card |-> 1, minutes |-> 1, work |-> 1],
    MaxChanges <- 2, MaxQuestions <- 3,
    content <- s1, head <- s2, asking <- s3, cache <- s4, answer <- s5,
    changes <- s6, questions <- s7

(* A plain card, one of a candidate, one that ages, the index of an article, *)
(* and one whose writer's clock is ahead; the last is written only if Skew.  *)
MCCard ==
  [subject |-> <<1, 1>>, summary |-> <<>>, snippet |-> <<2>>, tags |-> {<<1>>},
   kind |-> "fact", scope |-> "workspace", project |-> None, roles |-> {}, owned |-> TRUE,
   source |-> "none", evidence |-> FALSE, lifecycle |-> "active", disposition |-> "default",
   exported |-> TRUE, state |-> "fresh", verifies |-> FALSE, ahead |-> 0, maxAge |-> 0]

MCShape ==
  {MCCard,
   [MCCard EXCEPT !.scope = "role", !.roles = {"r"}, !.project = "p", !.lifecycle = "candidate"],
   [MCCard EXCEPT !.verifies = TRUE, !.maxAge = 1, !.subject = <<3>>, !.scope = "project",
                  !.project = "p"],
   [MCCard EXCEPT !.kind = "reference", !.source = "file", !.evidence = TRUE,
                  !.disposition = "explicit-only", !.verifies = TRUE],
   [MCCard EXCEPT !.state = "stale", !.subject = <<3>>],
   [MCCard EXCEPT !.verifies = TRUE, !.maxAge = 1, !.ahead = 1]}

Article(title, summary, extra) == [subject |-> title, summary |-> summary, snippet |-> extra]

Cards == INSTANCE KnowledgeCards WITH
    Card <- {1, 2}, Shape <- MCShape,
    Text <- {Article(<<1>>, <<2>>, <<2>>), Article(<<3>>, <<1>>, <<1>>)},
    Age <- {0, 1}, Project <- {"p"}, Strict <- {"guide", "reference"},
    Threshold <- 16, Limit <- 1, Unset <- None, Skew <- FALSE,
    MaxTime <- 2, MaxHead <- 2, MaxWrites <- 3, MaxEdits <- 1,
    now <- s1, head <- s2, marker <- s3, cards <- s4, bodies <- s5, file <- s6,
    withdrawn <- s7, writes <- s8, edits <- s9

Languages == INSTANCE KnowledgeLanguage WITH
    Language <- {"en", "zh"}, Field <- {"subject", "snippet"}, Model <- {"m", "n"},
    Unset <- None, MaxChanges <- 1,
    settings <- s1, card <- s2, changes <- s3

Observations == INSTANCE Telemetry WITH
    Record <- {1, 2, 3}, Day <- {1, 2}, DayOf <- <<1, 1, 2>>,
    Names <- <<{"c", "w"}, {"w"}, {"c"}>>, Links <- [c |-> {"w"}],
    Model <- {"m", "n"}, Unset <- None, MaxKills <- 1, MaxReads <- 1,
    lines <- s1, lock <- s2, proc <- s3, reader <- s4, told <- s5, seen <- s6,
    kills <- s7, reads <- s8

Shown == INSTANCE DerivedViews WITH
    Work <- {"i", "j"}, Setting <- {"s"}, Size <- {2}, Segment <- {1},
    DefaultLimit <- 2, Budget <- 3, MaxChain <- 4, MaxBatch <- 2, MaxFaults <- 1,
    log <- s1, files <- s2, cmd <- s3, clean <- s4, whole <- s5, faults <- s6

MCRows == {<<None, "v">>, <<"v", "w">>, <<"v", None>>}

Dispatch == INSTANCE NativeDispatch WITH
    Host <- {"codex", "claude-code"}, Class <- {"implement"},
    Mode <- {"frontier", "steady"}, Value <- {"v", "w"}, Work <- {"i"},
    Agent <- {"a", "b"}, Tiers <- 2, Rows <- MCRows, Unset <- None, MaxChanges <- 2,
    Default <- [classes |-> [implement |-> TRUE], tiers |-> <<>>,
                modes |-> [frontier |-> [implement |-> 2]], mode |-> "frontier"],
    config <- s1, work <- s2, prepared <- s3, spawn <- s4, check <- s5,
    valid <- s6, changes <- s7

Prompts == INSTANCE PromptRecall WITH
    Row <- 1..4, Retired <- {4}, Linked <- {2, 4},
    Finds <- [prompt |-> {1, 2}, text |-> {2, 3, 4}], Room <- 1,
    MaxPrompts <- 2, MaxChanges <- 1, MaxReads <- 2,
    owes <- s1, prompt <- s2, model <- s3, emitted <- s4, pulled <- s5, counts <- s6

MCInit ==
  \/ part = "execution" /\ Execution!ExecInit /\ Free3
  \/ part = "settings" /\ Settings!SettingsInit /\ Free6
  \/ part = "bodies" /\ Bodies!BodiesInit /\ Free11
  \/ part = "receipts" /\ Receipts!AttestInit
  \/ part = "artifacts" /\ Artifacts!ArtifactInit /\ Free8
  \/ part = "copies" /\ Copies!BackupInit /\ Free12
  \/ part = "ledger" /\ Ledger!InjectInit /\ Free7
  \/ part = "frame" /\ Frame!FrameInit /\ Free6
  \/ part = "search" /\ Search!SearchInit /\ Free10
  \/ part = "outputs" /\ Outputs!SessionInit /\ Free14
  \/ part = "batch" /\ Batch!BatchInit /\ Free14
  \/ part = "line" /\ Line!LineInit /\ Free14
  \/ part = "pact" /\ Pact!PactInit /\ Free8
  \/ part = "control" /\ Control!ControllerInit /\ Free14
  \/ part = "profile" /\ Layers!ProfileInit /\ Free4
  \/ part = "authority" /\ Authority!AuthorityInit /\ Free9
  \/ part = "routing" /\ Router!ContextInit /\ Free5
  \/ part = "guard" /\ Guard!GuardInit /\ Free9
  \/ part = "recall" /\ Recalled!RecallInit /\ Free8
  \/ part = "cards" /\ Cards!CardsInit /\ Free10
  \/ part = "language" /\ Languages!LanguageInit /\ Free4
  \/ part = "telemetry" /\ Observations!TelemetryInit /\ Free9
  \/ part = "dispatch" /\ Dispatch!DispatchInit /\ Free8
  \/ part = "views" /\ Shown!ViewsInit /\ Free7
  \/ part = "prompts" /\ Prompts!RecallInit /\ Free7

MCNext ==
  /\ UNCHANGED part
  /\ \/ part = "execution" /\ Execution!ExecNext /\ Kept3
     \/ part = "settings" /\ Settings!SettingsNext /\ Kept6
     \/ part = "bodies" /\ Bodies!BodiesNext /\ Kept11
     \/ part = "receipts" /\ Receipts!AttestNext
     \/ part = "artifacts" /\ Artifacts!ArtifactNext /\ Kept8
     \/ part = "copies" /\ Copies!BackupNext /\ Kept12
     \/ part = "ledger" /\ Ledger!InjectNext /\ Kept7
     \/ part = "frame" /\ Frame!FrameNext /\ Kept6
     \/ part = "search" /\ Search!SearchNext /\ Kept10
     \/ part = "outputs" /\ Outputs!SessionNext /\ Kept14
     \/ part = "batch" /\ Batch!BatchNext /\ Kept14
     \/ part = "line" /\ Line!LineNext /\ Kept14
     \/ part = "pact" /\ Pact!PactNext /\ Kept8
     \/ part = "control" /\ Control!ControllerNext /\ Kept14
     \/ part = "profile" /\ Layers!ProfileNext /\ Kept4
     \/ part = "authority" /\ Authority!AuthorityNext /\ Kept9
     \/ part = "routing" /\ Router!ContextNext /\ Kept5
     \/ part = "guard" /\ Guard!GuardNext /\ Kept9
     \/ part = "recall" /\ Recalled!RecallNext /\ Kept8
     \/ part = "cards" /\ Cards!CardsNext /\ Kept10
     \/ part = "language" /\ Languages!LanguageNext /\ Kept4
     \/ part = "telemetry" /\ Observations!TelemetryNext /\ Kept9
     \/ part = "dispatch" /\ Dispatch!DispatchNext /\ Kept8
     \/ part = "views" /\ Shown!ViewsNext /\ Kept7
     \/ part = "prompts" /\ Prompts!RecallNext /\ Kept7

ProcessSymmetry == Permutations(Process)

MCSpec == MCInit /\ [][MCNext]_slots

-----------------------------------------------------------------------------
(* What the execution configuration points at exists, a reader of its       *)
(* events has what the verbs answered, and is shown the personas that plans *)
(* can name (execution-config.ts, profile-store.ts, workspace.ts).          *)
ConfigurationIsWhole == part = "execution" => Execution!ConfigurationIsWhole

(* Every engine reads the settings and templates alike, from genesis and    *)
(* from a snapshot, wherever the workspace lies; and what an append accepts *)
(* the readers that verify the views can read (workspace.ts).               *)
ReadersAgree ==
  /\ part = "settings" => Settings!ReadersAgree
  /\ part = "views" => Shown!AcceptedIsReadable

(* A live card can be listed and has its body (store-backend.ts).           *)
LiveHasBody == part = "bodies" => Bodies!LiveHasBody

(* A receipt whose write returned is never lost, and the receipts are       *)
(* whole, or one repair away from it, after any kill                        *)
(* (attestation-storage.ts and the repair of the CLI).                      *)
ReceiptsEndure ==
  part = "receipts" => Receipts!ReceiptsKept /\ Receipts!WholeOrRepairable

(* What a manifest or a receipt names was stored: the artifacts               *)
(* (artifact-store.ts), and the copies of the container                      *)
(* (platform-chain-backup.mjs).                                             *)
RecordedIsStored ==
  /\ part = "artifacts" => Artifacts!RecordedIsStored
  /\ part = "copies" => Copies!RecordedIsStored

(* What the host received is what the ledger says, and nothing twice; what  *)
(* a prompt is answered with belongs to the query that is reported          *)
(* (injection-session.mjs, knowledge-inject.mjs and its hook).              *)
LedgerIsTrue ==
  /\ part = "ledger" => Ledger!LedgerIsTrue
  /\ part = "prompts" => Prompts!PromptIsAnswered

(* The work frame accounts for every live record, and a dispatched child    *)
(* sees its own task and no other (injection-session.mjs).                  *)
FrameIsTrue == part = "frame" => Frame!FrameAccountsForAll /\ Frame!ChildSeesItsTask

(* A search that says it is complete has found everything, and what it left *)
(* out a later one can reach (injection-session.mjs); a ranked answer is    *)
(* the one an index made for the question would give (recall.ts).           *)
SearchIsHonest ==
  /\ part = "search" => Search!SearchIsHonest
  /\ part = "recall" => Recalled!AnswersAreCurrent

(* One output session at a time works on a repository, and a process that   *)
(* is alone opens its session, whatever a kill left behind (safe-io.mjs).   *)
SessionsAreSound == part = "outputs" => Outputs!OneSession /\ Outputs!AloneIsServed

(* A completed batch has run what its candidate affects, on that candidate  *)
(* and no other (final-gate-plan.mjs).                                      *)
PassIsEarned == part = "batch" => Batch!PassIsEarned

(* What a governed verb answers is what it has done (cli/src/index.ts).     *)
AnswersAreTrue == part = "line" => Line!AnswersAreTrue

(* A run under contract holds no session for ever, and ends when it is      *)
(* ended (tools/stop-pact).                                                 *)
PactReleases == part = "pact" => Pact!PactReleases

(* The lock of an output session goes after the tests it ran, and a task    *)
(* that passes has run them to their end (task.mjs, test-controller-*.mjs). *)
NoneOutlivesTheLock == part = "control" => Control!NoneOutlivesTheLock

(* An operation that is authorised no layer of its profile forbids and what *)
(* it may write its owner has bound; a command run with the operator's pins *)
(* acts on a bundle that was not revoked when it began; and what a context  *)
(* route hands out was offered, asked for, allowed and within the budgets   *)
(* (generic-profile.ts, operator-authority.ts, context-router.ts).          *)
GrantsAreAdmitted ==
  /\ part = "profile" => Layers!AuthorisedByAll
  /\ part = "authority" => Authority!GrantIsCurrent
  /\ part = "routing" => Router!RoutedAsAdmitted

(* A background load that was registered and not deregistered by its owner  *)
(* is reported (spawn-guard.mjs, background-resource.ts).                   *)
LoadsAreReported == part = "guard" => Guard!LoadsAreReported

(* The five readings of the cards agree on which of them answer, and a card   *)
(* is reached by a question in any language, itself or translated             *)
(* (knowledge-core.ts, knowledge-language.ts).                              *)
CardsAnswer ==
  /\ part = "cards" => Cards!SelectionsAgree
  /\ part = "language" => Languages!QuestionsReach

(* A telemetry record that was answered is read once, and no model is         *)
(* recorded as observed that is disputed (telemetry.ts,                     *)
(* dispatch-telemetry-hook.mjs).                                            *)
ObservationsAreTrue == part = "telemetry" => Observations!ObservationsAreTrue

(* A native call that is judged valid ran the model it was handed, about work *)
(* that is live, and under Codex nothing observed of it contradicts what was *)
(* declared (dispatch-adapter.mjs, dispatch-config.ts).                     *)
DispatchIsBound == part = "dispatch" => Dispatch!DispatchIsBound
=============================================================================
