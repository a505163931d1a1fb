---------------------------- MODULE Stores_proofs ----------------------------
(***************************************************************************)
(* Proofs about what is kept, for every value of the constants: each       *)
(* component has its files to itself.  A section declares what its         *)
(* component has that no earlier one has, and takes an instance of it.     *)
(***************************************************************************)
EXTENDS Integers, Sequences, FiniteSets, FiniteSetTheorems, TLAPS

-----------------------------------------------------------------------------
(* The artifact store.                                                      *)

CONSTANTS Process, None, Digest, Root, MaxFaults
VARIABLES lease, setting, blob, index, pc, put, faults

Artifacts == INSTANCE ArtifactStore

(* One process at a time puts, and it holds the lease.  It writes a blob     *)
(* only where there is none, and what it will name it has found whole.      *)
PutsAlone(p) ==
    pc[p] # "idle" =>
      /\ lease = p
      /\ put[p].root \in Root /\ put[p].digest \in Digest
      /\ pc[p] = "write" => Artifacts!Current(p) = "none"
      /\ pc[p] \in {"manifest", "commit"} => Artifacts!Current(p) = "good"
      /\ pc[p] = "commit" => put[p].read = index

ArtifactInv ==
    /\ blob \in [Root -> [Digest -> {"none", "good", "bad"}]] /\ index \subseteq Digest
    /\ setting \in Root
    /\ pc \in [Process -> {"idle", "look", "write", "verify", "manifest", "commit"}]
    /\ put \in [Process -> [root : Root \cup {None}, digest : Digest \cup {None},
                            read : SUBSET Digest]]
    /\ \A p \in Process : PutsAlone(p)
    /\ Artifacts!RecordedIsStored

LEMMA ArtifactInvStep ==
  ASSUME None \notin Process, ArtifactInv, [Artifacts!ArtifactNext]_Artifacts!artifactVars
  PROVE  ArtifactInv'
<1> USE DEF ArtifactInv, PutsAlone, Artifacts!RecordedIsStored, Artifacts!Current
<1>1. CASE Artifacts!MoveRoot
  BY <1>1 DEF Artifacts!MoveRoot
<1>2. ASSUME NEW p \in Process, Artifacts!PutStart(p)
      PROVE  ArtifactInv'
  BY <1>2 DEF Artifacts!PutStart
<1>3. ASSUME NEW p \in Process, Artifacts!Look(p)
      PROVE  ArtifactInv'
<2>1. CASE Artifacts!Goto(p, "write") /\ Artifacts!Current(p) = "none"
  BY <1>3, <2>1 DEF Artifacts!Look, Artifacts!Goto
<2>2. CASE Artifacts!Goto(p, "manifest") /\ Artifacts!Current(p) = "good"
  BY <1>3, <2>2 DEF Artifacts!Look, Artifacts!Goto
<2>3. CASE Artifacts!End(p)
  BY <1>3, <2>3 DEF Artifacts!Look, Artifacts!End, Artifacts!NoPut
<2> QED
  BY <1>3, <2>1, <2>2, <2>3 DEF Artifacts!Look
<1>4. ASSUME NEW p \in Process, Artifacts!WriteBlob(p)
      PROVE  ArtifactInv'
  BY <1>4 DEF Artifacts!WriteBlob, Artifacts!Goto
<1>5. ASSUME NEW p \in Process, Artifacts!ReadBack(p)
      PROVE  ArtifactInv'
<2>1. CASE Artifacts!Goto(p, "manifest") /\ Artifacts!Current(p) = "good" /\ UNCHANGED blob
  BY <1>5, <2>1 DEF Artifacts!ReadBack, Artifacts!Goto
<2>2. CASE /\ Artifacts!Current(p) # "good" /\ Artifacts!End(p)
           /\ blob' = [blob EXCEPT ![put[p].root][put[p].digest] = "none"]
  <3>1. Artifacts!RecordedIsStored'
    BY <1>5, <2>2 DEF Artifacts!ReadBack
  <3>2. pc[p] = "verify" /\ lease = p
    BY <1>5 DEF Artifacts!ReadBack
  <3>3. \A q \in Process : pc'[q] = "idle"
    BY <2>2, <3>2 DEF Artifacts!End
  <3> QED
    BY <1>5, <2>2, <3>1, <3>3 DEF Artifacts!ReadBack, Artifacts!End, Artifacts!NoPut
<2> QED
  BY <1>5, <2>1, <2>2 DEF Artifacts!ReadBack
<1>6. ASSUME NEW p \in Process, Artifacts!ReadManifest(p)
      PROVE  ArtifactInv'
  BY <1>6 DEF Artifacts!ReadManifest
<1>7. ASSUME NEW p \in Process, Artifacts!WriteManifest(p)
      PROVE  ArtifactInv'
  BY <1>7 DEF Artifacts!WriteManifest, Artifacts!End, Artifacts!NoPut
<1>8. ASSUME NEW p \in Process, Artifacts!Die(p)
      PROVE  ArtifactInv'
  BY <1>8 DEF Artifacts!Die, Artifacts!End, Artifacts!NoPut
<1>9. CASE UNCHANGED Artifacts!artifactVars
  BY <1>9 DEF Artifacts!artifactVars
<1> QED
  BY <1>1, <1>2, <1>3, <1>4, <1>5, <1>6, <1>7, <1>8, <1>9 DEF Artifacts!ArtifactNext

(* What the manifest names was proved whole where it was put: whatever the  *)
(* storage did to a blob before it was indexed, whichever root the setting  *)
(* named, and whoever was killed in between (artifact-store.ts).            *)
THEOREM IndexedStays ==
  ASSUME None \notin Process
  PROVE  Artifacts!ArtifactSpec => []Artifacts!RecordedIsStored
<1>1. Artifacts!ArtifactInit => ArtifactInv
  BY DEF Artifacts!ArtifactInit, ArtifactInv, PutsAlone, Artifacts!RecordedIsStored,
         Artifacts!NoPut
<1>2. ArtifactInv /\ [Artifacts!ArtifactNext]_Artifacts!artifactVars => ArtifactInv'
  BY ArtifactInvStep
<1>3. ArtifactInv => Artifacts!RecordedIsStored
  BY DEF ArtifactInv
<1> QED
  BY <1>1, <1>2, <1>3, PTL DEF Artifacts!ArtifactSpec

-----------------------------------------------------------------------------
(* The copies of the container.                                             *)

CONSTANTS Runner, Retention, Interval, MaxVersion, MaxArchive, MaxTime
VARIABLES version, time, named, archive, manifest, remote, local, offsite, job

Copies == INSTANCE ChainBackup

(* A stamp is given to one job.  The job renames its archive, and only then *)
(* asks for the versions, so no archive holds more than its sidecar says.   *)
Working(r) ==
    pc[r] # "idle" =>
      LET n == job[r].stamp IN
      /\ n \in Copies!Stamp /\ n <= named
      /\ offsite.ok => offsite.stamp # n
      /\ job[r].content \in Nat /\ job[r].content <= version
      /\ pc[r] # "versions" => job[r].recorded \in Nat /\ job[r].content <= job[r].recorded
      /\ pc[r] \in {"versions", "rename"} => archive[n] = None
      /\ pc[r] \in {"versions", "rename", "manifest"} => manifest[n] = None
      /\ archive[n] \in {None, job[r].content}
      /\ manifest[n] \in {None, job[r].recorded}

Described(n) ==
    /\ n > named => archive[n] = None /\ manifest[n] = None
    /\ archive[n] # None /\ manifest[n] # None =>
         archive[n] \in Nat /\ manifest[n] \in Nat /\ archive[n] <= manifest[n]

Jobs == [stamp : Nat, content : Nat, recorded : Nat, doomed : SUBSET Copies!Stamp]

CopiesTypeOK ==
    /\ version \in Nat /\ named \in Nat
    /\ archive \in [Copies!Stamp -> Nat \cup {None}]
    /\ manifest \in [Copies!Stamp -> Nat \cup {None}]
    /\ remote \in [Copies!Stamp -> {"none", "good", "bad"}]
    /\ pc \in [Runner -> {"idle", "versions", "rename", "manifest", "rotate", "remove",
                         "push", "verify"}]
    /\ job \in [Runner -> Jobs]

(* A job that is over has left its stamp to nobody.                         *)
PushedIsRead ==
    offsite.ok => /\ offsite.stamp \in Copies!Stamp /\ offsite.stamp <= named
                  /\ remote[offsite.stamp] = "good"

StampsDiffer ==
    \A r, q \in Runner : pc[r] # "idle" /\ pc[q] # "idle" /\ r # q => job[r].stamp # job[q].stamp

CopiesInv ==
    /\ CopiesTypeOK /\ PushedIsRead /\ StampsDiffer
    /\ \A r \in Runner : Working(r)
    /\ \A n \in Copies!Stamp : Described(n)

LEMMA JobsStay ==
  /\ Copies!NoJob \in Jobs
  /\ \A n, v \in Nat : [Copies!NoJob EXCEPT !.stamp = n, !.content = v] \in Jobs
  /\ \A j \in Jobs : \A n : [j EXCEPT !.doomed = @ \ {n}] \in Jobs
  /\ \A j \in Jobs, v \in Nat : [j EXCEPT !.recorded = v] \in Jobs
  /\ \A j \in Jobs, d \in SUBSET Copies!Stamp : [j EXCEPT !.doomed = d] \in Jobs
BY DEF Copies!NoJob, Jobs

LEMMA CopiesInvStep ==
  ASSUME None \notin Int, MaxArchive \in Nat, CopiesInv, [Copies!BackupNext]_Copies!backupVars
  PROVE  CopiesInv'
<1> USE DEF CopiesInv, CopiesTypeOK, PushedIsRead, StampsDiffer, Working, Described, Copies!Stamp
<1>1. CASE Copies!CommitChain
  BY <1>1 DEF Copies!CommitChain
<1>2. CASE Copies!Tick
  BY <1>2 DEF Copies!Tick
<1>3. ASSUME NEW r \in Runner, Copies!Tar(r)
      PROVE  CopiesInv'
  <2>1. CopiesTypeOK'
    <3>1. [Copies!NoJob EXCEPT !.stamp = named + 1, !.content = version] \in Jobs
      <4>1. named + 1 \in Nat /\ version \in Nat
        OBVIOUS
      <4> QED
        BY ONLY <4>1, JobsStay, Zenon
    <3> QED
      BY <1>3, <3>1 DEF Copies!Tar
  <2>2. PushedIsRead'
    BY <1>3 DEF Jobs, Copies!Tar, Copies!NoJob
  <2>3. ASSUME NEW q \in Runner PROVE Working(q)'
    BY <1>3 DEF Jobs, Copies!Tar, Copies!NoJob
  <2>4. StampsDiffer'
    BY <1>3 DEF Jobs, Copies!Tar, Copies!NoJob
  <2>5. ASSUME NEW n \in Copies!Stamp PROVE Described(n)'
    BY <1>3 DEF Jobs, Copies!Tar, Copies!NoJob
  <2> QED
    BY <2>1, <2>2, <2>3, <2>4, <2>5
<1>4. ASSUME NEW r \in Runner, Copies!ChainVersions(r)
      PROVE  CopiesInv'
  <2>1. CopiesTypeOK'
    <3>1. [job[r] EXCEPT !.recorded = version] \in Jobs
      <4>1. job[r] \in Jobs /\ version \in Nat
        OBVIOUS
      <4> QED
        BY ONLY <4>1, JobsStay, Zenon
    <3> QED
      BY <1>4, <3>1 DEF Copies!ChainVersions
  <2>2. PushedIsRead'
    BY <1>4 DEF Jobs, Copies!ChainVersions
  <2>3. ASSUME NEW q \in Runner PROVE Working(q)'
    BY <1>4 DEF Jobs, Copies!ChainVersions
  <2>4. StampsDiffer'
    BY <1>4 DEF Jobs, Copies!ChainVersions
  <2>5. ASSUME NEW n \in Copies!Stamp PROVE Described(n)'
    BY <1>4 DEF Jobs, Copies!ChainVersions
  <2> QED
    BY <2>1, <2>2, <2>3, <2>4, <2>5
<1>5. ASSUME NEW r \in Runner, Copies!Rename(r)
      PROVE  CopiesInv'
  BY <1>5 DEF Jobs, Copies!Rename
<1>6. ASSUME NEW r \in Runner, Copies!Describe(r)
      PROVE  CopiesInv'
  BY <1>6 DEF Jobs, Copies!Describe
<1>7. ASSUME NEW r \in Runner, Copies!Rotate(r)
      PROVE  CopiesInv'
  <2>1. CopiesTypeOK'
    <3>1. [job[r] EXCEPT !.doomed = Copies!Excess] \in Jobs
      <4>1. job[r] \in Jobs /\ Copies!Excess \in SUBSET Copies!Stamp
        BY DEF Copies!Excess, Copies!Oldest, Copies!Archives
      <4> QED
        BY ONLY <4>1, JobsStay, Zenon
    <3>2. Copies!NoJob \in Jobs
      BY DEF Copies!NoJob, Jobs
    <3> QED
      BY <1>7, <3>1, <3>2 DEF Copies!Rotate, Copies!StopJob
  <2>2. PushedIsRead'
    BY <1>7 DEF Jobs, Copies!Rotate, Copies!StopJob, Copies!NoJob, Copies!Excess
  <2>3. ASSUME NEW q \in Runner PROVE Working(q)'
    BY <1>7 DEF Jobs, Copies!Rotate, Copies!StopJob, Copies!NoJob, Copies!Excess
  <2>4. StampsDiffer'
    <3>1. ASSUME NEW q \in Runner, pc'[q] # "idle"
          PROVE  pc[q] # "idle" /\ job'[q].stamp = job[q].stamp
      <4>1. CASE /\ job' = [job EXCEPT ![r].doomed = Copies!Excess]
                 /\ pc' = [pc EXCEPT ![r] = "remove"]
        <5>1. [job[r] EXCEPT !.doomed = Copies!Excess].stamp = job[r].stamp
          BY DEF Jobs
        <5> QED
          BY <1>7, <3>1, <4>1, <5>1 DEF Copies!Rotate
      <4>2. CASE Copies!StopJob(r)
        BY <1>7, <3>1, <4>2 DEF Copies!StopJob
      <4> QED
        BY <1>7, <4>1, <4>2 DEF Copies!Rotate
    <3> QED
      BY <3>1
  <2>5. ASSUME NEW n \in Copies!Stamp PROVE Described(n)'
    BY <1>7 DEF Jobs, Copies!Rotate, Copies!StopJob, Copies!NoJob, Copies!Excess
  <2> QED
    BY <2>1, <2>2, <2>3, <2>4, <2>5
<1>8. ASSUME NEW r \in Runner, Copies!RemoveOld(r)
      PROVE  CopiesInv'
  <2>1. CopiesTypeOK'
    <3>1. \A n : [job[r] EXCEPT !.doomed = @ \ {n}] \in Jobs
      BY JobsStay
    <3>2. Copies!NoJob \in Jobs
      BY JobsStay
    <3>3. job' = [job EXCEPT ![r] = Copies!NoJob] \/ \E n : job' = [job EXCEPT ![r].doomed = @ \ {n}]
      BY <1>8 DEF Copies!RemoveOld, Copies!StopJob
    <3>4. job' \in [Runner -> Jobs]
      <4>1. CASE job' = [job EXCEPT ![r] = Copies!NoJob]
        BY <3>2, <4>1
      <4>2. ASSUME NEW n, job' = [job EXCEPT ![r].doomed = @ \ {n}]
            PROVE  job' \in [Runner -> Jobs]
        <5> DEFINE j == [job[r] EXCEPT !.doomed = @ \ {n}]
        <5>1. j \in Jobs
          BY <3>1
        <5>2. job' = [job EXCEPT ![r] = j]
          BY <4>2
        <5> QED
          BY <5>1, <5>2
      <4> QED
        BY <3>3, <4>1, <4>2
    <3> QED
      BY <1>8, <3>4 DEF Copies!RemoveOld, Copies!StopJob
  <2>2. PushedIsRead'
    BY <1>8 DEF Jobs, Copies!RemoveOld, Copies!StopJob, Copies!NoJob
  <2>3. ASSUME NEW q \in Runner PROVE Working(q)'
    BY <1>8 DEF Jobs, Copies!RemoveOld, Copies!StopJob, Copies!NoJob
  <2>4. StampsDiffer'
    <3>1. ASSUME NEW q \in Runner, pc'[q] # "idle"
          PROVE  pc[q] # "idle" /\ job'[q].stamp = job[q].stamp
      BY <1>8, <3>1 DEF Jobs, Copies!RemoveOld, Copies!StopJob
    <3> QED
      BY <3>1
  <2>5. ASSUME NEW n \in Copies!Stamp PROVE Described(n)'
    BY <1>8 DEF Jobs, Copies!RemoveOld, Copies!StopJob, Copies!NoJob
  <2> QED
    BY <2>1, <2>2, <2>3, <2>4, <2>5
<1>9. ASSUME NEW r \in Runner, Copies!LocalReceipt(r)
      PROVE  CopiesInv'
  BY <1>9 DEF Jobs, Copies!LocalReceipt
<1>10. ASSUME NEW r \in Runner, Copies!Push(r)
      PROVE  CopiesInv'
  BY <1>10 DEF Jobs, Copies!Push
<1>11. ASSUME NEW r \in Runner, Copies!Offsite(r)
      PROVE  CopiesInv'
  BY <1>11 DEF Jobs, Copies!Offsite, Copies!StopJob, Copies!NoJob
<1>12. ASSUME NEW r \in Runner, Copies!Killed(r)
      PROVE  CopiesInv'
  BY <1>12 DEF Jobs, Copies!Killed, Copies!StopJob, Copies!NoJob
<1>13. CASE UNCHANGED Copies!backupVars
  BY <1>13 DEF Copies!backupVars
<1> QED
  BY <1>1, <1>2, <1>3, <1>4, <1>5, <1>6, <1>7, <1>8, <1>9, <1>10, <1>11, <1>12, <1>13
     DEF Copies!BackupNext

(* What is written about the copies is true: no backup is due only while    *)
(* the last one is readable offsite, and an archive holds no commit that    *)
(* its sidecar leaves out, although commands commit while both are made and *)
(* runners rotate each other's archives away (platform-chain-backup.mjs).   *)
THEOREM CopiesAreDescribed ==
  ASSUME None \notin Int, MaxArchive \in Nat
  PROVE  Copies!BackupSpec => []Copies!RecordedIsStored
<1>1. Copies!BackupInit => CopiesInv
  BY DEF Copies!BackupInit, Jobs, CopiesInv, CopiesTypeOK, PushedIsRead, StampsDiffer, Working,
     Described, Copies!NoJob, Copies!NoReceipt
<1>2. CopiesInv /\ [Copies!BackupNext]_Copies!backupVars => CopiesInv'
  BY CopiesInvStep
<1>3. CopiesInv => Copies!RecordedIsStored
  BY DEF CopiesInv, CopiesTypeOK, PushedIsRead, Described, Copies!RecordedIsStored,
     Copies!Archives, Copies!Due, Copies!Fresh
<1> QED
  BY <1>1, <1>2, <1>3, PTL DEF Copies!BackupSpec

-----------------------------------------------------------------------------
(* The delivery ledger of a session.                                        *)

CONSTANTS Hook, Session, Card, Mode, Budget, MaxPrompts, Parallel, Contended
VARIABLES document, lock, hook, given, prompts

Ledger == INSTANCE InjectionSession

Entries == [emitted : SUBSET Card, pending : SUBSET Card, l1Bytes : Nat]
Documents == [Session -> Entries]

HookRecords ==
    [pc : {"idle", "lock", "judged", "hold", "written", "answered"}, act : {"", "generate", "ack"},
     session : Session \cup {""}, mode : {"", "pending", "immediate"}, found : SUBSET Card,
     retry : BOOLEAN, copy : Documents \cup {<<>>}, offered : SUBSET Card]

LedgerTypeOK ==
    /\ document \in Documents
    /\ hook \in [Hook -> HookRecords]
    /\ given \in [Session -> [Card -> Nat]]

(* A hook at work is its session's only one, and one that only waits for    *)
(* the lock can become its holder.                                          *)
AtWork(h) ==
    /\ hook[h].pc = "idle" => hook[h] = Ledger!Resting
    /\ hook[h].pc # "idle" =>
         /\ hook[h].session \in Session
         /\ hook[h].mode \in {"pending", "immediate"} /\ hook[h].act \in {"generate", "ack"}
         /\ \A g \in Hook \ {h} : hook[g].session # hook[h].session
    /\ hook[h].act = "ack" => hook[h].mode = "pending"
    /\ hook[h].pc = "answered" => hook[h].act = "generate"

(* The holder's copy is the document; a lock judged old is broken by one.   *)
Holds(h) ==
    /\ hook[h].pc \in {"hold", "written"} => lock = h
    /\ hook[h].pc = "hold" => hook[h].copy = document
    /\ hook[h].pc = "judged" => /\ lock = "old"
                                /\ \A g \in Hook \ {h} : hook[g].pc # "judged"

(* What is still to be acknowledged is pending and was not received; what   *)
(* is on its way to the host is in the ledger and was not received.         *)
Pends(h) ==
    \/ /\ hook[h].act = "generate" /\ hook[h].mode = "pending"
       /\ hook[h].pc \in {"written", "answered"}
    \/ hook[h].act = "ack" /\ hook[h].pc \in {"lock", "judged", "hold"}

Arrives(h) ==
    \/ hook[h].mode = "immediate" /\ hook[h].pc \in {"written", "answered"}
    \/ hook[h].act = "ack" /\ hook[h].pc = "written"

Accounted(h) ==
    LET entry == document[hook[h].session] IN
    /\ Pends(h) => hook[h].offered \subseteq entry.pending \ entry.emitted
    /\ Arrives(h) => /\ hook[h].offered \subseteq entry.emitted
                     /\ \A c \in hook[h].offered : given[hook[h].session][c] = 0

LedgerInv ==
    /\ LedgerTypeOK
    /\ \A h \in Hook : AtWork(h) /\ Holds(h) /\ Accounted(h)
    /\ Ledger!LedgerIsTrue

LedgerOK ==
    /\ IsFiniteSet(Card) /\ Mode \subseteq {"pending", "immediate"} /\ "" \notin Session
    /\ Hook \cap {"free", "dead", "old"} = {}
    /\ Parallel = FALSE /\ Contended = FALSE

LEMMA EnteredType ==
  ASSUME IsFiniteSet(Card), NEW e \in Entries, NEW mode, NEW ids \in SUBSET Card
  PROVE  Ledger!Entered(e, mode, ids) \in Entries /\ Ledger!Acknowledged(e, ids) \in Entries
<1>1. Ledger!Cardinality(ids) = Cardinality(ids)
  BY DEF Cardinality, Ledger!Cardinality, ExistsBijection, Ledger!ExistsBijection,
         Bijection, Ledger!Bijection, Injection, Ledger!Injection, Surjection, Ledger!Surjection,
         IsInjective, Ledger!IsInjective
<1>2. e.l1Bytes + Ledger!Cardinality(ids) \in Nat
  BY <1>1, FS_Subset, FS_CardinalityType DEF Entries
<1>3. \A n \in Nat : [e EXCEPT !.emitted = @ \cup ids, !.pending = @ \ ids, !.l1Bytes = n] \in Entries
  BY DEF Entries
<1>4. [e EXCEPT !.emitted = @ \cup ids, !.pending = @ \ ids,
                !.l1Bytes = @ + Ledger!Cardinality(ids)] \in Entries
  BY ONLY <1>2, <1>3, Zenon
<1>5. [e EXCEPT !.pending = @ \cup (ids \ e.emitted)] \in Entries
  BY DEF Entries
<1>6. [e EXCEPT !.emitted = @ \cup (ids \cap e.pending), !.pending = @ \ ids] \in Entries
  BY DEF Entries
<1> QED
  BY <1>4, <1>5, <1>6 DEF Ledger!Entered, Ledger!Acknowledged

LEMMA RetryRecord ==
  ASSUME NEW q \in HookRecords
  PROVE  LET r == [q EXCEPT !.pc = "lock", !.act = "generate", !.retry = TRUE,
                            !.copy = <<>>, !.offered = {}]
         IN  /\ r \in HookRecords /\ r.pc = "lock" /\ r.act = "generate"
             /\ r.session = q.session /\ r.mode = q.mode
BY DEF HookRecords

LEMMA RetriesTo ==
  ASSUME LedgerTypeOK, NEW h \in Hook, AtWork(h), hook[h].pc # "idle", Ledger!Retries(h)
  PROVE  \E r \in HookRecords :
           /\ hook' = [hook EXCEPT ![h] = r]
           /\ \/ r = Ledger!Resting
              \/ /\ r.pc = "lock" /\ r.act = "generate" /\ r.session = hook[h].session
                 /\ r.mode = hook[h].mode
<1>1. Ledger!Resting \in HookRecords
  BY DEF Ledger!Resting, HookRecords
<1>2. CASE Ledger!Ends(h)
  BY <1>1, <1>2 DEF Ledger!Ends
<1>3. CASE ~Ledger!Ends(h)
  <2> DEFINE r == [hook[h] EXCEPT !.pc = "lock", !.act = "generate", !.retry = TRUE,
                                  !.copy = <<>>, !.offered = {}]
  <2>1. hook' = [hook EXCEPT ![h] = r]
    BY <1>3 DEF Ledger!Retries
  <2>2. /\ r \in HookRecords /\ r.pc = "lock" /\ r.act = "generate"
        /\ r.session = hook[h].session /\ r.mode = hook[h].mode
    BY RetryRecord DEF LedgerTypeOK
  <2> QED
    BY <2>1, <2>2
<1> QED
  BY <1>2, <1>3

(* One hook goes on, and touches what is kept of its own session only.      *)
LEMMA StepOfOne ==
  ASSUME LedgerOK, LedgerInv, NEW h \in Hook, NEW r \in HookRecords,
         hook' = [hook EXCEPT ![h] = r],
         document' \in Documents, given' \in [Session -> [Card -> Nat]],
         \A s \in Session \ {hook[h].session} : document'[s] = document[s] /\ given'[s] = given[s],
         document' = document \/ lock = h,
         \A g \in Hook \ {h} : hook[g].pc \in {"hold", "written"} => lock' = g,
         \A g \in Hook \ {h} : hook[g].pc = "judged" => lock' = "old" /\ r.pc # "judged",
         AtWork(h)', Holds(h)', Accounted(h)',
         r.session \in {"", hook[h].session} \/ \A g \in Hook : hook[g].session # r.session,
         Ledger!LedgerIsTrue'
  PROVE  LedgerInv'
<1>1. LedgerTypeOK'
  BY DEF LedgerInv, LedgerTypeOK
<1>2. hook'[h] = r /\ \A g \in Hook \ {h} : hook'[g] = hook[g]
  BY DEF LedgerInv, LedgerTypeOK
<1>3. ASSUME NEW g \in Hook \ {h}
      PROVE  AtWork(g)' /\ Accounted(g)'
  <2>1. hook'[g] = hook[g] /\ AtWork(g) /\ Accounted(g)
    BY <1>2, <1>3 DEF LedgerInv
  <2>2. hook[g].pc # "idle" => hook[g].session \in Session \ {hook[h].session}
    BY <2>1 DEF AtWork
  <2>3. Accounted(g)'
    <3>1. CASE hook[g].pc = "idle"
      <4>1. hook[g] = Ledger!Resting
        BY <2>1, <3>1 DEF AtWork
      <4>2. Ledger!Resting.act = ""
        BY DEF Ledger!Resting
      <4>3. hook'[g].act = "" /\ hook'[g].pc = "idle"
        BY <2>1, <3>1, <4>1, <4>2
      <4> QED
        BY <4>3 DEF Accounted, Pends, Arrives
    <3>2. CASE hook[g].pc # "idle"
      <4>1. /\ document'[hook'[g].session] = document[hook[g].session]
            /\ given'[hook'[g].session] = given[hook[g].session]
        BY <2>1, <2>2, <3>2
      <4> QED
        BY <2>1, <4>1 DEF Accounted, Pends, Arrives
    <3> QED
      BY <3>1, <3>2
  <2>4. hook[g].pc # "idle" => r.session # hook[g].session
    BY <2>1, <1>2 DEF AtWork, LedgerOK
  <2>5. AtWork(g)'
    BY <2>1, <2>4, <1>2 DEF AtWork
  <2> QED
    BY <2>3, <2>5
<1>4. ASSUME NEW g \in Hook \ {h}
      PROVE  Holds(g)'
  BY <1>2, <1>4 DEF LedgerInv, Holds
<1> QED
  BY <1>1, <1>3, <1>4 DEF LedgerInv

LEMMA Turns ==
  ASSUME NEW q \in HookRecords,
         NEW stage \in {"lock", "judged", "written", "answered"}
  PROVE  LET r == [q EXCEPT !.pc = stage]
         IN  /\ r \in HookRecords /\ r.pc = stage /\ r.act = q.act
             /\ r.session = q.session /\ r.mode = q.mode /\ r.offered = q.offered
BY DEF HookRecords

LEMMA Takes ==
  ASSUME NEW q \in HookRecords, NEW copy \in Documents
  PROVE  LET r == [q EXCEPT !.pc = "hold", !.copy = copy]
         IN  /\ r \in HookRecords /\ r.pc = "hold" /\ r.copy = copy /\ r.act = q.act
             /\ r.session = q.session /\ r.mode = q.mode /\ r.offered = q.offered
BY DEF HookRecords

LEMMA Offers ==
  ASSUME NEW q \in HookRecords, NEW ids \in SUBSET Card
  PROVE  LET r == [q EXCEPT !.pc = "written", !.offered = ids]
         IN  /\ r \in HookRecords /\ r.pc = "written" /\ r.offered = ids /\ r.act = q.act
             /\ r.session = q.session /\ r.mode = q.mode
BY DEF HookRecords

LEMMA Acks ==
  ASSUME NEW q \in HookRecords
  PROVE  LET r == [q EXCEPT !.pc = "lock", !.act = "ack"]
         IN  /\ r \in HookRecords /\ r.pc = "lock" /\ r.act = "ack"
             /\ r.session = q.session /\ r.mode = q.mode /\ r.offered = q.offered
BY DEF HookRecords

(* What arrives at the host was not received before and is in the ledger.   *)
LEMMA Received ==
  ASSUME LedgerInv, NEW h \in Hook, AtWork(h), hook[h].pc # "idle", Ledger!Receives(h),
         hook[h].offered = {} \/ Arrives(h),
         UNCHANGED document
  PROVE  /\ given' \in [Session -> [Card -> Nat]]
         /\ \A s \in Session \ {hook[h].session} : given'[s] = given[s]
         /\ Ledger!LedgerIsTrue'
<1> DEFINE s == hook[h].session
<1>1. s \in Session /\ hook[h].offered \subseteq Card
  BY DEF AtWork, LedgerInv, LedgerTypeOK, HookRecords
<1>2. given' = [given EXCEPT ![s] =
                  [c \in Card |-> given[s][c] + IF c \in hook[h].offered THEN 1 ELSE 0]]
  BY DEF Ledger!Receives
<1>3. given \in [Session -> [Card -> Nat]]
  BY DEF LedgerInv, LedgerTypeOK
<1>4. [c \in Card |-> given[s][c] + IF c \in hook[h].offered THEN 1 ELSE 0] \in [Card -> Nat]
  BY <1>1, <1>3
<1>5. given' \in [Session -> [Card -> Nat]] /\ \A t \in Session \ {s} : given'[t] = given[t]
  BY <1>1, <1>2, <1>3, <1>4
<1>6. \A c \in Card : given'[s][c] = given[s][c] + IF c \in hook[h].offered THEN 1 ELSE 0
  BY <1>1, <1>2, <1>3
<1>7. ASSUME NEW c \in hook[h].offered
      PROVE  c \in document[s].emitted /\ given[s][c] = 0
  BY <1>7 DEF LedgerInv, Accounted
<1>8. \A c \in Card : given'[s][c] > 0 => c \in document[s].emitted /\ given'[s][c] = 1
  BY <1>1, <1>3, <1>6, <1>7 DEF LedgerInv, Ledger!LedgerIsTrue
<1> QED
  BY <1>5, <1>8 DEF LedgerInv, Ledger!LedgerIsTrue

LEMMA EndsThere ==
  ASSUME LedgerOK, LedgerInv, NEW h \in Hook, Ledger!Ends(h), UNCHANGED document,
         given' \in [Session -> [Card -> Nat]],
         \A s \in Session \ {hook[h].session} : given'[s] = given[s],
         \A g \in Hook \ {h} : hook[g].pc \in {"hold", "written"} => lock' = g,
         \A g \in Hook \ {h} : hook[g].pc = "judged" => lock' = "old",
         Ledger!LedgerIsTrue'
  PROVE  LedgerInv'
<1>1. Ledger!Resting \in HookRecords
  BY DEF Ledger!Resting, HookRecords
<1>2. hook' = [hook EXCEPT ![h] = Ledger!Resting]
  BY DEF Ledger!Ends
<1>3. hook'[h] = Ledger!Resting
  BY <1>2 DEF LedgerInv, LedgerTypeOK
<1>4. Ledger!Resting.session = "" /\ Ledger!Resting.pc = "idle" /\ Ledger!Resting.act = ""
      /\ Ledger!Resting.mode = ""
  BY DEF Ledger!Resting
<1>5. AtWork(h)' /\ Holds(h)' /\ Accounted(h)'
  BY <1>3, <1>4 DEF AtWork, Holds, Accounted, Pends, Arrives
<1>6. document' \in Documents
  BY DEF LedgerInv, LedgerTypeOK
<1> HIDE DEF Ledger!Resting
<1> QED
  BY <1>1, <1>2, <1>4, <1>5, <1>6, StepOfOne

LEMMA RetriesThere ==
  ASSUME LedgerOK, LedgerInv, NEW h \in Hook, hook[h].pc # "idle", Ledger!Retries(h),
         UNCHANGED <<document, given>>,
         \A g \in Hook \ {h} : hook[g].pc \in {"hold", "written"} => lock' = g,
         \A g \in Hook \ {h} : hook[g].pc = "judged" => lock' = "old"
  PROVE  LedgerInv'
<1>1. LedgerTypeOK /\ AtWork(h)
  BY DEF LedgerInv
<1>2. PICK r \in HookRecords :
        /\ hook' = [hook EXCEPT ![h] = r]
        /\ \/ r = Ledger!Resting
           \/ /\ r.pc = "lock" /\ r.act = "generate" /\ r.session = hook[h].session
              /\ r.mode = hook[h].mode
  BY <1>1, RetriesTo
<1>3. hook'[h] = r /\ \A g \in Hook \ {h} : hook'[g] = hook[g]
  BY <1>1, <1>2 DEF LedgerTypeOK
<1>4. Ledger!LedgerIsTrue'
  BY DEF LedgerInv, Ledger!LedgerIsTrue
<1>5. CASE r = Ledger!Resting
  BY <1>1, <1>2, <1>4, <1>5, EndsThere DEF Ledger!Ends, LedgerTypeOK
<1>6. CASE r # Ledger!Resting
  <2>1. r.pc = "lock" /\ r.act = "generate" /\ r.session = hook[h].session /\ r.mode = hook[h].mode
    BY <1>2, <1>6
  <2>2. AtWork(h)'
    BY <1>1, <1>3, <2>1 DEF AtWork
  <2>3. Holds(h)' /\ Accounted(h)'
    BY <1>3, <2>1 DEF Holds, Accounted, Pends, Arrives
  <2> QED
    BY <1>1, <1>2, <1>4, <2>1, <2>2, <2>3, StepOfOne DEF LedgerTypeOK
<1> QED
  BY <1>5, <1>6

LEMMA LedgerInvStep ==
  ASSUME LedgerOK, LedgerInv, [Ledger!InjectNext]_Ledger!vars
  PROVE  LedgerInv'
<1>0. LedgerTypeOK /\ Ledger!LedgerIsTrue /\ \A g \in Hook : AtWork(g) /\ Holds(g) /\ Accounted(g)
  BY DEF LedgerInv
<1>t. document \in Documents /\ \A g \in Hook : hook[g] \in HookRecords
  BY <1>0 DEF LedgerTypeOK
<1>h. Ledger!Resting.pc = "idle" /\ Ledger!Resting.session = ""
  BY DEF Ledger!Resting
<1>1. CASE Ledger!GrowsOld
  <2>1. LedgerTypeOK' /\ Ledger!LedgerIsTrue' /\ \A g \in Hook : AtWork(g)' /\ Accounted(g)'
    BY <1>0, <1>1 DEF Ledger!GrowsOld, LedgerTypeOK, Ledger!LedgerIsTrue, AtWork, Accounted,
                      Pends, Arrives
  <2>2. \A g \in Hook : Holds(g)'
    BY <1>0, <1>1 DEF Ledger!GrowsOld, Ledger!Waiting, Holds, LedgerOK
  <2> QED
    BY <2>1, <2>2 DEF LedgerInv
<1>2. ASSUME NEW h \in Hook, NEW s \in Session, NEW mode \in Mode,
             NEW found \in SUBSET Card \ {{}}, Ledger!Prompt(h, s, mode, found)
      PROVE  LedgerInv'
  <2> DEFINE r == [Ledger!Resting EXCEPT !.pc = "lock", !.act = "generate", !.session = s,
                                        !.mode = mode, !.found = found]
  <2>1. /\ r \in HookRecords /\ r.pc = "lock" /\ r.act = "generate" /\ r.session = s
        /\ r.mode = mode
    BY DEF Ledger!Resting, HookRecords, LedgerOK
  <2>2. hook' = [hook EXCEPT ![h] = r] /\ hook'[h] = r
    BY <1>0, <1>2 DEF Ledger!Prompt, LedgerTypeOK
  <2> HIDE DEF r
  <2>3. UNCHANGED <<document, lock, given>> /\ hook[h].pc = "idle"
        /\ \A g \in Hook : hook[g].session # s
    BY <1>2, <1>h DEF Ledger!Prompt, LedgerOK
  <2>4. AtWork(h)'
    BY <1>0, <2>1, <2>2, <2>3 DEF AtWork, LedgerOK, LedgerTypeOK
  <2>5. Holds(h)' /\ Accounted(h)'
    BY <2>1, <2>2 DEF Holds, Accounted, Pends, Arrives
  <2>6. Ledger!LedgerIsTrue'
    BY <1>0, <2>3 DEF Ledger!LedgerIsTrue
  <2>7. \A g \in Hook \ {h} : hook[g].pc \in {"hold", "written"} => lock' = g
    BY <1>0, <2>3 DEF Holds
  <2>8. \A g \in Hook \ {h} : hook[g].pc = "judged" => lock' = "old"
    BY <1>0, <2>3 DEF Holds
  <2> QED
    BY <1>0, <2>1, <2>2, <2>3, <2>4, <2>5, <2>6, <2>7, <2>8, StepOfOne DEF LedgerTypeOK
<1>3. ASSUME NEW h \in Hook, Ledger!Acquire(h)
      PROVE  LedgerInv'
  <2> DEFINE r == [hook[h] EXCEPT !.pc = "hold", !.copy = document]
  <2>1. /\ r \in HookRecords /\ r.pc = "hold" /\ r.copy = document /\ r.act = hook[h].act
        /\ r.session = hook[h].session /\ r.mode = hook[h].mode /\ r.offered = hook[h].offered
    BY <1>t, Takes
  <2>2. hook' = [hook EXCEPT ![h] = r] /\ hook'[h] = r
    BY <1>0, <1>3 DEF Ledger!Acquire, LedgerTypeOK
  <2> HIDE DEF r
  <2>3. UNCHANGED <<document, given>> /\ hook[h].pc = "lock" /\ lock = "free" /\ lock' = h
    BY <1>3 DEF Ledger!Acquire
  <2>4. \A g \in Hook \ {h} : hook'[g] = hook[g]
    BY <1>0, <2>2 DEF LedgerTypeOK
  <2>5. AtWork(h)'
    BY <1>0, <2>1, <2>2, <2>3, <2>4 DEF AtWork
  <2>6. Holds(h)' /\ Accounted(h)'
    BY <1>0, <2>1, <2>2, <2>3 DEF Holds, Accounted, Pends, Arrives
  <2>7. Ledger!LedgerIsTrue'
    BY <1>0, <2>3 DEF Ledger!LedgerIsTrue
  <2>8. \A g \in Hook : hook[g].pc \notin {"hold", "written", "judged"}
    BY <1>0, <2>3 DEF Holds, LedgerOK
  <2> QED
    BY <1>0, <2>1, <2>2, <2>3, <2>5, <2>6, <2>7, <2>8, StepOfOne DEF LedgerTypeOK
<1>4. ASSUME NEW h \in Hook, Ledger!JudgeOld(h)
      PROVE  LedgerInv'
  <2> DEFINE r == [hook[h] EXCEPT !.pc = "judged"]
  <2>1. /\ r \in HookRecords /\ r.pc = "judged" /\ r.act = hook[h].act
        /\ r.session = hook[h].session /\ r.mode = hook[h].mode /\ r.offered = hook[h].offered
    BY <1>t, Turns
  <2>2. hook' = [hook EXCEPT ![h] = r] /\ hook'[h] = r
    BY <1>0, <1>4 DEF Ledger!JudgeOld, Ledger!Goes, LedgerTypeOK
  <2> HIDE DEF r
  <2>3. UNCHANGED <<document, lock, given>> /\ hook[h].pc = "lock" /\ lock = "old"
        /\ \A g \in Hook \ {h} : hook[g].pc # "judged"
    BY <1>4 DEF Ledger!JudgeOld, Ledger!Waiting, LedgerOK
  <2>4. \A g \in Hook \ {h} : hook'[g] = hook[g]
    BY <1>0, <2>2 DEF LedgerTypeOK
  <2>5. AtWork(h)'
    BY <1>0, <2>1, <2>2, <2>3, <2>4 DEF AtWork
  <2>6. Holds(h)' /\ Accounted(h)'
    BY <1>0, <2>1, <2>2, <2>3, <2>4 DEF Holds, Accounted, Pends, Arrives
  <2>7. Ledger!LedgerIsTrue'
    BY <1>0, <2>3 DEF Ledger!LedgerIsTrue
  <2>8. \A g \in Hook \ {h} : hook[g].pc \in {"hold", "written"} => lock' = g
    BY <1>0, <2>3 DEF Holds
  <2> QED
    BY <1>0, <2>1, <2>2, <2>3, <2>5, <2>6, <2>7, <2>8, StepOfOne DEF LedgerTypeOK
<1>5. ASSUME NEW h \in Hook, Ledger!BreakLock(h)
      PROVE  LedgerInv'
  <2> DEFINE r == [hook[h] EXCEPT !.pc = "lock"]
  <2>1. /\ r \in HookRecords /\ r.pc = "lock" /\ r.act = hook[h].act
        /\ r.session = hook[h].session /\ r.mode = hook[h].mode /\ r.offered = hook[h].offered
    BY <1>t, Turns
  <2>2. hook' = [hook EXCEPT ![h] = r] /\ hook'[h] = r
    BY <1>0, <1>5 DEF Ledger!BreakLock, Ledger!Goes, LedgerTypeOK
  <2> HIDE DEF r
  <2>3. UNCHANGED <<document, given>> /\ hook[h].pc = "judged"
    BY <1>5 DEF Ledger!BreakLock
  <2>4. \A g \in Hook \ {h} : hook'[g] = hook[g]
    BY <1>0, <2>2 DEF LedgerTypeOK
  <2>5. AtWork(h)'
    BY <1>0, <2>1, <2>2, <2>3, <2>4 DEF AtWork
  <2>6. Holds(h)' /\ Accounted(h)'
    BY <1>0, <2>1, <2>2, <2>3 DEF Holds, Accounted, Pends, Arrives
  <2>7. Ledger!LedgerIsTrue'
    BY <1>0, <2>3 DEF Ledger!LedgerIsTrue
  <2>8. \A g \in Hook \ {h} : hook[g].pc \notin {"hold", "written", "judged"}
    BY <1>0, <2>3 DEF Holds, LedgerOK
  <2> QED
    BY <1>0, <2>1, <2>2, <2>3, <2>5, <2>6, <2>7, <2>8, StepOfOne DEF LedgerTypeOK
<1>6. ASSUME NEW h \in Hook, Ledger!LockTimesOut(h)
      PROVE  LedgerInv'
  <2>1. /\ UNCHANGED <<document, given, lock>> /\ hook[h].pc = "lock"
        /\ Ledger!Retries(h) \/ Ledger!Ends(h)
    BY <1>6 DEF Ledger!LockTimesOut
  <2>2. \A g \in Hook \ {h} : hook[g].pc \in {"hold", "written"} => lock' = g
    BY <1>0, <2>1 DEF Holds
  <2>j. \A g \in Hook \ {h} : hook[g].pc = "judged" => lock' = "old"
    BY <1>0, <2>1 DEF Holds
  <2>3. Ledger!LedgerIsTrue'
    BY <1>0, <2>1 DEF Ledger!LedgerIsTrue
  <2> QED
    BY <1>0, <2>1, <2>2, <2>j, <2>3, EndsThere, RetriesThere DEF LedgerTypeOK
<1>7. ASSUME NEW h \in Hook, Ledger!Generate(h)
      PROVE  LedgerInv'
  <2> DEFINE s == hook[h].session
             entry == document[s]
  <2>1. /\ hook[h].pc = "hold" /\ hook[h].act = "generate" /\ lock = h /\ UNCHANGED <<lock, given>>
        /\ hook[h].copy = document
    BY <1>0, <1>7 DEF Ledger!Generate, Holds
  <2>2. s \in Session /\ entry \in Entries /\ hook[h].mode \in {"pending", "immediate"}
        /\ hook[h].found \in SUBSET Card
    BY <1>0, <2>1 DEF AtWork, LedgerTypeOK, Documents, HookRecords
  <2>3. PICK ids \in Ledger!Fresh(h) :
          /\ document' = [document EXCEPT ![s] = Ledger!Entered(entry, hook[h].mode, ids)]
          /\ hook' = [hook EXCEPT ![h].pc = "written", ![h].offered = ids]
    BY <1>7, <2>1 DEF Ledger!Generate
  <2>4. ids \subseteq hook[h].found \ entry.emitted
    <3>1. ids \subseteq hook[h].found \ Ledger!Dedupe(h)
      BY DEF Ledger!Fresh, Ledger!kSubset
    <3> QED
      BY <2>1, <3>1 DEF Ledger!Dedupe
  <2>5. ids \in SUBSET Card
    BY <2>2, <2>4
  <2> DEFINE new == Ledger!Entered(entry, hook[h].mode, ids)
             r == [hook[h] EXCEPT !.pc = "written", !.offered = ids]
  <2>6. new \in Entries
    BY <2>2, <2>5, EnteredType DEF LedgerOK
  <2>7. /\ entry.emitted \subseteq new.emitted
        /\ hook[h].mode = "pending" => ids \subseteq new.pending \ new.emitted
        /\ hook[h].mode = "immediate" => ids \subseteq new.emitted
    BY <2>2, <2>4 DEF Ledger!Entered, Entries
  <2> HIDE DEF new
  <2>8. /\ document' \in Documents /\ document'[s] = new
        /\ \A t \in Session \ {s} : document'[t] = document[t]
    BY <1>0, <2>2, <2>3, <2>6 DEF LedgerTypeOK, Documents, new
  <2>9. /\ r \in HookRecords /\ r.pc = "written" /\ r.act = hook[h].act
        /\ r.session = hook[h].session /\ r.mode = hook[h].mode /\ r.offered = ids
    BY <1>t, <2>5, Offers
  <2>10. hook' = [hook EXCEPT ![h] = r] /\ hook'[h] = r
    BY <1>0, <2>3 DEF LedgerTypeOK
  <2> HIDE DEF r
  <2>11. \A g \in Hook \ {h} : hook'[g] = hook[g]
    BY <1>0, <2>10 DEF LedgerTypeOK
  <2>12. AtWork(h)'
    BY <1>0, <2>1, <2>9, <2>10, <2>11 DEF AtWork
  <2>13. Holds(h)'
    BY <2>1, <2>9, <2>10 DEF Holds
  <2>14. \A c \in ids : given[s][c] = 0
    BY <1>0, <2>2, <2>4, <2>5 DEF Ledger!LedgerIsTrue, LedgerTypeOK
  <2>15. Accounted(h)'
    BY <2>1, <2>2, <2>7, <2>8, <2>9, <2>10, <2>14 DEF Accounted, Pends, Arrives
  <2>16. Ledger!LedgerIsTrue'
    BY <1>0, <2>1, <2>7, <2>8 DEF Ledger!LedgerIsTrue
  <2>17. \A g \in Hook \ {h} : hook[g].pc \notin {"hold", "written", "judged"}
    BY <1>0, <2>1 DEF Holds, LedgerOK
  <2> QED
    BY <1>0, <2>1, <2>8, <2>9, <2>10, <2>12, <2>13, <2>15, <2>16, <2>17, StepOfOne DEF LedgerTypeOK
<1>8. ASSUME NEW h \in Hook, Ledger!Acknowledge(h)
      PROVE  LedgerInv'
  <2> DEFINE s == hook[h].session
             entry == document[s]
             ids == hook[h].offered
             new == Ledger!Acknowledged(entry, ids)
             r == [hook[h] EXCEPT !.pc = "written"]
  <2>1. /\ hook[h].pc = "hold" /\ hook[h].act = "ack" /\ lock = h /\ UNCHANGED <<lock, given>>
        /\ hook[h].copy = document /\ hook[h].mode = "pending"
    BY <1>0, <1>8 DEF Ledger!Acknowledge, Holds, AtWork
  <2>2. s \in Session /\ entry \in Entries /\ ids \in SUBSET Card
    BY <1>0, <2>1 DEF AtWork, LedgerTypeOK, Documents, HookRecords
  <2>3. document' = [document EXCEPT ![s] = new]
    BY <1>8, <2>1 DEF Ledger!Acknowledge
  <2>4. ids \subseteq entry.pending \ entry.emitted
    BY <1>0, <2>1 DEF Accounted, Pends
  <2>5. new \in Entries
    BY <2>2, EnteredType DEF LedgerOK
  <2>6. entry.emitted \subseteq new.emitted /\ ids \subseteq new.emitted
    BY <2>2, <2>4 DEF Ledger!Acknowledged, Entries
  <2>7. \A c \in ids : given[s][c] = 0
    BY <1>0, <2>2, <2>4 DEF Ledger!LedgerIsTrue, LedgerTypeOK
  <2> HIDE DEF new
  <2>8. /\ document' \in Documents /\ document'[s] = new
        /\ \A t \in Session \ {s} : document'[t] = document[t]
    BY <1>0, <2>2, <2>3, <2>5 DEF LedgerTypeOK, Documents
  <2>9. /\ r \in HookRecords /\ r.pc = "written" /\ r.act = "ack"
        /\ r.session = s /\ r.mode = "pending" /\ r.offered = ids
    BY <1>t, <2>1, Turns
  <2>10. hook' = [hook EXCEPT ![h] = r] /\ hook'[h] = r
    BY <1>0, <1>8 DEF Ledger!Acknowledge, Ledger!Goes, LedgerTypeOK
  <2> HIDE DEF r
  <2>11. \A g \in Hook \ {h} : hook'[g] = hook[g]
    BY <1>0, <2>10 DEF LedgerTypeOK
  <2>12. AtWork(h)'
    BY <1>0, <2>1, <2>9, <2>10, <2>11 DEF AtWork
  <2>13. Holds(h)'
    BY <2>1, <2>9, <2>10 DEF Holds
  <2>14. Accounted(h)'
    BY <2>1, <2>6, <2>7, <2>8, <2>9, <2>10 DEF Accounted, Pends, Arrives
  <2>15. Ledger!LedgerIsTrue'
    BY <1>0, <2>1, <2>6, <2>8 DEF Ledger!LedgerIsTrue
  <2>16. \A g \in Hook \ {h} : hook[g].pc \notin {"hold", "written", "judged"}
    BY <1>0, <2>1 DEF Holds, LedgerOK
  <2> QED
    BY <1>0, <2>1, <2>8, <2>9, <2>10, <2>12, <2>13, <2>14, <2>15, <2>16, StepOfOne DEF LedgerTypeOK
<1>9. ASSUME NEW h \in Hook, Ledger!Release(h)
      PROVE  LedgerInv'
  <2>1. hook[h].pc = "written" /\ lock = h /\ UNCHANGED document
    BY <1>0, <1>9 DEF Ledger!Release, Holds
  <2>2. \A g \in Hook \ {h} : hook[g].pc \notin {"hold", "written", "judged"}
    BY <1>0, <2>1 DEF Holds, LedgerOK
  <2>3. CASE hook[h].act = "ack"
    <3>1. Arrives(h) /\ Ledger!Receives(h) /\ Ledger!Ends(h)
      BY <1>9, <2>1, <2>3 DEF Ledger!Release, Arrives
    <3> QED
      BY <1>0, <2>1, <2>2, <3>1, Received, EndsThere
  <2>4. CASE hook[h].act # "ack"
    <3> DEFINE r == [hook[h] EXCEPT !.pc = "answered"]
    <3>1. /\ r \in HookRecords /\ r.pc = "answered" /\ r.act = hook[h].act
          /\ r.session = hook[h].session /\ r.mode = hook[h].mode /\ r.offered = hook[h].offered
      BY <1>t, Turns
    <3>2. hook' = [hook EXCEPT ![h] = r] /\ hook'[h] = r /\ UNCHANGED given
      BY <1>0, <1>9, <2>4 DEF Ledger!Release, Ledger!Goes, LedgerTypeOK
    <3> HIDE DEF r
    <3>3. \A g \in Hook \ {h} : hook'[g] = hook[g]
      BY <1>0, <3>2 DEF LedgerTypeOK
    <3>4. AtWork(h)'
      BY <1>0, <2>1, <2>4, <3>1, <3>2, <3>3 DEF AtWork
    <3>5. Holds(h)'
      BY <3>1, <3>2 DEF Holds
    <3>6. Accounted(h)'
      BY <1>0, <2>1, <2>4, <3>1, <3>2 DEF Accounted, Pends, Arrives
    <3>7. Ledger!LedgerIsTrue'
      BY <1>0, <2>1, <3>2 DEF Ledger!LedgerIsTrue
    <3> QED
      BY <1>0, <2>1, <2>2, <3>1, <3>2, <3>4, <3>5, <3>6, <3>7, StepOfOne DEF LedgerTypeOK
  <2> QED
    BY <2>3, <2>4
<1>10. ASSUME NEW h \in Hook, Ledger!Parse(h)
       PROVE  LedgerInv'
  <2>1. /\ hook[h].pc = "answered" /\ hook[h].act = "generate" /\ UNCHANGED <<document, lock>>
        /\ hook[h].mode \in {"pending", "immediate"}
    BY <1>0, <1>10 DEF Ledger!Parse, AtWork
  <2>2. \A g \in Hook \ {h} : hook[g].pc \in {"hold", "written"} => lock' = g
    BY <1>0, <2>1 DEF Holds
  <2>j. \A g \in Hook \ {h} : hook[g].pc = "judged" => lock' = "old"
    BY <1>0, <2>1 DEF Holds
  <2>3. CASE hook[h].mode = "immediate" \/ hook[h].offered = {}
    <3>1. Ledger!Receives(h) /\ Ledger!Ends(h) /\ (hook[h].offered = {} \/ Arrives(h))
      BY <1>10, <2>1, <2>3 DEF Ledger!Parse, Arrives
    <3> QED
      BY <1>0, <2>1, <2>2, <2>j, <3>1, Received, EndsThere
  <2>4. CASE ~(hook[h].mode = "immediate" \/ hook[h].offered = {})
    <3> DEFINE r == [hook[h] EXCEPT !.pc = "lock", !.act = "ack"]
    <3>1. /\ r \in HookRecords /\ r.pc = "lock" /\ r.act = "ack"
          /\ r.session = hook[h].session /\ r.mode = "pending" /\ r.offered = hook[h].offered
      BY <1>t, <2>1, <2>4, Acks
    <3>2. hook' = [hook EXCEPT ![h] = r] /\ hook'[h] = r /\ UNCHANGED given
      BY <1>0, <1>10, <2>4 DEF Ledger!Parse, LedgerTypeOK
    <3> HIDE DEF r
    <3>3. \A g \in Hook \ {h} : hook'[g] = hook[g]
      BY <1>0, <3>2 DEF LedgerTypeOK
    <3>4. AtWork(h)'
      BY <1>0, <2>1, <3>1, <3>2, <3>3 DEF AtWork
    <3>5. Holds(h)'
      BY <3>1, <3>2 DEF Holds
    <3>6. Accounted(h)'
      BY <1>0, <2>1, <2>4, <3>1, <3>2 DEF Accounted, Pends, Arrives
    <3>7. Ledger!LedgerIsTrue'
      BY <1>0, <2>1, <3>2 DEF Ledger!LedgerIsTrue
    <3> QED
      BY <1>0, <2>1, <2>2, <2>j, <3>1, <3>2, <3>4, <3>5, <3>6, <3>7, StepOfOne DEF LedgerTypeOK
  <2> QED
    BY <2>3, <2>4
<1>11. ASSUME NEW h \in Hook, Ledger!Fault(h)
       PROVE  LedgerInv'
  <2>1. /\ UNCHANGED <<document, given>> /\ hook[h].pc # "idle"
        /\ lock' = IF lock = h THEN "dead" ELSE lock
        /\ Ledger!Retries(h) \/ Ledger!Ends(h)
    BY <1>0, <1>11 DEF Ledger!Fault, AtWork
  <2>2. \A g \in Hook \ {h} : hook[g].pc \in {"hold", "written"} => lock' = g
    BY <1>0, <2>1 DEF Holds, LedgerOK
  <2>j. \A g \in Hook \ {h} : hook[g].pc = "judged" => lock' = "old"
    BY <1>0, <2>1 DEF Holds, LedgerOK
  <2>3. Ledger!LedgerIsTrue'
    BY <1>0, <2>1 DEF Ledger!LedgerIsTrue
  <2> QED
    BY <1>0, <2>1, <2>2, <2>j, <2>3, EndsThere, RetriesThere DEF LedgerTypeOK
<1>12. CASE UNCHANGED Ledger!vars
  BY <1>0, <1>12 DEF Ledger!vars, LedgerInv, LedgerTypeOK, Ledger!LedgerIsTrue, AtWork, Holds,
                     Accounted, Pends, Arrives
<1> QED
  BY <1>1, <1>2, <1>3, <1>4, <1>5, <1>6, <1>7, <1>8, <1>9, <1>10, <1>11, <1>12
     DEF Ledger!InjectNext

(* The ledger is true: what the host received is recorded as received, and  *)
(* it received nothing twice, although every hook rewrites the document of   *)
(* all sessions from a copy it read seconds before, a killed one leaves its *)
(* lock for others to break, and a retry offers again what is pending       *)
(* (injection-session.mjs, knowledge-inject.mjs and its hook).              *)
THEOREM LedgerStaysTrue ==
  ASSUME LedgerOK
  PROVE  Ledger!InjectSpec => []Ledger!LedgerIsTrue
<1>1. Ledger!InjectInit => LedgerInv
  <2> SUFFICES ASSUME Ledger!InjectInit PROVE LedgerInv
    OBVIOUS
  <2>1. Ledger!Resting \in HookRecords /\ Ledger!NoEntry \in Entries
    BY DEF Ledger!Resting, HookRecords, Ledger!NoEntry, Entries
  <2>2. /\ Ledger!Resting.pc = "idle" /\ Ledger!Resting.act = "" /\ Ledger!Resting.mode = ""
    BY DEF Ledger!Resting
  <2>3. LedgerTypeOK
    BY <2>1 DEF Ledger!InjectInit, LedgerTypeOK, Documents
  <2>4. \A h \in Hook : hook[h] = Ledger!Resting
    BY DEF Ledger!InjectInit
  <2>5. \A h \in Hook : AtWork(h) /\ Holds(h) /\ Accounted(h)
    BY <2>2, <2>4 DEF AtWork, Holds, Accounted, Pends, Arrives
  <2>6. Ledger!LedgerIsTrue
    BY DEF Ledger!InjectInit, Ledger!LedgerIsTrue
  <2> QED
    BY <2>3, <2>5, <2>6 DEF LedgerInv
<1>2. LedgerInv /\ [Ledger!InjectNext]_Ledger!vars => LedgerInv'
  BY LedgerInvStep
<1>3. LedgerInv => Ledger!LedgerIsTrue
  BY DEF LedgerInv
<1> QED
  BY <1>1, <1>2, <1>3, PTL DEF Ledger!InjectSpec

-----------------------------------------------------------------------------
(* The language of a card.                                                  *)

CONSTANTS Language, Field, Model, Unset, MaxChanges
VARIABLES settings, card, changes

Languages == INSTANCE KnowledgeLanguage

(* A card written under a language is in it throughout, and is phrased in    *)
(* every language the workspace was asked in.                               *)
LanguageInv ==
    /\ settings.prompts \subseteq Language
    /\ card # Unset /\ card.under.artifact # Unset =>
         /\ \A f \in Field : card.prose[f] = card.under.artifact
         /\ card.phrased = Languages!PromptLanguages(card.under)

(* In whatever language a question is asked, it or the translation it is     *)
(* owed is in a language the card can be matched in, as long as the settings *)
(* are those it was written under (knowledge-language.ts).                  *)
THEOREM QuestionsAlwaysReach == Languages!LanguageSpec => []Languages!QuestionsReach
<1>1. Languages!LanguageInit => LanguageInv
  BY DEF Languages!LanguageInit, Languages!Settings, LanguageInv
<1>2. LanguageInv /\ [Languages!LanguageNext]_Languages!vars => LanguageInv'
  <2> SUFFICES ASSUME LanguageInv, [Languages!LanguageNext]_Languages!vars
               PROVE  LanguageInv'
    OBVIOUS
  <2>1. ASSUME NEW text, NEW b, Languages!Write(text, b)
        PROVE  LanguageInv'
    BY <2>1 DEF Languages!Write, Languages!Admitted, LanguageInv, Languages!PromptLanguages
  <2>2. CASE Languages!Change
    BY <2>2 DEF Languages!Change, Languages!Settings, LanguageInv, Languages!PromptLanguages
  <2>3. CASE UNCHANGED Languages!vars
    BY <2>3 DEF Languages!vars, LanguageInv, Languages!PromptLanguages
  <2> QED
    BY <2>1, <2>2, <2>3 DEF Languages!LanguageNext
<1>3. LanguageInv => Languages!QuestionsReach
  BY DEF LanguageInv, Languages!QuestionsReach, Languages!Matches, Languages!TranslationOwed,
         Languages!PromptLanguages
<1> QED
  BY <1>1, <1>2, <1>3, PTL DEF Languages!LanguageSpec

-----------------------------------------------------------------------------
(* The authority a command is run with.                                     *)

CONSTANTS MaxGeneration, MaxReceipt, MaxWrites
VARIABLES pins, bundle, receipt, ban, told, cmd, writes

Authority == INSTANCE OperatorAuthority

Covers(p, b) ==
    /\ p.bundle.generation \in Int /\ p.floor \in Int
    /\ p.floor >= b.floor /\ b.bundles \subseteq p.bundles

(* Revocations only grow, and the pins list them all.  A command that has    *)
(* read its pins has read those of a moment after it began, so that what    *)
(* the operator had revoked by then they revoke too.                        *)
AuthorityInv ==
    /\ ban.floor \in Int
    /\ bundle # <<>> => bundle[1].generation \in Int
    /\ pins # <<>> => Covers(pins[1], ban)
    /\ cmd # Authority!Idle =>
         /\ cmd = [at |-> cmd.at, now |-> cmd.now, pinned |-> cmd.pinned, flag |-> cmd.flag,
                   ban |-> cmd.ban, used |-> cmd.used]
         /\ cmd.ban.floor \in Int /\ cmd.ban.floor <= ban.floor /\ cmd.ban.bundles \subseteq ban.bundles
         /\ cmd.at \in {"pins", "bundle", "receipt", "granted"}
         /\ cmd.at # "pins" /\ cmd.pinned # <<>> => Covers(cmd.pinned[1], cmd.ban)
         /\ cmd.at \in {"pins", "bundle"} => cmd.pinned # <<>>
         /\ cmd.at \in {"receipt", "granted"} /\ cmd.pinned # <<>> =>
              Authority!Admits(cmd.pinned[1], cmd.now)
         /\ cmd.at = "granted" => cmd.used = Authority!Supplied /\ cmd.used # <<>>

LEMMA AuthorityInvStep ==
  ASSUME MaxGeneration \in Nat, AuthorityInv, [Authority!AuthorityNext]_Authority!vars
  PROVE  AuthorityInv'
<1> USE DEF AuthorityInv, Covers, Authority!Supplied, Authority!Injected
<1>1. CASE Authority!WriteReceipt \/ Authority!WriteBundle \/ Authority!RewriteInPlace
  BY <1>1 DEF Authority!WriteReceipt, Authority!WriteBundle, Authority!RewriteInPlace,
              Authority!Writes, Authority!Admits
<1>2. CASE Authority!WritePins
  BY <1>2 DEF Authority!WritePins, Authority!Writes, Authority!Admits
<1>3. CASE Authority!Tell \/ Authority!Tick
  BY <1>3 DEF Authority!Tell, Authority!Tick, Authority!Admits
<1>4. CASE Authority!Begin
  BY <1>4 DEF Authority!Begin, Authority!Idle
<1>5. CASE Authority!ReadPins
  BY <1>5 DEF Authority!ReadPins, Authority!Reads, Authority!Idle
<1>6. CASE Authority!ReadBundle
  BY <1>6 DEF Authority!ReadBundle, Authority!Reads, Authority!Idle, Authority!Admits
<1>7. CASE Authority!ReadReceipt
  <2>1. UNCHANGED <<bundle, pins, ban>> /\ cmd.at = "receipt" /\ cmd # Authority!Idle
    BY <1>7 DEF Authority!ReadReceipt, Authority!Reads, Authority!Idle
  <2>2. CASE cmd' = Authority!Idle
    BY <2>1, <2>2
  <2>3. CASE cmd' # Authority!Idle
    <3>1. receipt = Authority!Supplied /\ receipt # <<>>
          /\ cmd' = [cmd EXCEPT !.at = "granted", !.used = receipt]
      BY <1>7, <2>3 DEF Authority!ReadReceipt, Authority!Reads
    <3>2. cmd' = [at |-> "granted", now |-> cmd.now, pinned |-> cmd.pinned, flag |-> cmd.flag,
                  ban |-> cmd.ban, used |-> receipt]
      BY <2>1, <3>1
    <3> QED
      BY <2>1, <3>1, <3>2
  <2> QED
    BY <2>2, <2>3
<1>8. CASE Authority!Done
  <2>1. cmd' = Authority!Idle /\ UNCHANGED <<bundle, pins, ban>>
    BY <1>8 DEF Authority!Done, Authority!Reads
  <2> QED
    BY <2>1 DEF Authority!Idle
<1>9. CASE UNCHANGED Authority!vars
  BY <1>9 DEF Authority!vars, Authority!Admits
<1> QED
  BY <1>1, <1>2, <1>3, <1>4, <1>5, <1>6, <1>7, <1>8, <1>9 DEF Authority!AuthorityNext

(* A command that was given the pins acts on a bundle that nobody had       *)
(* revoked when it began, inside its window, and on the receipt that bundle *)
(* names, whatever is rotated or rewritten while it reads                   *)
(* (operator-authority.ts, authority-file-reader.ts).                       *)
THEOREM GrantStaysCurrent ==
  ASSUME MaxGeneration \in Nat
  PROVE  Authority!AuthoritySpec => []Authority!GrantIsCurrent
<1>1. Authority!AuthorityInit => AuthorityInv
  BY DEF Authority!AuthorityInit, AuthorityInv
<1>2. AuthorityInv /\ [Authority!AuthorityNext]_Authority!vars => AuthorityInv'
  BY AuthorityInvStep
<1>3. AuthorityInv => Authority!GrantIsCurrent
  BY DEF AuthorityInv, Covers, Authority!GrantIsCurrent, Authority!Admits, Authority!Bans,
         Authority!Supplied, Authority!Injected, Authority!Idle
<1> QED
  BY <1>1, <1>2, <1>3, PTL DEF Authority!AuthoritySpec

-----------------------------------------------------------------------------
(* A prompt on its way to recall.                                           *)

CONSTANTS Row, Retired, Linked, Finds, Room, MaxReads
VARIABLES owes, prompt, model, emitted, pulled, counts

Prompts == INSTANCE PromptRecall

(* Only a prompt that may ask a model asks one, and the one whose answer is  *)
(* waited for is the only one that may still run.                           *)
AsksAllowed ==
    /\ prompt = [pc |-> prompt.pc, kind |-> prompt.kind, by |-> prompt.by,
                 judges |-> prompt.judges, owed |-> prompt.owed,
                 translated |-> prompt.translated, heard |-> prompt.heard, ok |-> prompt.ok,
                 found |-> prompt.found, killed |-> prompt.killed]
    /\ prompt.pc \in {"idle", "refused", "settings", "translate", "recall", "again", "second",
                      "answered", "judge"}
    /\ prompt.kind = "subagent" => prompt.by = "none" /\ ~prompt.judges
    /\ prompt.by = "none" => prompt.pc \notin {"translate", "again", "second"}
    /\ prompt.pc = "judge" => prompt.judges

ModelsEnd ==
    /\ DOMAIN model = {"translator", "observer"}
    /\ model = [translator |-> model.translator, observer |-> model.observer]
    /\ prompt.kind = "subagent" => model = Prompts!Unasked
    /\ \A i \in {"translator", "observer"} : model[i] \in {"running", "left"} =>
         \/ prompt.killed
         \/ Prompts!Asks /\ i = Prompts!Asked /\ prompt.heard = "waiting"

(* The answer kept is the one to the query that is reported.                *)
AnswerKept ==
    /\ prompt.pc \in {"again", "second"} => prompt.ok /\ prompt.translated = "none"
    /\ prompt.pc = "second" => prompt.heard \in {"text", "same"}
    /\ prompt.pc \in {"again", "second", "answered", "judge"} =>
         prompt.found = IF prompt.ok THEN Prompts!Answer(Prompts!Query) ELSE {}

PulledOnce ==
    /\ emitted \cap Retired = {}
    /\ pulled \in Seq(emitted)
    /\ \A i, j \in 1..Len(pulled) : i # j => pulled[i] # pulled[j]

PromptInv == AsksAllowed /\ ModelsEnd /\ AnswerKept /\ PulledOnce

LEMMA PromptGoesOn ==
  ASSUME PromptInv, [Prompts!RecallNext]_Prompts!vars
  PROVE  AsksAllowed' /\ ModelsEnd' /\ AnswerKept'
<1> USE DEF PromptInv, AsksAllowed, ModelsEnd, AnswerKept, Prompts!Asks, Prompts!Asked,
            Prompts!Heard, Prompts!Unheard, Prompts!Goes, Prompts!NoPrompt, Prompts!Query,
            Prompts!Answer, Prompts!Unasked
<1>1. ASSUME NEW kind, NEW judges \in BOOLEAN, NEW by, Prompts!Begin(kind, by, judges)
      PROVE  AsksAllowed' /\ ModelsEnd' /\ AnswerKept'
  <2>1. prompt' = [pc |-> IF kind = "refused" THEN "refused" ELSE "settings", kind |-> kind,
                   by |-> by, judges |-> judges, owed |-> FALSE, translated |-> "none",
                   heard |-> "none", ok |-> FALSE, found |-> {}, killed |-> FALSE]
    BY <1>1 DEF Prompts!Begin
  <2>2. kind = "subagent" => by = "none" /\ judges = FALSE
    BY <1>1 DEF Prompts!Begin
  <2>3. model' = Prompts!Unasked
    BY <1>1 DEF Prompts!Begin
  <2> QED
    BY <2>1, <2>2, <2>3
<1>2. ASSUME NEW readable, Prompts!ReadSettings(readable)
      PROVE  AsksAllowed' /\ ModelsEnd' /\ AnswerKept'
  BY <1>2 DEF Prompts!ReadSettings
<1>3. CASE Prompts!LookUp
  BY <1>3 DEF Prompts!LookUp
<1>4. ASSUME NEW begins, Prompts!Call(begins)
      PROVE  AsksAllowed' /\ ModelsEnd' /\ AnswerKept'
  BY <1>4 DEF Prompts!Call
<1>5. CASE Prompts!Exit
  BY <1>5 DEF Prompts!Exit
<1>6. ASSUME NEW said, said # "waiting", Prompts!EmptyGroup(said)
      PROVE  AsksAllowed' /\ ModelsEnd' /\ AnswerKept'
  BY <1>6 DEF Prompts!EmptyGroup
<1>7. CASE Prompts!Translate
  BY <1>7 DEF Prompts!Translate
<1>8. ASSUME NEW ok, Prompts!Recall(ok)
      PROVE  AsksAllowed' /\ ModelsEnd' /\ AnswerKept'
  BY <1>8 DEF Prompts!Recall
<1>9. CASE Prompts!TranslateAgain
  BY <1>9 DEF Prompts!TranslateAgain
<1>10. ASSUME NEW ok, Prompts!RecallAgain(ok)
      PROVE  AsksAllowed' /\ ModelsEnd' /\ AnswerKept'
  BY <1>10 DEF Prompts!RecallAgain
<1>11. CASE Prompts!Judges
  BY <1>11 DEF Prompts!Judges
<1>12. ASSUME NEW rows, Prompts!Deliver(rows)
      PROVE  AsksAllowed' /\ ModelsEnd' /\ AnswerKept'
  BY <1>12 DEF Prompts!Deliver, Prompts!Judged
<1>13. CASE Prompts!Kill
  BY <1>13 DEF Prompts!Kill
<1>14. ASSUME NEW asked, Prompts!Pull(asked)
      PROVE  AsksAllowed' /\ ModelsEnd' /\ AnswerKept'
  BY <1>14 DEF Prompts!Pull
<1>15. CASE Prompts!Change
  BY <1>15 DEF Prompts!Change
<1>16. CASE UNCHANGED Prompts!vars
  <2>1. UNCHANGED <<prompt, model, emitted, pulled>>
    BY <1>16 DEF Prompts!vars
  <2> QED
    BY ONLY PromptInv, <2>1, Zenon
<1> QED
  BY <1>1, <1>2, <1>3, <1>4, <1>5, <1>6, <1>7, <1>8, <1>9, <1>10, <1>11, <1>12, <1>13, <1>14,
     <1>15, <1>16 DEF Prompts!RecallNext

LEMMA PulledOnceStep ==
  ASSUME PulledOnce, [Prompts!RecallNext]_Prompts!vars
  PROVE  PulledOnce'
<1>1. ASSUME NEW rows, Prompts!Deliver(rows)
      PROVE  PulledOnce'
  <2>1. rows \cap Retired = {} /\ emitted' = emitted \cup rows /\ pulled' = pulled
    BY <1>1 DEF Prompts!Deliver, Prompts!Fresh
  <2>2. pulled \in Seq(emitted \cup rows)
    BY DEF PulledOnce
  <2> QED
    BY <2>1, <2>2 DEF PulledOnce
<1>2. ASSUME NEW asked, Prompts!Pull(asked)
      PROVE  PulledOnce'
  <2>1. emitted' = emitted
    BY <1>2 DEF Prompts!Pull
  <2>2. CASE pulled' = pulled
    BY <2>1, <2>2 DEF PulledOnce
  <2>3. CASE pulled' # pulled
    <3>1. PICK r \in emitted \ Prompts!ToSet(pulled) : pulled' = Append(pulled, r)
      BY <1>2, <2>3 DEF Prompts!Pull
    <3>2. \A i \in 1..Len(pulled) : pulled[i] # r
      BY <3>1 DEF Prompts!ToSet, PulledOnce
    <3>3. pulled' \in Seq(emitted) /\ Len(pulled') = Len(pulled) + 1
          /\ \A i \in 1..Len(pulled') : pulled'[i] = IF i <= Len(pulled) THEN pulled[i] ELSE r
      BY <3>1 DEF PulledOnce
    <3>4. Len(pulled) \in Nat
      BY DEF PulledOnce
    <3>5. ASSUME NEW i \in 1..Len(pulled'), NEW j \in 1..Len(pulled'), i # j
          PROVE  pulled'[i] # pulled'[j]
      <4>1. i \in 1..Len(pulled) \/ j \in 1..Len(pulled)
        BY <3>3, <3>4, <3>5
      <4> QED
        BY <3>2, <3>3, <3>4, <3>5, <4>1 DEF PulledOnce
    <3> QED
      BY <2>1, <3>3, <3>5 DEF PulledOnce
  <2> QED
    BY <2>2, <2>3
<1>3. CASE UNCHANGED <<emitted, pulled>>
  BY <1>3 DEF PulledOnce
<1> QED
  BY <1>1, <1>2, <1>3, Zenon
     DEF Prompts!RecallNext, Prompts!vars, Prompts!Begin, Prompts!ReadSettings, Prompts!LookUp,
         Prompts!Call, Prompts!Exit, Prompts!EmptyGroup, Prompts!Translate, Prompts!Recall,
         Prompts!TranslateAgain, Prompts!RecallAgain, Prompts!Judges, Prompts!Kill,
         Prompts!Change, Prompts!Goes

(* What is reported is what recall answered to the query that is reported;   *)
(* a prompt fails only with its first recall; a subagent has asked no model; *)
(* a model that was asked has ended before its answer is used, and with the  *)
(* prompt unless that was killed; and a row read counts once, of those given *)
(* (knowledge-inject.mjs, injection-session.mjs).                           *)
THEOREM PromptsAreAnswered == Prompts!RecallSpec => []Prompts!PromptIsAnswered
<1>1. Prompts!RecallInit => PromptInv
  BY DEF Prompts!RecallInit, Prompts!NoPrompt, Prompts!Unasked, PromptInv, AsksAllowed, ModelsEnd,
         AnswerKept, PulledOnce
<1>2. PromptInv /\ [Prompts!RecallNext]_Prompts!vars => PromptInv'
  BY PromptGoesOn, PulledOnceStep DEF PromptInv
<1>3. PromptInv => Prompts!PromptIsAnswered
  <2> SUFFICES ASSUME PromptInv PROVE Prompts!PromptIsAnswered
    OBVIOUS
  <2>1. Prompts!ToSet(pulled) \subseteq emitted \ Retired /\ Prompts!IsInjective(pulled)
    BY DEF PromptInv, PulledOnce, Prompts!ToSet, Prompts!IsInjective
  <2>2. \A i \in DOMAIN model : model[i] \in {"running", "left"} =>
          \/ prompt.killed
          \/ Prompts!Asks /\ i = Prompts!Asked /\ Prompts!Heard({"waiting"})
    BY DEF PromptInv, ModelsEnd, Prompts!Heard
  <2>3. /\ prompt.pc \in {"answered", "judge"} /\ prompt.ok =>
             prompt.found = Prompts!Answer(Prompts!Query)
        /\ prompt.pc \in {"answered", "judge"} /\ ~prompt.ok => prompt.found = {}
        /\ prompt.kind = "subagent" => model = Prompts!Unasked
    BY DEF PromptInv, AnswerKept, ModelsEnd
  <2> QED
    BY <2>1, <2>2, <2>3 DEF Prompts!PromptIsAnswered
<1> QED
  BY <1>1, <1>2, <1>3, PTL DEF Prompts!RecallSpec

-----------------------------------------------------------------------------
(* Telemetry.                                                               *)

CONSTANTS Record, Day, DayOf, Names, Links, MaxKills
VARIABLES lines, proc, reader, seen, kills, reads

Observations == INSTANCE Telemetry

(* Who works on a day's file has its lock; who found a record missing still  *)
(* finds it missing; and no file has a record twice.                        *)
Appends(p) ==
    /\ proc[p].at \in {"idle", "waiting", "locked", "looked", "written"}
    /\ proc[p].at = "waiting" => proc[p] = [at |-> "waiting", rec |-> proc[p].rec]
    /\ proc[p].at # "idle" => proc[p].rec \in Record
    /\ proc[p].at \in {"locked", "looked", "written"} => lock[DayOf[proc[p].rec]] = p
    /\ proc[p].at = "looked" /\ ~proc[p].found =>
         proc[p].rec \notin Observations!Holds(DayOf[proc[p].rec])

Once(d) ==
    \A i, j \in DOMAIN lines[d] : lines[d][i] = lines[d][j] /\ lines[d][i] # Observations!Torn => i = j

(* What was answered is in its file, and a reader has read it or will.      *)
Reads ==
    /\ reader = [left |-> reader.left, got |-> reader.got, twice |-> reader.twice,
                 owed |-> reader.owed, at |-> reader.at]
    /\ reader.at \in {"idle", "reading", "answered"}
    /\ reader.twice = FALSE
    /\ \A r \in reader.owed :
         /\ r \in Record /\ r \in Observations!Holds(DayOf[r])
         /\ DayOf[r] \in reader.left \/ r \in reader.got
    /\ reader.at = "answered" => reader.left = {}

LinesOK ==
    /\ lines \in [Day -> Seq(Record \cup {Observations!Torn})]
    /\ \A d \in Day : Once(d)

AppendsOK ==
    /\ lock \in [Day -> Process \cup {Unset}]
    /\ proc = [p \in Process |-> proc[p]]
    /\ \A p \in Process : Appends(p)

ToldOK == \A r \in told : r \in Record /\ r \in Observations!Holds(DayOf[r])

TelemetryInv == LinesOK /\ AppendsOK /\ ToldOK /\ Reads

TelemetryOK ==
    /\ \A r \in Record : DayOf[r] \in Day
    /\ Observations!Torn \notin Record /\ Unset \notin Process

LEMMA TimesIsOne ==
  ASSUME NEW d \in Day, Once(d), NEW r, r # Observations!Torn
  PROVE  ~(Observations!Times(d, r) > 1)
<1> DEFINE I == {i \in DOMAIN lines[d] : lines[d][i] = r}
<1>1. \A S : Observations!Cardinality(S) = Cardinality(S)
  BY DEF Cardinality, Observations!Cardinality, ExistsBijection, Observations!ExistsBijection,
         Bijection, Observations!Bijection, Injection, Observations!Injection, Surjection,
         Observations!Surjection, IsInjective, Observations!IsInjective
<1>2. I = {} \/ \E i : I = {i}
  BY DEF Once
<1>3. Cardinality(I) \in {0, 1}
  BY <1>2, FS_EmptySet, FS_Singleton
<1> QED
  BY <1>1, <1>3 DEF Observations!Times

LEMMA AppendAdds ==
  ASSUME LinesOK, NEW d \in Day, NEW x \in Record \cup {Observations!Torn},
         x = Observations!Torn \/ x \notin Observations!Holds(d),
         lines' = [lines EXCEPT ![d] = Append(@, x)]
  PROVE  /\ LinesOK'
         /\ \A e \in Day : Observations!Holds(e)' =
              IF e = d THEN Observations!Holds(e) \cup {x} ELSE Observations!Holds(e)
<1>1. lines[d] \in Seq(Record \cup {Observations!Torn}) /\ lines'[d] = Append(lines[d], x)
      /\ \A e \in Day \ {d} : lines'[e] = lines[e]
  BY DEF LinesOK
<1>2. lines' \in [Day -> Seq(Record \cup {Observations!Torn})]
  BY <1>1 DEF LinesOK
<1>3. Observations!Holds(d)' = Observations!Holds(d) \cup {x}
  <2> DEFINE s == lines[d]
  <2>1. \A i \in 1..Len(s) : Append(s, x)[i] = s[i]
    BY <1>1
  <2>2. Append(s, x)[Len(s) + 1] = x /\ DOMAIN Append(s, x) = 1..Len(s) + 1 /\ DOMAIN s = 1..Len(s)
        /\ Len(s) \in Nat
    BY <1>1
  <2> HIDE DEF s
  <2>3. {Append(s, x)[i] : i \in DOMAIN Append(s, x)} = {s[i] : i \in DOMAIN s} \cup {x}
    BY ONLY <2>1, <2>2
  <2> QED
    BY <1>1, <2>3 DEF Observations!Holds, s
<1>4. \A e \in Day \ {d} : Observations!Holds(e)' = Observations!Holds(e)
  BY <1>1 DEF Observations!Holds
<1>5. Once(d)'
  BY <1>1 DEF LinesOK, Once, Observations!Holds
<1>6. \A e \in Day \ {d} : Once(e)'
  BY <1>1 DEF LinesOK, Once
<1> QED
  BY <1>2, <1>3, <1>4, <1>5, <1>6 DEF LinesOK

LEMMA TelemetryInvStep ==
  ASSUME TelemetryOK, TelemetryInv, [Observations!TelemetryNext]_Observations!vars
  PROVE  TelemetryInv'
<1> USE DEF TelemetryInv, TelemetryOK
<1>1. ASSUME NEW p \in Process, NEW r \in Record, Observations!Begin(p, r)
      PROVE  TelemetryInv'
  <2>1. LinesOK' /\ \A e : Observations!Holds(e)' = Observations!Holds(e)
    BY <1>1 DEF Observations!Begin, LinesOK, Once, Observations!Holds
  <2>2. AppendsOK'
    BY <1>1, <2>1 DEF Observations!Begin, AppendsOK, Appends
  <2>3. ToldOK'
    BY <1>1, <2>1 DEF Observations!Begin, ToldOK
  <2>4. Reads'
    BY <1>1, <2>1 DEF Observations!Begin, Reads
  <2> QED
    BY <2>1, <2>2, <2>3, <2>4
<1>2. ASSUME NEW p \in Process, Observations!Lock(p)
      PROVE  TelemetryInv'
  <2>1. LinesOK' /\ \A e : Observations!Holds(e)' = Observations!Holds(e)
    BY <1>2 DEF Observations!Lock, LinesOK, Once, Observations!Holds
  <2>2. AppendsOK'
    BY <1>2, <2>1 DEF Observations!Lock, AppendsOK, Appends
  <2>3. ToldOK'
    BY <1>2, <2>1 DEF Observations!Lock, ToldOK
  <2>4. Reads'
    BY <1>2, <2>1 DEF Observations!Lock, Reads
  <2> QED
    BY <2>1, <2>2, <2>3, <2>4
<1>3. ASSUME NEW p \in Process, Observations!GiveUp(p)
      PROVE  TelemetryInv'
  <2>1. LinesOK' /\ \A e : Observations!Holds(e)' = Observations!Holds(e)
    BY <1>3 DEF Observations!GiveUp, Observations!Idle, LinesOK, Once, Observations!Holds
  <2>2. AppendsOK'
    BY <1>3, <2>1 DEF Observations!GiveUp, Observations!Idle, AppendsOK, Appends
  <2>3. ToldOK'
    BY <1>3, <2>1 DEF Observations!GiveUp, Observations!Idle, ToldOK
  <2>4. Reads'
    BY <1>3, <2>1 DEF Observations!GiveUp, Observations!Idle, Reads
  <2> QED
    BY <2>1, <2>2, <2>3, <2>4
<1>4. ASSUME NEW p \in Process, Observations!Look(p)
      PROVE  TelemetryInv'
  <2>1. LinesOK' /\ \A e : Observations!Holds(e)' = Observations!Holds(e)
    BY <1>4 DEF Observations!Look, LinesOK, Once, Observations!Holds
  <2>2. AppendsOK'
    BY <1>4, <2>1 DEF Observations!Look, AppendsOK, Appends
  <2>3. ToldOK'
    BY <1>4, <2>1 DEF Observations!Look, ToldOK
  <2>4. Reads'
    BY <1>4, <2>1 DEF Observations!Look, Reads
  <2> QED
    BY <2>1, <2>2, <2>3, <2>4
<1>5. ASSUME NEW p \in Process, Observations!Write(p)
      PROVE  TelemetryInv'
  <2>1. CASE UNCHANGED lines
    <3>1. UNCHANGED <<lines, lock, reader, told>>
      BY <1>5, <2>1 DEF Observations!Write
    <3>2. LinesOK' /\ \A e : Observations!Holds(e)' = Observations!Holds(e)
      BY <3>1 DEF LinesOK, Once, Observations!Holds
    <3>3. ToldOK' /\ Reads'
      BY <3>1, <3>2 DEF ToldOK, Reads
    <3>4. AppendsOK'
      BY <1>5, <3>1, <3>2 DEF Observations!Write, AppendsOK, Appends
    <3> QED
      BY <3>2, <3>3, <3>4
  <2>2. CASE lines' # lines
    <3> DEFINE r == proc[p].rec
               x == r
    <3>1. /\ proc[p].at = "looked" /\ ~proc[p].found /\ r \in Record /\ DayOf[r] \in Day
          /\ r \notin Observations!Holds(DayOf[r])
          /\ lines' = [lines EXCEPT ![DayOf[r]] = Append(@, x)]
      BY <1>5, <2>2 DEF Observations!Write, AppendsOK, Appends
    <3>2. /\ LinesOK'
          /\ \A e \in Day : Observations!Holds(e)' =
               IF e = DayOf[r] THEN Observations!Holds(e) \cup {x} ELSE Observations!Holds(e)
      BY <3>1, AppendAdds
    <3>3. ToldOK' /\ Reads'
      BY <1>5, <3>2 DEF Observations!Write, ToldOK, Reads
    <3>4. AppendsOK'
      BY <1>5, <3>1, <3>2 DEF Observations!Write, AppendsOK, Appends
    <3> QED
      BY <3>2, <3>3, <3>4
  <2> QED
    BY <2>1, <2>2
<1>6. ASSUME NEW p \in Process, Observations!Unlock(p)
      PROVE  TelemetryInv'
  <2>1. LinesOK' /\ \A e : Observations!Holds(e)' = Observations!Holds(e)
    BY <1>6 DEF Observations!Unlock, Observations!Idle, LinesOK, Once, Observations!Holds
  <2>2. AppendsOK'
    BY <1>6, <2>1 DEF Observations!Unlock, Observations!Idle, AppendsOK, Appends
  <2>3. ToldOK'
    BY <1>6, <2>1 DEF Observations!Unlock, ToldOK, AppendsOK, Appends
  <2>4. Reads'
    BY <1>6, <2>1 DEF Observations!Unlock, Observations!Idle, Reads
  <2> QED
    BY <2>1, <2>2, <2>3, <2>4
<1>7. ASSUME NEW p \in Process, Observations!Kill(p)
      PROVE  TelemetryInv'
  <2>1. CASE UNCHANGED lines
    <3>1. UNCHANGED <<lines, lock, reader, told>>
      BY <1>7, <2>1 DEF Observations!Kill, Observations!Idle
    <3>2. LinesOK' /\ \A e : Observations!Holds(e)' = Observations!Holds(e)
      BY <3>1 DEF LinesOK, Once, Observations!Holds
    <3>3. ToldOK' /\ Reads'
      BY <3>1, <3>2 DEF ToldOK, Reads
    <3>4. AppendsOK'
      BY <1>7, <3>1, <3>2 DEF Observations!Kill, Observations!Idle, AppendsOK, Appends
    <3> QED
      BY <3>2, <3>3, <3>4
  <2>2. CASE lines' # lines
    <3> DEFINE r == proc[p].rec
               x == Observations!Torn
    <3>1. /\ proc[p].at = "looked" /\ ~proc[p].found /\ r \in Record /\ DayOf[r] \in Day
          /\ r \notin Observations!Holds(DayOf[r])
          /\ lines' = [lines EXCEPT ![DayOf[r]] = Append(@, x)]
      BY <1>7, <2>2 DEF Observations!Kill, Observations!Idle, AppendsOK, Appends
    <3>2. /\ LinesOK'
          /\ \A e \in Day : Observations!Holds(e)' =
               IF e = DayOf[r] THEN Observations!Holds(e) \cup {x} ELSE Observations!Holds(e)
      BY <3>1, AppendAdds
    <3>3. ToldOK' /\ Reads'
      BY <1>7, <3>2 DEF Observations!Kill, Observations!Idle, ToldOK, Reads
    <3>4. AppendsOK'
      BY <1>7, <3>1, <3>2 DEF Observations!Kill, Observations!Idle, AppendsOK, Appends
    <3> QED
      BY <3>2, <3>3, <3>4
  <2> QED
    BY <2>1, <2>2
<1>8. ASSUME NEW d \in Day, Observations!Prune(d)
      PROVE  TelemetryInv'
  <2>1. LinesOK' /\ Observations!Holds(d)' = {}
        /\ \A e \in Day \ {d} : Observations!Holds(e)' = Observations!Holds(e)
    BY <1>8 DEF Observations!Prune, LinesOK, Once, Observations!Holds
  <2>2. AppendsOK'
    BY <1>8, <2>1 DEF Observations!Prune, AppendsOK, Appends
  <2>3. ToldOK'
    BY <1>8, <2>1 DEF Observations!Prune, ToldOK
  <2>4. Reads'
    BY <1>8, <2>1 DEF Observations!Prune, Reads
  <2> QED
    BY <2>1, <2>2, <2>3, <2>4
<1>9. CASE Observations!List
  <2>1. LinesOK' /\ \A e : Observations!Holds(e)' = Observations!Holds(e)
    BY <1>9 DEF Observations!List, LinesOK, Once, Observations!Holds
  <2>2. AppendsOK'
    BY <1>9, <2>1 DEF Observations!List, AppendsOK, Appends
  <2>3. ToldOK'
    BY <1>9, <2>1 DEF Observations!List, ToldOK
  <2>4. Reads'
    <3>1. \A r \in told : lines[DayOf[r]] # <<>>
      BY DEF ToldOK, Observations!Holds
    <3> QED
      BY <1>9, <2>1, <3>1 DEF Observations!List, Reads, ToldOK
  <2> QED
    BY <2>1, <2>2, <2>3, <2>4
<1>10. ASSUME NEW d \in Day, Observations!ReadDay(d)
      PROVE  TelemetryInv'
  <2>1. LinesOK' /\ \A e : Observations!Holds(e)' = Observations!Holds(e)
    BY <1>10 DEF Observations!ReadDay, Observations!Quiet, LinesOK, Once, Observations!Holds
  <2>2. AppendsOK'
    BY <1>10, <2>1 DEF Observations!ReadDay, Observations!Quiet, AppendsOK, Appends
  <2>3. ToldOK'
    BY <1>10, <2>1 DEF Observations!ReadDay, Observations!Quiet, ToldOK
  <2>4. Reads'
    <3>1. CASE lines[d] = <<>>
      BY <1>10, <3>1 DEF Observations!ReadDay, Observations!Quiet, Reads
    <3>2. CASE lines[d] # <<>>
      <4>1. reader.twice = FALSE /\ ~\E r \in Record : Observations!Times(d, r) > 1
        BY TimesIsOne DEF LinesOK, Reads
      <4>2. /\ reader' = [left |-> reader.left \ {d},
                          got |-> reader.got \cup (Observations!Holds(d) \ {Observations!Torn}),
                          twice |-> reader'.twice, owed |-> reader.owed, at |-> "reading"]
            /\ reader'.twice = FALSE
        <5> DEFINE more == reader.twice \/ \E r \in Record : Observations!Times(d, r) > 1
        <5>1. more = FALSE
          BY <4>1
        <5>2. reader' = [reader EXCEPT !.left = @ \ {d}, !.twice = more,
                                       !.got = @ \cup (Observations!Holds(d) \ {Observations!Torn})]
          BY <1>10, <3>2 DEF Observations!ReadDay
        <5> HIDE DEF more
        <5> QED
          BY <1>10, <5>1, <5>2 DEF Reads, Observations!ReadDay
      <4>3. \A r \in reader.owed : /\ r \in Record /\ r \in Observations!Holds(DayOf[r])
                                   /\ DayOf[r] \in reader.left \/ r \in reader.got
        BY DEF Reads
      <4> QED
        BY <2>1, <4>2, <4>3 DEF Reads
    <3> QED
      BY <3>1, <3>2
  <2> QED
    BY <2>1, <2>2, <2>3, <2>4
<1>11. CASE Observations!Answer
  <2>1. LinesOK' /\ \A e : Observations!Holds(e)' = Observations!Holds(e)
    BY <1>11 DEF Observations!Answer, LinesOK, Once, Observations!Holds
  <2>2. AppendsOK'
    BY <1>11, <2>1 DEF Observations!Answer, AppendsOK, Appends
  <2>3. ToldOK'
    BY <1>11, <2>1 DEF Observations!Answer, ToldOK
  <2>4. Reads'
    BY <1>11, <2>1 DEF Observations!Answer, Reads
  <2> QED
    BY <2>1, <2>2, <2>3, <2>4
<1>12. CASE Observations!Forget
  <2>1. LinesOK' /\ \A e : Observations!Holds(e)' = Observations!Holds(e)
    BY <1>12 DEF Observations!Forget, Observations!Quiet, LinesOK, Once, Observations!Holds
  <2>2. AppendsOK'
    BY <1>12, <2>1 DEF Observations!Forget, Observations!Quiet, AppendsOK, Appends
  <2>3. ToldOK'
    BY <1>12, <2>1 DEF Observations!Forget, Observations!Quiet, ToldOK
  <2>4. Reads'
    BY <1>12, <2>1 DEF Observations!Forget, Observations!Quiet, Reads
  <2> QED
    BY <2>1, <2>2, <2>3, <2>4
<1>13. CASE Observations!Observe
  <2>1. LinesOK' /\ \A e : Observations!Holds(e)' = Observations!Holds(e)
    BY <1>13 DEF Observations!Observe, LinesOK, Once, Observations!Holds
  <2>2. AppendsOK'
    BY <1>13, <2>1 DEF Observations!Observe, AppendsOK, Appends
  <2>3. ToldOK'
    BY <1>13, <2>1 DEF Observations!Observe, ToldOK
  <2>4. Reads'
    BY <1>13, <2>1 DEF Observations!Observe, Reads
  <2> QED
    BY <2>1, <2>2, <2>3, <2>4
<1>14. CASE UNCHANGED Observations!vars
  BY <1>14 DEF Observations!vars, LinesOK, Once, AppendsOK, Appends, ToldOK, Reads,
     Observations!Holds
<1> QED
  BY <1>1, <1>2, <1>3, <1>4, <1>5, <1>6, <1>7, <1>8, <1>9, <1>10, <1>11, <1>12, <1>13, <1>14
     DEF Observations!TelemetryNext

LEMMA RangeIsFinite ==
  ASSUME NEW S, NEW e \in Seq(S)
  PROVE  IsFiniteSet({e[i] : i \in 1..Len(e)})
<1> DEFINE T == {e[i] : i \in 1..Len(e)}
<1>1. Len(e) \in Nat /\ e \in [1..Len(e) -> T]
  OBVIOUS
<1>2. e \in Surjection(1..Len(e), T)
  BY <1>1 DEF Surjection
<1>3. IsFiniteSet(1..Len(e))
  BY <1>1, FS_Interval
<1> QED
  BY <1>2, <1>3, FS_Surjection

(* No model is recorded as observed while the event names another.          *)
LEMMA OneModelIsSeen ==
  ASSUME NEW e, NEW g, e \in Seq(Model \cup {Observations!Unknown}),
         g \in Seq(Model \cup {Observations!Unknown}), NEW s, s = Observations!Observed(e, g),
         s.value \notin {Unset, Observations!Unknown}
  PROVE  Observations!Known(s.explicit) \cup Observations!Known(s.generic) = {s.value}
<1> DEFINE K == Observations!Known(e) \cup Observations!Known(g)
<1>1. \A S : Observations!Cardinality(S) = Cardinality(S)
  BY DEF Cardinality, Observations!Cardinality, ExistsBijection, Observations!ExistsBijection,
         Bijection, Observations!Bijection, Injection, Observations!Injection, Surjection,
         Observations!Surjection, IsInjective, Observations!IsInjective
<1>2. /\ s.explicit = e /\ s.generic = g /\ e \o g # <<>> /\ s.value = (e \o g)[1]
      /\ ~(Cardinality(K) > 1)
  BY <1>1 DEF Observations!Observed
<1>3. (e \o g)[1] \in K
  <2>1. CASE e # <<>>
    BY <1>2, <2>1 DEF Observations!Known
  <2>2. CASE e = <<>>
    BY <1>2, <2>2 DEF Observations!Known
  <2> QED
    BY <2>1, <2>2
<1>4. IsFiniteSet(K)
  <2>1. IsFiniteSet({e[i] : i \in 1..Len(e)}) /\ IsFiniteSet({g[i] : i \in 1..Len(g)})
    BY RangeIsFinite
  <2>2. K \subseteq {e[i] : i \in 1..Len(e)} \cup {g[i] : i \in 1..Len(g)}
    BY DEF Observations!Known
  <2> QED
    BY <2>1, <2>2, FS_Union, FS_Subset
<1>5. K = {s.value}
  <2> HIDE DEF K
  <2> SUFFICES ASSUME NEW k \in K, k # s.value PROVE FALSE
    BY <1>2, <1>3
  <2> DEFINE one == {s.value}
             two == one \cup {k}
  <2>1. Cardinality(one) = 1 /\ IsFiniteSet(one) /\ k \notin one
    BY FS_Singleton
  <2>2. Cardinality(two) = 1 + 1
    <3> HIDE DEF one
    <3>1. Cardinality(two) = Cardinality(one) + 1
      BY ONLY <2>1, FS_AddElement DEF two
    <3> QED
      BY <2>1, <3>1
  <2>3. two \subseteq K
    BY <1>2, <1>3
  <2> HIDE DEF two
  <2>4. Cardinality(two) <= Cardinality(K) /\ Cardinality(K) \in Nat
    BY <1>4, <2>3, FS_Subset, FS_CardinalityType
  <2> QED
    BY <1>2, <2>2, <2>4
<1> QED
  BY <1>2, <1>5

(* A reader that answers has every record whose append was answered before   *)
(* it began and that was not pruned since, each once, although locks outlive *)
(* the killed and days are pruned and read without them; and no model is    *)
(* recorded as observed that is disputed                                    *)
(* (telemetry.ts, dispatch-telemetry-hook.mjs).                             *)
THEOREM ObservationsStayTrue ==
  ASSUME TelemetryOK
  PROVE  Observations!TelemetrySpec => []Observations!ObservationsAreTrue
<1> DEFINE Inv == TelemetryInv /\ Observations!ModelIsUndisputed
<1>1. Observations!TelemetryInit => Inv
  <2> SUFFICES ASSUME Observations!TelemetryInit PROVE Inv
    OBVIOUS
  <2>1. LinesOK /\ AppendsOK
    BY DEF Observations!TelemetryInit, LinesOK, Once, AppendsOK, Appends, Observations!Idle
  <2>2. ToldOK /\ Reads
    BY DEF Observations!TelemetryInit, ToldOK, Reads, Observations!Quiet
  <2>3. Observations!ModelIsUndisputed
    BY DEF Observations!TelemetryInit, Observations!Nothing, Observations!ModelIsUndisputed
  <2> QED
    BY <2>1, <2>2, <2>3 DEF TelemetryInv
<1>2. Inv /\ [Observations!TelemetryNext]_Observations!vars => Inv'
  <2> SUFFICES ASSUME Inv, [Observations!TelemetryNext]_Observations!vars PROVE Inv'
    OBVIOUS
  <2>1. TelemetryInv'
    BY TelemetryInvStep
  <2>2. CASE UNCHANGED seen
    BY <2>1, <2>2 DEF Observations!ModelIsUndisputed, Observations!Known
  <2>3. CASE Observations!Observe
    <3>1. PICK e \in Observations!Few(Model \cup {Observations!Unknown}),
               g \in Observations!Few(Model \cup {Observations!Unknown}) :
            seen' = Observations!Observed(e, g)
      BY <2>3 DEF Observations!Observe
    <3>2. e \in Seq(Model \cup {Observations!Unknown}) /\ g \in Seq(Model \cup {Observations!Unknown})
      <4>1. \A S : \A q \in Observations!Few(S) : q \in Seq(S)
        <5> SUFFICES ASSUME NEW S, NEW q \in Observations!Few(S) PROVE q \in Seq(S)
          OBVIOUS
        <5>1. CASE q = <<>>
          BY <5>1
        <5>2. CASE \E x \in S : q = <<x>>
          BY <5>2
        <5>3. CASE \E x, y \in S : q = <<x, y>>
          BY <5>3
        <5> QED
          BY <5>1, <5>2, <5>3 DEF Observations!Few
      <4> QED
        BY <4>1
    <3>3. seen'.value \notin {Unset, Observations!Unknown} =>
            Observations!Known(seen'.explicit) \cup Observations!Known(seen'.generic) = {seen'.value}
      BY <3>1, <3>2, OneModelIsSeen, Zenon
    <3>4. Observations!ModelIsUndisputed'
      BY <3>3 DEF Observations!ModelIsUndisputed, Observations!Known
    <3> QED
      BY <2>1, <3>4
  <2> QED
    BY <2>2, <2>3, Zenon
       DEF Observations!TelemetryNext, Observations!vars, Observations!Begin, Observations!Lock,
           Observations!GiveUp, Observations!Look, Observations!Write, Observations!Unlock,
           Observations!Kill, Observations!Prune, Observations!List, Observations!ReadDay,
           Observations!Answer, Observations!Forget
<1>3. Inv => Observations!ObservationsAreTrue
  BY DEF TelemetryInv, Reads, Observations!ObservationsAreTrue, Observations!RecordsAreReadOnce
<1> QED
  BY <1>1, <1>2, <1>3, PTL DEF Observations!TelemetrySpec

-----------------------------------------------------------------------------
(* The execution configuration.                                             *)

CONSTANTS Host, Setup, Plan, Preset, Custom, Legacy, Efforts
VARIABLES config, replayed

Execution == INSTANCE ExecutionConfig

Records ==
    /\ DOMAIN config = {"configured", "default", "bound", "custom", "plans", "pointer",
                        "overrides", "removed"}
    /\ DOMAIN config.default = Host /\ DOMAIN config.pointer = Host
    /\ \A k \in DOMAIN config.plans :
           DOMAIN config.plans[k] = {"assigned", "efforts", "defaultEffort"}

(* Names are names: a pin is of a persona, an override of a preset, and a   *)
(* custom persona has a preset's name only from the first version.          *)
Named ==
    /\ config.custom \subseteq Execution!Name
    /\ config.custom \cap Preset \subseteq UNION Legacy
    /\ config.bound \subseteq Execution!Profile \X Host \X Setup
    /\ DOMAIN config.overrides \subseteq Preset

ExecInv == Records /\ Named /\ Execution!ReferencesResolve /\ Execution!ChainReplays

(* The reducer's arms.  *)
LEMMA ReplayArms ==
  ASSUME NEW s
  PROVE  /\ \A h, n : Execution!Replay(s, [op |-> "configuration.set", host |-> h, setup |-> n])
                        = Execution!HostConfigSet(s, h, n)
         /\ \A h, n : Execution!Replay(s, [op |-> "configuration.removed", host |-> h, setup |-> n])
                        = Execution!HostConfigRemove(s, h, n)
         /\ \A h, n : Execution!Replay(s, [op |-> "default.set", host |-> h, setup |-> n])
                        = Execution!HostConfigDefault(s, h, n)
         /\ \A p, h, n : Execution!Replay(s, [op |-> "binding.set", profile |-> p, host |-> h,
                                              setup |-> n])
                        = Execution!BindingSet(s, p, h, n)
         /\ \A p, h : Execution!Replay(s, [op |-> "binding.removed", profile |-> p, host |-> h])
                        = Execution!BindingRemove(s, p, h)
         /\ \A n : Execution!Replay(s, [op |-> "persona.set", name |-> n])
                        = Execution!CustomSet(s, n)
         /\ \A n : Execution!Replay(s, [op |-> "persona.removed", name |-> n])
                        = Execution!CustomRemove(s, n)
         /\ \A n, f : Execution!Replay(s, [op |-> "persona-preset.override", name |-> n,
                                           fields |-> f])
                        = Execution!PresetOverride(s, n, f)
         /\ \A n, f : Execution!Replay(s, [op |-> "persona-preset.restore", name |-> n,
                                           field |-> f])
                        = Execution!PresetRestore(s, n, f)
         /\ \A n : Execution!Replay(s, [op |-> "persona-preset.removed", name |-> n])
                        = Execution!PresetRemove(s, n)
BY DEF Execution!Replay

LEMMA PlanArms ==
  ASSUME NEW s
  PROVE  /\ \A k : Execution!Replay(s, [op |-> "model-plan.removed", key |-> k])
                     = Execution!PlanRemove(s, k)
         /\ \A h : Execution!Replay(s, [op |-> "settings.removed", host |-> h])
                     = Execution!Outcome(s.pointer[h] # Unset, [s EXCEPT !.pointer[h] = Unset])
BY DEF Execution!Replay

(* A verb keeps the chain readable when the reducer's arm gives what the    *)
(* verb gave.                                                               *)
LEMMA Replayed ==
  ASSUME Execution!ChainReplays, NEW ok \in BOOLEAN, NEW state, NEW e,
         Execution!Append(Execution!Outcome(ok, state), e),
         Execution!Replay(config, e) = Execution!Outcome(TRUE, state)
         \/ Execution!Replay(config, e) = Execution!Outcome(ok, state)
  PROVE  Execution!ChainReplays' /\ ok /\ config' = state
BY DEF Execution!ChainReplays, Execution!Append, Execution!Outcome

(* Every field but these is as it was. *)
Kept(changed) ==
    /\ DOMAIN config' = DOMAIN config
    /\ "configured" \notin changed => config'.configured = config.configured
    /\ "default" \notin changed => config'.default = config.default
    /\ "bound" \notin changed => config'.bound = config.bound
    /\ "custom" \notin changed => config'.custom = config.custom
    /\ "plans" \notin changed => config'.plans = config.plans
    /\ "pointer" \notin changed => config'.pointer = config.pointer
    /\ "overrides" \notin changed => config'.overrides = config.overrides
    /\ "removed" \notin changed => config'.removed = config.removed

WithPlan(k, new) == [config EXCEPT !.plans = Execution!Put(@, k, new)]

LEMMA ConfigurationVerbs ==
  ASSUME ExecInv, NEW h \in Host, NEW n \in Setup,
         Execution!SetHostConfiguration(h, n) \/ Execution!RemoveHostConfiguration(h, n)
  PROVE  ExecInv'
<1> USE DEF ExecInv
<1>1. CASE Execution!SetHostConfiguration(h, n)
  <2>1. Execution!ChainReplays' /\ config' = [config EXCEPT !.configured = @ \cup {<<h, n>>}]
    BY <1>1, Replayed, ReplayArms DEF Execution!SetHostConfiguration, Execution!HostConfigSet
  <2> QED
    BY <2>1 DEF Records, Named, Execution!ReferencesResolve, Execution!PersonaExists,
       Execution!PersonaNameExists
<1>2. CASE Execution!RemoveHostConfiguration(h, n)
  <2>1. /\ Execution!ChainReplays' /\ config' = [config EXCEPT !.configured = @ \ {<<h, n>>}]
        /\ config.default[h] # n /\ \A p \in Execution!Profile : <<p, h, n>> \notin config.bound
    BY <1>2, Replayed, ReplayArms DEF Execution!RemoveHostConfiguration, Execution!HostConfigRemove
  <2> QED
    BY <2>1 DEF Records, Named, Execution!ReferencesResolve, Execution!PersonaExists,
       Execution!PersonaNameExists
<1> QED
  BY <1>1, <1>2

LEMMA DefaultVerb ==
  ASSUME ExecInv, NEW h \in Host, NEW n \in Setup \cup {Unset}, Execution!SetHostDefault(h, n)
  PROVE  ExecInv'
<1> USE DEF ExecInv
<1>1. /\ Execution!ChainReplays' /\ config' = [config EXCEPT !.default[h] = n]
      /\ n # Unset => <<h, n>> \in config.configured
  BY Replayed, ReplayArms DEF Execution!SetHostDefault, Execution!HostConfigDefault
<1> QED
  BY <1>1 DEF Records, Named, Execution!ReferencesResolve, Execution!PersonaExists,
     Execution!PersonaNameExists

LEMMA BindingVerbs ==
  ASSUME ExecInv, NEW p \in Execution!Profile, NEW h \in Host,
         (\E n \in Setup : Execution!SetPersonaBinding(p, h, n))
         \/ Execution!RemovePersonaBinding(p, h)
  PROVE  ExecInv'
<1> USE DEF ExecInv
<1>1. ASSUME NEW n \in Setup, Execution!SetPersonaBinding(p, h, n) PROVE ExecInv'
  <2> DEFINE r == Execution!BindingSet(config, p, h, n)
             e == [op |-> "binding.set", profile |-> p, host |-> h, setup |-> n]
             ok == <<h, n>> \in config.configured /\ Execution!PersonaExists(config, p)
             state == [config EXCEPT !.bound = {b \in @ : <<b[1], b[2]>> # <<p, h>>}
                                                 \cup {<<p, h, n>>}]
  <2>a. r = Execution!Outcome(ok, state) /\ ok \in BOOLEAN
    BY DEF Execution!BindingSet
  <2>b. Execution!Append(r, e)
    BY <1>1 DEF Execution!SetPersonaBinding
  <2>c. Execution!Replay(config, e) = r
    BY ReplayArms
  <2> HIDE DEF r, e, ok, state
  <2>d. Execution!ChainReplays' /\ ok /\ config' = state
    BY <2>a, <2>b, <2>c, Replayed
  <2>1. /\ Execution!ChainReplays'
        /\ config' = [config EXCEPT !.bound = {b \in @ : <<b[1], b[2]>> # <<p, h>>}
                                                \cup {<<p, h, n>>}]
        /\ <<h, n>> \in config.configured /\ Execution!PersonaExists(config, p)
    BY <2>d DEF ok, state
  <2>2. /\ Kept({"bound"})
        /\ config'.bound = {b \in config.bound : <<b[1], b[2]>> # <<p, h>>} \cup {<<p, h, n>>}
    BY <2>1 DEF Kept, Records
  <2>3. Records'
    BY <2>2 DEF Kept, Records
  <2>4. Named'
    BY <2>2 DEF Kept, Named
  <2>5. Execution!ReferencesResolve'
    BY <2>1, <2>2 DEF Kept, Named, Execution!ReferencesResolve, Execution!PersonaExists,
       Execution!PersonaNameExists
  <2> QED
    BY <2>1, <2>3, <2>4, <2>5
<1>2. CASE Execution!RemovePersonaBinding(p, h)
  <2> DEFINE pinned == {b \in config.bound : <<b[1], b[2]>> = <<p, h>>}
  <2> DEFINE r == Execution!BindingRemove(config, p, h)
             e == [op |-> "binding.removed", profile |-> p, host |-> h]
             ok == pinned # {}
             state == [config EXCEPT !.bound = @ \ pinned]
  <2>a. r = Execution!Outcome(ok, state) /\ ok \in BOOLEAN
    BY DEF Execution!BindingRemove
  <2>b. Execution!Append(r, e)
    BY <1>2 DEF Execution!RemovePersonaBinding
  <2>c. Execution!Replay(config, e) = r
    BY ReplayArms
  <2> HIDE DEF r, e, ok, state
  <2>d. Execution!ChainReplays' /\ ok /\ config' = state
    BY <2>a, <2>b, <2>c, Replayed
  <2>1. Execution!ChainReplays' /\ config' = [config EXCEPT !.bound = @ \ pinned]
    BY <2>d DEF state
  <2>2. Kept({"bound"}) /\ config'.bound \subseteq config.bound
    BY <2>1 DEF Kept, Records
  <2>3. Records'
    BY <2>2 DEF Kept, Records
  <2>4. Named'
    BY <2>2 DEF Kept, Named
  <2>5. Execution!ReferencesResolve'
    BY <2>2 DEF Kept, Named, Execution!ReferencesResolve, Execution!PersonaExists,
       Execution!PersonaNameExists
  <2> QED
    BY <2>1, <2>3, <2>4, <2>5
<1> QED
  BY <1>1, <1>2

LEMMA CustomVerbs ==
  ASSUME ExecInv, NEW n \in Execution!Name,
         Execution!SetCustomPersona(n) \/ Execution!Append(Execution!CustomRemove(config, n),
                                               [op |-> "persona.removed", name |-> n])
  PROVE  ExecInv'
<1> USE DEF ExecInv
<1>1. CASE Execution!SetCustomPersona(n)
  <2>1. /\ Execution!ChainReplays' /\ config' = [config EXCEPT !.custom = @ \cup {n}]
        /\ n \in Preset => n \in config.custom
    BY <1>1, Replayed, ReplayArms DEF Execution!SetCustomPersona, Execution!CustomSet,
       Execution!PersonaNameExists
  <2> QED
    BY <2>1 DEF Records, Named, Execution!ReferencesResolve, Execution!PersonaExists,
       Execution!PersonaNameExists
<1>2. CASE Execution!Append(Execution!CustomRemove(config, n),
                            [op |-> "persona.removed", name |-> n])
  <2>1. /\ Execution!ChainReplays' /\ config' = [config EXCEPT !.custom = @ \ {n}]
        /\ \A h \in Host, c \in Setup : <<<<"custom", n>>, h, c>> \notin config.bound
        /\ ~Execution!Assigns(config, n)
    BY <1>2, Replayed, ReplayArms DEF Execution!CustomRemove, Execution!Assigns
  <2> QED
    BY <2>1 DEF Records, Named, Execution!ReferencesResolve, Execution!PersonaExists,
       Execution!PersonaNameExists, Execution!Assigns, Execution!Profile
<1> QED
  BY <1>1, <1>2

LEMMA PresetVerbs ==
  ASSUME ExecInv, NEW n \in Execution!Name,
         \/ \E f \in SUBSET Field : Execution!OverridePersonaPreset(n, f)
         \/ \E f \in Field \cup {""} : Execution!RestorePersonaPreset(n, f)
         \/ Execution!Append(Execution!PresetRemove(config, n),
                             [op |-> "persona-preset.removed", name |-> n])
  PROVE  ExecInv'
<1> USE DEF ExecInv
<1>1. ASSUME NEW f \in SUBSET Field, Execution!OverridePersonaPreset(n, f) PROVE ExecInv'
  <2> DEFINE r == Execution!PresetOverride(config, n, f)
             e == [op |-> "persona-preset.override", name |-> n, fields |-> f]
             ok == n \in Preset \ (config.custom \cup config.removed) /\ f # {}
             state == [config EXCEPT !.overrides = Execution!Put(@, n, f)]
  <2>a. r = Execution!Outcome(ok, state) /\ ok \in BOOLEAN
    BY DEF Execution!PresetOverride
  <2>b. Execution!Append(r, e)
    BY <1>1 DEF Execution!OverridePersonaPreset
  <2>c. Execution!Replay(config, e) = r
    BY ReplayArms
  <2> HIDE DEF r, e, ok, state
  <2>d. Execution!ChainReplays' /\ ok /\ config' = state
    BY <2>a, <2>b, <2>c, Replayed
  <2>1. /\ Execution!ChainReplays'
        /\ config' = [config EXCEPT !.overrides = Execution!Put(@, n, f)]
        /\ n \in Preset /\ n \notin config.removed
    BY <2>d DEF ok, state
  <2>2. Kept({"overrides"}) /\ DOMAIN config'.overrides = DOMAIN config.overrides \cup {n}
    BY <2>1 DEF Kept, Records, Execution!Put
  <2>3. Records'
    BY <2>2 DEF Kept, Records
  <2>4. Named'
    BY <2>1, <2>2 DEF Kept, Named
  <2>5. Execution!ReferencesResolve'
    BY <2>1, <2>2 DEF Kept, Execution!ReferencesResolve, Execution!PersonaExists,
       Execution!PersonaNameExists
  <2> QED
    BY <2>1, <2>3, <2>4, <2>5
<1>2. ASSUME NEW f \in Field \cup {""}, Execution!RestorePersonaPreset(n, f) PROVE ExecInv'
  <2> DEFINE left == IF n \in DOMAIN config.overrides /\ f # "" THEN config.overrides[n] \ {f}
                     ELSE {}
  <2>1. /\ Execution!ChainReplays'
        /\ config' = [config EXCEPT !.overrides = IF left = {} THEN Execution!Drop(@, n)
                                                  ELSE Execution!Put(@, n, left),
                                    !.removed = @ \ {n}]
    BY <1>2, Replayed, ReplayArms DEF Execution!RestorePersonaPreset, Execution!PresetRestore
  <2>2. left # {} => n \in DOMAIN config.overrides
    OBVIOUS
  <2> HIDE DEF left
  <2>3. /\ Kept({"overrides", "removed"})
        /\ config'.overrides = IF left = {} THEN Execution!Drop(config.overrides, n)
                               ELSE Execution!Put(config.overrides, n, left)
        /\ config'.removed = config.removed \ {n}
    BY <2>1 DEF Kept, Records
  <2>4. \/ DOMAIN config'.overrides = DOMAIN config.overrides \ {n}
        \/ DOMAIN config'.overrides = DOMAIN config.overrides
    BY <2>2, <2>3 DEF Execution!Put, Execution!Drop
  <2>5. Records'
    BY <2>3 DEF Kept, Records
  <2>6. Named'
    BY <2>3, <2>4 DEF Kept, Named
  <2>7. Execution!ReferencesResolve'
    BY <2>3, <2>4 DEF Kept, Execution!ReferencesResolve, Execution!PersonaExists,
       Execution!PersonaNameExists
  <2> QED
    BY <2>1, <2>5, <2>6, <2>7
<1>3. CASE Execution!Append(Execution!PresetRemove(config, n),
                            [op |-> "persona-preset.removed", name |-> n])
  <2> DEFINE r == Execution!PresetRemove(config, n)
             e == [op |-> "persona-preset.removed", name |-> n]
             ok == n \in Preset /\ ~Execution!Assigns(config, n)
             state == [config EXCEPT !.overrides = Execution!Drop(@, n), !.removed = @ \cup {n}]
  <2>a. r = Execution!Outcome(ok, state) /\ ok \in BOOLEAN
    BY DEF Execution!PresetRemove
  <2>b. Execution!Append(r, e)
    BY <1>3
  <2>c. Execution!Replay(config, e) = r
    BY ReplayArms
  <2> HIDE DEF r, e, ok, state
  <2>d. Execution!ChainReplays' /\ ok /\ config' = state
    BY <2>a, <2>b, <2>c, Replayed
  <2>1. /\ Execution!ChainReplays'
        /\ config' = [config EXCEPT !.overrides = Execution!Drop(@, n), !.removed = @ \cup {n}]
        /\ ~Execution!Assigns(config, n)
    BY <2>d DEF ok, state
  <2>2. /\ Kept({"overrides", "removed"}) /\ config'.removed = config.removed \cup {n}
        /\ DOMAIN config'.overrides = DOMAIN config.overrides \ {n}
    BY <2>1 DEF Kept, Records, Execution!Drop
  <2>3. Records'
    BY <2>2 DEF Kept, Records
  <2>4. Named'
    BY <2>2 DEF Kept, Named
  <2>5. \A m \in Execution!Name :
            m # n /\ Execution!PersonaNameExists(config, m) => Execution!PersonaNameExists(config',
            m)
    BY <2>2 DEF Kept, Execution!PersonaNameExists
  <2>6. \A k \in DOMAIN config.plans, m \in Execution!Name :
            m \in config.plans[k].assigned => Execution!PersonaNameExists(config', m)
    BY <2>1, <2>5 DEF Execution!Assigns, Execution!ReferencesResolve
  <2>7. Execution!ReferencesResolve'
    BY <2>2, <2>6 DEF Kept, Execution!ReferencesResolve, Execution!PersonaExists
  <2> QED
    BY <2>1, <2>3, <2>4, <2>7
<1> QED
  BY <1>1, <1>2, <1>3

(* What the plan verbs leave in a plan is what the event carries of it, and *)
(* the reducer finds it again.                                              *)
LEMMA PlanVerbs ==
  ASSUME ExecInv, NEW k, NEW effort \in BOOLEAN,
         \/ Execution!SetModelPlan(k, effort)
         \/ \E n \in Execution!Name : \/ Execution!AssignModelPlan(k, n, effort)
                                      \/ Execution!UnassignModelPlan(k, n)
         \/ Execution!RemoveModelPlan(k)
  PROVE  ExecInv'
<1> USE DEF ExecInv
<1> DEFINE old == Execution!Existing(config, k)
<1>a. DOMAIN old = {"assigned", "efforts", "defaultEffort"}
  BY DEF Execution!Existing, Records
<1>b. k \in DOMAIN config.plans => old = config.plans[k]
  BY DEF Execution!Existing
<1>c. k \notin DOMAIN config.plans => old.assigned = {}
  BY DEF Execution!Existing
<1> HIDE DEF old
<1>d. ASSUME NEW new, DOMAIN new = {"assigned", "efforts", "defaultEffort"},
             config' = WithPlan(k, new),
             \A n \in Execution!Name :
                 n \in new.assigned => n \in old.assigned \/ Execution!PersonaNameExists(config, n)
      PROVE  Records' /\ Named' /\ Execution!ReferencesResolve'
  <2>1. /\ Kept({"plans"})
        /\ DOMAIN config'.plans = DOMAIN config.plans \cup {k}
        /\ config'.plans[k] = new
        /\ \A m \in DOMAIN config.plans \ {k} : config'.plans[m] = config.plans[m]
    BY <1>d DEF Kept, Records, WithPlan, Execution!Put
  <2>2. Records'
    BY <2>1, <1>d DEF Kept, Records
  <2>3. Named'
    BY <2>1 DEF Kept, Named
  <2>4. \A m \in DOMAIN config'.plans, n \in Execution!Name :
            n \in config'.plans[m].assigned => Execution!PersonaNameExists(config, n)
    BY <2>1, <1>b, <1>c, <1>d DEF Execution!ReferencesResolve
  <2>5. Execution!ReferencesResolve'
    BY <2>1, <2>4 DEF Kept, Execution!ReferencesResolve, Execution!PersonaExists,
       Execution!PersonaNameExists
  <2> QED
    BY <2>2, <2>3, <2>5
<1>e. ASSUME NEW new PROVE WithPlan(k, new).plans[k] = new
  BY DEF Records, WithPlan, Execution!Put
<1>1. CASE Execution!SetModelPlan(k, effort)
  <2> DEFINE new == [old EXCEPT !.defaultEffort = effort]
             state == WithPlan(k, new)
             ok == TRUE
  <2>0. ok \in BOOLEAN
    OBVIOUS
  <2>1. Execution!PlanSet(config, k, effort) = Execution!Outcome(ok, state)
    BY DEF Execution!PlanSet, WithPlan, old
  <2>2. new.defaultEffort = effort /\ DOMAIN new = {"assigned", "efforts", "defaultEffort"}
        /\ new.assigned = old.assigned
    BY <1>a
  <2>3. state.plans[k] = new
    BY <1>e
  <2> HIDE DEF new, state, ok
  <2>4. Execution!Append(Execution!Outcome(ok, state),
                         [op |-> "model-plan.set", key |-> k, record |-> new])
    BY <1>1, <2>1, <2>3 DEF Execution!SetModelPlan, Execution!Outcome
  <2>5. Execution!Replay(config, [op |-> "model-plan.set", key |-> k, record |-> new])
          = Execution!Outcome(ok, state)
    <3>1. Execution!Replay(config, [op |-> "model-plan.set", key |-> k, record |-> new])
            = Execution!Same(Execution!PlanSet(config, k, effort), k, new)
      BY <2>2 DEF Execution!Replay
    <3> QED
      BY <3>1, <2>0, <2>1, <2>3 DEF Execution!Same, Execution!Outcome
  <2>6. Execution!ChainReplays' /\ config' = state
    BY <2>4, <2>5, Replayed DEF ok
  <2>7. Records' /\ Named' /\ Execution!ReferencesResolve'
    BY <2>2, <2>6, <1>d DEF state
  <2> QED
    BY <2>6, <2>7
<1>2. ASSUME NEW n \in Execution!Name, Execution!AssignModelPlan(k, n, effort) PROVE ExecInv'
  <2> DEFINE new == [old EXCEPT !.assigned = @ \cup {n},
                                !.efforts = IF effort THEN @ \cup {n} ELSE @]
             state == WithPlan(k, new)
             ok == k \in DOMAIN config.plans /\ Execution!PersonaNameExists(config, n)
  <2>1. Execution!PlanAssign(config, k, n, effort) = Execution!Outcome(ok, state)
    BY DEF Execution!PlanAssign, WithPlan, old
  <2>2. DOMAIN new = {"assigned", "efforts", "defaultEffort"}
        /\ new.assigned = old.assigned \cup {n}
    BY <1>a
  <2>3. state.plans[k] = new
    BY <1>e
  <2>6. ok \in BOOLEAN
    OBVIOUS
  <2> HIDE DEF new, state, ok
  <2>4. Execution!Append(Execution!Outcome(ok, state),
                         [op |-> "model-plan.assigned", key |-> k, name |-> n,
                          effort |-> effort, record |-> new])
    BY <1>2, <2>1, <2>3 DEF Execution!AssignModelPlan, Execution!Outcome
  <2>5. Execution!Replay(config, [op |-> "model-plan.assigned", key |-> k, name |-> n,
                                  effort |-> effort, record |-> new])
          = Execution!Outcome(ok, state)
    <3>1. Execution!Replay(config, [op |-> "model-plan.assigned", key |-> k, name |-> n,
                                    effort |-> effort, record |-> new])
            = Execution!Same(Execution!PlanAssign(config, k, n, effort), k, new)
      BY DEF Execution!Replay
    <3> QED
      BY <3>1, <2>1, <2>3, <2>6 DEF Execution!Same, Execution!Outcome
  <2>7. Execution!ChainReplays' /\ config' = state /\ ok
    BY ONLY <2>4, <2>5, <2>6, ExecInv, Replayed DEF ExecInv
  <2>8. \A m \in Execution!Name :
            m \in new.assigned => m \in old.assigned \/ Execution!PersonaNameExists(config, m)
    BY <2>2, <2>7 DEF ok
  <2>9. Records' /\ Named' /\ Execution!ReferencesResolve'
    BY <2>2, <2>7, <2>8, <1>d DEF state
  <2> QED
    BY <2>7, <2>9
<1>3. ASSUME NEW n \in Execution!Name, Execution!UnassignModelPlan(k, n) PROVE ExecInv'
  <2> DEFINE new == [old EXCEPT !.assigned = @ \ {n},
                                !.efforts = IF @ \ {n} = {} THEN @ ELSE @ \ {n}]
             state == WithPlan(k, new)
             ok == k \in DOMAIN config.plans /\ n \in old.assigned
  <2>1. Execution!PlanUnassign(config, k, n) = Execution!Outcome(ok, state)
    BY DEF Execution!PlanUnassign, WithPlan, old
  <2>2. DOMAIN new = {"assigned", "efforts", "defaultEffort"}
        /\ new.assigned = old.assigned \ {n}
    BY <1>a
  <2>3. state.plans[k] = new
    BY <1>e
  <2>6. ok \in BOOLEAN
    OBVIOUS
  <2> HIDE DEF new, state, ok
  <2>4. Execution!Append(Execution!Outcome(ok, state),
                         [op |-> "model-plan.unassigned", key |-> k, name |-> n, record |-> new])
    BY <1>3, <2>1, <2>3 DEF Execution!UnassignModelPlan, Execution!Outcome
  <2>5. Execution!Replay(config, [op |-> "model-plan.unassigned", key |-> k, name |-> n,
                                  record |-> new])
          = Execution!Outcome(ok, state)
    <3>1. Execution!Replay(config, [op |-> "model-plan.unassigned", key |-> k, name |-> n,
                                    record |-> new])
            = Execution!Same(Execution!PlanUnassign(config, k, n), k, new)
      BY DEF Execution!Replay
    <3> QED
      BY <3>1, <2>1, <2>3, <2>6 DEF Execution!Same, Execution!Outcome
  <2>7. Execution!ChainReplays' /\ config' = state /\ ok
    BY ONLY <2>4, <2>5, <2>6, ExecInv, Replayed DEF ExecInv
  <2>8. \A m \in Execution!Name :
            m \in new.assigned => m \in old.assigned \/ Execution!PersonaNameExists(config, m)
    BY <2>2, <2>7 DEF ok
  <2>9. Records' /\ Named' /\ Execution!ReferencesResolve'
    BY <2>2, <2>7, <2>8, <1>d DEF state
  <2> QED
    BY <2>7, <2>9
<1>4. CASE Execution!RemoveModelPlan(k)
  <2>1. /\ Execution!ChainReplays' /\ config' = [config EXCEPT !.plans = Execution!Drop(@, k)]
        /\ config.pointer[k[1]] # k[2]
    BY <1>4, Replayed, PlanArms DEF Execution!RemoveModelPlan, Execution!PlanRemove
  <2>2. /\ Kept({"plans"}) /\ DOMAIN config'.plans = DOMAIN config.plans \ {k}
        /\ \A m \in DOMAIN config'.plans : config'.plans[m] = config.plans[m]
    BY <2>1 DEF Kept, Records, Execution!Drop
  <2>3. Records'
    BY <2>2 DEF Kept, Records
  <2>4. Named'
    BY <2>2 DEF Kept, Named
  <2>5. Execution!ReferencesResolve'
    BY <2>1, <2>2 DEF Kept, Execution!ReferencesResolve, Execution!PersonaExists,
       Execution!PersonaNameExists
  <2> QED
    BY <2>1, <2>3, <2>4, <2>5
<1> QED
  BY <1>1, <1>2, <1>3, <1>4

LEMMA PointerVerbs ==
  ASSUME ExecInv, NEW h \in Host,
         (\E n \in Plan : Execution!PointToPlan(h, n)) \/ Execution!ForgetPlan(h)
  PROVE  ExecInv'
<1> USE DEF ExecInv
<1>1. ASSUME NEW n \in Plan, Execution!PointToPlan(h, n) PROVE ExecInv'
  <2> DEFINE state == [config EXCEPT !.pointer[h] = n]
             ok == <<h, n>> \in DOMAIN config.plans
             e == [op |-> "settings.updated", host |-> h, plan |-> n]
  <2>a. Execution!Append(Execution!Outcome(ok, state), e) /\ ok \in BOOLEAN
    BY <1>1 DEF Execution!PointToPlan
  <2>b. Execution!Replay(config, e) = Execution!Outcome(TRUE, state)
    BY DEF Execution!Replay
  <2> HIDE DEF state, ok, e
  <2>c. Execution!ChainReplays' /\ ok /\ config' = state
    BY <2>a, <2>b, Replayed
  <2>1. /\ Execution!ChainReplays' /\ config' = [config EXCEPT !.pointer[h] = n]
        /\ <<h, n>> \in DOMAIN config.plans
    BY <2>c DEF ok, state
  <2> QED
    BY <2>1 DEF Records, Named, Execution!ReferencesResolve, Execution!PersonaExists,
       Execution!PersonaNameExists
<1>2. CASE Execution!ForgetPlan(h)
  <2>1. Execution!ChainReplays' /\ config' = [config EXCEPT !.pointer[h] = Unset]
    BY <1>2, Replayed, PlanArms DEF Execution!ForgetPlan
  <2> QED
    BY <2>1 DEF Records, Named, Execution!ReferencesResolve, Execution!PersonaExists,
       Execution!PersonaNameExists
<1> QED
  BY <1>1, <1>2

LEMMA ExecInvStep ==
  ASSUME Efforts \in BOOLEAN, ExecInv, [Execution!ExecNext]_Execution!execVars
  PROVE  ExecInv'
<1>1. ASSUME NEW n \in Execution!Name,
             Execution!RemoveCustomPersona(n) \/ Execution!RemovePersona(n)
      PROVE  ExecInv'
  BY <1>1, CustomVerbs, PresetVerbs DEF Execution!RemoveCustomPersona, Execution!RemovePersona
<1>2. CASE UNCHANGED Execution!execVars
  BY <1>2 DEF Execution!execVars, ExecInv, Records, Named, Execution!ReferencesResolve,
     Execution!ChainReplays, Execution!PersonaExists, Execution!PersonaNameExists,
     Execution!Outcome
<1> QED
  BY <1>1, <1>2, ConfigurationVerbs, DefaultVerb, BindingVerbs, CustomVerbs, PresetVerbs,
     PlanVerbs, PointerVerbs DEF Execution!ExecNext

(* What the configuration points at exists, whatever order it is built and  *)
(* taken apart in; a reader of the chain has what the verbs answered; and   *)
(* the personas it is shown are those that plans can name                   *)
(* (execution-config.ts, model-plan.ts, profile-store.ts, workspace.ts).    *)
THEOREM ConfigurationStaysWhole ==
  ASSUME Efforts \in BOOLEAN, UNION Legacy \subseteq Execution!Name
  PROVE  Execution!ExecSpec => []Execution!ConfigurationIsWhole
<1>1. Execution!ExecInit => ExecInv
  <2> SUFFICES ASSUME Execution!ExecInit PROVE ExecInv
    OBVIOUS
  <2>1. PICK old \in Legacy : /\ config = Execution!LegacySet(Execution!Empty, old).state
                              /\ replayed = Execution!Outcome(TRUE, config)
    BY DEF Execution!ExecInit
  <2>2. /\ DOMAIN config = {"configured", "default", "bound", "custom", "plans", "pointer",
                            "overrides", "removed"}
        /\ config.default = [h \in Host |-> Unset] /\ config.bound = {} /\ config.custom = old
        /\ config.plans = [k \in {} |-> {}] /\ config.pointer = [h \in Host |-> Unset]
        /\ config.overrides = [p \in {} |-> {}] /\ config.removed = {}
    BY <2>1 DEF Execution!LegacySet, Execution!Empty, Execution!Outcome
  <2>3. Records
    BY <2>2 DEF Records
  <2>4. Named
    BY <2>2 DEF Named
  <2>5. Execution!ReferencesResolve
    BY <2>2 DEF Execution!ReferencesResolve
  <2> QED
    BY <2>1, <2>3, <2>4, <2>5 DEF ExecInv, Execution!ChainReplays
<1>2. ExecInv => Execution!ReadbackIsWhole
  <2> SUFFICES ASSUME ExecInv PROVE Execution!ReadbackIsWhole
    OBVIOUS
  <2> DEFINE shown == Execution!Readback(config)
             Fields(n) == IF n \in DOMAIN config.overrides THEN config.overrides[n] ELSE {}
             Shown(n) == [name |-> n, preset |-> TRUE, overridden |-> Fields(n)]
             Own(n) == [name |-> n, preset |-> FALSE, overridden |-> {}]
  <2>1. shown = {Shown(n) : n \in Preset \ config.removed} \cup {Own(n) : n \in config.custom}
    BY DEF Execution!Readback
  <2>2. \A n : Shown(n).name = n /\ Shown(n).preset /\ Shown(n).overridden = Fields(n)
          /\ Own(n).name = n
    OBVIOUS
  <2> HIDE DEF Shown, Own, shown
  <2>3. {r.name : r \in shown} = {n \in Execution!Name : Execution!PersonaNameExists(config, n)}
    BY <2>1, <2>2 DEF Execution!PersonaNameExists, Execution!Name, ExecInv, Named
  <2>4. \A n \in DOMAIN config.overrides :
            \E r \in shown : r.name = n /\ r.preset /\ r.overridden = config.overrides[n]
    BY <2>1, <2>2 DEF ExecInv, Named, Execution!ReferencesResolve
  <2> QED
    BY <2>3, <2>4 DEF Execution!ReadbackIsWhole, ExecInv, Named, shown
<1>3. ExecInv => Execution!ConfigurationIsWhole
  BY <1>2 DEF ExecInv, Execution!ConfigurationIsWhole
<1> QED
  BY <1>1, <1>3, ExecInvStep, PTL DEF Execution!ExecSpec

=============================================================================
