----------------------------- MODULE ChainBackup ----------------------------
(***************************************************************************)
(* The copies scripts/platform-chain-backup.mjs makes of the workspaces    *)
(* every six hours: an archive, its sidecars, and the encrypted copy that  *)
(* is pushed offsite and read back.                                        *)
(*                                                                         *)
(* The content of a copy is the version of the chain in it; tar reads the  *)
(* tree while commands commit, without the lease.  Archives are named for  *)
(* their time and so are numbered in order; time passes in steps of which  *)
(* Interval make a receipt too old.                                        *)
(***************************************************************************)
EXTENDS Integers, FiniteSets, FiniteSetsExt

CONSTANTS Runner, None,
          Retention,     \* SNAPSHOT_RETENTION
          Interval,      \* SNAPSHOT_INTERVAL_HOURS
          MaxVersion, MaxArchive, MaxTime, MaxFaults

VARIABLES version,       \* the version of the live chain
          time, faults,
          named,         \* the stamps given out
          archive,       \* archive[n]: the version in it, or None
          manifest,      \* manifest[n]: the version its sidecar records, or None
          remote,        \* remote[n]: the copy offsite: "none", "good", "bad"
          local,         \* local-snapshot.json
          offsite,       \* offsite-push.json
          pc, job        \* job[r]: stamp, version read, archives to remove

backupVars == <<version, time, faults, named, archive, manifest, remote, local, offsite, pc, job>>

Stamp == 1..MaxArchive
NoJob == [stamp |-> 0, content |-> 0, recorded |-> 0, doomed |-> {}]
NoReceipt == [ok |-> FALSE, at |-> 0, stamp |-> 0]

BackupInit ==
    /\ version = 1 /\ time = 0 /\ faults = 0 /\ named = 0
    /\ archive = [n \in Stamp |-> None] /\ manifest = [n \in Stamp |-> None]
    /\ remote = [n \in Stamp |-> "none"]
    /\ local = NoReceipt /\ offsite = NoReceipt
    /\ pc = [r \in Runner |-> "idle"] /\ job = [r \in Runner |-> NoJob]

Archives == {n \in Stamp : archive[n] # None}
Fresh(receipt) == receipt.ok /\ time - receipt.at < Interval
Due == ~(Fresh(local) /\ Fresh(offsite))

\* Commands go on committing, and time goes on.
CommitChain == /\ version < MaxVersion /\ version' = version + 1
               /\ UNCHANGED <<time, faults, named, archive, manifest, remote, local, offsite, pc, job>>
Tick == /\ time < MaxTime /\ time' = time + 1
        /\ UNCHANGED <<version, faults, named, archive, manifest, remote, local, offsite, pc, job>>

\* runBackup --if-due; tar reads the container.
Tar(r) ==
    /\ pc[r] = "idle" /\ Due /\ named < MaxArchive
    /\ named' = named + 1
    /\ job' = [job EXCEPT ![r] = [NoJob EXCEPT !.stamp = named + 1, !.content = version]]
    /\ pc' = [pc EXCEPT ![r] = "versions"]
    /\ UNCHANGED <<version, time, faults, archive, manifest, remote, local, offsite>>

\* readChainVersions asks the engine for the status of the live chain.
ChainVersions(r) ==
    /\ pc[r] = "versions"
    /\ job' = [job EXCEPT ![r].recorded = version]
    /\ pc' = [pc EXCEPT ![r] = "rename"]
    /\ UNCHANGED <<version, time, faults, named, archive, manifest, remote, local, offsite>>

Rename(r) ==
    /\ pc[r] = "rename"
    /\ archive' = [archive EXCEPT ![job[r].stamp] = job[r].content]
    /\ pc' = [pc EXCEPT ![r] = "manifest"]
    /\ UNCHANGED <<version, time, faults, named, manifest, remote, local, offsite, job>>

\* The digest, the size and the versions, in two files beside the archive.
Describe(r) ==
    /\ pc[r] = "manifest"
    /\ manifest' = [manifest EXCEPT ![job[r].stamp] = job[r].recorded]
    /\ pc' = [pc EXCEPT ![r] = "rotate"]
    /\ UNCHANGED <<version, time, faults, named, archive, remote, local, offsite, job>>

\* rotateSnapshots lists the archives and verifies the newest before removing any.
Oldest(set, count) == {n \in set : Cardinality({k \in set : k < n}) < count}
Excess == Oldest(Archives, Cardinality(Archives) - Retention)
StopJob(r) == pc' = [pc EXCEPT ![r] = "idle"] /\ job' = [job EXCEPT ![r] = NoJob]

Rotate(r) ==
    /\ pc[r] = "rotate"
    /\ \/ /\ Excess = {} \/ manifest[Max(Archives)] # None
          /\ job' = [job EXCEPT ![r].doomed = Excess] /\ pc' = [pc EXCEPT ![r] = "remove"]
       \/ Excess # {} /\ manifest[Max(Archives)] = None /\ StopJob(r)
    /\ UNCHANGED <<version, time, faults, named, archive, manifest, remote, local, offsite>>

\* One archive with its sidecars; another runner may have removed it first.
RemoveOld(r) ==
    /\ pc[r] = "remove" /\ job[r].doomed # {}
    /\ LET n == Min(job[r].doomed)
       IN  IF archive[n] = None THEN StopJob(r) /\ UNCHANGED <<archive, manifest>>
           ELSE /\ archive' = [archive EXCEPT ![n] = None]
                /\ manifest' = [manifest EXCEPT ![n] = None]
                /\ job' = [job EXCEPT ![r].doomed = @ \ {n}] /\ UNCHANGED pc
    /\ UNCHANGED <<version, time, faults, named, remote, local, offsite>>

LocalReceipt(r) ==
    /\ pc[r] = "remove" /\ job[r].doomed = {}
    /\ local' = [ok |-> TRUE, at |-> time, stamp |-> job[r].stamp]
    /\ pc' = [pc EXCEPT ![r] = "push"]
    /\ UNCHANGED <<version, time, faults, named, archive, manifest, remote, offsite, job>>

\* encryptSnapshot and pushOffsite: nothing, something else or the archive arrives.
Push(r) ==
    /\ pc[r] = "push"
    /\ \E arrived \in {"none", "bad", "good"} :
          /\ arrived # "good" => faults < MaxFaults
          /\ faults' = IF arrived = "good" THEN faults ELSE faults + 1
          /\ remote' = [remote EXCEPT ![job[r].stamp] = arrived]
    /\ pc' = [pc EXCEPT ![r] = "verify"]
    /\ UNCHANGED <<version, time, named, archive, manifest, local, offsite, job>>

\* Mutant: what was pushed is not read back.
OffsiteUnread(r) ==
    /\ pc[r] = "verify"
    /\ offsite' = [ok |-> TRUE, at |-> time, stamp |-> job[r].stamp]
    /\ StopJob(r)
    /\ UNCHANGED <<version, time, faults, named, archive, manifest, remote, local>>

\* verifyOffsite decrypts the copy and compares it with the local archive,
\* which a rotation may have removed; either way there is a receipt.
Offsite(r) ==
    /\ pc[r] = "verify"
    /\ offsite' = [ok |-> remote[job[r].stamp] = "good" /\ archive[job[r].stamp] # None,
                   at |-> time, stamp |-> job[r].stamp]
    /\ StopJob(r)
    /\ UNCHANGED <<version, time, faults, named, archive, manifest, remote, local>>

Killed(r) ==
    /\ pc[r] # "idle" /\ faults < MaxFaults
    /\ faults' = faults + 1 /\ StopJob(r)
    /\ UNCHANGED <<version, time, named, archive, manifest, remote, local, offsite>>

BackupNext ==
    \/ CommitChain \/ Tick
    \/ \E r \in Runner :
          \/ Tar(r) \/ ChainVersions(r) \/ Rename(r) \/ Describe(r) \/ Rotate(r) \/ RemoveOld(r)
          \/ LocalReceipt(r) \/ Push(r) \/ Offsite(r) \/ Killed(r)

BackupSpec == BackupInit /\ [][BackupNext]_backupVars

\* What is written about the copies is true: no backup is due only while the
\* last one is readable offsite, and an archive holds no commit its sidecar
\* leaves out, although commands commit while both are made.
RecordedIsStored ==
    /\ ~Due => remote[offsite.stamp] = "good"
    /\ \A n \in Archives : manifest[n] # None => archive[n] <= manifest[n]
=============================================================================
