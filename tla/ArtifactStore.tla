--------------------------- MODULE ArtifactStore ----------------------------
(***************************************************************************)
(* The artifact store of packages/core/src/artifact-store.ts: files kept   *)
(* in a directory outside the workspace, each named for the digest of its  *)
(* content, and a manifest in the control tree that says which there are.  *)
(*                                                                         *)
(* The directory is a synced one: a write may not land, or land changed.   *)
(* What is in a blob is only known by reading it back, inflating it and    *)
(* hashing it; a blob is "good", "bad" or absent ("none") in that sense.   *)
(* The setting storage.artifacts.root may name another directory at any    *)
(* time; a put uses the one it read when it started.                       *)
(***************************************************************************)
EXTENDS Integers, FiniteSets

CONSTANTS Process, None,
          Digest,        \* contents put
          Root,          \* directories the setting may name
          MaxFaults      \* kills and writes the storage does not keep

VARIABLES lease,         \* who holds the workspace lease
          setting,       \* the effective artifact root
          blob,          \* blob[root][digest]
          index,         \* the digests in the manifest
          pc, put,       \* put[p]: root, digest and the manifest p has read
          faults

artifactVars == <<lease, setting, blob, index, pc, put, faults>>

NoPut == [root |-> None, digest |-> None, read |-> {}]

ArtifactInit ==
    /\ lease = None /\ setting \in Root
    /\ blob = [r \in Root |-> [d \in Digest |-> "none"]]
    /\ index = {}
    /\ pc = [p \in Process |-> "idle"]
    /\ put = [p \in Process |-> NoPut]
    /\ faults = 0

\* artifact-put takes the lease; putArtifact asserts it and reads the root.
PutStart(p) ==
    /\ pc[p] = "idle" /\ lease = None
    /\ lease' = p
    /\ \E d \in Digest : put' = [put EXCEPT ![p] = [root |-> setting, digest |-> d, read |-> {}]]
    /\ pc' = [pc EXCEPT ![p] = "look"]
    /\ UNCHANGED <<setting, blob, index, faults>>

Current(p) == blob[put[p].root][put[p].digest]
End(p) == /\ pc' = [pc EXCEPT ![p] = "idle"]
          /\ put' = [put EXCEPT ![p] = NoPut]
          /\ lease' = IF lease = p THEN None ELSE lease
Goto(p, next) == pc' = [pc EXCEPT ![p] = next] /\ UNCHANGED <<put, lease>>

\* Mutant: a blob that is there is taken for the content it is named for.
DedupeByName(p) ==
    /\ pc[p] = "look"
    /\ \/ Current(p) = "none" /\ Goto(p, "write")
       \/ Current(p) # "none" /\ Goto(p, "manifest")
    /\ UNCHANGED <<setting, blob, index, faults>>

\* A blob that is already there is read back before it is trusted.
Look(p) ==
    /\ pc[p] = "look"
    /\ \/ Current(p) = "none" /\ Goto(p, "write")
       \/ Current(p) = "good" /\ Goto(p, "manifest")
       \/ Current(p) = "bad" /\ End(p)
    /\ UNCHANGED <<setting, blob, index, faults>>

\* writeAtomic of the blob; the storage may lose or change it.
WriteBlob(p) ==
    /\ pc[p] = "write"
    /\ \E kept \in {"good", "bad", "none"} :
          /\ kept # "good" => faults < MaxFaults
          /\ faults' = IF kept = "good" THEN faults ELSE faults + 1
          /\ blob' = [blob EXCEPT ![put[p].root][put[p].digest] = kept]
    /\ Goto(p, "verify")
    /\ UNCHANGED <<setting, index>>

\* The read-back; what does not match is removed again.
ReadBack(p) ==
    /\ pc[p] = "verify"
    /\ \/ Current(p) = "good" /\ Goto(p, "manifest") /\ UNCHANGED blob
       \/ /\ Current(p) # "good" /\ End(p)
          /\ blob' = [blob EXCEPT ![put[p].root][put[p].digest] = "none"]
    /\ UNCHANGED <<setting, index, faults>>

ReadManifest(p) ==
    /\ pc[p] = "manifest"
    /\ put' = [put EXCEPT ![p].read = index]
    /\ pc' = [pc EXCEPT ![p] = "commit"]
    /\ UNCHANGED <<lease, setting, blob, index, faults>>

\* An entry of the same digest is replaced by the new one.
WriteManifest(p) ==
    /\ pc[p] = "commit"
    /\ index' = put[p].read \cup {put[p].digest}
    /\ End(p)
    /\ UNCHANGED <<setting, blob, faults>>

\* A kill; the lease of a dead command is recovered by the next.
Die(p) ==
    /\ pc[p] # "idle" /\ faults < MaxFaults
    /\ faults' = faults + 1
    /\ End(p)
    /\ UNCHANGED <<setting, blob, index>>

\* storage.artifacts.root is set, under the lease like every setting.
MoveRoot ==
    /\ lease = None
    /\ \E r \in Root \ {setting} : setting' = r
    /\ UNCHANGED <<lease, blob, index, pc, put, faults>>

\* artifact-list and artifact-verify read the manifest against the root in force.
Unindexed == {d \in Digest : blob[setting][d] # "none" /\ d \notin index}
Findings == {d \in index : blob[setting][d] # "good"}

ArtifactNext ==
    \/ MoveRoot
    \/ \E p \in Process :
          \/ PutStart(p) \/ Look(p) \/ WriteBlob(p) \/ ReadBack(p)
          \/ ReadManifest(p) \/ WriteManifest(p) \/ Die(p)

ArtifactSpec == ArtifactInit /\ [][ArtifactNext]_artifactVars

\* What the manifest names was proved where it was put: whatever the storage
\* did to blobs before they were indexed, and whoever was killed in between,
\* an indexed content is whole in one of the roots.
RecordedIsStored == \A d \in index : \E r \in Root : blob[r][d] = "good"

=============================================================================
