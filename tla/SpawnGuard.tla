----------------------------- MODULE SpawnGuard -----------------------------
(***************************************************************************)
(* The background loads of a session (spawn-guard.mjs over                 *)
(* background-resource.ts): a task registers the process group of what it  *)
(* starts, deregisters it once the group is terminal, and a detection      *)
(* compares the registry with the process table.  The registry is a file   *)
(* of lines; a registration is appended, a deregistration reads the file,  *)
(* writes another and renames it into place.                               *)
(*                                                                         *)
(* The command lines of a group's processes match the pattern it is        *)
(* registered with.  Group 0 stands for every group nobody registers.  No   *)
(* reader looks at the order of the lines or counts them: they are a set.   *)
(***************************************************************************)
EXTENDS Naturals, FiniteSets

CONSTANTS
    Group, Purpose, Pid,
    Dereg,                  \* the deregistrations that may be in flight
    Overlapping,            \* whether a registration may fall into one
    MaxLines, MaxSpawns, MaxTorn   \* bounds

VARIABLES
    registry,   \* the lines: [pgid, purpose], or Torn
    process,    \* by pid: none, or [group, of, orphan], of the group whose load it runs
    owed,       \* the registrations that were made and not taken back
    dereg,      \* by deregistration: what it is about and where it is
    detect,     \* the detection in flight
    answer,     \* the last report: none, or [owed, table, residue]
    spawns, torn

vars == <<registry, process, owed, dereg, detect, answer, spawns, torn>>

Gone == [group |-> 0, of |-> 0, orphan |-> FALSE]
Idle == [at |-> "idle"]

Live == {p \in Pid : process[p] # Gone}

Entry(pgid, purpose) == [pgid |-> pgid, purpose |-> purpose]

Torn == Entry(0, "torn")

(* parseRegistry fails on any line that is torn, parseRegistryLenient drops *)
(* it.                                                                      *)
Whole(lines) == Torn \notin lines
Lenient(lines) == lines \ {Torn}

-----------------------------------------------------------------------------
(* The processes of the host.                                               *)

Spawn ==
    /\ spawns < MaxSpawns /\ spawns' = spawns + 1
    /\ \E p \in Pid \ Live, g \in Group :
          process' = [process EXCEPT ![p] = [group |-> g, of |-> g, orphan |-> FALSE]]
    /\ answer' = {} /\ UNCHANGED <<registry, owed, dereg, detect, torn>>

(* A process ends, loses its parent, or leaves its group (setsid).          *)
Turn ==
    /\ \E p \in Live :
          \E q \in {Gone, [process[p] EXCEPT !.orphan = TRUE], [process[p] EXCEPT !.group = 0]} :
              q # process[p] /\ process' = [process EXCEPT ![p] = q]
    /\ answer' = {} /\ UNCHANGED <<registry, owed, dereg, detect, spawns, torn>>

-----------------------------------------------------------------------------
(* appendRegistration: one write at the end of the file.                    *)
Register ==
    /\ Cardinality(registry) < MaxLines
    /\ Overlapping \/ \A d \in Dereg : dereg[d].at # "rename"
    /\ \E g \in Group, purpose \in Purpose :
          /\ registry' = registry \cup {Entry(g, purpose)}
          /\ owed' = owed \cup {Entry(g, purpose)}
    /\ answer' = {} /\ UNCHANGED <<process, dereg, detect, spawns, torn>>

(* Someone edits the file, or leaves half a line.                           *)
Tear ==
    /\ torn < MaxTorn /\ torn' = torn + 1 /\ Cardinality(registry) < MaxLines
    /\ registry' = registry \cup {Torn}
    /\ answer' = {} /\ UNCHANGED <<process, owed, dereg, detect, spawns>>

(* commandDeregister: with a purpose the group must be terminal, by a table *)
(* that is read after the registry; without one it is not looked at.        *)
BeginDeregister ==
    /\ \E d \in Dereg, g \in Group, purposes \in {{}} \cup {{x} : x \in Purpose} :
          /\ dereg[d] = Idle
          /\ \A x \in purposes : Whole(registry) /\ Entry(g, x) \in registry
          /\ dereg' = [dereg EXCEPT ![d] =
                [at |-> IF purposes = {} THEN "read" ELSE "look", pgid |-> g,
                 purposes |-> purposes]]
    /\ answer' = {} /\ UNCHANGED <<registry, process, owed, detect, spawns, torn>>

LookTerminal ==
    /\ \E d \in Dereg :
          /\ dereg[d].at = "look"
          /\ dereg' = [dereg EXCEPT ![d] =
                IF \E p \in Live : process[p].group = dereg[d].pgid THEN Idle
                ELSE [dereg[d] EXCEPT !.at = "read"]]
    /\ answer' = {} /\ UNCHANGED <<registry, process, owed, detect, spawns, torn>>

(* Mutant: whoever registered the group, its lines go.                      *)
NamesGroup(d, l) == l.pgid = d.pgid

Names(d, l) == l.pgid = d.pgid /\ (d.purposes # {} => l.purpose \in d.purposes)

(* removeRegistration: the file is read again, leniently ...                *)
ReadRegistry ==
    /\ \E d \in Dereg :
          /\ dereg[d].at = "read"
          /\ LET lines == Lenient(registry)
             IN  dereg' = [dereg EXCEPT ![d] =
                    IF dereg[d].purposes # {} /\ \A l \in lines : ~Names(dereg[d], l) THEN Idle
                    ELSE [at |-> "rename", pgid |-> dereg[d].pgid, purposes |-> dereg[d].purposes,
                          kept |-> {l \in lines : ~Names(dereg[d], l)}]]
    /\ answer' = {} /\ UNCHANGED <<registry, process, owed, detect, spawns, torn>>

(* ... and replaced by what was kept of it.                                 *)
Replace ==
    /\ \E d \in Dereg :
          /\ dereg[d].at = "rename"
          /\ registry' = dereg[d].kept
          /\ owed' = {l \in owed : ~(/\ l.pgid = dereg[d].pgid
                                     /\ dereg[d].purposes = {} \/ l.purpose \in dereg[d].purposes)}
          /\ dereg' = [dereg EXCEPT ![d] = Idle]
    /\ answer' = {} /\ UNCHANGED <<process, detect, spawns, torn>>

-----------------------------------------------------------------------------
(* commandDetect reads the registry, strictly, and then the table; the      *)
(* owner of no registration is told that nothing can be said.               *)
BeginDetect ==
    /\ detect = Idle /\ Whole(registry)
    /\ \E purposes \in {{}} \cup {{x} : x \in Purpose} :
          LET mine == {l \in registry : purposes # {} => l.purpose \in purposes}
          IN  /\ purposes # {} => mine # {}
              /\ detect' = [at |-> "table", purposes |-> purposes, registered |-> mine, owed |-> owed]
    /\ answer' = {} /\ UNCHANGED <<registry, process, owed, dereg, spawns, torn>>

(* detectResidue: a member of a registered group, or an orphan of a         *)
(* registered command; a task is told of its groups only.                   *)
Residue(registered, scoped) ==
    {p \in Live : \/ \E l \in registered : l.pgid = process[p].group
                  \/ ~scoped /\ process[p].orphan /\ \E l \in registered : l.pgid = process[p].of}

Detect ==
    /\ detect.at = "table"
    /\ answer' = {[owed |-> detect.owed, purposes |-> detect.purposes, table |-> process,
                   residue |-> Residue(detect.registered, detect.purposes # {})]}
    /\ detect' = Idle
    /\ UNCHANGED <<registry, process, owed, dereg, spawns, torn>>

GuardInit ==
    /\ registry = {} /\ owed = {} /\ process = [p \in Pid |-> Gone]
    /\ dereg = [d \in Dereg |-> Idle] /\ detect = Idle /\ answer = {}
    /\ spawns = 0 /\ torn = 0

GuardNext ==
    \/ Spawn \/ Turn \/ Register \/ Tear
    \/ BeginDeregister \/ LookTerminal \/ ReadRegistry \/ Replace
    \/ BeginDetect \/ Detect

GuardSpec == GuardInit /\ [][GuardNext]_vars

-----------------------------------------------------------------------------
(* A report names every process of a group that was registered when it      *)
(* began and that nobody who owns it had deregistered, whatever other       *)
(* owners deregistered meanwhile and whatever lines were torn; and, unless  *)
(* one task asked, every orphan that runs such a group's command.           *)
LoadsAreReported ==
    \A r \in answer : \A l \in r.owed : \A p \in Pid :
      /\ r.purposes = {} \/ l.purpose \in r.purposes
      /\ r.table[p] # Gone
      /\ \/ r.table[p].group = l.pgid
         \/ r.purposes = {} /\ r.table[p].orphan /\ r.table[p].of = l.pgid
      => p \in r.residue
=============================================================================
