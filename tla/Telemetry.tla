------------------------------- MODULE Telemetry -------------------------------
(***************************************************************************)
(* Telemetry (packages/core/src/telemetry.ts, with the dispatch hook, the   *)
(* injection script and the command line that write it and the fitness      *)
(* report of knowledge-core.ts that counts it): one file of lines a day,    *)
(* under a lock directory of that day.  A lock is waited for and never      *)
(* taken over; a reader takes none.  The writers all fail open.            *)
(*                                                                         *)
(* A line has no newline of its own: an append begins with one when the     *)
(* file does not end with one, so what a kill left half written is a line   *)
(* of its own, which readers report as a problem and pass over.            *)
(***************************************************************************)
EXTENDS Naturals, Sequences, FiniteSets, FiniteSetsExt

CONSTANTS
    Process,
    Record, Day, DayOf,    \* the records, and the day each is dated
    Names,                 \* the artifact ids a record names
    Links,                 \* what each card is linked to
    Model, Unset,
    MaxKills, MaxReads

Torn == 0                  \* half a line; the records are numbered from 1
Unknown == "unknown"

VARIABLES
    lines,     \* the lines of each day's file
    lock,      \* the process whose directory locks the day, or Unset
    proc,      \* the appends in flight
    reader,    \* the reader in flight
    told,      \* history: the records whose append was answered, not pruned since
    seen,      \* the model a host's stop event was seen to name
    kills, reads

vars == <<lines, lock, proc, reader, told, seen, kills, reads>>

Idle == [at |-> "idle"]
Quiet == [left |-> {}, got |-> {}, twice |-> FALSE, owed |-> {}, at |-> "idle"]
Nothing == [value |-> Unset, status |-> Unknown, explicit |-> <<>>, generic |-> <<>>]

TelemetryInit ==
  /\ lines = [d \in Day |-> <<>>] /\ lock = [d \in Day |-> Unset]
  /\ proc = [p \in Process |-> Idle] /\ reader = Quiet
  /\ told = {} /\ seen = Nothing /\ kills = 0 /\ reads = 0

Holds(d) == {lines[d][i] : i \in DOMAIN lines[d]}

Times(d, r) == Cardinality({i \in DOMAIN lines[d] : lines[d][i] = r})

-----------------------------------------------------------------------------
(* Appending.                                                              *)

Begin(p, r) ==
  /\ proc[p].at = "idle" /\ seen = Nothing
  /\ proc' = [proc EXCEPT ![p] = [at |-> "waiting", rec |-> r]]
  /\ UNCHANGED <<lines, lock, reader, told, seen, kills, reads>>

Lock(p) ==
  /\ proc[p].at = "waiting"
  /\ LET d == DayOf[proc[p].rec]
     IN lock[d] = Unset /\ lock' = [lock EXCEPT ![d] = p]
  /\ proc' = [proc EXCEPT ![p] = [@ EXCEPT !.at = "locked"]]
  /\ UNCHANGED <<lines, reader, told, seen, kills, reads>>

(* TELEMETRY_LOCKED, after two seconds; the caller goes on without a record. *)
GiveUp(p) ==
  /\ proc[p].at = "waiting" /\ lock[DayOf[proc[p].rec]] # Unset
  /\ proc' = [proc EXCEPT ![p] = Idle]
  /\ UNCHANGED <<lines, lock, reader, told, seen, kills, reads>>

(* Mutant: the file is read for the record before the lock is taken.        *)
LookUnlocked(p) ==
  /\ proc[p].at \in {"waiting", "locked"}
  /\ LET r == proc[p].rec
     IN proc' = [proc EXCEPT ![p] =
                   [at |-> IF proc[p].at = "waiting" THEN "waiting" ELSE "looked", rec |-> r,
                    found |-> r \in Holds(DayOf[r]) /\ proc[p].at = "waiting"]]
  /\ UNCHANGED <<lines, lock, reader, told, seen, kills, reads>>

(* The file is read under the lock: a record of the same id is a duplicate. *)
Look(p) ==
  /\ proc[p].at = "locked"
  /\ LET r == proc[p].rec
     IN proc' = [proc EXCEPT ![p] = [at |-> "looked", rec |-> r, found |-> r \in Holds(DayOf[r])]]
  /\ UNCHANGED <<lines, lock, reader, told, seen, kills, reads>>

Write(p) ==
  /\ proc[p].at = "looked"
  /\ LET r == proc[p].rec  d == DayOf[r]
     IN /\ lines' = IF proc[p].found THEN lines ELSE [lines EXCEPT ![d] = Append(@, r)]
        /\ proc' = [proc EXCEPT ![p] = [at |-> "written", rec |-> r, found |-> proc[p].found]]
  /\ UNCHANGED <<lock, reader, told, seen, kills, reads>>

(* Whoever's directory lies at the path is removed; the append is answered. *)
Unlock(p) ==
  /\ proc[p].at = "written"
  /\ LET r == proc[p].rec
     IN /\ lock' = [lock EXCEPT ![DayOf[r]] = Unset]
        /\ told' = IF r \in Holds(DayOf[r]) THEN told \cup {r} ELSE told
  /\ proc' = [proc EXCEPT ![p] = Idle]
  /\ UNCHANGED <<lines, reader, seen, kills, reads>>

(* A kill leaves the lock where it is, and half a line if it was writing.   *)
Kill(p) ==
  /\ kills < MaxKills /\ kills' = kills + 1
  /\ proc[p].at # "idle"
  /\ \/ UNCHANGED lines
     \/ /\ proc[p].at = "looked" /\ ~proc[p].found
        /\ lines' = [lines EXCEPT ![DayOf[proc[p].rec]] = Append(@, Torn)]
  /\ proc' = [proc EXCEPT ![p] = Idle]
  /\ UNCHANGED <<lock, reader, told, seen, reads>>

-----------------------------------------------------------------------------
(* Pruning and reading.                                                    *)

(* A day the manifest names closed, old enough, goes whatever its lock says. *)
Prune(d) ==
  /\ lines[d] # <<>>
  /\ lines' = [lines EXCEPT ![d] = <<>>]
  /\ told' = {r \in told : DayOf[r] # d}
  /\ reader' = [reader EXCEPT !.owed = {r \in @ : DayOf[r] # d}]
  /\ UNCHANGED <<lock, proc, seen, kills, reads>>

(* The names are listed first and the files read one at a time; a file that  *)
(* is pruned in between fails the reading.                                  *)
List ==
  /\ reader.at = "idle" /\ seen = Nothing /\ reads < MaxReads /\ reads' = reads + 1
  /\ reader' = [left |-> {d \in Day : lines[d] # <<>>}, got |-> {}, twice |-> FALSE,
                owed |-> told, at |-> "reading"]
  /\ UNCHANGED <<lines, lock, proc, told, seen, kills>>

ReadDay(d) ==
  /\ reader.at = "reading" /\ d \in reader.left
  /\ reader' = IF lines[d] = <<>> THEN Quiet
               ELSE [reader EXCEPT !.left = @ \ {d}, !.got = @ \cup (Holds(d) \ {Torn}),
                                   !.twice = @ \/ \E r \in Record : Times(d, r) > 1]
  /\ UNCHANGED <<lines, lock, proc, told, seen, kills, reads>>

Answer ==
  /\ reader.at = "reading" /\ reader.left = {}
  /\ reader' = [reader EXCEPT !.at = "answered"]
  /\ UNCHANGED <<lines, lock, proc, told, seen, kills, reads>>

Forget ==
  /\ reader.at = "answered" /\ reader' = Quiet
  /\ UNCHANGED <<lines, lock, proc, told, seen, kills, reads>>

(* The fitness report: every id a record names counts for the cards linked   *)
(* to it, once for each id.                                                 *)
Uses(got, c) ==
  MapThenSumSet(LAMBDA r : Cardinality(Names[r] \cap ({c} \cup Links[c])), got)

-----------------------------------------------------------------------------
(* What the hook takes for the observed model: a host names it in several    *)
(* places, in a field for it or in a general one; two models are none.      *)

Known(s) == {s[i] : i \in DOMAIN s} \ {Unknown}

Observed(explicit, generic) ==
  LET all == explicit \o generic
      two == Cardinality(Known(explicit) \cup Known(generic)) > 1
  IN [value |-> IF two \/ all = <<>> THEN Unset ELSE all[1],
      status |-> IF two THEN "ambiguous"
                 ELSE IF all = <<>> \/ all[1] = Unknown THEN Unknown ELSE "available",
      explicit |-> explicit, generic |-> generic]

Few(S) == {<<>>} \cup {<<x>> : x \in S} \cup {<<x, y>> : x, y \in S}

(* It touches no file, and is looked at before any append begins.           *)
Observe ==
  /\ vars = <<[d \in Day |-> <<>>], [d \in Day |-> Unset], [p \in Process |-> Idle],
              Quiet, {}, Nothing, 0, 0>>
  /\ \E e, g \in Few(Model \cup {Unknown}) : seen' = Observed(e, g)
  /\ UNCHANGED <<lines, lock, proc, reader, told, kills, reads>>

TelemetryNext ==
  \/ \E p \in Process :
       \/ Lock(p) \/ GiveUp(p) \/ Look(p) \/ Write(p) \/ Unlock(p) \/ Kill(p)
       \/ \E r \in Record : Begin(p, r)
  \/ \E d \in Day : Prune(d) \/ ReadDay(d)
  \/ List \/ Answer \/ Forget \/ Observe

TelemetrySpec == TelemetryInit /\ [][TelemetryNext]_vars

-----------------------------------------------------------------------------
(* A reader that answers has every record whose append was answered before    *)
(* it began and that was not pruned since, each once.                       *)
RecordsAreReadOnce ==
  reader.at = "answered" => reader.owed \subseteq reader.got /\ ~reader.twice

(* No model is recorded as observed while the event names another.          *)
ModelIsUndisputed ==
  seen.value \notin {Unset, Unknown} =>
    Known(seen.explicit) \cup Known(seen.generic) = {seen.value}

ObservationsAreTrue == RecordsAreReadOnce /\ ModelIsUndisputed

(* A day whose writer was killed takes records again: false, its lock stays. *)
LocksHaveHolders ==
  \A d \in Day : lock[d] # Unset =>
    proc[lock[d]].at \in {"locked", "looked", "written"} /\ DayOf[proc[lock[d]].rec] = d

(* A record counts once for a card: false of one that names two of its ids.  *)
UsesCountRecords ==
  reader.at = "answered" =>
    \A c \in DOMAIN Links :
      Uses(reader.got, c) =
        Cardinality({r \in reader.got : Names[r] \cap ({c} \cup Links[c]) # {}})

(* The one model an event knows is recorded: false when an earlier field      *)
(* says it is unknown.                                                      *)
KnownModelIsRecorded ==
  \A m \in Model :
    Known(seen.explicit) \cup Known(seen.generic) = {m} => seen.value = m
=============================================================================
