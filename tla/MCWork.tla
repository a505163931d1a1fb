-------------------------------- MODULE MCWork --------------------------------
(* The instances of WorkModel that TLC checks, side by side: the one of the *)
(* configuration, a hierarchy of work that takes every option, and one of   *)
(* releases, which nothing but their name tells apart, with a conference    *)
(* and a gate.  The properties are those of WorkModel, which quantify over  *)
(* what the records of either side hold.                                    *)
EXTENDS WorkModel, TLC

CONSTANTS initiative, epic, story, incident, release1, release2,
          p1, p2, p3, c1, q1, m1, g1, k1, owner, agent

VARIABLE side

MCKindOf ==
  [w \in Works |-> CASE w = initiative -> "Initiative"
                      [] w = epic -> "Epic"
                      [] w = story -> "Story"
                      [] w = incident -> "Incident"
                      [] OTHER -> "Release"]

Gated == INSTANCE WorkModel WITH
    Projects <- {p3}, Works <- {release1, release2}, Conferences <- {c1},
    Positions <- {}, Minutes <- {m1}, Gates <- {g1},
    KindOf <- [w \in {release1, release2} |-> "Release"],
    Actors <- {owner, agent}, Permitted <- {owner}, Captions <- {k1},
    CreateStatuses <- {"active"}, Advised <- {}, MaxRecords <- 5

MCInit ==
  \/ side = "hierarchy" /\ Init
  \/ side = "gates" /\ Gated!Init

MCNext ==
  /\ UNCHANGED side
  /\ \/ side = "hierarchy" /\ Next
     \/ side = "gates" /\ Gated!Next

MCWorkSymmetry == Permutations({release1, release2}) \cup Permutations({p1, p2})

MCSpec == MCInit /\ [][MCNext]_<<vars, side>>
=============================================================================
