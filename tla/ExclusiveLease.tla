---------------------------- MODULE ExclusiveLease ----------------------------
(***************************************************************************)
(* What the workspace lease promises its users: at most one holder, and a  *)
(* holder keeps the lease until it gives it back or stops running.         *)
(***************************************************************************)
CONSTANTS Proc, NoProc

VARIABLES
    holder,   \* the process the lease is granted to
    up        \* the processes that are running

Init == /\ holder \in Proc \cup {NoProc}
        /\ up \subseteq Proc
        /\ holder \notin up

Grant(p) == /\ holder = NoProc
            /\ p \in up
            /\ holder' = p
            /\ UNCHANGED up

(* A command may end with the release of its lease. *)
Return(p) == /\ holder = p
             /\ p \in up
             /\ holder' = NoProc
             /\ up' \in {up, up \ {p}}

Expel == /\ holder \notin up
         /\ holder' = NoProc
         /\ UNCHANGED up

Stop(p) == up' = up \ {p} /\ UNCHANGED holder

Begin(p) == up' = up \cup {p} /\ holder # p /\ UNCHANGED holder

Next == \/ \E p \in Proc : Grant(p) \/ Return(p) \/ Stop(p) \/ Begin(p)
        \/ Expel

Spec == Init /\ [][Next]_<<holder, up>>
=============================================================================
