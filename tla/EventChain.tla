------------------------------ MODULE EventChain ------------------------------
(***************************************************************************)
(* What a workspace promises of its events: the chain only grows, by       *)
(* events that continue it, and an event reported to its caller is in it.  *)
(***************************************************************************)
EXTENDS Naturals, Sequences

VARIABLES
    chain,   \* the committed events, each with its sequence number
    acked    \* the events whose append was reported as done

Init == chain = <<>> /\ acked = {}

Extended == /\ Len(chain') >= Len(chain)
            /\ SubSeq(chain', 1, Len(chain)) = chain
            /\ \A i \in Len(chain) + 1 .. Len(chain') : chain'[i].seq = i

Reported == /\ acked \subseteq acked'
            /\ \A e \in acked' \ acked : \E i \in 1..Len(chain') : chain'[i] = e

Next == Extended /\ Reported

Spec == Init /\ [][Next]_<<chain, acked>>
=============================================================================
