------------------------------ MODULE JoinTable ------------------------------
(***************************************************************************)
(* What the build-side table of a hash join promises its probe: a bag of   *)
(* (key, row) pairs, kept as the number of times each pair was inserted.   *)
(* Each insert(resources) adds one pair; lookup(key) followed by the entry *)
(* chain yields every row stored under key, as often as it was inserted,   *)
(* and nothing else.  How the rows are laid out (slots, evictions,         *)
(* rehashes, chains) is left to the implementation.  `inserted` records   *)
(* the requests, so that a step which records an insert of (k, v) must    *)
(* add that pair and no other: an insert may not be lost or filed under   *)
(* another key.                                                            *)
(***************************************************************************)
EXTENDS Naturals, Sequences

CONSTANTS Keys, Vals

VARIABLES
    stored,   \* stored[<<k, v>>]: how many rows v are held under key k
    inserted  \* the (key, row) requests so far, in order

Init == stored = [kv \in Keys \X Vals |-> 0] /\ inserted = << >>

\* insert(resources): one more row v under key k.
Insert(k, v) ==
    /\ stored' = [stored EXCEPT ![<<k, v>>] = @ + 1]
    /\ inserted' = Append(inserted, <<k, v>>)

Next == \E k \in Keys, v \in Vals : Insert(k, v)

Spec == Init /\ [][Next]_<<stored, inserted>>
=============================================================================
