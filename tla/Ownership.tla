------------------------------ MODULE Ownership ------------------------------
(***************************************************************************)
(* What a descriptor promises its sharer (spec.md 3 and 4.3), with the     *)
(* views of the plug-ins left out: a data descriptor holds the buffers     *)
(* shared on it and not yet taken back, last shared on top; a metadata     *)
(* descriptor holds one value, the last buffer shared, which survives a    *)
(* reclaim as a copy and is retired by the next share.                     *)
(***************************************************************************)
EXTENDS Sequences, SequencesExt

CONSTANTS Names, Buffers

VARIABLES
    shared,    \* shared[n]: the values held for the sharer, last on top
    metadata   \* metadata[n]: whether n is a metadata descriptor

\* A value: the sharer's buffer, or a PDI copy of its bytes
Val == [buf: Buffers, copy: BOOLEAN]

Share(n, b) ==
    /\ shared' = [shared EXCEPT ![n] =
                    IF metadata[n] THEN <<[buf |-> b, copy |-> FALSE]>>
                    ELSE Append(@, [buf |-> b, copy |-> FALSE])]
    /\ UNCHANGED metadata

Reclaim(n) ==
    /\ shared[n] # <<>>
    /\ shared' = [shared EXCEPT ![n] =
                    IF metadata[n] THEN Front(@) \o <<[Last(@) EXCEPT !.copy = TRUE]>>
                    ELSE Front(@)]
    /\ UNCHANGED metadata

Release(n) ==
    /\ shared[n] # <<>>
    /\ shared' = [shared EXCEPT ![n] = Front(@)]
    /\ UNCHANGED metadata

Init ==
    /\ shared = [n \in Names |-> <<>>]
    /\ metadata \in [Names -> BOOLEAN]

Next == \E n \in Names : \/ \E b \in Buffers : Share(n, b)
                         \/ Reclaim(n)
                         \/ Release(n)

Spec == Init /\ [][Next]_<<shared, metadata>>
=============================================================================
