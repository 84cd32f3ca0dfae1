----------------------------- MODULE MCSigningKeys -----------------------------
(* A small instance of SigningKeys for TLC.                                   *)
EXTENDS SigningKeys, TLC

\* A slot can be too large by itself, and two fit beside the short payload of an empty log,
\* which has no head to carry.
MCFits(slots, sealed) ==
    /\ \A i \in DOMAIN slots : slots[i].suite # "ml-dsa-65"
    /\ Len(slots) <= 1 \/ sealed = <<>>

\* Bodies are only ever compared with each other.
Symmetry == Permutations(Body)
================================================================================
