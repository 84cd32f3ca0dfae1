--------------------------------- MODULE MCReads ---------------------------------
(* A small instance of Reads for TLC.                                       *)
EXTENDS Reads, TLC

\* Windows that begin now, in the past or in the future, with and without an end.
MCWindow ==
    [from : {{}, {0}, {2}}, until : {{}, {1}}, retroactive : {FALSE}]
    \cup [from : {{0}}, until : {{}}, retroactive : {TRUE}]

Symmetry == Permutations(Request)
================================================================================
