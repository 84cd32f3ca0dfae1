-------------------------- MODULE MCRegistryForwarding --------------------------
(* Small instances of RegistryForwarding for TLC.                           *)
EXTENDS RegistryForwarding, TLC

\* Requests and versions are interchangeable; liveness is checked without this.
Symmetry == Permutations(Request) \cup Permutations(Version)
================================================================================
