----------------------------- MODULE MCIssuerStore -----------------------------
(* Small instances of IssuerStore for TLC.                                  *)
EXTENDS IssuerStoreTrail, TLC

\* The transitions the repository's tests exercise.
MCLegal == {<<"Issued", "Suspended">>, <<"Suspended", "Invalidated">>,
            <<"Issued", "Invalidated">>}

Change(from, to) == [type |-> "StatusChange", from |-> from, to |-> to]

\* Payloads that set the status with and without a check, and one that does not.
MCPayload == {Change("Issued", "Suspended"), Change("Suspended", "Invalidated"),
              [type |-> "Issuance"]}

OnePayload == {[type |-> "Other"]}

Symmetry == Permutations(PassportId) \cup Permutations(Version)
================================================================================
