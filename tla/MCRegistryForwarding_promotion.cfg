SPECIFICATION Spec
CONSTANTS
    Request = {r1, r2}
    ProfileId = {f1}
    Version = {v1}
    MaxCrashes = 0
CHECK_DEADLOCK FALSE
INVARIANTS
    AcceptedIsJournaled
