SPECIFICATION FairSpec
CONSTANTS
    Request = {r1, r2}
    ProfileId = {f1}
    Version = {v1}
    MaxCrashes = 1
CHECK_DEADLOCK FALSE
PROPERTIES
    RequestAnswered
