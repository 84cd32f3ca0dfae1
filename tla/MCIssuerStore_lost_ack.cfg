SPECIFICATION Spec
CONSTANTS
    PassportId = {p1}
    ProfileId = {f1}
    Version = {v1}
    Payload <- OnePayload
    Time = {0}
    Legal <- MCLegal
    SealRefuses = {}
    CrashDamage = {"none", "torn"}
    ErrorDamage = {"none"}
    MaxLog = 3
    MaxCrashes = 2
    MaxDamage = 1
CHECK_DEADLOCK FALSE
INVARIANTS
    AckedSurvives
