SPECIFICATION Spec
CONSTANTS
    PassportId = {p1}
    ProfileId = {f1}
    Version = {v1}
    Payload <- OnePayload
    Time = {0, 1}
    Legal <- MCLegal
    SealRefuses = {"gap", "backdated"}
    CrashDamage = {"none"}
    ErrorDamage = {"none"}
    MaxLog = 3
    MaxCrashes = 2
    MaxDamage = 0
CHECK_DEADLOCK FALSE
INVARIANTS
    AckedMonotonic
