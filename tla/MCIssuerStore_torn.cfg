SPECIFICATION Spec
CONSTANTS
    PassportId = {p1}
    ProfileId = {f1}
    Version = {v1}
    Payload <- MCPayload
    Time = {0}
    Legal <- MCLegal
    SealRefuses = {"gap"}
    CrashDamage = {"none", "torn", "cut", "unterminated", "complete"}
    ErrorDamage = {"none", "torn", "cut", "unterminated"}
    MaxLog = 4
    MaxCrashes = 2
    MaxDamage = 2
CHECK_DEADLOCK FALSE
INVARIANTS
    LossBound
    StatusChain
    NumbersDrift
