SPECIFICATION Spec
CONSTANTS
    PassportId = {p1, p2}
    ProfileId = {f1}
    Version = {v1, v2}
    Payload <- MCPayload
    Time = {0, 1}
    Legal <- MCLegal
    SealRefuses = {"backdated"}
    CrashDamage = {"none", "complete"}
    ErrorDamage = {"none"}
    MaxLog = 5
    MaxCrashes = 2
    MaxDamage = 0
SYMMETRY Symmetry
CHECK_DEADLOCK FALSE
INVARIANTS
    TypeOK
    MemoryIsJournal
    GapFree
    AckedSurvives
    AckedEventSealed
    SignaturesVerify
    BindingsResolve
PROPERTIES
    NothingEdited
    ImplementsTrail
