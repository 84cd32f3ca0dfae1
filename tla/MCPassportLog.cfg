SPECIFICATION Spec
CONSTANTS
    Payload <- MCPayload
    Time = {0, 1}
    Legal <- MCLegal
    SealRefuses = {"gap", "backdated"}
    MaxEvents = 4
CHECK_DEADLOCK FALSE
INVARIANTS
    ReplayMeaning
    ViewIsOneLog
PROPERTIES
    SafetyNeverClears
    SettledViewsStand
