SPECIFICATION Spec
CONSTANTS
    Request = {r1, r2, r3}
    ProfileId = {f1}
    Version = {v1, v2}
    MaxCrashes = 1
SYMMETRY Symmetry
CHECK_DEADLOCK FALSE
INVARIANTS
    TypeOK
    NoFalseAuthority
    CreatedIffRecorded
    NoLateRefusal
    OrdersAgree
PROPERTIES
    KeepsTrail
