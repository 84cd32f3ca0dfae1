SPECIFICATION Spec
CONSTANTS
    Suite = {"ed25519", "ecdsa-p256", "sm2", "ml-dsa-65"}
    Carrier = {"ecdsa-p256", "sm2", "ml-dsa-65"}
    Computed = {"ed25519", "ecdsa-p256", "sm2", "ml-dsa-65"}
    Fits <- MCFits
    Seed = {"s1"}
    BadSeed = {"short"}
    DevSeed = {"unidpp-issuer/dev-1"}
    Body = {b1, b2}
    Entry = {"e1"}
    MayRefuse = TRUE
    MaxTokens = 2
    MaxOverride = 1
    MaxEvents = 2
    MaxBoots = 2
SYMMETRY Symmetry
CHECK_DEADLOCK FALSE
INVARIANTS
    TypeOK
    PolicyAsAsked
    SlotAnchored
    PolicyPackCoversAnchors
    AuditIsExact
    VerdictIsCausal
    LegsAgree
