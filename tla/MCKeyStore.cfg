SPECIFICATION Spec
CONSTANTS
    Proc = {q1}
    MaxKeys = 14
INVARIANTS
    TypeOK
    IdentityKept
    RunsAsSaved
