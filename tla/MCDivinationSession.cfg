\* Three concurrent requests, with failures of the process and the database.
SPECIFICATION Spec
CONSTANTS
    Requests = {r1, r2, r3}
    Fortunes = {f1, f2}
    Questions = {q1, q2}
    Categories = {c1, c2}
    NoFortune = NoFortune
    NoQuestion = NoQuestion
    NoAnswer = NoAnswer
    NoJob = NoJob
    MaxCrashes = 1
    MaxDbErrors = 1
SYMMETRY Symmetry
INVARIANTS
    TypeOK
    ClaimExclusive
    NoOrphanClaim
    RowAgrees
    SameFortune
PROPERTIES
    CompletedFrozen
    ImplementsReading
