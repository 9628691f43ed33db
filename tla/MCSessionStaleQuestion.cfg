\* Two concurrent requests and no failure: a prewarmed job for an older wording is used.
SPECIFICATION Spec
CONSTANTS
    Requests = {r1, r2}
    Fortunes = {f1, f2}
    Questions = {q1, q2}
    Categories = {c1, c2}
    NoFortune = NoFortune
    NoQuestion = NoQuestion
    NoAnswer = NoAnswer
    NoJob = NoJob
    MaxCrashes = 0
    MaxDbErrors = 0
INVARIANTS
    PrewarmHitIsCurrent
