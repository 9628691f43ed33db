SPECIFICATION FairSpec
CONSTANTS
    Connections = {c1, c2}
    Requests = {r1, r2}
    Nobody = Nobody
    Uploads <- MCUploads
    MaxFailures = 2
    MaxAudio = 2
INVARIANTS
    TypeOK
    EnginesShared
    AudioWhole
    EngineOnce
PROPERTIES
    EveryRequestAnswered
