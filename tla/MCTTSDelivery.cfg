\* Three sentences, one interrupt.
SPECIFICATION FairSpec
CONSTANTS
    MaxSentences = 3
    MaxInterrupts = 1
INVARIANTS
    TypeOK
    InOrder
    SpokenBeforeEnd
PROPERTIES
    SilentAfterwards
    OnlyTheClientDelays
