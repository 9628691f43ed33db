\* Three concurrent chat requests, with the code's limit and window.
SPECIFICATION Spec
CONSTANTS
    Requests = {r1, r2, r3}
    ChatMessageLimit = 5
    HistoryWindow = 10
SYMMETRY Symmetry
INVARIANTS
    TypeOK
    OverrunBounded
    ExchangesWhole
    ReadingInContext
