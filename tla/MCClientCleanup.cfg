\* Two turns and the end of the connection.
SPECIFICATION Spec
CONSTANTS
    MaxTurns = 2
    TextOf <- MCTextOf
    Waiters <- MCTurns
    NoWaiter = 0
    MaxEvents = 1
    Missing = Missing
INVARIANTS
    NobodyLeftWaiting
