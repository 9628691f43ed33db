\* Two turns; two interrupts, history commands or failures in all.
SPECIFICATION Spec
CONSTANTS
    MaxTurns = 2
    TextOf <- MCTextOf
    Waiters <- MCTurns
    NoWaiter = 0
    MaxEvents = 2
    Missing = Missing
INVARIANTS
    TypeOK
    LoneWaiterIsHeard
    CutOffStaysCutOff
    OneMarkPerChat
    AskedBeforeAnswered
    SpokenIsKnown
    CurrentHistoryIsOwned
