CONSTANTS
    TokenKinds <- MCTokenKinds
    MaxTokens = 5
    MaxChunk = 2
    MaxCharacters = 4
SPECIFICATION Spec
INVARIANTS
    TypeOK
    SilentIffThinking
    DeliveryExplained
    LimitHolds
