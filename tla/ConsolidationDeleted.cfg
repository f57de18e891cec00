SPECIFICATION SleepSpec
CONSTANTS
    alice = alice
    bob = bob
    TargetClient = "target_client"
    TokenHits <- MCTokenHits
    TextHits <- MCTextHits
    Paraphrases <- MCParaphrases
    Matcher = FALSE
    Unsafe <- MCUnsafe
    InjectionClaims <- MCUnsafe
    IncludeVerbatim = TRUE
    Users = {alice, bob}
    Terms = {"high", "health"}
    Worlds <- MCWorlds
    Contextual = {"salary"}
    TermFor <- MCTermFor
    Requests <- MCRequests
    MinEvidence = 2
    HoldUntrusted = TRUE
    SensitiveChannels = FALSE
    Now = 4
    MaxFacts = 7
INVARIANT
    PlanIgnoresWithdrawn
CHECK_DEADLOCK FALSE
