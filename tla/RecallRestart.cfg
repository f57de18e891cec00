SPECIFICATION Spec
CONSTANTS
    Inputs <- MCInputs
    Queries <- MCQueries
    Revocations <- MCRevocations
    Policies <- MCPolicies
    Score <- MCScore
    Honest = "user"
    Durable = TRUE
    Views <- MCViews
    MaxWrites = 3
    MaxCommands = 2
INVARIANT
    LatestAlwaysWins
CHECK_DEADLOCK FALSE
