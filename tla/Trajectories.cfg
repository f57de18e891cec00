SPECIFICATION TrajectorySpec
CONSTANTS
    Inputs <- MCInputs
    Queries <- MCQueries
    Revocations <- MCRevocations
    Policies <- MCPolicies
    Score <- TrajectoryScore
    Honest = "user"
    Durable = FALSE
    Views <- MCViews
    MaxWrites = 3
    MaxCommands = 2
INVARIANTS
    TypeOK
    LatestWins
    NoSilentError
    AgreementAnswers
    ViewBinds
    GovernanceContains
CHECK_DEADLOCK FALSE
