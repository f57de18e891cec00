SPECIFICATION EvalSpec
CONSTANTS
    User = "user_1"
    m1 = m1
    m2 = m2
    Episodes <- MCEpisodes
    Payloads <- MCPayloads
    Conversations <- MCConversations
    Replies <- MCReplies
    Unparseable <- MCUnparseable
    Models = {m1, m2}
    Caps = {0, 1, 2}
    NoCap = 99
    UnboundedTurns = 1
    MinConfidence = 45
    MaxRuns = 3
    Samples <- MCSamples
    Planners <- MCPlanners
    LlmAnswers <- MCLlmAnswers
    Bm25Scores <- MCBm25
    TopK = 3
INVARIANTS
    ForgetRequestsAreHeard
    SensitiveWordsStayOut
    CallsWithinCap
    RepliesAreTheirOwn
    SafetyNet
    AnswersAreAccountedFor
CHECK_DEADLOCK FALSE
