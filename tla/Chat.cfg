SPECIFICATION FairSpec
CONSTANTS
    Requests = {r1, r2}
    ToolUsers = {r1}
    Shared = c1
    NoConv = NoConv
    Routes = {"sse", "upgrade", "ws"}
    HistoryLimit = 3
    MaxIterations = 2
    ChannelCap = 1
    MaxChunks = 2
    MaxCalls = 2
    Faults = {"invalid", "llm_off", "llm", "truncated", "db", "disconnect", "tool_error", "cleanup"}
CHECK_DEADLOCK FALSE
INVARIANT TypeOK
INVARIANT EndsOnce
INVARIANT NoStreamLeft
INVARIANT CallsAnswered
INVARIANT AnswerSaved
INVARIANT FollowUpInformed
INVARIANT KeptTogether
PROPERTY ClientAnswered
