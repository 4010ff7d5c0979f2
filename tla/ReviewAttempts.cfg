SPECIFICATION AttemptsSpec
CONSTANTS
    Run = {1, 2}
    None = None
    Unreadable = Unreadable
    Error = Error
    PageSize = 2
    MaxComments = 4
    MaxOthers = 1
    Texts = {"p", "q"}
    Content <- MCContent
    Packs <- MCPacks
    Foreign <- MCForeign
    Workflows <- MCWorkflows
INVARIANT ComparedIsPrior
INVARIANT ProjectionIsTrue
INVARIANT SuccessIsEarned
INVARIANT RetainedIsVerifiable
INVARIANT BasePolicyGoverns
PROPERTY CommentsAreKept
CHECK_DEADLOCK FALSE
