SPECIFICATION FairSpec
CONSTANTS
    before = before
    after = after
    Content <- MCContent
    Import = {1, 2}
    Report <- MCReport
    Selection <- MCSelection
    Legacy <- MCLegacy
    Judgement = {"untested", "pass", "fail"}
    MaxEdits = 2
    None = None
INVARIANT PassIsBound
INVARIANT EvidenceSurvives
PROPERTY ImportsEnd
CHECK_DEADLOCK FALSE
