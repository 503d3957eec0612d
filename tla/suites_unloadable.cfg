SPECIFICATION GenSpec
CONSTANTS
    g1 = g1
    g2 = g2
    q1 = q1
    ref1 = ref1
    other = other
    r1 = r1
    NoOne = NoOne
    Runs = {g1, g2}
    Reqs = {q1}
    Reference <- MCReference
    RuleIds = {r1}
    MaxVersion <- MCMaxVersion
    MaxSuiteVersion = 2
    CaseIds = {1, 2}
    RuleText <- MCRuleText
    Answers <- MCAnswers
    Documents <- MCDocuments
CHECK_DEADLOCK FALSE
INVARIANT EmptySuitesLoad
