SPECIFICATION Spec
CONSTANTS
    a1 = a1
    r1 = r1
    plain = plain
    twoLines = twoLines
    NoText = NoText
    Agents = {a1}
    Rules = {r1}
    Texts = {plain, twoLines}
    Unparseable = {twoLines}
    MaxVersion = 2
INVARIANT ListsStayReadable
INVARIANT GoverningRulesComplete
PROPERTY CitedVersionsFixed
