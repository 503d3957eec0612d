SPECIFICATION CmdSpec
CONSTANTS
    p1 = p1
    p2 = p2
    n1 = n1
    n2 = n2
    x = x
    y = y
    c1 = c1
    c2 = c2
    c3 = c3
    NoOne = NoOne
    Ids = {p1, p2}
    Names = {n1, n2}
    ArtNames = {x, y}
    Commands = {c1, c2, c3}
    MaxArts = 4
    Extracted = 2
    OutputName = y
    Legacy <- MCLegacy
SYMMETRY MCSymmetry
INVARIANT NamesUnique
INVARIANT ResultsKept
INVARIANT RevisionsDense
INVARIANT ProvenanceResolves
INVARIANT ImportsWhole
INVARIANT RecordedRunsFinished
CHECK_DEADLOCK FALSE
