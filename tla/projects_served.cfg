SPECIFICATION PagesSpec
CONSTANTS
    entity = entity
    up1 = up1
    up2 = up2
    tc1 = tc1
    tc2 = tc2
    NoOne = NoOne
    ReportNames = {"nightly.json", "smoke.txt"}
    Adders = {up1, up2}
    Entities = {entity}
    MaxVersion = 2
    CaseSets = {{tc1}, {tc2}}
    Segments = {"specs", "f1", "sdd-qa", "plan", "spec"}
    DocNames <- MCDocNames
    MaxArts = 2
    RootSets <- MCRootSets
    Features = {"f1"}
    JsonReports = {"nightly.json"}
    RunAt <- MCRunAt
SYMMETRY MCSymmetry
CONSTRAINT FewEdits
PROPERTY TreeItemsOpen
INVARIANT DocumentsShownOnce
INVARIANT LastRunHonest
INVARIANT AddedReportsKept
INVARIANT PartsAccountedFor
CHECK_DEADLOCK FALSE
