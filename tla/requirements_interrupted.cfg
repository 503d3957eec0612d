SPECIFICATION ReadersSpec
CHECK_DEADLOCK FALSE
CONSTANTS
    textA = textA
    textB = textB
    NoText = NoText
    MaxReqs = 2
    MaxVersion = 2
    Texts = {textA, textB}
SYMMETRY TextSymmetry
CONSTRAINT OneTextWhileReading
INVARIANT IndexAgreesUnlessTorn
INVARIANT CountsAgreeUnlessMiscounted
INVARIANT SnapshotsStayReadable
INVARIANT HistoryShowsOldSuperseded
PROPERTY ImplementsHistory
