SPECIFICATION QueriesSpec
CONSTANTS
    TraceInputs <- MCTraceInputs
    ParamInputs <- MCParamInputs
    Documents <- MCDocuments
    CueIds = {"", "cue-0001", "cue-0002"}
    CueNames = {"review", "cue-0001"}
    Bodies <- MCBodies
    Values <- MCValues
    MaxSeq = 3
INVARIANT RollupAgrees
INVARIANT ParamsLayered
INVARIANT ExamplesIgnored
INVARIANT PromptsComplete
PROPERTY CuesKept
CHECK_DEADLOCK FALSE
