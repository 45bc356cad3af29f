CONSTANTS
    CheckRuns = {"a", "b"}
    DependsOn <- MCDependsOn
    AccessRepos = {"b"}
    MAX_OUTPUTS = 1
    TAIL_MAX = 1
    EVENTS_PAGE = 1
    MaxEvents <- MCMaxEvents
    MaxJobOutputs <- MCMaxJobOutputs
    NoRun = NoRun
    NoState = NoState

SPECIFICATION Spec
\* Once every check run is complete, run() and cancel() return at once
\* and the server jobs are finished: the system really stops.
CHECK_DEADLOCK FALSE
INVARIANT TypeOK
INVARIANT TailFaithful
INVARIANT OutputsAccounted
INVARIANT CheckConclusionFaithful
PROPERTY EveryCheckRunCompletes
