CONSTANTS
    NJobs = 1
    Names <- InputNames
    Commits <- DependCommits
    Reqs = {r1, r2}
    Workers = {w1}
    Sizes = {TRUE}
    NoJob = NoJob
    NoCommit = NoCommit
    NoWorker = NoWorker
    NoComplete = NoComplete

SPECIFICATION Spec
CONSTRAINT OneInput
INVARIANT TypeOK
INVARIANT CommittedInputStaysConfirmable
PROPERTY CancelledJobsComplete
PROPERTY LifecycleRefined
