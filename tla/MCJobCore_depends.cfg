CONSTANTS
    NJobs = 2
    Names <- DependNames
    Commits <- DependCommits
    Reqs = {r1}
    Workers = {w1}
    Sizes = {FALSE}
    NoJob = NoJob
    NoCommit = NoCommit
    NoWorker = NoWorker
    NoComplete = NoComplete

SPECIFICATION Spec

PROPERTY DependentJobsFinish
