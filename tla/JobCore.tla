------------------------------- MODULE JobCore -------------------------------
(***************************************************************************)
(* The job-control core of the buildomat server: job submission, chunk    *)
(* upload, the two input-commit paths (asynchronous with a commit id, and *)
(* the legacy synchronous path), cancellation, and completion, together   *)
(* with the parts of the server they drive that live outside src/: the    *)
(* durable store's job rows, the Files commit pool, the job assignment    *)
(* loop and the worker that runs an assigned job.                         *)
(*                                                                         *)
(* An HTTP handler that loads the job record and acts on it later is a    *)
(* request process with a program counter, so that other handlers, the   *)
(* background loops and workers interleave between its read and its      *)
(* write.                                                                 *)
(***************************************************************************)
EXTENDS Naturals, FiniteSets

CONSTANTS
    NJobs,      \* jobs are numbered 1..NJobs; the id order is creation order
    Names,      \* input file names
    Commits,    \* client-chosen commit ids for asynchronous input commits
    Reqs,       \* concurrent HTTP requests from clients
    Workers,    \* workers that can be assigned a job
    Sizes,      \* whether a commit's declared size matches its chunks
    NoJob, NoCommit, NoWorker, NoComplete

ASSUME NJobs \in Nat \ {0}
ASSUME Sizes \subseteq BOOLEAN /\ Sizes # {}

Jobs == 1..NJobs

\* Files keys its commits by job and client commit id.
Keys == Jobs \X Commits

VARIABLES
    job,        \* job row in the store, or NoJob before submission
    chunks,     \* jobs for which chunk files were written
    files,      \* Files bookkeeping: <<job, commit id>> -> in-flight or finished commit
    req,        \* state of each HTTP request process
    completing, \* Central::complete_job between mark_job_completed and job_complete
    replied     \* history: <<job, commit id>> -> <<answer, job incomplete>> for the
                \* answers "ok" and "conflict" returned to clients

vars == <<job, chunks, files, req, completing, replied>>

(***************************************************************************)
(* Types                                                                   *)
(***************************************************************************)
Depend == [prior : Jobs, on_failed : BOOLEAN, on_completed : BOOLEAN]

JobRow == [waiting : BOOLEAN, complete : BOOLEAN, failed : BOOLEAN,
           cancelled : BOOLEAN, worker : Workers \cup {NoWorker},
           inputs : SUBSET Names, present : SUBSET Names,
           depends : SUBSET Depend]

CommitRow == [job : Jobs, name : Names, good : BOOLEAN,
              status : {"pending", "ok", "err"}]

Answer == {"pending", "ok", "err", "badreq", "conflict"}

\* The answers the history keeps.
Recorded == {"ok", "conflict"}

\* Adds an answer given for commit key k to the history.
Record(k, a, live) ==
    replied' = IF a \in Recorded
                  THEN [replied EXCEPT ![k] = @ \cup {<<a, live>>}]
                  ELSE replied

ReqState == [pc : {"idle", "add_input", "add_input_sync", "cancel"},
             job : Jobs, commit : Commits, name : Names, good : BOOLEAN,
             waiting : BOOLEAN, complete : BOOLEAN]

IdleReq == [pc |-> "idle", job |-> 1, commit |-> CHOOSE k \in Commits : TRUE,
            name |-> CHOOSE n \in Names : TRUE, good |-> FALSE,
            waiting |-> FALSE, complete |-> FALSE]

Exists(j) == job[j] # NoJob

(***************************************************************************)
(* Store operations (C1; spec-modelled: the store is not under src/).      *)
(***************************************************************************)

\* Mutant of JobCreate: the new row leaves the present inputs unset.
JobCreateNoPresent(ins, deps) ==
    [waiting |-> ins # {} \/ deps # {}, complete |-> FALSE, failed |-> FALSE,
     cancelled |-> FALSE, worker |-> NoWorker, inputs |-> ins,
     depends |-> deps]

\* job_create: a job with inputs or dependencies starts out waiting.
JobCreate(ins, deps) ==
    [waiting |-> ins # {} \/ deps # {}, complete |-> FALSE, failed |-> FALSE,
     cancelled |-> FALSE, worker |-> NoWorker, inputs |-> ins,
     present |-> {}, depends |-> deps]

\* A dependency whose prior job finished is satisfied when the terminal
\* state of the prior job is one the dependency accepts.
Permitted(d) ==
    IF job[d.prior].failed THEN d.on_failed ELSE d.on_completed

DependsDone(j) == \A d \in job[j].depends : job[d.prior].complete

DependsSatisfied(j) == DependsDone(j) /\ \A d \in job[j].depends : Permitted(d)

\* A waiting job may be queued once every declared input is present and
\* every dependency is satisfied.
Ready(j) == job[j].inputs \subseteq job[j].present /\ DependsSatisfied(j)

\* job_add_input: records the input in a transaction that fails with a
\* conflict once the job is no longer waiting; the last missing input
\* takes the job out of waiting.  Returns the new row, or NoJob on conflict.
JobAddInput(j, n) ==
    IF ~job[j].waiting THEN NoJob
    ELSE LET present == job[j].present \cup {n}
             row     == [job[j] EXCEPT !.present = present]
         IN [row EXCEPT !.waiting = ~(job[j].inputs \subseteq present
                                       /\ DependsSatisfied(j))]

\* job_complete: the transition is made once; it clears the worker.
JobComplete(row, failed) ==
    IF row.complete THEN row
    ELSE [row EXCEPT !.complete = TRUE, !.failed = failed,
                     !.worker = NoWorker, !.waiting = FALSE]

\* job_cancel only sets the flag.
JobCancel(row) == [row EXCEPT !.cancelled = TRUE]

\* Mutant of format_job_state: "complete" is tested before "failed".
format_job_state_complete_first(row) ==
    IF row.complete THEN "completed"
    ELSE IF row.failed THEN "failed"
    ELSE IF row.worker # NoWorker THEN "running"
    ELSE IF row.waiting THEN "waiting"
    ELSE "queued"

\* format_job_state (user.rs): the state string job_get reports, derived
\* from the row's flags in this order of precedence.
format_job_state(row) ==
    IF row.failed THEN "failed"
    ELSE IF row.complete THEN "completed"
    ELSE IF row.worker # NoWorker THEN "running"
    ELSE IF row.waiting THEN "waiting"
    ELSE "queued"

(***************************************************************************)
(* Files commit bookkeeping (C2; spec-modelled: files.rs is not in src/).  *)
(***************************************************************************)

CommitFileExists(j, k) == files[<<j, k>>] # NoCommit

InFlight(j) == \E k \in Commits : CommitFileExists(j, k)
                                  /\ files[<<j, k>>].status = "pending"

\* Files::mark_job_completed declines while an upload for the job is in
\* flight.
MarkJobCompleted(j) == ~InFlight(j)

\* Files::forget_job drops the in-memory bookkeeping of the job's commits.
ForgetJob(j) ==
    [x \in Keys |-> IF x[1] = j THEN NoCommit ELSE files[x]]

\* Central::commit_file: every chunk must exist and the sizes must add up.
CentralCommitFile(j, good) == j \in chunks /\ good

(***************************************************************************)
(* User API handlers (src/server/src/api/user.rs)                          *)
(***************************************************************************)

\* job_submit: validation failures return before the store is touched.
job_submit ==
    \E j \in Jobs, ins \in SUBSET Names, deps \in SUBSET Depend :
        /\ ~Exists(j)
        /\ j > 1 => Exists(j - 1)
        /\ Cardinality(deps) <= 1
        /\ \A d \in deps : d.prior < j
        /\ job' = [job EXCEPT ![j] = JobCreate(ins, deps)]
        /\ UNCHANGED <<chunks, files, req, completing, replied>>

\* job_upload_chunk: chunks may only be uploaded while the job waits.
job_upload_chunk ==
    \E j \in Jobs :
        /\ Exists(j)
        /\ job[j].waiting
        /\ chunks' = chunks \cup {j}
        /\ UNCHANGED <<job, files, req, completing, replied>>

\* A request loads the job record on behalf of the user; what it then does
\* depends on this snapshot.
LoadJob(r, pc, j, k, n, good) ==
    /\ req[r].pc = "idle"
    /\ Exists(j)
    /\ req' = [req EXCEPT ![r] = [pc |-> pc, job |-> j, commit |-> k,
                                  name |-> n, good |-> good,
                                  waiting |-> job[j].waiting,
                                  complete |-> job[j].complete]]
    /\ UNCHANGED <<job, chunks, files, completing, replied>>

job_add_input_load(r) ==
    \E j \in Jobs, k \in Commits, n \in Names, good \in Sizes :
        LoadJob(r, "add_input", j, k, n, good)

\* Mutant of job_add_input: a job that is not waiting refuses every commit,
\* known or not.
job_add_input_strict(r) ==
    LET q == req[r]
        k == <<q.job, q.commit>>
    IN
    /\ q.pc = "add_input"
    /\ req' = [req EXCEPT ![r] = IdleReq]
    /\ IF ~q.waiting
          THEN /\ Record(k, "conflict", ~job[q.job].complete)
               /\ UNCHANGED files
       ELSE IF files[k] = NoCommit
          THEN /\ files' = [files EXCEPT ![k] =
                              [job |-> q.job, name |-> q.name, good |-> q.good,
                               status |-> "pending"]]
               /\ Record(k, "pending", ~job[q.job].complete)
       ELSE /\ Record(k, files[k].status, ~job[q.job].complete)
            /\ UNCHANGED files
    /\ UNCHANGED <<job, chunks, completing>>

\* job_add_input, after the load: a job that is not waiting refuses the
\* commit unless the commit id is already known, so that a client can
\* confirm a commit that finished the job's inputs.  Files::commit_file
\* then registers a new commit, or reports on a known one.
job_add_input(r) ==
    LET q == req[r]
        k == <<q.job, q.commit>>
    IN
    /\ q.pc = "add_input"
    /\ req' = [req EXCEPT ![r] = IdleReq]
    /\ IF ~q.waiting /\ ~CommitFileExists(q.job, q.commit)
          THEN /\ Record(k, "conflict", ~job[q.job].complete)
               /\ UNCHANGED files
       ELSE IF files[k] = NoCommit
          THEN /\ files' = [files EXCEPT ![k] =
                              [job |-> q.job, name |-> q.name, good |-> q.good,
                               status |-> "pending"]]
               /\ Record(k, "pending", ~job[q.job].complete)
       ELSE LET f == files[k]
                a == IF <<f.job, f.name, f.good>> # <<q.job, q.name, q.good>>
                        THEN "badreq" ELSE f.status
            IN /\ Record(k, a, ~job[q.job].complete)
               /\ UNCHANGED files
    /\ UNCHANGED <<job, chunks, completing>>

job_add_input_sync_load(r) ==
    \E j \in Jobs, n \in Names, good \in Sizes :
        LoadJob(r, "add_input_sync", j, CHOOSE k \in Commits : TRUE, n, good)

\* job_add_input_sync, after the load: refuses a job that was not waiting,
\* copies the chunks with Central::commit_file and records the input.
job_add_input_sync(r) ==
    LET q == req[r]
        row == JobAddInput(q.job, q.name)
    IN
    /\ q.pc = "add_input_sync"
    /\ req' = [req EXCEPT ![r] = IdleReq]
    /\ IF q.waiting /\ CentralCommitFile(q.job, q.good) /\ row # NoJob
          THEN job' = [job EXCEPT ![q.job] = row]
          ELSE UNCHANGED job
    /\ UNCHANGED <<chunks, files, completing, replied>>

job_cancel_load(r) ==
    \E j \in Jobs : LoadJob(r, "cancel", j, CHOOSE k \in Commits : TRUE,
                            CHOOSE n \in Names : TRUE, FALSE)

\* job_cancel, after the load: a job seen complete is refused with 409.
job_cancel(r) ==
    LET q == req[r] IN
    /\ q.pc = "cancel"
    /\ req' = [req EXCEPT ![r] = IdleReq]
    /\ IF q.complete THEN UNCHANGED job
                     ELSE job' = [job EXCEPT ![q.job] = JobCancel(@)]
    /\ UNCHANGED <<chunks, files, completing, replied>>

(***************************************************************************)
(* Central::complete_job (src/server/src/main.rs): mark_job_completed,     *)
(* then job_complete and forget_job.                                       *)
(***************************************************************************)

CompleteJobBegin(j, failed) ==
    /\ completing[j] = NoComplete
    /\ MarkJobCompleted(j)
    /\ completing' = [completing EXCEPT ![j] = failed]
    /\ UNCHANGED <<job, chunks, files, req, replied>>

complete_job_finish ==
    \E j \in Jobs :
        /\ completing[j] # NoComplete
        /\ job' = [job EXCEPT ![j] = JobComplete(@, completing[j])]
        /\ files' = ForgetJob(j)
        /\ completing' = [completing EXCEPT ![j] = NoComplete]
        /\ UNCHANGED <<chunks, req, replied>>

(***************************************************************************)
(* Files commit pool (spec-modelled): a worker of the pool performs a      *)
(* pending commit: the chunk copy, then the input record in the store.    *)
(***************************************************************************)
files_commit ==
    \E k \in Keys :
        LET f == files[k]
            row == JobAddInput(f.job, f.name)
            ok == CentralCommitFile(f.job, f.good) /\ row # NoJob
        IN
        /\ f # NoCommit
        /\ f.status = "pending"
        /\ files' = [files EXCEPT ![k].status = IF ok THEN "ok" ELSE "err"]
        /\ IF ok THEN job' = [job EXCEPT ![f.job] = row] ELSE UNCHANGED job
        /\ UNCHANGED <<chunks, req, completing, replied>>

(***************************************************************************)
(* Job assignment loop (C5; spec-modelled).                                *)
(***************************************************************************)

Queued(j) ==
    Exists(j) /\ ~job[j].waiting /\ ~job[j].complete
    /\ job[j].worker = NoWorker /\ ~job[j].cancelled

Busy(w) == \E j \in Jobs : Exists(j) /\ job[j].worker = w

\* A waiting job whose dependencies and inputs are all in place is queued.
assign_wakeup ==
    \E j \in Jobs :
        /\ Exists(j) /\ job[j].waiting /\ ~job[j].complete
        /\ ~job[j].cancelled
        /\ Ready(j)
        /\ job' = [job EXCEPT ![j].waiting = FALSE]
        /\ UNCHANGED <<chunks, files, req, completing, replied>>

\* Mutant of assign_dependency_failed: only a prior that completed
\* successfully is tested against the dependency.
assign_dependency_failed_success_only ==
    \E j \in Jobs :
        /\ Exists(j) /\ job[j].waiting /\ ~job[j].complete
        /\ \E d \in job[j].depends :
              job[d.prior].complete /\ ~job[d.prior].failed /\ ~Permitted(d)
        /\ CompleteJobBegin(j, TRUE)

\* A waiting job one of whose prior jobs ended in a state the dependency
\* does not accept is failed and completed.
assign_dependency_failed ==
    \E j \in Jobs :
        /\ Exists(j) /\ job[j].waiting /\ ~job[j].complete
        /\ \E d \in job[j].depends : job[d.prior].complete /\ ~Permitted(d)
        /\ CompleteJobBegin(j, TRUE)

\* Mutant of assign_cancelled: only queued jobs are checked for cancellation.
assign_cancelled_queued ==
    \E j \in Jobs :
        /\ Exists(j) /\ job[j].cancelled /\ ~job[j].complete
        /\ ~job[j].waiting
        /\ job[j].worker = NoWorker
        /\ CompleteJobBegin(j, TRUE)

\* A cancelled job that has no worker is completed as failed at once.
assign_cancelled ==
    \E j \in Jobs :
        /\ Exists(j) /\ job[j].cancelled /\ ~job[j].complete
        /\ job[j].worker = NoWorker
        /\ CompleteJobBegin(j, TRUE)

\* The oldest queued job is given to a worker that holds no job.
assign_worker ==
    \E j \in Jobs, w \in Workers :
        /\ Queued(j)
        /\ \A i \in 1..(j - 1) : ~Queued(i)
        /\ ~Busy(w)
        /\ job' = [job EXCEPT ![j].worker = w]
        /\ UNCHANGED <<chunks, files, req, completing, replied>>

(***************************************************************************)
(* Worker (spec-modelled): it runs the job and reports completion; a      *)
(* cancelled job is aborted and reported as failed.                       *)
(***************************************************************************)
worker_job_complete ==
    \E j \in Jobs, failed \in BOOLEAN :
        /\ Exists(j) /\ job[j].worker # NoWorker /\ ~job[j].complete
        /\ job[j].cancelled => failed
        /\ CompleteJobBegin(j, failed)

(***************************************************************************)
(* Specification                                                           *)
(***************************************************************************)
Init ==
    /\ job = [j \in Jobs |-> NoJob]
    /\ chunks = {}
    /\ files = [x \in Keys |-> NoCommit]
    /\ req = [r \in Reqs |-> IdleReq]
    /\ completing = [j \in Jobs |-> NoComplete]
    /\ replied = [x \in Keys |-> {}]

Request(r) ==
    \/ job_add_input_load(r) \/ job_add_input(r)
    \/ job_add_input_sync_load(r) \/ job_add_input_sync(r)
    \/ job_cancel_load(r) \/ job_cancel(r)

AssignmentLoop ==
    \/ assign_wakeup \/ assign_dependency_failed \/ assign_cancelled
    \/ assign_worker

Next ==
    \/ job_submit
    \/ job_upload_chunk
    \/ \E r \in Reqs : Request(r)
    \/ files_commit
    \/ AssignmentLoop
    \/ worker_job_complete
    \/ complete_job_finish

\* The assignment loop, the files pool and completion run continually
\* in the server, and a worker keeps reporting until its report lands.
Fairness ==
    /\ WF_vars(AssignmentLoop)
    /\ WF_vars(files_commit)
    /\ WF_vars(complete_job_finish)
    /\ WF_vars(worker_job_complete)

Spec == Init /\ [][Next]_vars /\ Fairness

(***************************************************************************)
(* Properties                                                              *)
(***************************************************************************)
TypeOK ==
    /\ job \in [Jobs -> JobRow \cup {NoJob}]
    /\ chunks \subseteq Jobs
    /\ files \in [Keys -> CommitRow \cup {NoCommit}]
    /\ req \in [Reqs -> ReqState]
    /\ completing \in [Jobs -> BOOLEAN \cup {NoComplete}]
    /\ replied \in [Keys -> SUBSET (Recorded \X BOOLEAN)]

\* job_add_input promises (its comment) that a client can confirm an input
\* commit after that commit took the job out of waiting: while the job is
\* not complete, a commit of a job once answered "ok" is never answered with a
\* 409 conflict.
CommittedInputStaysConfirmable ==
    \A k \in Keys :
        ~(<<"ok", TRUE>> \in replied[k] /\ <<"conflict", TRUE>> \in replied[k])

\* The spec's idempotence law for commit_file: retrying a commit id with
\* the same parameters always gives the same outcome, whenever it is
\* retried.
RetrySameOutcome ==
    \A k \in Keys, l1, l2 \in BOOLEAN :
        ~(<<"ok", l1>> \in replied[k] /\ <<"conflict", l2>> \in replied[k])

\* The job and the jobs it depends on, directly or through other jobs.
RECURSIVE Upstream(_)
Upstream(j) == {j} \cup UNION {Upstream(d.prior) : d \in job[j].depends}

\* Nothing the client still owes holds the job back: all its declared
\* inputs are present, or it was cancelled.
Supplied(j) == job[j].inputs \subseteq job[j].present \/ job[j].cancelled

\* A job whose inputs, and those of every job upstream of it, have all
\* arrived (or which was cancelled) is eventually completed, whichever way
\* its prior jobs end: a prior that ends in a state the dependency accepts
\* lets it run, any other fails it, and a cancel fails it from any state.
\* Completion goes through complete_job, whose mark_job_completed declines
\* while a commit of the job is in flight and is retried.
DependentJobsFinish ==
    \A j \in Jobs :
        (Exists(j) /\ \A i \in Upstream(j) : Supplied(i))
            ~> (Exists(j) /\ job[j].complete)

\* The spec: cancelled jobs end up failed.
CancelledImpliesFailed ==
    \A j \in Jobs :
        Exists(j) /\ job[j].complete /\ job[j].cancelled => job[j].failed

\* A cancelled job is eventually completed, whether it was waiting,
\* queued or running when it was cancelled.
CancelledJobsComplete ==
    \A j \in Jobs :
        (Exists(j) /\ job[j].cancelled) ~> (Exists(j) /\ job[j].complete)

(***************************************************************************)
(* Refinement: the job rows, seen through format_job_state, implement the *)
(* job lifecycle the server promises its clients.                         *)
(***************************************************************************)
Lifecycle == INSTANCE JobLifecycle WITH
    state     <- [j \in Jobs |-> IF Exists(j) THEN format_job_state(job[j])
                                              ELSE "none"],
    cancelled <- [j \in Jobs |-> Exists(j) /\ job[j].cancelled]

\* Whatever the order in which requests, the files pool, the assignment
\* loop, workers and complete_job interleave, every step the server takes
\* is one the lifecycle allows: the reported state only moves forward, a
\* job only completes successfully after it ran on a worker, and a job is
\* never given to a worker once cancelled.
LifecycleRefined == Lifecycle!Spec

=============================================================================
