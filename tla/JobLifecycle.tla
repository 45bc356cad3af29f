---------------------------- MODULE JobLifecycle ----------------------------
(***************************************************************************)
(* What the job server promises about a job, as a client sees it through  *)
(* the state string of job_get: a job is created waiting or queued, it    *)
(* only moves forward through waiting, queued, running, and it ends       *)
(* completed or failed, never to change again.  Only a job that ran on a  *)
(* worker can complete successfully, and a cancelled job is never started *)
(* on a worker.  The cancelled flag is orthogonal to the state and, once  *)
(* set, stays set.                                                         *)
(***************************************************************************)
CONSTANT Jobs

VARIABLES
    state,      \* state[j]: the job's state string, "none" before submission
    cancelled   \* cancelled[j]: the job's cancelled flag

States   == {"none", "waiting", "queued", "running", "completed", "failed"}
Terminal == {"completed", "failed"}

Init ==
    /\ state = [j \in Jobs |-> "none"]
    /\ cancelled = [j \in Jobs |-> FALSE]

Move(j, from, to) ==
    /\ state[j] \in from
    /\ state' = [state EXCEPT ![j] = to]
    /\ UNCHANGED cancelled

Submit(j)  == \E s \in {"waiting", "queued"} : Move(j, {"none"}, s)
Wakeup(j)  == Move(j, {"waiting"}, "queued")
Start(j)   == ~cancelled[j] /\ Move(j, {"queued"}, "running")
Succeed(j) == Move(j, {"running"}, "completed")
Fail(j)    == Move(j, {"waiting", "queued", "running"}, "failed")

Cancel(j) ==
    /\ state[j] # "none"
    /\ cancelled' = [cancelled EXCEPT ![j] = TRUE]
    /\ UNCHANGED state

Next ==
    \E j \in Jobs :
        \/ Submit(j) \/ Wakeup(j) \/ Start(j) \/ Succeed(j) \/ Fail(j)
        \/ Cancel(j)

Spec == Init /\ [][Next]_<<state, cancelled>>

=============================================================================
