-------------------------- MODULE MCBasicCheckRun --------------------------
(* Two check runs of one suite, "a" depending on "b".  The job of "b"     *)
(* emits enough events to evict one from the tail and enough outputs to   *)
(* overflow MAX_OUTPUTS; the job of "a" only needs to run and finish.     *)
EXTENDS BasicCheckRun

MCDependsOn == [cr \in CheckRuns |-> IF cr = "a" THEN "b" ELSE NoRun]

MCMaxEvents == [cr \in CheckRuns |-> IF cr = "b" THEN 2 ELSE 1]

MCMaxJobOutputs == [cr \in CheckRuns |-> IF cr = "b" THEN 2 ELSE 1]

=============================================================================
