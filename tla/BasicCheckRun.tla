--------------------------- MODULE BasicCheckRun ---------------------------
(***************************************************************************)
(* The "basic" check-run variety of the GitHub front end                    *)
(* (src/github/server/src/variety/basic.rs): run() submits a buildomat job *)
(* for a check run, then polls it, keeping a tail of its events and the    *)
(* list of its outputs in the check run's private state; cancel() cancels  *)
(* it.  The buildomat server is modelled by what its API does to one job   *)
(* per check run.                                                          *)
(*                                                                         *)
(* run() and cancel() work on a copy of the private state loaded at the   *)
(* start and written back by update_check_run at the end; an error return *)
(* ("?") in between discards the copy, so a failed call is a step that     *)
(* changes nothing and is left out.  Between the HTTP calls of one         *)
(* invocation the buildomat job keeps moving.                              *)
(***************************************************************************)
EXTENDS Naturals, Sequences, SequencesExt

CONSTANTS
    CheckRuns,      \* the check runs of one suite
    DependsOn,      \* DependsOn[cr]: the check run cr depends on, or NoRun
    AccessRepos,    \* check runs whose configuration lists access_repos
    MAX_OUTPUTS,    \* outputs listed in the check run (25 in the code)
    TAIL_MAX,       \* events kept in the tail view (25 in the code)
    EVENTS_PAGE,    \* events one job_events_get returns at most (the spec
                    \* calls the endpoint paginated)
    MaxEvents,      \* MaxEvents[cr]: bound on the events of cr's job
    MaxJobOutputs,  \* MaxJobOutputs[cr]: bound on the outputs it uploads
    NoRun,
    NoState

ASSUME MAX_OUTPUTS \in Nat /\ TAIL_MAX \in Nat \ {0} /\ EVENTS_PAGE \in Nat \ {0}

\* The streams of job events: stdio lines go to the tail untagged; the
\* others ("task", "worker", ...) carry a tag and survive as headers.
Streams == {"stdout", "task"}
Tagged(s) == s # "stdout"

Terminal == {"completed", "failed"}
JobStates == {"none", "waiting", "queued", "running"} \cup Terminal
Errors == {"none", "no_script", "dependency", "access", "submit", "cancelled"}

VARIABLES
    content,  \* content[cr]: the check run carries a script
    approved, \* the check suite was approved by an organisation member
    srv,    \* srv[cr]: the buildomat job submitted for cr
    priv,   \* priv[cr]: BasicPrivate, as stored with the check run
    gong    \* the invocation of run() or cancel() in progress

vars == <<content, approved, srv, priv, gong>>

SrvJob == [state : JobStates, cancelled : BOOLEAN, prior : CheckRuns \cup {NoRun},
           events : Seq(Streams), outputs : Nat]

NoJob == [state |-> "none", cancelled |-> FALSE, prior |-> NoRun,
          events |-> <<>>, outputs |-> 0]

BasicPrivate ==
    [complete : BOOLEAN, job_state : JobStates \cup {NoState},
     buildomat_id : BOOLEAN, error : Errors, cancelled : BOOLEAN,
     event_minseq : Nat, events_tail : Seq(Nat),
     event_tail_headers : Seq(Nat), job_outputs : Nat,
     job_outputs_extra : Nat]

NewPrivate ==
    [complete |-> FALSE, job_state |-> NoState, buildomat_id |-> FALSE,
     error |-> "none", cancelled |-> FALSE, event_minseq |-> 0,
     events_tail |-> <<>>, event_tail_headers |-> <<>>, job_outputs |-> 0,
     job_outputs_extra |-> 0]

Idle == [pc |-> "idle", cr |-> NoRun, p |-> NewPrivate, complete |-> FALSE,
         state |-> NoState, result |-> "ok"]

(***************************************************************************)
(* Helpers of run()                                                        *)
(***************************************************************************)

\* The end of run(): a job seen completed or failed completes the check
\* run, then the private state is stored.
Finish(cr, p) ==
    LET done == p.job_state \in Terminal
    IN /\ priv' = [priv EXCEPT ![cr] =
                      IF done THEN [p EXCEPT !.complete = TRUE] ELSE p]
       /\ gong' = Idle

\* An early return of run() that fails the check run with an error.
FailRun(cr, e) ==
    /\ priv' = [priv EXCEPT ![cr].complete = TRUE, ![cr].error = e]
    /\ UNCHANGED <<srv, gong>>

\* The tail is redrawn when 6 s have passed since the last redraw, or when
\* the job is complete.  elapsed is chosen freely: the u64 subtraction
\* now - event_last_redraw_time also wraps to a large value when the clock
\* steps back (overflow checks are off in a release build).
Redraw(elapsed, complete) == elapsed \/ complete

\* Mutant of Advance: the cursor is set to the event's own sequence number.
AdvanceToSeq(m, s) == IF s > m THEN s ELSE m

\* The cursor advance for one event: if ev.seq + 1 > event_minseq.
Advance(m, s) == IF s + 1 > m THEN s + 1 ELSE m

\* Mutant of Evicted: the tail is cut to one more than its bound.
EvictedOneShort(tail) ==
    IF Len(tail) > TAIL_MAX + 1 THEN Len(tail) - TAIL_MAX - 1 ELSE 0

\* The events popped from the front while the tail is longer than 25.
Evicted(tail) == IF Len(tail) > TAIL_MAX THEN Len(tail) - TAIL_MAX ELSE 0

\* Mutant of Collect: the bound is tested with <=.
CollectAtBound(p, o) ==
    IF p.job_outputs <= MAX_OUTPUTS
        THEN [p EXCEPT !.job_outputs = @ + 1]
        ELSE [p EXCEPT !.job_outputs_extra = @ + 1]

\* One output of the job: listed while fewer than MAX_OUTPUTS are, else
\* counted as extra.
Collect(p, o) ==
    IF p.job_outputs < MAX_OUTPUTS
        THEN [p EXCEPT !.job_outputs = @ + 1]
        ELSE [p EXCEPT !.job_outputs_extra = @ + 1]

\* Mutant of DependencyNeverStarted: the check is dropped.
DependencyNeverStartedUnchecked(op) == FALSE

\* A check run depended upon that finished without starting a job.
DependencyNeverStarted(op) == op.complete \/ op.error # "none"

\* Mutant of flush: a complete check run without an error is a success
\* whatever state its job ended in.
flush_ignoring_state(p) ==
    CASE ~p.complete -> IF p.job_state \in {"running"} \cup Terminal
                           THEN "running" ELSE "queued"
      [] p.error # "none" -> "failure"
      [] OTHER -> "success"

\* The FlushState that flush() reports to GitHub for a check run.  A
\* complete check run without an error unwraps job_state: "panic" stands
\* for that unwrap failing.
flush(p) ==
    CASE ~p.complete -> IF p.job_state \in {"running"} \cup Terminal
                           THEN "running" ELSE "queued"
      [] p.error # "none" -> "failure"
      [] p.job_state = NoState -> "panic"
      [] p.job_state = "completed" -> "success"
      [] OTHER -> "failure"

(***************************************************************************)
(* run()                                                                   *)
(***************************************************************************)

\* A check run without a script fails at once.
run_no_script(cr) ==
    /\ gong.pc = "idle"
    /\ ~priv[cr].complete
    /\ ~content[cr]
    /\ FailRun(cr, "no_script")
    /\ UNCHANGED <<content, approved>>

\* A submitted job is polled with job_get; the tail is redrawn only every
\* 6 seconds or once the job is complete.
run_poll(cr) ==
    LET p     == priv[cr]
        state == srv[cr].state
        complete == state \in Terminal
        p1    == [p EXCEPT !.job_state = state]
    IN
    /\ gong.pc = "idle"
    /\ ~p.complete
    /\ content[cr]
    /\ p.buildomat_id
    /\ \E elapsed \in BOOLEAN :
          IF Redraw(elapsed, complete)
             THEN /\ gong' = [pc |-> "events", cr |-> cr, p |-> p1,
                              complete |-> complete, state |-> state,
                              result |-> "ok"]
                  /\ UNCHANGED priv
             ELSE Finish(cr, p1)
    /\ UNCHANGED <<content, approved, srv>>

\* job_events_get from event_minseq, one page of the log: each event
\* advances the cursor and joins the tail; the tail is then cut to 25,
\* tagged events that fall off it becoming headers.  A complete job goes
\* on to its outputs.
run_events ==
    LET cr   == gong.cr
        p    == gong.p
        log  == srv[cr].events
        page == IF Len(log) - p.event_minseq > EVENTS_PAGE
                   THEN EVENTS_PAGE ELSE Len(log) - p.event_minseq
        seqs == [i \in 1..page |-> p.event_minseq + i - 1]
        tail == p.events_tail \o seqs
        n    == Evicted(tail)
        gone == SubSeq(tail, 1, n)
        p1   == [p EXCEPT
                   !.event_minseq = FoldLeft(Advance, p.event_minseq, seqs),
                   !.events_tail = SubSeq(tail, n + 1, Len(tail)),
                   !.event_tail_headers =
                       @ \o SelectSeq(gone, LAMBDA s : Tagged(log[s + 1]))]
    IN
    /\ gong.pc = "events"
    /\ IF gong.complete
          THEN /\ gong' = [gong EXCEPT !.pc = "outputs", !.p = p1]
               /\ UNCHANGED priv
          ELSE Finish(cr, p1)
    /\ UNCHANGED <<content, approved, srv>>

\* job_outputs_get for a complete job: at most 25 are listed.  Publishing
\* ignores its errors and changes nothing here.
run_outputs ==
    LET cr == gong.cr
        os == [i \in 1..srv[cr].outputs |-> i]
    IN
    /\ gong.pc = "outputs"
    /\ Finish(cr, FoldLeft(Collect, gong.p, os))
    /\ UNCHANGED <<content, approved, srv>>

\* The dependency loop: a dependency with a buildomat job id becomes a
\* buildomat dependency; one that finished without a job fails this check
\* run; one not yet started makes run() return to be called again, with
\* no state change.
DependencyWaits(d) ==
    d # NoRun /\ ~priv[d].buildomat_id /\ ~DependencyNeverStarted(priv[d])

DependencyFailed(d) == d # NoRun /\ ~priv[d].buildomat_id

\* access_repos needs the suite approved by a member of the organisation.
AccessDenied(cr) == cr \in AccessRepos /\ ~approved

\* The tasks, tags and body are built and job_submit is called: the job is
\* created, waiting on its dependency if it has one, or the server answers
\* with a client error that fails the check run.
JobSubmit(cr, d) ==
    \E accepted \in BOOLEAN :
        IF accepted
           THEN /\ srv' = [srv EXCEPT ![cr] =
                          [NoJob EXCEPT !.prior = d,
                              !.state = IF d = NoRun THEN "queued" ELSE "waiting"]]
                /\ Finish(cr, [priv[cr] EXCEPT !.buildomat_id = TRUE])
           ELSE FailRun(cr, "submit")

\* A check run without a job: dependencies, access, then submission.
run_submit(cr) ==
    LET d == DependsOn[cr] IN
    /\ gong.pc = "idle"
    /\ ~priv[cr].complete
    /\ content[cr]
    /\ ~priv[cr].buildomat_id
    /\ ~DependencyWaits(d)
    /\ IF DependencyFailed(d) THEN FailRun(cr, "dependency")
       ELSE IF AccessDenied(cr) THEN FailRun(cr, "access")
       ELSE JobSubmit(cr, d)
    /\ UNCHANGED <<content, approved>>

(***************************************************************************)
(* cancel()                                                                *)
(***************************************************************************)

\* A check run not yet complete nor cancelled: with a job, job_get it;
\* without one, fail the check run.
cancel_begin(cr) ==
    LET p == priv[cr] IN
    /\ gong.pc = "idle"
    /\ ~p.complete /\ ~p.cancelled
    /\ IF p.buildomat_id
          THEN /\ gong' = [pc |-> "cancel", cr |-> cr, p |-> p,
                           complete |-> FALSE, state |-> srv[cr].state,
                           result |-> "ok"]
               /\ UNCHANGED priv
          ELSE /\ priv' = [priv EXCEPT ![cr] = [p EXCEPT !.complete = TRUE,
                              !.error = "cancelled", !.cancelled = TRUE]]
               /\ UNCHANGED gong
    /\ UNCHANGED <<content, approved, srv>>

\* The job's state as seen by job_get is compared with "complete" and
\* "failed"; otherwise job_cancel is called, which the server refuses with
\* 409 once the job is complete, making cancel() return an error.
cancel_job ==
    LET cr == gong.cr IN
    /\ gong.pc = "cancel"
    /\ IF gong.state \in {"complete", "failed"}
          THEN /\ gong' = Idle
               /\ UNCHANGED <<srv, priv>>
       ELSE IF srv[cr].state \in Terminal
          THEN /\ gong' = [Idle EXCEPT !.result = "err"]
               /\ UNCHANGED <<srv, priv>>
       ELSE /\ srv' = [srv EXCEPT ![cr].cancelled = TRUE]
            /\ priv' = [priv EXCEPT ![cr] = [gong.p EXCEPT !.cancelled = TRUE]]
            /\ gong' = Idle
    /\ UNCHANGED <<content, approved>>

(***************************************************************************)
(* The buildomat job as the API shows it (spec-modelled).                  *)
(***************************************************************************)

\* A waiting job whose prior job finished: the dependency the front end
\* submits accepts only a completed prior job.
srv_wakeup(j) ==
    LET d == srv[j].prior IN
    /\ srv[j].state = "waiting" /\ ~srv[j].cancelled
    /\ srv[d].state \in Terminal
    /\ srv' = [srv EXCEPT ![j].state =
                  IF srv[d].state = "failed" THEN "failed" ELSE "queued"]

srv_assign(j) ==
    /\ srv[j].state = "queued" /\ ~srv[j].cancelled
    /\ srv' = [srv EXCEPT ![j].state = "running"]

srv_event(j) ==
    /\ srv[j].state = "running"
    /\ Len(srv[j].events) < MaxEvents[j]
    /\ \E s \in Streams : srv' = [srv EXCEPT ![j].events = Append(@, s)]

\* The job ends; run() reads its outputs only once it is complete, so the
\* outputs the worker uploaded are fixed here.
srv_complete(j) ==
    /\ srv[j].state = "running"
    /\ \E failed \in BOOLEAN, n \in 0..MaxJobOutputs[j] :
          /\ srv[j].cancelled => failed
          /\ srv' = [srv EXCEPT ![j].state =
                        IF failed THEN "failed" ELSE "completed",
                                 ![j].outputs = n]

\* A cancelled job that holds no worker is failed by the assignment loop.
srv_cancelled(j) ==
    /\ srv[j].cancelled /\ srv[j].state \in {"waiting", "queued"}
    /\ srv' = [srv EXCEPT ![j].state = "failed"]

(***************************************************************************)
(* Specification                                                           *)
(***************************************************************************)
Init ==
    /\ content \in [CheckRuns -> BOOLEAN]
    /\ approved \in BOOLEAN
    /\ srv = [cr \in CheckRuns |-> NoJob]
    /\ priv = [cr \in CheckRuns |-> NewPrivate]
    /\ gong = Idle

Run(cr) == run_no_script(cr) \/ run_poll(cr) \/ run_submit(cr)

Server(j) ==
    /\ \/ srv_wakeup(j) \/ srv_assign(j) \/ srv_event(j)
       \/ srv_complete(j) \/ srv_cancelled(j)
    /\ UNCHANGED <<content, approved, priv, gong>>

Next ==
    \/ \E cr \in CheckRuns : Run(cr) \/ cancel_begin(cr) \/ Server(cr)
    \/ run_events \/ run_outputs \/ cancel_job

\* The front end calls run() for every active check run on each pass of
\* its loop, whatever cancel() calls come in between (strong fairness); an
\* invocation once started finishes; the buildomat server keeps moving
\* its jobs on.
Fairness ==
    /\ \A cr \in CheckRuns : SF_vars(Run(cr))
    /\ WF_vars(run_events \/ run_outputs \/ cancel_job)
    /\ \A j \in CheckRuns : WF_vars(Server(j))

Spec == Init /\ [][Next]_vars /\ Fairness

(***************************************************************************)
(* Properties                                                              *)
(***************************************************************************)
TypeOK ==
    /\ content \in [CheckRuns -> BOOLEAN]
    /\ approved \in BOOLEAN
    /\ srv \in [CheckRuns -> SrvJob]
    /\ priv \in [CheckRuns -> BasicPrivate]
    /\ \A cr \in CheckRuns : Len(priv[cr].events_tail) <= TAIL_MAX

\* The tail view run() keeps is exactly the last 25 events of the job's
\* log before the cursor event_minseq, and the headers are exactly the
\* tagged events before them, each once and in order, however the polls
\* and their 6-second redraw gate interleave with the job's output.
TailFaithful ==
    \A cr \in CheckRuns :
        LET p   == priv[cr]
            log == srv[cr].events
            m   == p.event_minseq
            lo  == IF m > TAIL_MAX THEN m - TAIL_MAX ELSE 0
        IN /\ m <= Len(log)
           /\ p.events_tail = [i \in 1..(m - lo) |-> lo + i - 1]
           /\ p.event_tail_headers =
                 SelectSeq([i \in 1..lo |-> i - 1],
                           LAMBDA s : Tagged(log[s + 1]))

\* A check run that run() completed without an error accounts for every
\* output its job uploaded, although run() reads the outputs only in the
\* poll that first sees the job finished: at most 25 are listed and the
\* rest counted as extra.
OutputsAccounted ==
    \A cr \in CheckRuns :
        LET p == priv[cr] IN
        p.complete /\ p.error = "none" =>
            /\ p.job_outputs + p.job_outputs_extra = srv[cr].outputs
            /\ p.job_outputs <= MAX_OUTPUTS

\* A check run that run() completed without an error shows its job's
\* final state and has read all of its events, so the tail it leaves on
\* GitHub ends with the job's last event, although job_events_get returns
\* one page of events per call (the spec: "paginated ascending events").
CompletedRunShowsAll ==
    \A cr \in CheckRuns :
        LET p == priv[cr] IN
        p.complete /\ p.error = "none" =>
            /\ p.job_state = srv[cr].state
            /\ p.event_minseq = Len(srv[cr].events)

\* What GitHub shows is what happened: flush() never unwraps a missing job
\* state, and a complete check run is shown as a success exactly when its
\* buildomat job completed, whether the run ended by polling, by an early
\* error or by a cancel.
CheckConclusionFaithful ==
    \A cr \in CheckRuns :
        LET c == flush(priv[cr]) IN
        /\ c # "panic"
        /\ priv[cr].complete => (c = "success" <=> srv[cr].state = "completed")

\* Every check run eventually completes: its job finishes and is seen
\* finished, or the check run fails, also when the run it depends on
\* never starts a job.
EveryCheckRunCompletes == \A cr \in CheckRuns : <>priv[cr].complete

\* cancel() returns at once for a job it sees already finished ("This job
\* is already finished"); it never gets an error for such a job.
CancelSkipsFinishedJob ==
    [][gong.pc = "cancel" /\ gong.state \in Terminal
         => gong'.result = "ok"]_vars

=============================================================================
