# TLA+ models of buildomat

This directory holds TLA+ models of the buildomat sources under `src/`, the
TLC configurations that check them, and `PROJECT.json`. That file lists the
components, the runs, the mutants, the map from definitions to source lines,
the findings and the hazards.

## The system and how its parts interact

- **Job server** (`src/server`). Clients submit a job with `job_submit`.
  They upload input chunks (`job_upload_chunk`) and commit them as inputs,
  either asynchronously with a client-chosen commit id (`job_add_input`) or
  synchronously (`job_add_input_sync`). They may also cancel the job
  (`job_cancel`).
  - Outside `src/`, the store, the `Files` commit pool, the job assignment
    loop and the workers move the job on. The job waits for its inputs and
    its dependencies, is queued, is assigned to a worker and completes.
  - `Central::complete_job` (`main.rs`) finishes a job: it marks its
    commits completed, records completion and forgets the commit
    bookkeeping.
  - The archive-files loop (outside `src/`) uploads each output file of a
    completed job to the object store and then unlinks the local copy.
    Downloads (`job_output_download`, via `Central::file_response`) read
    the local file if it is there, and otherwise the object store.
    `job_output_signed_url` always signs an object store URL.
  - The archive-jobs loop (outside `src/`) later uploads a completed job as one
    document to the object store (`Central::archive_store`), caches it in
    `archive/{job}.json`, marks the job archived and purges its event and
    store rows. The read handlers (`job_get`, `job_events_get`,
    `job_outputs_get`, `job_store_get_all`) load the job row and then read
    either the live tables or the archive (`Central::archive_load`),
    depending on that row's archived flag.
  - `job_store_put` writes one store value of a job that is not yet complete
    (it answers 409 once the job row it loaded is complete).
    `job_output_publish` checks the series, version and name with
    `one_safe` and then publishes an output of the job.
- **Authentication** (`src/server/src/main.rs`). `_int_auth_token` reads the
  bearer token from the Authorization header; every `require_*` begins with
  it.
- **Output rules** (`src/server/src/api/user.rs`). `parse_output_rule`
  reads each output rule string of a submitted job. `format_job` writes the
  rule back out for `job_get`.
- **GitHub front end** (`src/github/server`).
  - `webhook` (`http.rs`) checks each delivery from GitHub and stores it.
    It retries while another process holds the SQLite lock.
  - The "basic" check-run variety (`variety/basic.rs`) turns a check run
    into a buildomat job. `run()` is called over and over: it submits the
    job once the check runs it depends on have jobs, then polls the job,
    its events and its outputs. `cancel()` cancels it.
- **CLI cache** (`src/bin/src/cache.rs`). Before a target directory is
  uploaded, `clean_target_dir` removes the workspace's own build products.

## Modules

| module | models | state | actions |
|---|---|---|---|
| `JobCore` | user.rs job handlers, main.rs `commit_file`/`complete_job`, and (spec-modelled) store rows, Files pool, assignment loop, worker | `job` rows, `chunks`, `files` (commit id to commit), `req` (one request process per concurrent HTTP request, with a pc between load and act), `completing`, history `replied` | `job_submit`, `job_upload_chunk`, `job_add_input_load`/`job_add_input`, `job_add_input_sync_load`/`job_add_input_sync`, `job_cancel_load`/`job_cancel`, `CompleteJobBegin`/`complete_job_finish`, `files_commit`, `assign_*`, `worker_job_complete` |
| `MCJobCore` | constants for JobCore | | |
| `JobLifecycle` | the abstract job as a client sees it through `job_get`'s state string | `state`, `cancelled` per job | `Submit`, `Wakeup`, `Start`, `Succeed`, `Fail`, `Cancel` |
| `Archive` | the archive read path: `load_job_for_user`, the dispatch of `load_job_*`, `archive_load`, `file_response`, `file_presigned_url`, six read handlers, `job_store_put`, `job_output_publish` with `one_safe`; `archive_store` and the spec-modelled rest of the archive loops | `archived`, `live` (rows or purged, per kind of data), `s3`, `cache`, `archiver`, `outfile` (local copy, object store copy), `complete`, `putval` (the one store value: in the live row, in the archived document, acked), `published`, `req` (one process per request, with the row snapshot) | `job_events_get`, `job_outputs_get`, `job_store_get_all`, `job_get`, `job_output_download`, `job_output_signed_url`, `load_live`, `archive_open`, `archive_unlink`, `archive_fetch`, `file_response`, `file_open`, `file_get`, `file_presigned_url`, `respond`, `job_store_put`, `store_put`, `job_output_publish`, `publish_output`, `job_complete`, `archive_file_upload`, `archive_file_unlink`, `archive_store`, `archive_cache`, `archive_mark_purge`, `cache_damage` (fault: the cached document fails `is_valid` or does not parse) |
| `MCArchive` | three symmetric requests for the safety run, two for the liveness run; one publish body `one_safe` accepts and one it refuses | | |
| `BasicCheckRun` | basic.rs `run()` and `cancel()`, and the FlushState of `flush()`; the buildomat job as the API shows it (spec-modelled `srv_*`) | `priv` (BasicPrivate per check run), `srv` (job per check run), `gong` (the `run()`/`cancel()` call in progress, split at its awaits), `content`, `approved`; constant `EVENTS_PAGE`, the most events one `job_events_get` returns | `run_no_script`, `run_poll`, `run_events`, `run_outputs`, `run_submit`, `cancel_begin`, `cancel_job`, `srv_*` |
| `MCBasicCheckRun` | two check runs, "a" depending on "b" | | |
| `CacheClean` | `clean_target_dir`, `rsplit_once` | `workspace`, `deps`, `dry_run`, `files`, `todo` | `consider` (one loop iteration) |
| `MCCacheClean` | all package names of up to 3 characters over `a`, `b`, `L` (standing for `lib`), `-`, `_`; each package leaves `<name>-<hash>` and `L<name>-<hash>` in `deps/` | | |
| `OutputRule` | `parse_output_rule` (a fold of `Step` over the characters), `format_job`'s rule formatting | `input` | none (pure operators) |
| `AuthToken` | `_int_auth_token` (`to_str`, `split_whitespace`, the keyword and length tests), against the RFC 6750 bearer grammar | `header` | none (pure operators) |
| `MCParsers` | both parsers in one run: each initial state holds either one output rule string or one Authorization header | | |
| `Webhook` | `webhook`, with `store_delivery` and the other process's lock spec-modelled | `req`, `locked`, `delivery`, `nextseq` | `github_post`, `webhook_check`, `webhook_store`, `lock_take`, `lock_release` |

A handler that awaits between reading state and acting on it is split into
two actions, so that other handlers and the background loops can interleave
there. Examples are the load and act steps of `job_add_input`, and the
`job_get` of `cancel()` before its `job_cancel`.

## Refinement

`JobLifecycle` is the abstract specification of a job. A job is created
waiting or queued and only moves forward. It ends completed or failed, and
only a job that ran can complete successfully. A cancelled job never starts.
`JobCore` implements it. Its refinement mapping projects each job row with
`format_job_state` (user.rs 322-335), the function `job_get` uses. The
`jobcore_inputs` run checks `LifecycleRefined == Lifecycle!Spec` as a
property. The dependency run does not repeat the check, because that run
would then take too long.

The model has one worker that never fails. `factory_worker_destroy`'s
requeue of the job of a destroyed worker (spec section 4.6) is therefore not
modelled: the job goes back to queued, a path `JobLifecycle` would have to
allow and whose liveness would need a second worker.

## Runs

| run | expect | what it shows |
|---|---|---|
| `jobcore_inputs` | pass | Asynchronous and synchronous commits race the wakeup, the worker, completion and cancel. Even so, a commit answered ok is not later refused while the job is live (`CommittedInputStaysConfirmable`). Every cancelled job eventually completes (`CancelledJobsComplete`). The states `job_get` reports implement `JobLifecycle` (`LifecycleRefined`). |
| `jobcore_depends` | pass | A job whose inputs, and those of every job upstream of it, were supplied, or which was cancelled, is eventually completed, whatever the dependency's `on_failed`/`on_completed` choice and however its prior job ends, and although `complete_job` is declined while a commit is in flight (`DependentJobsFinish`). |
| `retry_same_outcome` | violation | A retried commit id that was answered ok is answered 409 once the job completed, because `forget_job` drops the bookkeeping. |
| `cancelled_implies_failed` | violation | A cancel that lands while a successful completion is applied leaves a job cancelled but not failed. |
| `basic_check_run` | pass | The event tail is a bounded, gap-free window of the job's events, and tagged events that fall off it become headers (`TailFaithful`). A check run that completes without error has listed or counted every output of its job (`OutputsAccounted`). GitHub shows a complete check run as a success exactly when its job completed, and `flush()` never unwraps a missing job state (`CheckConclusionFaithful`). Every check run completes (`EveryCheckRunCompletes`). |
| `basic_cancel_finished` | violation | `cancel()` compares with `"complete"`, not `"completed"`. Cancelling a finished job therefore fails with 409. |
| `basic_events_paged` | violation | With events served one page per `job_events_get`, `run()` reads one page after it sees the job complete and then completes the check run, so the later events are never shown (`CompletedRunShowsAll`). |
| `cache_clean` | violation | `clean_target_dir` should leave exactly the dependencies' artefacts (`CachesDependenciesOnly`). It keeps a workspace package's `lib<name>-<hash>` files, and a workspace package named `lib<dep>` removes the dependency's `lib<dep>-<hash>` files; TLC's trace shows the first, and the second is reachable too. |
| `request_parsers` | pass | The output rule parser accepts exactly the sigil grammar (`ParseMatchesGrammar`), and formatting a rule then parsing it again gives the same rule (`FormatRoundTrips`). `_int_auth_token` accepts exactly the headers of the bearer grammar, with any whitespace around and between the two words and the keyword in any case, and returns their token (`AuthTokenMatchesGrammar`). |
| `webhook_delivery` | pass | Every well-formed delivery is stored, even when it races the database lock and redeliveries of its uuid (`WellFormedDeliveriesStored`). |
| `archive_reads` | pass | A cached document that fails `is_valid` is removed once an archived read reaches it, even when two requests unlink and refetch it around each other (`CacheRepaired`). |
| `archive_transparent` | violation | TLC's shortest counterexample is a download: `job_output_download` loads the job row and the output record from the live tables, `file_response` passes its `is_file` test, the job completes, archive-files uploads and unlinks the file, and the open fails with a 500. The model reaches four more failures of the same property. A request that loaded the job row just before the archiver purged it answers an empty event list. A cached document that does not parse fails the read at main.rs 404 before the unlink, so it fails every later read too. Two requests that both find the cache invalid both unlink it, and the second gets NotFound and answers 500. A `job_store_put` that loaded the job row before completion writes its value after `archive_store` took the document, so the value is acked and then missing from the archive. |

Each property of a passing run has a mutant in `PROJECT.json`: a plausible
bug in one mapped definition, which TLC then reports as a violation.

## Bounds

- **JobCore.** One job, two input names, one commit id and two concurrent
  requests suffice for the input races. Two requests let an asynchronous
  commit and a cancel, or two commits, interleave with the background
  steps. `OneInput` keeps each job to at most one declared input. The
  dependency run uses two jobs, because a dependency needs a prior job,
  one name and one commit id; its commits all carry a wrong size, so they
  stay in flight and then fail, and a job with inputs completes only
  through a cancel. That keeps the liveness run short; inputs that arrive
  are covered by `jobcore_inputs`.
- **BasicCheckRun.**
  - Two check runs, one depending on the other, reach both the waiting path
    and the failed-dependency path.
  - `TAIL_MAX = 1`, with up to two events from the job of "b", makes
    eviction happen. This is the code's 25 scaled down, and `Evicted` is
    parametric in it.
  - `MAX_OUTPUTS = 1`, with up to two outputs from the job of "b", reaches
    the "extra" counter.
  - Wall-clock time is the nondeterministic `elapsed` flag of `run_poll`.
    That also covers the u64 subtraction of `now - event_last_redraw_time`
    wrapping when the clock steps back.
  - The job of "a" gets one event and one output. It only needs to run and
    finish, and the smaller bound keeps the liveness check in one run.
  - `EVENTS_PAGE = 1`: the page size of the events endpoint, cut in the
    database layer outside `src/`, scaled down so that two events need two
    reads.
- **CacheClean.** It enumerates every name of 1 to 3 characters over
  `a`, `b`, `L` (the three letters `lib`), `-` and `_`, for the workspace
  and the dependencies. That includes names that differ only by `-`/`_`,
  names that differ by the `lib` prefix, and names containing `-`.
- **MCParsers.** Output rules: every string of up to 4 characters over
  `/ ! = % x`, enough for two sigils followed by a pattern. Headers: every
  string of up to 7 characters over a space, `b`, `B`, `x` and a byte
  `to_str` refuses, with the keyword shortened to `b`. That reaches
  leading, trailing and doubled whitespace, a third word, a capital
  keyword and tokens of 2 and 3 characters.
- **Archive.** The safety run has three requests. Two find the same invalid
  document, and the third fetches it again and re-caches it between their
  unlinks. One request reads while the archive loops unlink the output file
  or purge the job. Up to two
  invalid documents let the cache be damaged again after a refetch. One job
  with one output file suffices, because jobs and files are archived and
  read independently. Two publish bodies, one with a name `one_safe`
  refuses, reach both the 400 and the publish. The liveness run has two
  requests and no symmetry: one can unlink the damaged document while the
  other fetches it again. Failures of the object store GET, of parsing
  its body and of its `is_valid` test all answer 500 and are one
  nondeterministic failure of `archive_fetch`.
- **Webhook.** Three requests with two uuids give a concurrent redelivery
  and a delivery made while the lock is held.

## Fairness

- **JobCore.** The assignment loop, the Files pool, completion and the
  worker each run in their own task on a loop (`main.rs` 962-1001), so
  they are weakly fair.
- **BasicCheckRun.** The front end calls `run()` for every active check run
  again and again, but other check runs compete for it. `run()` therefore
  has strong fairness, and the continuation steps of an in-progress call
  have weak fairness. The buildomat server is assumed to make progress on
  each job.
- **Webhook.**
  - A handler that started keeps running (weak fairness).
  - The other process holds the lock for one transaction at a time, so
    `lock_release` is weakly fair.
  - A handler retrying every 500 ms finds the lock free at one of the
    times it is free, so the store step is strongly fair.

- **Archive.** Each request is served by its own task, which the runtime
  keeps polling, so the steps of a request after it loaded the job row
  (`Serve(r)`) are weakly fair. New requests, the worker and the archive
  loops get no fairness.

## Not modelled

- `hash_to_string` (cache.rs). It is a pure formatting function. Its
  one-digit hex for bytes below 16 lets two digests give one key, which a
  unit test shows directly.
- The front end's `update_check_run` failing after `job_submit`
  (basic.rs 839). The model keeps one job per check run.
- The rest of authentication (`require_*`): the user, worker and factory
  lookups by token are database reads outside `src/`.
- The HTML pages of the GitHub server.
- The text `flush()` renders (the tail view, the summary); its
  FlushState is modelled.
- `factory_worker_destroy`'s requeue of a destroyed worker's job (see
  Refinement).
- The content of the archived document, built by archive-jobs outside
  `src/`; `archive_store` models only its PUT.
- `calculate_hash`: file I/O and SHA-256.
- Cache upload and restore.
- `src/client/src/ext.rs`.

`PROJECT.json` gives the reason for each of these.

## Plan for later sittings

1. Compose `BasicCheckRun` with `JobCore`. The `srv_*` actions would become
   an instance of `JobLifecycle`.
2. Model `update_check_run` failing after `job_submit` (basic.rs 839),
   with more than one job per check run.
3. Model a dependency on an unknown prior job (user.rs 774).
4. Model worker destruction and the requeue, with two workers.
