------------------------------- MODULE Archive -------------------------------
(***************************************************************************)
(* The read path of a completed job that the archiver moves to the object *)
(* store, in src/server/src/main.rs and src/server/src/api/user.rs.        *)
(*                                                                         *)
(* The read handlers (job_events_get, job_outputs_get, job_store_get_all, *)
(* job_get) first load the job row with load_job_for_user.  They then      *)
(* dispatch on the archived flag of THAT row: a live job is read from the  *)
(* database tables, an archived one through archive_load.  archive_load    *)
(* opens the local cache file archive/{job}.json.  A cached document that *)
(* does not parse is an error; one that parses but fails is_valid is      *)
(* unlinked.  If the cache is missing or was unlinked, it GETs the         *)
(* document from the object store, checks it, and persists it to the      *)
(* cache by temp file and rename.                                          *)
(*                                                                         *)
(* job_output_download and job_output_signed_url load the output record  *)
(* the same way (load_job_output), then serve the file: file_response     *)
(* tests whether output/{job}/{file} exists locally, then opens it, and    *)
(* otherwise GETs it from the object store; file_presigned_url always     *)
(* signs an object store URL.                                              *)
(*                                                                         *)
(* job_store_put refuses to write the store of a job that is complete,   *)
(* judged on the row it loaded.  job_output_publish checks the published  *)
(* name, loads the output record like a download and records the name.    *)
(*                                                                         *)
(* The archive loops are outside src/ and are modelled from the spec.     *)
(* archive-files uploads the output file and, once the upload is          *)
(* confirmed, unlinks the local copy.  archive-jobs, for a job whose files *)
(* are archived, uploads the document (archive_store), caches it locally,  *)
(* then marks the job archived and purges its event and store rows.        *)
(*                                                                         *)
(* One job with one output file and one store value is modelled; jobs are *)
(* archived and read independently.  Data is abstracted to whether a      *)
(* place holds it.                                                         *)
(***************************************************************************)
EXTENDS Naturals, Sequences

CONSTANTS
    Requests,   \* concurrent HTTP requests on the job
    MaxDamage,  \* bound on cached documents damaged
    PublishIds  \* the (series, version, name) a publish request may carry

ASSUME MaxDamage \in Nat

\* What each read handler returns, and which of it the archiver purges
\* from the database (spec: "purge heavyweight rows (events, store)").
Kinds  == {"events", "outputs", "store", "tasks", "download", "sign",
           "put", "publish"}
Purged == {"events", "store"}

\* A reply: the job's rows (or the file's bytes), a signed URL, an empty
\* list read from purged tables, a store list without the value last put,
\* or a 500: a cached document that does not parse, a failed unlink of
\* the cache, a failed GET from the object store, a failed open of the
\* local file, or a GET of a file the object store does not hold.  A write
\* answers 204, 409 or 400.
Replies == {"rows", "url", "empty", "stale", "parseerr", "notfound",
            "storeerr", "openerr", "nosuchkey", "ok", "conflict", "badreq"}

VARIABLES
    archived,   \* the job row's archived flag
    live,       \* live[k]: "rows", or "purged" once the archiver purged k
    s3,         \* the document in the object store: "absent" or "valid"
    cache,      \* archive/{job}.json: "absent", "valid", "damaged" (fails
                \* is_valid) or "malformed" (does not parse)
    archiver,   \* step of the archive-jobs loop: "idle", "uploaded", "cached", "done"
    damaged,    \* cached documents damaged so far
    outfile,    \* the output file: [local: in output/{job}, stored: in the object store]
    complete,   \* the job row's complete flag
    putval,     \* the store value: see Value below
    published,  \* the output has been published under a name
    req         \* req[r]: the request's pc, kind, row snapshot and reply

\* Everything but the requests.
jobdata == <<complete, putval, published>>
server == <<archived, live, s3, cache, archiver, damaged, outfile, jobdata>>
vars == <<server, req>>

Idle == [pc |-> "idle", kind |-> "events", archived |-> FALSE,
         complete |-> FALSE, reply |-> "rows"]

\* The value a user last put into the job's store: whether its row is in
\* the live store table, whether the archived document holds it, and
\* whether a put was answered 204.
Value == [row : BOOLEAN, doc : BOOLEAN, acked : BOOLEAN]

TypeOK ==
    /\ archived \in BOOLEAN
    /\ live \in [Kinds -> {"rows", "purged"}]
    /\ s3 \in {"absent", "valid"}
    /\ cache \in {"absent", "valid", "damaged", "malformed"}
    /\ archiver \in {"idle", "uploaded", "cached", "done"}
    /\ damaged \in Nat
    /\ outfile \in [local : BOOLEAN, stored : BOOLEAN]
    /\ complete \in BOOLEAN
    /\ putval \in Value
    /\ published \in BOOLEAN
    /\ req \in [Requests -> [pc : {"idle", "loaded", "unlink", "fetch",
                                   "file", "open", "get", "publish", "done"},
                             kind : Kinds, archived : BOOLEAN,
                             complete : BOOLEAN, reply : Replies]]

\* The job is running: nothing archived, its output file is in local
\* staging only, and nothing has been put into its store.
Init ==
    /\ archived = FALSE
    /\ live = [k \in Kinds |-> "rows"]
    /\ s3 = "absent"
    /\ cache = "absent"
    /\ archiver = "idle"
    /\ damaged = 0
    /\ outfile = [local |-> TRUE, stored |-> FALSE]
    /\ complete = FALSE
    /\ putval = [row |-> FALSE, doc |-> FALSE, acked |-> FALSE]
    /\ published = FALSE
    /\ req = [r \in Requests |-> Idle]

Reply(r, v) ==
    req' = [req EXCEPT ![r].pc = "done", ![r].reply = v]

\* The records are loaded from a source that holds (held) or lacks the
\* value last put: an output request goes on to serve the file or publish
\* it, a read answers the rows, which for the store lack an acknowledged
\* value the source does not hold.
Found(r, held) ==
    CASE req[r].kind \in {"download", "sign"} -> req' = [req EXCEPT ![r].pc = "file"]
      [] req[r].kind = "publish" -> req' = [req EXCEPT ![r].pc = "publish"]
      [] OTHER -> Reply(r, IF req[r].kind = "store" /\ putval.acked /\ ~held
                           THEN "stale" ELSE "rows")

(***************************************************************************)
(* The handlers.  Each loads the job row (load_job_for_user) and keeps    *)
(* the field it goes on to test: the archived flag that the dispatch of a  *)
(* read tests, or the complete flag that job_store_put tests.              *)
(***************************************************************************)
\* The mutant of load_job_for_user whose snapshot leaves out the complete
\* flag.
load_job_for_user_no_complete(r, k) ==
    /\ req[r].pc = "idle"
    /\ req' = [req EXCEPT ![r] = [pc |-> "loaded", kind |-> k,
                                  archived |-> archived /\ k # "put",
                                  reply |-> "rows"]]
    /\ UNCHANGED server

load_job_for_user(r, k) ==
    /\ req[r].pc = "idle"
    /\ req' = [req EXCEPT ![r] = [pc |-> "loaded", kind |-> k,
                                  archived |-> archived /\ k # "put",
                                  complete |-> complete /\ k = "put",
                                  reply |-> "rows"]]
    /\ UNCHANGED server

job_events_get(r)    == load_job_for_user(r, "events")
job_outputs_get(r)   == load_job_for_user(r, "outputs")
job_store_get_all(r) == load_job_for_user(r, "store")
job_get(r)           == load_job_for_user(r, "tasks")
job_output_download(r)   == load_job_for_user(r, "download")
job_output_signed_url(r) == load_job_for_user(r, "sign")
job_store_put(r)         == load_job_for_user(r, "put")

\* JobOutputPublish::one_safe: 2 to 48 characters, each an ASCII letter or
\* digit, '-', '_' or '.'.
SafeChars ==
    {"0", "1", "2", "3", "4", "5", "6", "7", "8", "9", "-", "_", ".",
     "a", "b", "c", "d", "e", "f", "g", "h", "i", "j", "k", "l", "m", "n",
     "o", "p", "q", "r", "s", "t", "u", "v", "w", "x", "y", "z",
     "A", "B", "C", "D", "E", "F", "G", "H", "I", "J", "K", "L", "M", "N",
     "O", "P", "Q", "R", "S", "T", "U", "V", "W", "X", "Y", "Z"}
one_safe(n) == Len(n) \in 2..48 /\ \A i \in DOMAIN n : n[i] \in SafeChars

\* The body is checked before anything is loaded; an unsafe series,
\* version or name is answered 400.
job_output_publish(r) ==
    \E b \in PublishIds :
        IF one_safe(b.series) /\ one_safe(b.version) /\ one_safe(b.name)
        THEN load_job_for_user(r, "publish")
        ELSE /\ req[r].pc = "idle"
             /\ req' = [req EXCEPT ![r] = [Idle EXCEPT !.pc = "done",
                                                      !.kind = "publish",
                                                      !.reply = "badreq"]]
             /\ UNCHANGED server

\* job_store_put: a job complete in the loaded row is refused with 409;
\* otherwise db.job_store_put writes the value into the live store table,
\* whatever the job has become since (purged too), and the put is
\* answered 204.
store_put(r) ==
    /\ req[r].pc = "loaded" /\ req[r].kind = "put"
    /\ \/ req[r].complete /\ Reply(r, "conflict") /\ UNCHANGED <<putval, live>>
       \/ ~req[r].complete /\ Reply(r, "ok")
          /\ putval' = [row |-> TRUE, doc |-> FALSE, acked |-> TRUE]
          /\ live' = [live EXCEPT !["store"] = "rows"]
    /\ UNCHANGED <<archived, s3, cache, archiver, damaged, outfile,
                   complete, published>>

\* db.job_publish_output, once load_job_output found the output record.
publish_output(r) ==
    /\ req[r].pc = "publish"
    /\ published' = TRUE /\ Reply(r, "ok")
    /\ UNCHANGED <<archived, live, s3, cache, archiver, damaged, outfile,
                   complete, putval>>

\* load_job_events / load_job_outputs / load_job_output / db.job_store /
\* db.job_tasks for a job whose snapshot is not archived: the live tables,
\* purged or not.
load_live(r) ==
    /\ req[r].pc = "loaded" /\ ~req[r].archived /\ req[r].kind # "put"
    /\ IF live[req[r].kind] = "rows" THEN Found(r, putval.row)
                                     ELSE Reply(r, "empty")
    /\ UNCHANGED server

\* The mutant of archive_open that bails out on an invalid cached document
\* instead of unlinking it.
archive_open_no_unlink(r) ==
    /\ req[r].pc = "loaded" /\ req[r].archived /\ req[r].kind # "put"
    /\ \/ cache = "valid" /\ Found(r, putval.doc)
       \/ cache \in {"damaged", "malformed"} /\ Reply(r, "parseerr")
       \/ cache = "absent" /\ req' = [req EXCEPT ![r].pc = "fetch"]
    /\ UNCHANGED server

\* archive_load, first part: open the cache file; a valid document is the
\* answer, one that does not parse fails the read (serde_json::from_reader
\* returns its error with ?, and the file stays), one that fails is_valid
\* is to be unlinked, a missing one is fetched.
archive_open(r) ==
    /\ req[r].pc = "loaded" /\ req[r].archived /\ req[r].kind # "put"
    /\ \/ cache = "valid" /\ Found(r, putval.doc)
       \/ cache = "malformed" /\ Reply(r, "parseerr")
       \/ cache = "damaged" /\ req' = [req EXCEPT ![r].pc = "unlink"]
       \/ cache = "absent" /\ req' = [req EXCEPT ![r].pc = "fetch"]
    /\ UNCHANGED server

\* std::fs::remove_file(&apath)?  The file may be gone or replaced by now:
\* another request may have unlinked it (NotFound, a 500) or fetched it
\* again (this request then unlinks the fresh copy).
archive_unlink(r) ==
    /\ req[r].pc = "unlink"
    /\ \/ cache # "absent" /\ cache' = "absent"
          /\ req' = [req EXCEPT ![r].pc = "fetch"]
       \/ cache = "absent" /\ Reply(r, "notfound") /\ UNCHANGED cache
    /\ UNCHANGED <<archived, live, s3, archiver, damaged, outfile, jobdata>>

\* The GET from the object store, then the parse and is_valid test of its
\* body: any of the three may fail the read with a 500.  A valid body is
\* persisted to the cache by rename, replacing whatever is there.
archive_fetch(r) ==
    /\ req[r].pc = "fetch"
    /\ \/ Reply(r, "storeerr") /\ UNCHANGED cache
       \/ s3 = "valid" /\ cache' = "valid" /\ Found(r, putval.doc)
    /\ UNCHANGED <<archived, live, s3, archiver, damaged, outfile, jobdata>>

\* file_response: op.is_file() decides between the local file and the
\* object store; the open of the local file comes after an await.
file_response(r) ==
    /\ req[r].pc = "file" /\ req[r].kind = "download"
    /\ req' = [req EXCEPT ![r].pc = IF outfile.local THEN "open" ELSE "get"]
    /\ UNCHANGED server

\* tokio::fs::File::open(op).await?
file_open(r) ==
    /\ req[r].pc = "open"
    /\ Reply(r, IF outfile.local THEN "rows" ELSE "openerr")
    /\ UNCHANGED server

\* The GET of output/{job}/{file} from the object store, which may fail.
file_get(r) ==
    /\ req[r].pc = "get"
    /\ \/ Reply(r, "storeerr")
       \/ Reply(r, IF outfile.stored THEN "rows" ELSE "nosuchkey")
    /\ UNCHANGED server

\* Presigned URLs always come from the object store.
file_presigned_url(r) ==
    /\ req[r].pc = "file" /\ req[r].kind = "sign"
    /\ Reply(r, "url")
    /\ UNCHANGED server

\* The response is sent; the request slot serves a later request.
respond(r) ==
    /\ req[r].pc = "done"
    /\ req' = [req EXCEPT ![r] = Idle]
    /\ UNCHANGED server

(***************************************************************************)
(* The worker finishing the job, and the archive loops (spec-modelled,    *)
(* except the job upload).                                                 *)
(***************************************************************************)
job_complete ==
    /\ ~complete
    /\ complete' = TRUE
    /\ UNCHANGED <<archived, live, s3, cache, archiver, damaged, outfile,
                   putval, published, req>>

archive_file_upload ==
    /\ complete /\ outfile.local /\ ~outfile.stored
    /\ outfile' = [outfile EXCEPT !.stored = TRUE]
    /\ UNCHANGED <<archived, live, s3, cache, archiver, damaged, jobdata, req>>

archive_file_unlink ==
    /\ outfile.local /\ outfile.stored
    /\ outfile' = [outfile EXCEPT !.local = FALSE]
    /\ UNCHANGED <<archived, live, s3, cache, archiver, damaged, jobdata, req>>

\* The document, serialised from the live rows, store values included, is
\* uploaded.
archive_store ==
    /\ archiver = "idle" /\ ~outfile.local /\ outfile.stored
    /\ s3' = "valid" /\ archiver' = "uploaded"
    /\ putval' = [putval EXCEPT !.doc = putval.row]
    /\ UNCHANGED <<archived, live, cache, damaged, outfile, complete,
                   published, req>>

archive_cache ==
    /\ archiver = "uploaded"
    /\ cache' = "valid" /\ archiver' = "cached"
    /\ UNCHANGED <<archived, live, s3, damaged, outfile, jobdata, req>>

archive_mark_purge ==
    /\ archiver = "cached"
    /\ archived' = TRUE
    /\ live' = [k \in Kinds |-> IF k \in Purged THEN "purged" ELSE live[k]]
    /\ putval' = [putval EXCEPT !.row = FALSE]
    /\ archiver' = "done"
    /\ UNCHANGED <<s3, cache, damaged, outfile, complete, published, req>>

\* A cached document stops passing is_valid, or stops parsing at all (left
\* by another version of the server, or damaged on disk).
cache_damage ==
    /\ cache = "valid" /\ damaged < MaxDamage
    /\ \E c \in {"damaged", "malformed"} : cache' = c
    /\ damaged' = damaged + 1
    /\ UNCHANGED <<archived, live, s3, archiver, outfile, jobdata, req>>

Next ==
    \/ \E r \in Requests :
          \/ job_events_get(r) \/ job_outputs_get(r)
          \/ job_store_get_all(r) \/ job_get(r)
          \/ job_output_download(r) \/ job_output_signed_url(r)
          \/ job_store_put(r) \/ store_put(r)
          \/ job_output_publish(r) \/ publish_output(r)
          \/ load_live(r) \/ archive_open(r) \/ archive_unlink(r)
          \/ archive_fetch(r) \/ file_response(r) \/ file_open(r)
          \/ file_get(r) \/ file_presigned_url(r) \/ respond(r)
    \/ job_complete \/ archive_file_upload \/ archive_file_unlink
    \/ archive_store \/ archive_cache \/ archive_mark_purge
    \/ cache_damage

\* The steps of a request after it loaded the job row.
Serve(r) ==
    \/ store_put(r) \/ publish_output(r) \/ load_live(r) \/ archive_open(r)
    \/ archive_unlink(r) \/ archive_fetch(r) \/ file_response(r)
    \/ file_open(r) \/ file_get(r) \/ file_presigned_url(r)

Spec == Init /\ [][Next]_vars

\* Each request is served by its own task, which the runtime keeps
\* polling: a request that has loaded the row is carried to its reply.
FairSpec == Spec /\ \A r \in Requests : WF_vars(Serve(r))

-----------------------------------------------------------------------------
(* Properties *)

\* A cached document that fails is_valid does not stay: once an archived
\* read has loaded the row, archive_load unlinks it (or finds that another
\* request already replaced it), so that a later read fetches the document
\* afresh; two requests unlinking and fetching around each other do not
\* leave it in place.
CacheRepaired ==
    (cache = "damaged" /\ \E r \in Requests : req[r].pc = "loaded" /\ req[r].archived)
        ~> cache # "damaged"

\* Archiving is transparent (spec: load_job_events(0) and the other reads
\* return the pre-archive values; a malformed cached document never
\* poisons a read; the store is a scratch area for running jobs): every
\* read answers the job's rows, every store list holds the value last put
\* with a 204, and only a failed GET from the object store may fail a read.
ReadsFaithful ==
    \A r \in Requests :
        req[r].pc = "done" =>
            req[r].reply \in {"rows", "url", "storeerr", "ok", "conflict", "badreq"}

=============================================================================
