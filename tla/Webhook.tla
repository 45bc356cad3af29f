------------------------------ MODULE Webhook ------------------------------
(***************************************************************************)
(* Delivery ingest of the GitHub front end (webhook in                      *)
(* src/github/server/src/http.rs): each POST from GitHub is checked (its   *)
(* HMAC signature, its JSON, its delivery uuid and event headers) and then *)
(* stored with store_delivery, which is retried every 500 ms for as long   *)
(* as another process holds the database lock.  GitHub may deliver the    *)
(* same uuid again (a redelivery), and requests are handled concurrently.  *)
(***************************************************************************)
EXTENDS Naturals, FiniteSets

CONSTANTS
    Reqs,       \* the HTTP requests GitHub makes
    Uuids,      \* delivery uuids
    MaxSeq      \* bound on stored deliveries

VARIABLES
    req,        \* req[r]: the request r and where its handler is
    locked,     \* another process holds the SQLite write lock
    delivery,   \* delivery[u]: the sequence number stored for uuid u, or 0
    nextseq     \* the next delivery sequence number

vars == <<req, locked, delivery, nextseq>>

\* What can be wrong with a request: a bad signature header, a signature
\* mismatch, a body that is not JSON, or a missing uuid or event header.
Defects == {"none", "signature", "json", "headers"}

\* The handler's progress, its uuid and what is wrong with it.
Request == [pc : {"idle", "check", "store", "ok", "err"},
            uuid : Uuids, defect : Defects]

(***************************************************************************)
(* The handler                                                             *)
(***************************************************************************)

\* GitHub POSTs a delivery.
github_post(r) ==
    /\ req[r].pc = "idle"
    /\ \E u \in Uuids, d \in Defects :
          req' = [req EXCEPT ![r] = [pc |-> "check", uuid |-> u, defect |-> d]]
    /\ UNCHANGED <<locked, delivery, nextseq>>

\* The signature is computed over the raw body and compared, the body
\* parsed and the headers read; any failure answers 500 at once.
webhook_check(r) ==
    /\ req[r].pc = "check"
    /\ req' = [req EXCEPT ![r].pc = IF req[r].defect = "none" THEN "store"
                                                              ELSE "err"]
    /\ UNCHANGED <<locked, delivery, nextseq>>

\* store_delivery (spec-modelled): records a new uuid under the next
\* sequence number, or reports the one it already has as replayed.
StoreDelivery(u) ==
    IF delivery[u] # 0 THEN UNCHANGED <<delivery, nextseq>>
    ELSE /\ delivery' = [delivery EXCEPT ![u] = nextseq]
         /\ nextseq' = nextseq + 1

\* Mutant of StoreAttempt: a locked database fails the request like any
\* other error.
StoreAttemptNoRetry(r) ==
    IF locked THEN /\ req' = [req EXCEPT ![r].pc = "err"]
                   /\ UNCHANGED <<delivery, nextseq>>
    ELSE /\ StoreDelivery(req[r].uuid)
         /\ req' = [req EXCEPT ![r].pc = "ok"]

\* One attempt of the storing loop: while the database is locked the
\* handler sleeps and tries again; once it is not, the delivery is stored
\* and the request answered 200.
StoreAttempt(r) ==
    IF locked THEN UNCHANGED <<req, delivery, nextseq>>
    ELSE /\ StoreDelivery(req[r].uuid)
         /\ req' = [req EXCEPT ![r].pc = "ok"]

webhook_store(r) ==
    /\ req[r].pc = "store"
    /\ nextseq <= MaxSeq
    /\ StoreAttempt(r)
    /\ UNCHANGED locked

(***************************************************************************)
(* Another process using the same database takes and releases its lock.  *)
(***************************************************************************)
lock_take ==
    /\ ~locked
    /\ locked' = TRUE
    /\ UNCHANGED <<req, delivery, nextseq>>

lock_release ==
    /\ locked
    /\ locked' = FALSE
    /\ UNCHANGED <<req, delivery, nextseq>>

(***************************************************************************)
(* Specification                                                           *)
(***************************************************************************)
Init ==
    /\ req = [r \in Reqs |-> [pc |-> "idle", uuid |-> CHOOSE u \in Uuids : TRUE,
                               defect |-> "none"]]
    /\ locked = FALSE
    /\ delivery = [u \in Uuids |-> 0]
    /\ nextseq = 1

Next ==
    \/ \E r \in Reqs :
          github_post(r) \/ webhook_check(r) \/ webhook_store(r)
    \/ lock_take \/ lock_release

\* A handler once started runs on (weak fairness); the other process holds
\* the lock for one transaction at a time, so the lock is free again and
\* again, and a handler retrying every 500 ms finds it free at one of
\* those times (strong fairness of the storing step).
Fairness ==
    /\ \A r \in Reqs : WF_vars(webhook_check(r)) /\ SF_vars(webhook_store(r))
    /\ WF_vars(lock_release)

Spec == Init /\ [][Next]_vars /\ Fairness

(***************************************************************************)
(* Properties                                                              *)
(***************************************************************************)
\* GitHub does not retry a failed delivery, so every well-formed delivery
\* it posts is eventually stored, whoever holds the database lock when it
\* arrives and however many times the same uuid is redelivered.
WellFormedDeliveriesStored ==
    \A r \in Reqs :
        req[r].pc = "check" /\ req[r].defect = "none"
            ~> delivery[req[r].uuid] # 0

=============================================================================
