----------------------------- MODULE MCArchive -----------------------------
(* Three concurrent requests: two to find one invalid cached document    *)
(* and a third to fetch and re-cache it in between, or to read while the *)
(* archive loops unlink the output file or mark and purge the job, or to *)
(* put a store value the archiver then misses.                            *)
EXTENDS Archive, TLC

CONSTANTS r1, r2, r3

MCRequests == {r1, r2, r3}

\* Two requests for the liveness run, which cannot use symmetry: enough
\* for one to unlink the invalid document while the other fetches it.
MCRequestPair == {r1, r2}

\* One publish body that one_safe accepts and one whose name it refuses.
MCPublishIds ==
    {[series |-> <<"v", "1">>, version |-> <<"1", ".", "0">>, name |-> <<"o", "k">>],
     [series |-> <<"v", "1">>, version |-> <<"1", ".", "0">>, name |-> <<"a", "/">>]}

\* The requests are interchangeable.
RequestSymmetry == Permutations(MCRequests)

=============================================================================
