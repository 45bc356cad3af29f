------------------------------ MODULE MCJobCore ------------------------------
(* Model-checking instances of JobCore.                                   *)
EXTENDS JobCore

\* Input commits: one job that may declare inputs, two names so that a
\* commit can disagree with an earlier one, two commit ids, two requests.
InputNames == {"n1", "n2"}
InputCommits == {"k1", "k2"}

\* Dependencies, cancellation and assignment: two jobs, one name, one
\* commit id.
DependNames == {"n1"}
DependCommits == {"k1"}

\* Bounds the input model: a job declares at most one input.
OneInput == \A j \in Jobs : job[j] # NoJob => Cardinality(job[j].inputs) <= 1
=============================================================================
