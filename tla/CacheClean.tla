----------------------------- MODULE CacheClean -----------------------------
(***************************************************************************)
(* clean_target_dir of the CLI's "cache upload" (src/bin/src/cache.rs):    *)
(* before the target directory is cached, the build products of the       *)
(* workspace's own packages are removed from target/debug/deps and         *)
(* target/debug/.fingerprint, and those of the dependencies kept.          *)
(*                                                                         *)
(* File names are sequences of characters over a small alphabet: "a" and  *)
(* "b" stand for letters other than l, i and b, "-" and "_" are          *)
(* themselves, "L" stands for the three letters "lib" (in a package name  *)
(* as well as in the prefix of library files), and "h1", "h2" for the     *)
(* hashes cargo appends.                                                   *)
(* Each iteration of the loop over the directory entries is one step.     *)
(***************************************************************************)
EXTENDS Naturals, Sequences, SequencesExt

CONSTANTS
    Names       \* package names, as sequences over {"a", "b", "L", "-", "_"}

VARIABLES
    workspace,  \* the workspace's own packages (metadata.workspace_packages)
    deps,       \* the packages the workspace depends on
    dry_run,    \* the --dry-run option
    files,      \* the entries of the two directories
    todo        \* the entries read_dir returned that are not yet considered

vars == <<workspace, deps, dry_run, files, todo>>

\* package.name.replace("-", "_"), and stem.replace('-', "_").
Underscore(s) == [i \in 1..Len(s) |-> IF s[i] = "-" THEN "_" ELSE s[i]]

\* Cargo's build products for a package: "<name>-<hash>" (binaries, .d
\* files and the .fingerprint directories) and "lib<name>-<hash>" (.rlib
\* and .rmeta), with the package name's dashes turned into underscores.
\* The workspace's packages are built with hash h1, the dependencies with
\* h2, so that two packages never produce one file.
Artefacts(p, h) ==
    LET n == Underscore(p) IN
    {n \o <<"-", h>>, <<"L">> \o n \o <<"-", h>>}

ArtefactsOf(ps, h) == UNION {Artefacts(p, h) : p \in ps}

\* rsplit_once: the parts before and after the last delimiter, or None
\* (the empty set) when there is none.
RsplitOnce(s, d) ==
    LET at == {i \in 1..Len(s) : s[i] = d}
        i  == CHOOSE i \in at : \A k \in at : k <= i
    IN IF at = {} THEN {}
       ELSE {<<SubSeq(s, 1, i - 1), SubSeq(s, i + 1, Len(s))>>}

\* The decision for one entry: a name without "-" is removed, and so is one
\* whose stem, with "-" as "_", names a workspace package.
ToDelete(f, ws) ==
    LET split == RsplitOnce(f, "-") IN
    \/ split = {}
    \/ \E sp \in split : Underscore(sp[1]) \in {Underscore(p) : p \in ws}

(***************************************************************************)
(* The loop                                                                *)
(***************************************************************************)

\* One entry: removed with rm_rf unless this is a dry run.
consider(f) ==
    /\ f \in todo
    /\ todo' = todo \ {f}
    /\ files' = IF ToDelete(f, workspace) /\ ~dry_run THEN files \ {f}
                                                       ELSE files
    /\ UNCHANGED <<workspace, deps, dry_run>>

\* A workspace and its dependencies; two packages never share a name once
\* "-" and "_" are identified (crates.io treats them as the same name).
Init ==
    /\ workspace \in {{n} : n \in Names}
    /\ deps \in {{n} : n \in Names}
    /\ \A w \in workspace, d \in deps : Underscore(w) # Underscore(d)
    /\ dry_run \in BOOLEAN
    /\ files = ArtefactsOf(workspace, "h1") \cup ArtefactsOf(deps, "h2")
    /\ todo = files

Next == \E f \in todo : consider(f)

Spec == Init /\ [][Next]_vars

(***************************************************************************)
(* Properties                                                              *)
(***************************************************************************)

\* The doc comment of clean_target_dir: the cache saves the artefacts of
\* the dependencies only, and not those of the workspace's own code.  Once
\* the loop has considered every entry (and this is not a dry run), the
\* files left are exactly the dependencies' build products, although
\* entries are matched on the stem before the last "-", with "-" and "_"
\* identified, and library files carry a "lib" prefix.
CachesDependenciesOnly ==
    todo = {} /\ ~dry_run => files = ArtefactsOf(deps, "h2")

=============================================================================
