--------------------------- MODULE MCCacheClean ---------------------------
(* Package names of one to three symbols, starting with a letter or with  *)
(* "lib"; so "Lb" is the name "libb", whose stem is that of the library  *)
(* files of a package "b".                                                *)
EXTENDS CacheClean

MCNames ==
    {s \in BoundedSeq({"a", "b", "L", "-", "_"}, 3) :
        Len(s) >= 1 /\ s[1] \in {"a", "b", "L"}}

=============================================================================
