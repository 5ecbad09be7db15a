----------------------------- MODULE MCApplication -----------------------------
(* Small instances of Application for TLC. *)
EXTENDS Application

\* Names with and without the separator, an empty one, and one that two others
\* make up when they are joined without it.
MCNames == {<<"a">>, <<"b">>, <<"a", "b">>, <<"a", Colon, "b">>, <<>>}

\* Every kind of URL, with a positive interval and one that is not.
MCConfigs == [url : {"", "memory", "redis", "unusable", "other", "garbled"}, interval : {0, 1}]

Symmetry == Permutations(Caches)
=============================================================================
