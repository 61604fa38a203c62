---------------------------- MODULE MCRegistries ----------------------------
(* Instances of Registries for TLC. *)
EXTENDS Registries, TLC
CONSTANTS k1, k2, k3, packed, older, added, first, broken

\* `packed` and `older` ship with the package.  `added` is of a new model, or of a
\* newer group of their part; `first` overrides `older`; `broken` comes between.
MCRank == (first :> 0) @@ (broken :> 1) @@ (added :> 2) @@ (older :> 3) @@ (packed :> 4)
MCKeysOf ==
  (first :> {k1}) @@ (broken :> {}) @@ (added :> {k3}) @@ (older :> {k1}) @@ (packed :> {k2})
MCAge == (k3 :> 0) @@ (k2 :> 1) @@ (k1 :> 2)
\* A name that ships; and one that does not, with a general variant that does (in
\* mms_map: then the newest group).
MCQueries == {<<k1>>, <<k3, k2>>}
=============================================================================
