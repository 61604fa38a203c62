----------------------------- MODULE MCRdbCache -----------------------------
(* Instances of RdbCache for TLC. *)
EXTENDS RdbCacheRefinement, TLC
CONSTANTS t1, t2, h1, h2, gl, cfg

\* h1 has a relay with a GLE and its Cfg.txt; h2 has no GLE at all.
MCContent == (h1 :> {gl, cfg}) @@ (h2 :> {cfg})
\* Threads and names are interchangeable (builderBar chooses the one thread
\* that MutualExclusion leaves it).
Symmetry == Permutations({t1, t2}) \cup Permutations(Lock) \cup Permutations(Part)
=============================================================================
