----------------------------- MODULE MCRdbSweep -----------------------------
(* Instances of RdbSweep for TLC. *)
EXTENDS RdbSweep, TLC
CONSTANTS t1, t2, gl, cfg

\* Every RDB here has a relay with a GLE and its Cfg.txt.
MCContent == [h \in Sha |-> {gl, cfg}]
\* Smaller RDBs, of one GLE.
MCContentOne == [h \in Sha |-> {gl}]
Threads == Permutations({t1, t2})
=============================================================================
