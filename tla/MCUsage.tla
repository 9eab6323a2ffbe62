------------------------------- MODULE MCUsage -------------------------------
(* The instance of Usage for TLC.  No symmetry: the run checks liveness.    *)
EXTENDS Usage

\* As many failing writes as there are queries, so that every batch may fail.
MCErrors == MaxQueries
==============================================================================
