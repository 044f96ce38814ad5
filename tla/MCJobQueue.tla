---------------------------- MODULE MCJobQueue ----------------------------
(* Values of JobQueue's constants that a .cfg cannot write down. *)
EXTENDS JobQueueRefinement, TLC

CONSTANTS w1, w2, j1, j2, hostA, hostB

\* Two processes that report the same hostname:pid (a recycled pid, or two
\* containers with one name).
OneLabel  == (w1 :> hostA) @@ (w2 :> hostA)

\* Processes started with different job_max_attempts settings.
Mixed  == (w1 :> 1) @@ (w2 :> 2)
=============================================================================
