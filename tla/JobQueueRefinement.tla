------------------------- MODULE JobQueueRefinement -------------------------
(***************************************************************************)
(* The queue of JobQueue, seen job by job, implements FencedJob: the       *)
(* attempt number is the fencing token and the claims in the memory of the *)
(* worker processes are its holders.                                       *)
(***************************************************************************)
EXTENDS JobQueue

StateOf(j) ==
  IF job[j].status = "absent" THEN "absent"
  ELSE IF job[j].status = "queued" THEN "waiting"
  ELSE IF job[j].status = "running" THEN "held" ELSE "settled"

OutcomeOf(j) == IF job[j].status \in Terminal THEN job[j].status ELSE "none"

HoldersOf(j) == {proc[w].attempt : w \in {v \in Workers : proc[v].job = j}}

Abstract(j) == INSTANCE FencedJob WITH
  state <- StateOf(j), token <- job[j].attempt,
  holders <- HoldersOf(j), outcome <- OutcomeOf(j)

\* Every job, through all interleavings of claims, heartbeats, settlements,
\* shutdowns, crashes and sweeps, behaves like the lock service of FencedJob:
\* a process whose claim was superseded has no effect on the job.  The formula
\* is \A j \in Jobs : Abstract(j)!Spec with the quantifier moved inside, as one
\* poll may sweep some jobs and grant another.
ImplementsFencedJob ==
  /\ \A j \in Jobs : Abstract(j)!Init
  /\ [][\A j \in Jobs : [Abstract(j)!Next]_(Abstract(j)!fenced)]_vars
=============================================================================
