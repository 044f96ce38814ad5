------------------------------ MODULE JobQueue ------------------------------
(***************************************************************************)
(* The durable ingestion queue (backend/uri_backend/ingestion/queue.py)    *)
(* and the worker processes that drive it (ingestion/worker.py): claims    *)
(* fenced by an attempt number and a lease, heartbeats, completion,        *)
(* failure and retry, release on shutdown, crashes, and the sweep that     *)
(* closes work whose last lease ran out.                                   *)
(*                                                                         *)
(* One action is one committed database transaction.  Every transaction    *)
(* of queue.py locks the job row before it reads it for good, so the       *)
(* transactions on one row are serial; what the locks still let through    *)
(* (SKIP LOCKED) is the set `skipped' of a poll.  Time is relative:        *)
(* job[j].lease is the number of ticks before lease_expires_at, 0 once it  *)
(* is past.  available_at is only ever set to now(), so it gives an order  *)
(* of the rows, `before', and never a row that is not yet available; rows  *)
(* that one transaction enqueues tie.  now() is the start of a transaction *)
(* and the order here is that of the commits, which no property tells      *)
(* apart.                                                                  *)
(***************************************************************************)
EXTENDS Integers, Sequences

CONSTANTS
  Jobs,              \* the rows ingestion_jobs can hold, each with its run
  Workers,           \* run_worker processes
  Labels, Label,     \* worker_id strings, and the one each process uses
  Allowance,         \* each process's job_max_attempts setting
  DefaultAllowance,  \* the column default of max_attempts
  LeaseTicks,        \* job_lease_seconds, in ticks
  Reliable,          \* processes that neither crash nor are shut down
  ReleaseBound,      \* bound: shutdowns that interrupt a handler
  NoJob, NoLabel     \* NULL

ASSUME QueueAssumption ==
  /\ Label \in [Workers -> Labels]
  /\ Allowance \in [Workers -> Nat \ {0}]
  /\ DefaultAllowance \in Nat \ {0}
  /\ LeaseTicks \in Nat \ {0}
  /\ Reliable \subseteq Workers
  /\ ReleaseBound \in Nat
  /\ NoJob \notin Jobs
  /\ NoLabel \notin Labels

VARIABLES
  job,       \* ingestion_jobs: one row per job
  run,       \* ingestion_runs: status and error_code of the job's run
  history,   \* ingestion_job_attempts: the outcomes of a job's attempts
  before,    \* before[j]: the rows ORDER BY available_at, created_at puts before j
  proc,      \* the memory of each worker process
  releases   \* shutdowns so far that interrupted a handler

vars == <<job, run, history, before, proc, releases>>

Terminal == {"succeeded", "failed", "cancelled"}
Status   == {"absent", "queued", "running"} \cup Terminal
Error    == {"none", "lease_expired", "handler_error"}
Outcome  == {"open", "retry", "lease_expired"} \cup Terminal
Verdict  == {"none", "succeeded", "retry", "failed"}
NoLease  == -1

JobRow  == [status: Status, worker: Labels \cup {NoLabel}, attempt: Nat,
            max: Nat \ {0}, lease: (0..LeaseTicks) \cup {NoLease}, error: Error]
RunRow  == [status: Status, error: Error]
Process == [phase: {"down", "polling", "working", "settling"},
            job: Jobs \cup {NoJob}, attempt: Nat, verdict: Verdict]

NoRow   == [status |-> "absent", worker |-> NoLabel, attempt |-> 0,
            max |-> DefaultAllowance, lease |-> NoLease, error |-> "none"]
Idle(p) == [phase |-> p, job |-> NoJob, attempt |-> 0, verdict |-> "none"]

-----------------------------------------------------------------------------
(* Conditions the SQL of queue.py states on a row.                         *)

\* Mutant: a poll takes a lease in its last tick.
ExpiredEarly(j) == job[j].status = "running" /\ job[j].lease <= 1

\* status = 'running' and lease_expires_at <= now()
Expired(j) == job[j].status = "running" /\ job[j].lease = 0

\* An expired lease with no attempt left: what a poll closes for good.
Exhausted(j) == Expired(j) /\ job[j].attempt >= job[j].max

\* Mutant: a poll looks at queued rows only.
ClaimableQueuedOnly(j) == job[j].status = "queued"

\* What a poll may claim.
Claimable(j) == \/ job[j].status = "queued"
                \/ Expired(j) /\ job[j].attempt < job[j].max

Live(j) == job[j].status = "running" /\ job[j].lease > 0

\* Mutant: the fence compares worker_id and forgets the attempt.
OwnsByLabel(w) ==
  /\ proc[w].phase \in {"working", "settling"}
  /\ Live(proc[w].job)
  /\ job[proc[w].job].worker = Label[w]

\* owned_claim: the row still carries this process's label and attempt, and
\* the lease is not over.
Owns(w) ==
  /\ proc[w].phase \in {"working", "settling"}
  /\ Live(proc[w].job)
  /\ job[proc[w].job].attempt = proc[w].attempt
  /\ job[proc[w].job].worker = Label[w]

\* Rows a transaction of another process may hold, which SKIP LOCKED hides
\* from w's poll: its claim, its heartbeat or its handler's transaction.
Lockable(w) == {j \in Jobs : \E v \in Workers \ {w} :
                  proc[v].phase = "polling" \/ proc[v].job = j}

-----------------------------------------------------------------------------
(* Writes shared by the transactions.                                      *)

\* Mutant: the update forgets WHERE attempt = ...
FinishedAll(j, outcome) == [n \in DOMAIN history[j] |-> outcome]

\* _finish_attempt: close the row of the job's current attempt.
Finished(j, outcome) == [history[j] EXCEPT ![job[j].attempt] = outcome]

Enqueued == {j \in Jobs : job[j].status # "absent"}

\* available_at := now(): j now comes after every row already there.
Restamped(j) == [k \in Jobs |-> IF k = j THEN Enqueued \ {j} ELSE before[k] \ {j}]

\* The rows a new one may have been enqueued together with.
Newest == {k \in Enqueued : /\ job[k].status = "queued" /\ job[k].attempt = 0
                            /\ \A i \in Enqueued : k \notin before[i]}

\* The run row is written together with the job row it belongs to.
SetJob(j, row) ==
  /\ job' = [job EXCEPT ![j] = row]
  /\ run' = [run EXCEPT ![j] = [status |-> row.status, error |-> row.error]]

Init ==
  /\ job = [j \in Jobs |-> NoRow]
  /\ run = [j \in Jobs |-> [status |-> "absent", error |-> "none"]]
  /\ history = [j \in Jobs |-> <<>>]
  /\ before = [j \in Jobs |-> {}]
  /\ proc = [w \in Workers |-> Idle("polling")]
  /\ releases = 0

-----------------------------------------------------------------------------
\* Mutant: ON CONFLICT DO UPDATE in place of DO NOTHING.
EnqueueOverwriting(j) ==
  /\ SetJob(j, [NoRow EXCEPT !.status = "queued"])
  /\ before' = Restamped(j)
  /\ UNCHANGED <<history, proc, releases>>

\* enqueue_ingestion: both inserts do nothing when the row is there.
Enqueue(j) ==
  /\ IF job[j].status = "absent"
     THEN /\ SetJob(j, [NoRow EXCEPT !.status = "queued"])
          /\ \/ before' = Restamped(j)
             \/ \E k \in Newest : before' = [before EXCEPT ![j] = before[k]]
     ELSE UNCHANGED <<job, run, before>>
  /\ UNCHANGED <<history, proc, releases>>

(* claim_next_job of process w is one transaction: it fails every exhausted *)
(* row it can lock, then takes the first row it can claim.                 *)

Dead(skipped)  == {j \in Jobs \ skipped : Exhausted(j)}
Ready(skipped) == {j \in Jobs \ skipped : Claimable(j)}

\* The sweep leaves the worker and lease columns as they are.
SweptJobs(skipped) == [j \in Jobs |-> IF j \in Dead(skipped)
  THEN [job[j] EXCEPT !.status = "failed", !.error = "lease_expired"] ELSE job[j]]
SweptRuns(skipped) == [j \in Jobs |-> IF j \in Dead(skipped)
  THEN [status |-> "failed", error |-> "lease_expired"] ELSE run[j]]
SweptHistory(skipped) == [j \in Jobs |-> IF j \in Dead(skipped)
  THEN Finished(j, "lease_expired") ELSE history[j]]

\* The row once w has claimed it: the first claim fixes the allowance.
Granted(w, j) ==
  [status |-> "running", worker |-> Label[w], attempt |-> job[j].attempt + 1,
   max |-> IF job[j].attempt = 0 THEN Allowance[w] ELSE job[j].max,
   lease |-> LeaseTicks, error |-> "none"]

\* The poll that finds nothing to claim.
PollEmpty(w, skipped) ==
  /\ proc[w].phase = "polling"
  /\ Ready(skipped) = {}
  /\ job' = SweptJobs(skipped)
  /\ run' = SweptRuns(skipped)
  /\ history' = SweptHistory(skipped)
  /\ UNCHANGED <<before, proc, releases>>

\* The poll that claims j and starts its handler and its heartbeat.
Claim(w, j, skipped) ==
  /\ proc[w].phase = "polling"
  /\ j \in Ready(skipped)
  /\ before[j] \cap Ready(skipped) = {}
  /\ job' = [SweptJobs(skipped) EXCEPT ![j] = Granted(w, j)]
  /\ run' = [SweptRuns(skipped) EXCEPT ![j] = [status |-> "running", error |-> "none"]]
  /\ history' = [SweptHistory(skipped) EXCEPT ![j] =
       Append(IF job[j].status = "running" THEN Finished(j, "lease_expired")
                                           ELSE history[j], "open")]
  /\ proc' = [proc EXCEPT ![w] = [phase |-> "working", job |-> j,
                                  attempt |-> job[j].attempt + 1, verdict |-> "none"]]
  /\ UNCHANGED <<before, releases>>

\* One round of _renew_lease: owned_claim, then heartbeat_job.
Heartbeat(w) ==
  /\ Owns(w)
  /\ job' = [job EXCEPT ![proc[w].job].lease = LeaseTicks]
  /\ UNCHANGED <<run, history, before, proc, releases>>

\* The handler returns, or raises an error that is retryable or is not.
HandlerEnds(w) ==
  /\ proc[w].phase = "working"
  /\ \E verdict \in Verdict \ {"none"} :
       proc' = [proc EXCEPT ![w].phase = "settling", ![w].verdict = verdict]
  /\ UNCHANGED <<job, run, history, before, releases>>

\* _complete_transition: owned_claim, then complete_job.
Complete(w) ==
  LET j == proc[w].job IN
  /\ proc[w].phase = "settling" /\ proc[w].verdict = "succeeded"
  /\ Owns(w)
  /\ SetJob(j, [job[j] EXCEPT !.status = "succeeded", !.lease = NoLease])
  /\ history' = [history EXCEPT ![j] = Finished(j, "succeeded")]
  /\ proc' = [proc EXCEPT ![w] = Idle("polling")]
  /\ UNCHANGED <<before, releases>>

\* _failure_transition: owned_claim, then fail_job.  A retryable error is
\* terminal too when the attempt was the last one allowed.
Fail(w) ==
  LET j == proc[w].job
      terminal == proc[w].verdict = "failed" \/ job[j].attempt >= job[j].max
  IN /\ proc[w].phase = "settling" /\ proc[w].verdict \in {"retry", "failed"}
     /\ Owns(w)
     /\ SetJob(j, [job[j] EXCEPT !.status = IF terminal THEN "failed" ELSE "queued",
                                 !.error = "handler_error",
                                 !.lease = NoLease, !.worker = NoLabel])
     /\ history' = [history EXCEPT ![j] = Finished(j, IF terminal THEN "failed" ELSE "retry")]
     /\ before' = IF terminal THEN before ELSE Restamped(j)
     /\ proc' = [proc EXCEPT ![w] = Idle("polling")]
     /\ UNCHANGED releases

\* JobLeaseLost, from a fenced write of the handler or from the transition
\* that follows it: the process drops the claim and polls again.
LeaseLost(w) ==
  /\ proc[w].phase \in {"working", "settling"}
  /\ ~Owns(w)
  /\ proc' = [proc EXCEPT ![w] = Idle("polling")]
  /\ UNCHANGED <<job, run, history, before, releases>>

\* Mutant: a shutdown consumes the final retry allowance.
ReleaseConsuming(w) ==
  LET j == proc[w].job IN
  /\ w \notin Reliable
  /\ proc[w].phase = "working"
  /\ releases < ReleaseBound
  /\ releases' = releases + 1
  /\ IF Owns(w)
     THEN /\ SetJob(j, [job[j] EXCEPT !.status = "queued", !.worker = NoLabel, !.lease = NoLease])
          /\ history' = [history EXCEPT ![j] = Finished(j, "retry")]
          /\ before' = Restamped(j)
     ELSE UNCHANGED <<job, run, history, before>>
  /\ proc' = [proc EXCEPT ![w] = Idle("down")]

\* Cancelling the task while the handler runs: _release_transition, which
\* gives the job back if it is still owned, and the process ends.
Release(w) ==
  LET j == proc[w].job IN
  /\ w \notin Reliable
  /\ proc[w].phase = "working"
  /\ releases < ReleaseBound
  /\ releases' = releases + 1
  /\ IF Owns(w)
     THEN /\ SetJob(j, [job[j] EXCEPT
               !.status = "queued", !.worker = NoLabel, !.lease = NoLease,
               !.max = IF @ > job[j].attempt THEN @ ELSE job[j].attempt + 1])
          /\ history' = [history EXCEPT ![j] = Finished(j, "retry")]
          /\ before' = Restamped(j)
     ELSE UNCHANGED <<job, run, history, before>>
  /\ proc' = [proc EXCEPT ![w] = Idle("down")]

\* The process dies, or its task is cancelled between jobs.  A verdict under
\* commit is shielded from the cancellation, not from a crash.
Crash(w) ==
  /\ w \notin Reliable
  /\ proc[w].phase # "down"
  /\ proc' = [proc EXCEPT ![w] = Idle("down")]
  /\ UNCHANGED <<job, run, history, before, releases>>

Restart(w) ==
  /\ proc[w].phase = "down"
  /\ proc' = [proc EXCEPT ![w] = Idle("polling")]
  /\ UNCHANGED <<job, run, history, before, releases>>

\* cancel_job, by whoever knows the label on a live lease.
Cancel(j) ==
  /\ Live(j)
  /\ SetJob(j, [job[j] EXCEPT !.status = "cancelled", !.lease = NoLease])
  /\ history' = [history EXCEPT ![j] = Finished(j, "cancelled")]
  /\ UNCHANGED <<before, proc, releases>>

\* The database clock advances.
Tick ==
  /\ \E j \in Jobs : Live(j)
  /\ job' = [j \in Jobs |-> IF Live(j) THEN [job[j] EXCEPT !.lease = @ - 1] ELSE job[j]]
  /\ UNCHANGED <<run, history, before, proc, releases>>

PollStep(w, skipped) == PollEmpty(w, skipped) \/ \E j \in Jobs : Claim(w, j, skipped)

Settle(w) == Complete(w) \/ Fail(w) \/ LeaseLost(w)

Next ==
  \/ \E j \in Jobs : Enqueue(j) \/ Cancel(j)
  \/ \E w \in Workers :
       \/ \E skipped \in SUBSET Lockable(w) : PollStep(w, skipped)
       \/ Heartbeat(w) \/ HandlerEnds(w) \/ Settle(w)
       \/ Release(w) \/ Crash(w) \/ Restart(w)
  \/ Tick

\* Time passes, handlers end, settlements are tried, and a process that stays
\* up polls again and again; a poll is not denied its locks for ever.
Fairness ==
  /\ WF_vars(Tick)
  /\ \A w \in Workers : WF_vars(HandlerEnds(w)) /\ WF_vars(Settle(w))
  /\ \A w \in Workers : WF_vars(PollStep(w, {}))

Spec == Init /\ [][Next]_vars
FairSpec == Spec /\ Fairness

-----------------------------------------------------------------------------
(* What the queue promises.                                                *)

\* Every row and every process memory has the shape its table or class gives.
TypeOK ==
  /\ job \in [Jobs -> JobRow]
  /\ run \in [Jobs -> RunRow]
  /\ history \in [Jobs -> Seq(Outcome)]
  /\ before \in [Jobs -> SUBSET Jobs]
  /\ proc \in [Workers -> Process]
  /\ releases \in 0..ReleaseBound

\* The attempt ledger explains the job row: one entry per attempt, every entry
\* but the last closed, the last one open exactly while the job runs and
\* otherwise naming the outcome that left the job in its status.
LastOutcomes(status) ==
  CASE status = "running"   -> {"open"}
    [] status = "queued"    -> {"retry"}
    [] status = "succeeded" -> {"succeeded"}
    [] status = "failed"    -> {"failed", "lease_expired"}
    [] status = "cancelled" -> {"cancelled"}
    [] OTHER                -> {}
AttemptLedger == \A j \in Jobs :
  /\ Len(history[j]) = job[j].attempt
  /\ \A n \in 1..(job[j].attempt - 1) : history[j][n] \in {"retry", "lease_expired"}
  /\ job[j].attempt > 0 => history[j][job[j].attempt] \in LastOutcomes(job[j].status)
  /\ job[j].attempt = 0 => job[j].status \in {"absent", "queued"}

\* A reader of ingestion_runs (GET /ingestion) sees the status and the error of
\* the job that carries the run, whatever transaction wrote last.
RunMirrorsJob == \A j \in Jobs :
  run[j] = [status |-> job[j].status, error |-> job[j].error]

\* The retry allowance is never overdrawn, and a queued job always has an
\* attempt left: release_job may not queue a job whose allowance is used up,
\* because a claim of a queued row does not look at max_attempts.
AllowanceHeld == \A j \in Jobs :
  /\ job[j].status = "queued" /\ job[j].attempt > 0 => job[j].attempt < job[j].max
  /\ job[j].attempt > 0 => job[j].attempt <= job[j].max

\* Job, run and ledger tell one story after every transaction of any process.
Consistent == RunMirrorsJob /\ AttemptLedger /\ AllowanceHeld

\* Two processes never both pass owned_claim for one job, even when their
\* worker_id labels collide and one of them slept through its lease.
OneOwner == \A v, w \in Workers :
  Owns(v) /\ Owns(w) /\ proc[v].job = proc[w].job => v = w

\* A lease runs exactly on the running rows, so that an abandoned running row
\* always comes to be expired and a settled one never does.
LeaseOnRunning == \A j \in Jobs :
  /\ job[j].status = "running" => job[j].lease # NoLease /\ job[j].worker # NoLabel
  /\ job[j].status \in {"absent", "queued"} => job[j].lease = NoLease /\ job[j].worker = NoLabel

\* A succeeded, failed or cancelled job never changes again, however late a
\* worker, a sweep or a repeated enqueue comes.
TerminalIsFinal == [][\A j \in Jobs : job[j].status \in Terminal =>
  job'[j] = job[j] /\ run'[j] = run[j] /\ history'[j] = history[j]]_vars

\* A closed attempt is evidence: no late report rewrites it.
LedgerWriteOnce == [][\A j \in Jobs : \A n \in 1..Len(history[j]) :
  /\ n <= Len(history'[j])
  /\ history[j][n] # "open" => history'[j][n] = history[j][n]]_vars

\* While a lease is live only its owner's own transaction, or a cancellation,
\* ends the tenure: no poll, no sweep and no stale process takes the job away.
Tenure(j) == <<job[j].status, job[j].worker, job[j].attempt>>
LiveLeaseProtected == [][\A j \in Jobs :
  Live(j) /\ Tenure(j)' # Tenure(j) =>
    \/ job'[j].status = "cancelled"
    \/ \E w \in Workers : Owns(w) /\ proc[w].job = j /\ proc'[w] # proc[w]]_vars

\* If some process stays up from some moment on, every enqueued job is settled,
\* whatever the others do between crashes, shutdowns and lost leases.
EveryJobSettles ==
  (\E w \in Workers : <>[](proc[w].phase # "down")) =>
    \A j \in Jobs : job[j].status = "queued" ~> job[j].status \in Terminal

=============================================================================
