--------------------------- MODULE JobQueueProofs ---------------------------
(***************************************************************************)
(* Theorems about JobQueue, for any sets of jobs and processes, any labels *)
(* and any allowances.                                                     *)
(***************************************************************************)
EXTENDS JobQueueRefinement, SequenceTheorems, TLAPS

-----------------------------------------------------------------------------
(* Type correctness.                                                       *)

\* A process holds a claim exactly while it works on it or settles it.
BusyHasJob == \A w \in Workers :
  proc[w].phase \in {"working", "settling"} <=> proc[w].job \in Jobs

\* Closing an attempt keeps the ledger of the job a sequence of outcomes of
\* the same length.
LEMMA FinishedLedger ==
  ASSUME TypeOK, NEW j \in Jobs, NEW o \in Outcome
  PROVE  /\ Finished(j, o) \in Seq(Outcome)
         /\ Len(Finished(j, o)) = Len(history[j])
         /\ \A n \in 1..Len(history[j]) :
              Finished(j, o)[n] = IF n = job[j].attempt THEN o ELSE history[j][n]
<1>1. history[j] \in Seq(Outcome)
  BY DEF TypeOK
<1>2. CASE job[j].attempt \in 1..Len(history[j])
  BY <1>1, <1>2, ExceptSeq DEF Finished
<1>3. CASE job[j].attempt \notin 1..Len(history[j])
  <2>1. DOMAIN history[j] = 1..Len(history[j])
    BY <1>1, LenProperties
  <2>2. Finished(j, o) = history[j]
    BY <1>1, <1>3, <2>1, LenProperties DEF Finished
  <2>3. QED
    BY <1>1, <1>3, <2>2
<1>4. QED
  BY <1>2, <1>3

LEMMA RestampedType ==
  ASSUME TypeOK, NEW j \in Jobs
  PROVE  Restamped(j) \in [Jobs -> SUBSET Jobs]
BY DEF TypeOK, Restamped, Enqueued

LEMMA TypeInit == Init => TypeOK /\ BusyHasJob
<1> USE QueueAssumption
<1> SUFFICES ASSUME Init PROVE TypeOK /\ BusyHasJob
  OBVIOUS
<1>1. NoRow \in JobRow
  BY DEF NoRow, JobRow, Status, Error, NoLease
<1>2. Idle("polling") \in Process
  BY DEF Idle, Process, Verdict
<1>3. QED
  BY <1>1, <1>2, EmptySeq DEF Init, TypeOK, BusyHasJob, RunRow, Status, Error, Idle

\* The sweep of a poll yields well-typed rows.
LEMMA SweptType ==
  ASSUME TypeOK, NEW S
  PROVE  /\ SweptJobs(S) \in [Jobs -> JobRow]
         /\ SweptRuns(S) \in [Jobs -> RunRow]
         /\ SweptHistory(S) \in [Jobs -> Seq(Outcome)]
<1>1. \A j \in Jobs : Finished(j, "lease_expired") \in Seq(Outcome)
  BY FinishedLedger DEF Outcome
<1>2. \A r \in JobRow : [r EXCEPT !.status = "failed", !.error = "lease_expired"] \in JobRow
  BY DEF JobRow, Status, Terminal, Error
<1>3. [status |-> "failed", error |-> "lease_expired"] \in RunRow
  BY DEF RunRow, Status, Terminal, Error
<1>4. SweptJobs(S) \in [Jobs -> JobRow]
  <2>1. \A j \in Jobs : job[j] \in JobRow
    BY DEF TypeOK
  <2>2. QED
    BY <1>2, <2>1 DEF SweptJobs
<1>5. SweptRuns(S) \in [Jobs -> RunRow]
  BY <1>3 DEF TypeOK, SweptRuns
<1>6. SweptHistory(S) \in [Jobs -> Seq(Outcome)]
  BY <1>1 DEF TypeOK, SweptHistory
<1>7. QED
  BY <1>4, <1>5, <1>6

\* Writing a well-typed row keeps both tables well typed.
LEMMA SetJobType ==
  ASSUME TypeOK, NEW j \in Jobs, NEW row \in JobRow, SetJob(j, row)
  PROVE  job' \in [Jobs -> JobRow] /\ run' \in [Jobs -> RunRow]
<1>1. [status |-> row.status, error |-> row.error] \in RunRow
  BY DEF JobRow, RunRow
<1>2. QED
  BY <1>1 DEF SetJob, TypeOK

\* The rows the transactions write are well typed.
LEMMA RowTypes ==
  ASSUME TypeOK, NEW j \in Jobs
  PROVE  /\ [NoRow EXCEPT !.status = "queued"] \in JobRow
         /\ \A w \in Workers : Granted(w, j) \in JobRow
         /\ [job[j] EXCEPT !.lease = LeaseTicks] \in JobRow
         /\ \A s \in Terminal : [job[j] EXCEPT !.status = s, !.lease = NoLease] \in JobRow
         /\ \A s \in Status : [job[j] EXCEPT !.status = s, !.error = "handler_error",
                                 !.lease = NoLease, !.worker = NoLabel] \in JobRow
         /\ \A m \in Nat \ {0} : [job[j] EXCEPT !.status = "queued", !.worker = NoLabel,
                                 !.lease = NoLease, !.max = m] \in JobRow
         /\ Live(j) => [job[j] EXCEPT !.lease = @ - 1] \in JobRow
<1> USE QueueAssumption DEF JobRow, Status, Terminal, Error, NoLease
<1>1. job[j] \in JobRow
  BY DEF TypeOK
<1>2. [NoRow EXCEPT !.status = "queued"] \in JobRow
  BY DEF NoRow
<1>3. \A w \in Workers : Granted(w, j) \in JobRow
  BY <1>1 DEF Granted
<1>4. [job[j] EXCEPT !.lease = LeaseTicks] \in JobRow
  BY <1>1
<1>5. \A s \in Terminal : [job[j] EXCEPT !.status = s, !.lease = NoLease] \in JobRow
  BY <1>1
<1>6. \A s \in Status : [job[j] EXCEPT !.status = s, !.error = "handler_error",
                           !.lease = NoLease, !.worker = NoLabel] \in JobRow
  BY <1>1
<1>7. \A m \in Nat \ {0} : [job[j] EXCEPT !.status = "queued", !.worker = NoLabel,
                           !.lease = NoLease, !.max = m] \in JobRow
  BY <1>1
<1>8. Live(j) => [job[j] EXCEPT !.lease = @ - 1] \in JobRow
  <2>1. Live(j) => job[j].lease - 1 \in 0..LeaseTicks
    BY <1>1 DEF Live
  <2>2. QED
    BY <1>1, <2>1
<1>9. QED
  BY <1>2, <1>3, <1>4, <1>5, <1>6, <1>7, <1>8

LEMMA ProcessTypes ==
  /\ \A p \in {"down", "polling"} : Idle(p) \in Process
  /\ \A j \in Jobs, n \in Nat :
       [phase |-> "working", job |-> j, attempt |-> n, verdict |-> "none"] \in Process
  /\ \A p \in Process, v \in Verdict :
       [p EXCEPT !.phase = "settling", !.verdict = v] \in Process
BY DEF Idle, Process, Verdict

\* One step of the queue keeps the types, action by action.
LEMMA TypeStep == TypeOK /\ BusyHasJob /\ [Next]_vars => TypeOK' /\ BusyHasJob'
<1> USE QueueAssumption
<1> SUFFICES ASSUME TypeOK, BusyHasJob, [Next]_vars PROVE TypeOK' /\ BusyHasJob'
  OBVIOUS
<1>1. ASSUME NEW j \in Jobs, Enqueue(j) PROVE TypeOK' /\ BusyHasJob'
  <2>1. job' \in [Jobs -> JobRow] /\ run' \in [Jobs -> RunRow]
    BY <1>1, RowTypes, SetJobType DEF Enqueue, TypeOK
  <2>2. before' \in [Jobs -> SUBSET Jobs]
    <3>1. CASE before' = Restamped(j)
      BY <3>1, RestampedType
    <3>2. ASSUME NEW k \in Newest, before' = [before EXCEPT ![j] = before[k]]
          PROVE  before' \in [Jobs -> SUBSET Jobs]
      <4>1. k \in Jobs /\ before \in [Jobs -> SUBSET Jobs]
        BY DEF Newest, Enqueued, TypeOK
      <4>2. QED
        BY <3>2, <4>1
    <3>3. CASE before' = before
      BY <3>3 DEF TypeOK
    <3>4. QED
      BY <1>1, <3>1, <3>2, <3>3 DEF Enqueue
  <2>3. QED
    BY <1>1, <2>1, <2>2 DEF Enqueue, TypeOK, BusyHasJob
<1>2. ASSUME NEW j \in Jobs, Cancel(j) PROVE TypeOK' /\ BusyHasJob'
  <2>1. Finished(j, "cancelled") \in Seq(Outcome)
    BY FinishedLedger DEF Outcome, Terminal
  <2>2. job' \in [Jobs -> JobRow] /\ run' \in [Jobs -> RunRow]
    BY <1>2, RowTypes, SetJobType DEF Cancel, Terminal
  <2>3. QED
    BY <1>2, <2>1, <2>2 DEF Cancel, TypeOK, BusyHasJob
<1>3. ASSUME NEW w \in Workers, NEW S \in SUBSET Lockable(w), PollEmpty(w, S)
      PROVE  TypeOK' /\ BusyHasJob'
  BY <1>3, SweptType DEF PollEmpty, TypeOK, BusyHasJob
<1>4. ASSUME NEW w \in Workers, NEW S \in SUBSET Lockable(w), NEW j \in Jobs, Claim(w, j, S)
      PROVE  TypeOK' /\ BusyHasJob'
  <2>1. history' \in [Jobs -> Seq(Outcome)]
    <3>1. Finished(j, "lease_expired") \in Seq(Outcome) /\ history[j] \in Seq(Outcome)
      BY FinishedLedger DEF Outcome, TypeOK
    <3>2. \A h \in Seq(Outcome) : Append(h, "open") \in Seq(Outcome)
      BY AppendProperties DEF Outcome
    <3>3. QED
      BY <1>4, <3>1, <3>2, SweptType DEF Claim
  <2>2. job' \in [Jobs -> JobRow]
    BY <1>4, RowTypes, SweptType DEF Claim
  <2>3. run' \in [Jobs -> RunRow]
    BY <1>4, SweptType DEF Claim, RunRow, Status, Error
  <2>4. job[j].attempt + 1 \in Nat
    BY DEF TypeOK, JobRow
  <2>5. proc' \in [Workers -> Process]
    BY <1>4, <2>4, ProcessTypes DEF Claim, TypeOK
  <2>6. BusyHasJob'
    BY <1>4 DEF Claim, BusyHasJob, TypeOK
  <2>7. QED
    BY <1>4, <2>1, <2>2, <2>3, <2>5, <2>6 DEF Claim, TypeOK
<1>5. ASSUME NEW w \in Workers, Heartbeat(w) PROVE TypeOK' /\ BusyHasJob'
  <2>1. proc[w].job \in Jobs
    BY <1>5 DEF Heartbeat, Owns, BusyHasJob
  <2>2. job' \in [Jobs -> JobRow]
    BY <1>5, <2>1, RowTypes DEF Heartbeat, TypeOK
  <2>3. QED
    BY <1>5, <2>2 DEF Heartbeat, TypeOK, BusyHasJob
<1>6. ASSUME NEW w \in Workers, HandlerEnds(w) PROVE TypeOK' /\ BusyHasJob'
  <2>1. PICK v \in Verdict :
          proc' = [proc EXCEPT ![w] = [proc[w] EXCEPT !.phase = "settling", !.verdict = v]]
    BY <1>6 DEF HandlerEnds, TypeOK
  <2>2. proc' \in [Workers -> Process]
    BY <2>1, ProcessTypes DEF TypeOK
  <2>3. BusyHasJob'
    BY <1>6, <2>1 DEF HandlerEnds, BusyHasJob, TypeOK, Process
  <2>4. QED
    BY <1>6, <2>2, <2>3 DEF HandlerEnds, TypeOK
<1>7. ASSUME NEW w \in Workers, Complete(w) PROVE TypeOK' /\ BusyHasJob'
  <2>1. proc[w].job \in Jobs
    BY <1>7 DEF Complete, BusyHasJob
  <2>2. Finished(proc[w].job, "succeeded") \in Seq(Outcome)
    BY <2>1, FinishedLedger DEF Outcome, Terminal
  <2>3. job' \in [Jobs -> JobRow] /\ run' \in [Jobs -> RunRow]
    BY <1>7, <2>1, RowTypes, SetJobType DEF Complete, Terminal
  <2>4. proc' \in [Workers -> Process] /\ BusyHasJob'
    BY <1>7, ProcessTypes DEF Complete, TypeOK, BusyHasJob, Idle
  <2>5. QED
    BY <1>7, <2>1, <2>2, <2>3, <2>4 DEF Complete, TypeOK
<1>8. ASSUME NEW w \in Workers, Fail(w) PROVE TypeOK' /\ BusyHasJob'
  <2>1. proc[w].job \in Jobs
    BY <1>8 DEF Fail, BusyHasJob
  <2>2. /\ Finished(proc[w].job, "failed") \in Seq(Outcome)
        /\ Finished(proc[w].job, "retry") \in Seq(Outcome)
    BY <2>1, FinishedLedger DEF Outcome, Terminal
  <2>3. job' \in [Jobs -> JobRow] /\ run' \in [Jobs -> RunRow]
    BY <1>8, <2>1, RowTypes, SetJobType DEF Fail, Status, Terminal
  <2>4. proc' \in [Workers -> Process] /\ BusyHasJob'
    BY <1>8, ProcessTypes DEF Fail, TypeOK, BusyHasJob, Idle
  <2>5. before' \in [Jobs -> SUBSET Jobs]
    BY <1>8, <2>1, RestampedType DEF Fail, TypeOK
  <2>6. QED
    BY <1>8, <2>1, <2>2, <2>3, <2>4, <2>5 DEF Fail, TypeOK
<1>9. ASSUME NEW w \in Workers, LeaseLost(w) PROVE TypeOK' /\ BusyHasJob'
  BY <1>9, ProcessTypes DEF LeaseLost, Idle, TypeOK, BusyHasJob
<1>10. ASSUME NEW w \in Workers, Release(w) PROVE TypeOK' /\ BusyHasJob'
  <2>1. proc[w].job \in Jobs
    BY <1>10 DEF Release, BusyHasJob
  <2>2. Finished(proc[w].job, "retry") \in Seq(Outcome)
    BY <2>1, FinishedLedger DEF Outcome
  <2>3. job' \in [Jobs -> JobRow] /\ run' \in [Jobs -> RunRow]
    <3>1. job[proc[w].job].max \in Nat \ {0} /\ job[proc[w].job].attempt + 1 \in Nat \ {0}
      BY <2>1 DEF TypeOK, JobRow
    <3>2. QED
      BY <1>10, <2>1, <3>1, RowTypes, SetJobType DEF Release, TypeOK
  <2>4. proc' \in [Workers -> Process] /\ BusyHasJob'
    BY <1>10, ProcessTypes DEF Release, TypeOK, BusyHasJob, Idle
  <2>5. before' \in [Jobs -> SUBSET Jobs] /\ history' \in [Jobs -> Seq(Outcome)]
    <3>1. CASE Owns(w)
      <4>1. /\ before' = Restamped(proc[w].job)
            /\ history' = [history EXCEPT ![proc[w].job] = Finished(proc[w].job, "retry")]
        BY <1>10, <3>1 DEF Release
      <4>2. QED
        BY <2>1, <2>2, <4>1, RestampedType DEF TypeOK
    <3>2. CASE ~Owns(w)
      BY <1>10, <3>2 DEF Release, TypeOK
    <3>3. QED
      BY <3>1, <3>2
  <2>6. releases' \in 0..ReleaseBound
    BY <1>10 DEF Release, TypeOK
  <2>7. QED
    BY <2>3, <2>4, <2>5, <2>6 DEF TypeOK
<1>11. ASSUME NEW w \in Workers, Crash(w) \/ Restart(w) PROVE TypeOK' /\ BusyHasJob'
  <2>1. PICK p \in {"down", "polling"} : proc' = [proc EXCEPT ![w] = Idle(p)]
    BY <1>11 DEF Crash, Restart
  <2>2. UNCHANGED <<job, run, history, before, releases>>
    BY <1>11 DEF Crash, Restart
  <2>3. proc' \in [Workers -> Process] /\ BusyHasJob'
    BY <2>1, ProcessTypes DEF TypeOK, BusyHasJob, Idle
  <2>4. QED
    BY <2>2, <2>3 DEF TypeOK
<1>12. CASE Tick
  <2>1. job' \in [Jobs -> JobRow]
    BY <1>12, RowTypes DEF Tick, TypeOK
  <2>2. QED
    BY <1>12, <2>1 DEF Tick, TypeOK, BusyHasJob
<1>13. CASE UNCHANGED vars
  BY <1>13 DEF vars, TypeOK, BusyHasJob
<1>14. QED
  BY <1>1, <1>2, <1>3, <1>4, <1>5, <1>6, <1>7, <1>8, <1>9, <1>10, <1>11, <1>12, <1>13
  DEF Next, PollStep, Settle

\* Every reachable state is well typed.
THEOREM TypeCorrect == Spec => [](TypeOK /\ BusyHasJob)
BY TypeInit, TypeStep, PTL DEF Spec

-----------------------------------------------------------------------------
(* What one step does to one job, whichever transaction it is.  The        *)
(* invariants and the action properties below all follow from this view.   *)

Kept(j) ==
  /\ job'[j] = job[j] \/ (Live(j) /\ job'[j].lease # NoLease)
  /\ Tenure(j)' = Tenure(j)
  /\ job'[j].max = job[j].max /\ job'[j].error = job[j].error
  /\ run'[j] = run[j]
  /\ history'[j] = history[j]

MirroredBy(j) == run'[j] = [status |-> job'[j].status, error |-> job'[j].error]

Added(j) ==
  /\ job[j].status = "absent"
  /\ job'[j] = [NoRow EXCEPT !.status = "queued"]
  /\ MirroredBy(j)
  /\ history'[j] = history[j]
  /\ proc' = proc

GrantedTo(j, w) ==
  /\ Claimable(j)
  /\ job'[j] = Granted(w, j)
  /\ MirroredBy(j)
  /\ history'[j] = Append(IF job[j].status = "running"
                          THEN Finished(j, "lease_expired") ELSE history[j], "open")
  /\ proc[w].job \notin Jobs
  /\ proc' = [proc EXCEPT ![w] = [phase |-> "working", job |-> j,
                                  attempt |-> job[j].attempt + 1, verdict |-> "none"]]

\* The running attempt ends in `status', its ledger entry closed as `outcome'.
Ended(j, status, outcome) ==
  /\ job[j].status = "running"
  /\ job'[j].status = status
  /\ job'[j].attempt = job[j].attempt
  /\ status # "queued" => job'[j].max = job[j].max
  /\ status = "queued" => job'[j].lease = NoLease /\ job'[j].worker = NoLabel
  /\ MirroredBy(j)
  /\ history'[j] = Finished(j, outcome)

\* By its owner, which thereby drops its claim ...
EndedByOwner(j) == \E w \in Workers :
  /\ Owns(w) /\ proc[w].job = j
  /\ \E p \in {"polling", "down"} : proc' = [proc EXCEPT ![w] = Idle(p)]
  /\ \/ /\ Ended(j, "succeeded", "succeeded")
        /\ proc[w].phase = "settling" /\ proc[w].verdict = "succeeded"
     \/ Ended(j, "failed", "failed")
     \/ Ended(j, "queued", "retry") /\ job[j].attempt < job'[j].max

\* ... or by the queue, with nobody's claim on it dropped.
EndedByQueue(j) ==
  \/ /\ Exhausted(j) /\ Ended(j, "failed", "lease_expired")
     /\ \A w \in Workers : proc'[w] # proc[w] => proc[w].job # j /\ proc'[w].job # j
  \/ Live(j) /\ proc' = proc /\ Ended(j, "cancelled", "cancelled")

RowStep(j) ==
  \/ Kept(j) \/ Added(j)
  \/ \E w \in Workers : GrantedTo(j, w)
  \/ EndedByOwner(j) \/ EndedByQueue(j)

\* What one step does to the claims in memory: one process at most drops its
\* claim or is granted the next attempt of a job.
ClaimOf(w) == <<proc[w].job, proc[w].attempt>>
ProcStep ==
  \/ \A w \in Workers : ClaimOf(w)' = ClaimOf(w)
  \/ \E w \in Workers :
       /\ \A v \in Workers \ {w} : proc'[v] = proc[v]
       /\ \/ ClaimOf(w)' = <<NoJob, 0>>
          \/ \E j \in Jobs : /\ proc[w].job \notin Jobs
                             /\ ClaimOf(w)' = <<j, job[j].attempt + 1>>
                             /\ job'[j].attempt = job[j].attempt + 1

\* A job row SetJob does not write stays as it is.
LEMMA SetJobOthers ==
  ASSUME TypeOK, NEW j \in Jobs, NEW row, SetJob(j, row)
  PROVE  /\ job'[j] = row /\ MirroredBy(j)
         /\ \A k \in Jobs \ {j} : job'[k] = job[k] /\ run'[k] = run[k]
BY DEF SetJob, TypeOK, MirroredBy

\* The sweep, row by row.
LEMMA SweptRow ==
  ASSUME TypeOK, NEW S, NEW j \in Jobs
  PROVE  IF j \in Dead(S)
         THEN /\ Exhausted(j)
              /\ SweptJobs(S)[j].status = "failed"
              /\ SweptJobs(S)[j].attempt = job[j].attempt
              /\ SweptJobs(S)[j].max = job[j].max
              /\ SweptJobs(S)[j].error = "lease_expired"
              /\ SweptRuns(S)[j] = [status |-> "failed", error |-> "lease_expired"]
              /\ SweptHistory(S)[j] = Finished(j, "lease_expired")
         ELSE /\ SweptJobs(S)[j] = job[j] /\ SweptRuns(S)[j] = run[j]
              /\ SweptHistory(S)[j] = history[j]
<1>1. job[j] \in JobRow
  BY DEF TypeOK
<1>2. CASE j \in Dead(S)
  <2>1. SweptJobs(S)[j] = [job[j] EXCEPT !.status = "failed", !.error = "lease_expired"]
    BY <1>2 DEF SweptJobs
  <2>2. QED
    BY <1>1, <1>2, <2>1 DEF Dead, SweptRuns, SweptHistory, JobRow
<1>3. CASE j \notin Dead(S)
  BY <1>3 DEF SweptJobs, SweptRuns, SweptHistory
<1>4. QED
  BY <1>2, <1>3

LEMMA SweptStep ==
  ASSUME TypeOK, NEW S, NEW j \in Jobs,
         job'[j] = SweptJobs(S)[j], run'[j] = SweptRuns(S)[j],
         history'[j] = SweptHistory(S)[j],
         \A w \in Workers : proc'[w] # proc[w] => proc[w].job # j /\ proc'[w].job # j
  PROVE  Kept(j) \/ EndedByQueue(j)
<1>1. CASE j \in Dead(S)
  BY <1>1, SweptRow DEF EndedByQueue, Ended, MirroredBy, Exhausted, Expired
<1>2. CASE j \notin Dead(S)
  BY <1>2, SweptRow DEF Kept, Tenure
<1>3. QED
  BY <1>1, <1>2

\* A process that drops its claim drops no other process's.
LEMMA IdleStep ==
  ASSUME TypeOK, NEW w \in Workers, NEW p, proc' = [proc EXCEPT ![w] = Idle(p)]
  PROVE  ProcStep
BY DEF ProcStep, ClaimOf, Idle, TypeOK

LEMMA StepView ==
  TypeOK /\ BusyHasJob /\ [Next]_vars => (\A j \in Jobs : RowStep(j)) /\ ProcStep
<1> SUFFICES ASSUME TypeOK, BusyHasJob, [Next]_vars
             PROVE  (\A j \in Jobs : RowStep(j)) /\ ProcStep
  OBVIOUS
<1> DEFINE Goal == (\A j \in Jobs : RowStep(j)) /\ ProcStep
<1>0. ASSUME UNCHANGED <<job, run, history>> PROVE \A j \in Jobs : RowStep(j)
  BY <1>0 DEF RowStep, Kept, Tenure
<1>1. ASSUME NEW j \in Jobs, Enqueue(j) PROVE Goal
  <2>1. ProcStep
    BY <1>1 DEF Enqueue, ProcStep, ClaimOf
  <2>2. CASE job[j].status = "absent"
    <3>1. Added(j)
      BY <1>1, <2>2, SetJobOthers DEF Enqueue, Added
    <3>2. \A k \in Jobs \ {j} : Kept(k)
      BY <1>1, <2>2, SetJobOthers DEF Enqueue, Kept, Tenure
    <3>3. QED
      BY <2>1, <3>1, <3>2 DEF RowStep
  <2>3. CASE job[j].status # "absent"
    BY <1>0, <1>1, <2>1, <2>3 DEF Enqueue
  <2>4. QED
    BY <2>2, <2>3
<1>2. ASSUME NEW j \in Jobs, Cancel(j) PROVE Goal
  <2>1. ProcStep
    BY <1>2 DEF Cancel, ProcStep, ClaimOf
  <2>2. job[j] \in JobRow
    BY DEF TypeOK
  <2>3. Ended(j, "cancelled", "cancelled")
    <3> DEFINE row == [job[j] EXCEPT !.status = "cancelled", !.lease = NoLease]
    <3>1. SetJob(j, row) /\ history'[j] = Finished(j, "cancelled")
      BY <1>2 DEF Cancel, TypeOK
    <3>2. row.status = "cancelled" /\ row.attempt = job[j].attempt /\ row.max = job[j].max
      BY <2>2 DEF JobRow
    <3>3. QED
      BY <1>2, <3>1, <3>2, SetJobOthers DEF Cancel, Live, Ended
  <2>4. EndedByQueue(j)
    BY <1>2, <2>3 DEF Cancel, EndedByQueue
  <2>5. \A k \in Jobs \ {j} : Kept(k)
    BY <1>2, SetJobOthers DEF Cancel, Kept, Tenure, TypeOK
  <2>6. QED
    BY <2>1, <2>4, <2>5 DEF RowStep
<1>3. ASSUME NEW w \in Workers, NEW S \in SUBSET Lockable(w), PollEmpty(w, S) PROVE Goal
  <2>1. \A j \in Jobs : Kept(j) \/ EndedByQueue(j)
    BY <1>3, SweptStep DEF PollEmpty
  <2>2. QED
    BY <1>3, <2>1 DEF PollEmpty, RowStep, ProcStep, ClaimOf
<1>4. ASSUME NEW w \in Workers, NEW S \in SUBSET Lockable(w), NEW j \in Jobs, Claim(w, j, S)
      PROVE  Goal
  <2>1. Claimable(j) /\ j \notin Dead(S)
    BY <1>4 DEF Claim, Ready, Dead, Claimable, Exhausted, Expired, TypeOK, JobRow
  <2>2. GrantedTo(j, w)
    BY <1>4, <2>1, SweptType DEF Claim, GrantedTo, MirroredBy, Granted, BusyHasJob
  <2>3. \A k \in Jobs \ {j} : Kept(k) \/ EndedByQueue(k)
    <3>1. \A v \in Workers : proc'[v] # proc[v] => proc[v].job \notin Jobs /\ proc'[v].job = j
      BY <1>4 DEF Claim, BusyHasJob, TypeOK
    <3>2. \A k \in Jobs \ {j} : /\ job'[k] = SweptJobs(S)[k] /\ run'[k] = SweptRuns(S)[k]
                                /\ history'[k] = SweptHistory(S)[k]
      BY <1>4, SweptType DEF Claim
    <3>3. QED
      BY <3>1, <3>2, SweptStep
  <2>4. ProcStep
    <3>1. ClaimOf(w)' = <<j, job[j].attempt + 1>>
      BY <1>4 DEF Claim, ClaimOf, TypeOK
    <3>2. \A v \in Workers \ {w} : proc'[v] = proc[v]
      BY <1>4 DEF Claim, TypeOK
    <3>3. job'[j].attempt = job[j].attempt + 1
      BY <2>2 DEF GrantedTo, Granted
    <3>4. proc[w].job \notin Jobs
      BY <1>4 DEF Claim, BusyHasJob
    <3>5. QED
      BY <3>1, <3>2, <3>3, <3>4 DEF ProcStep
  <2>5. QED
    BY <2>2, <2>3, <2>4 DEF RowStep
<1>5. ASSUME NEW w \in Workers, Heartbeat(w) PROVE Goal
  <2>1. job' = [job EXCEPT ![proc[w].job] = [job[proc[w].job] EXCEPT !.lease = LeaseTicks]]
    BY <1>5 DEF Heartbeat
  <2>2. proc[w].job \in Jobs /\ job[proc[w].job] \in JobRow
    BY <1>5 DEF Heartbeat, Owns, BusyHasJob, TypeOK
  <2>3. \A j \in Jobs : Kept(j)
    <3>1. LeaseTicks # NoLease /\ UNCHANGED <<run, history>> /\ Live(proc[w].job)
      BY <1>5, QueueAssumption DEF Heartbeat, Owns, NoLease
    <3>2. ASSUME NEW j \in Jobs, j = proc[w].job PROVE Kept(j)
      <4>1. job'[j] = [job[j] EXCEPT !.lease = LeaseTicks] /\ job[j] \in JobRow
        BY <2>1, <2>2, <3>2 DEF TypeOK
      <4>2. /\ job'[j].lease = LeaseTicks /\ job'[j].status = job[j].status
            /\ job'[j].worker = job[j].worker /\ job'[j].attempt = job[j].attempt
            /\ job'[j].max = job[j].max /\ job'[j].error = job[j].error
        BY <4>1 DEF JobRow
      <4>3. QED
        BY <3>1, <3>2, <4>2 DEF Kept, Tenure
    <3>3. ASSUME NEW j \in Jobs, j # proc[w].job PROVE Kept(j)
      <4>1. job'[j] = job[j]
        BY <2>1, <3>3 DEF TypeOK
      <4>2. QED
        BY <3>1, <4>1 DEF Kept, Tenure
    <3>4. QED
      BY <3>2, <3>3
  <2>4. QED
    BY <1>5, <2>3 DEF Heartbeat, RowStep, ProcStep, ClaimOf
<1>6. ASSUME NEW w \in Workers, HandlerEnds(w) PROVE Goal
  <2>1. PICK v \in Verdict :
          proc' = [proc EXCEPT ![w] = [proc[w] EXCEPT !.phase = "settling", !.verdict = v]]
    BY <1>6 DEF HandlerEnds, TypeOK
  <2>2. \A u \in Workers : ClaimOf(u)' = ClaimOf(u)
    BY <2>1 DEF ClaimOf, TypeOK, Process
  <2>3. QED
    BY <1>0, <1>6, <2>2 DEF HandlerEnds, ProcStep
<1>7. ASSUME NEW w \in Workers, Complete(w) PROVE Goal
  <2> DEFINE j == proc[w].job
  <2>1. j \in Jobs /\ job[j] \in JobRow /\ Owns(w)
    BY <1>7 DEF Complete, BusyHasJob, TypeOK
  <2>2. Ended(j, "succeeded", "succeeded")
    <3> DEFINE row == [job[j] EXCEPT !.status = "succeeded", !.lease = NoLease]
    <3>1. SetJob(j, row) /\ history'[j] = Finished(j, "succeeded")
      BY <1>7, <2>1 DEF Complete, TypeOK
    <3>2. row.status = "succeeded" /\ row.attempt = job[j].attempt /\ row.max = job[j].max
      BY <2>1 DEF JobRow
    <3>3. QED
      BY <2>1, <3>1, <3>2, SetJobOthers DEF Ended, Owns, Live
  <2>3. EndedByOwner(j)
    BY <1>7, <2>1, <2>2 DEF Complete, EndedByOwner
  <2>4. \A k \in Jobs \ {j} : Kept(k)
    BY <1>7, <2>1, SetJobOthers DEF Complete, Kept, Tenure, TypeOK
  <2>5. ProcStep
    BY <1>7, IdleStep DEF Complete
  <2>6. QED
    BY <2>3, <2>4, <2>5 DEF RowStep
<1>8. ASSUME NEW w \in Workers, Fail(w) PROVE Goal
  <2> DEFINE j == proc[w].job
             terminal == proc[w].verdict = "failed" \/ job[j].attempt >= job[j].max
             row == [job[j] EXCEPT !.status = IF terminal THEN "failed" ELSE "queued",
                                   !.error = "handler_error",
                                   !.lease = NoLease, !.worker = NoLabel]
  <2>1. j \in Jobs /\ job[j] \in JobRow /\ Owns(w)
    BY <1>8 DEF Fail, BusyHasJob, TypeOK
  <2>2. SetJob(j, row)
    BY <1>8 DEF Fail
  <2>3. history'[j] = Finished(j, IF terminal THEN "failed" ELSE "retry")
    BY <1>8, <2>1 DEF Fail, TypeOK
  <2>4. row.status = (IF terminal THEN "failed" ELSE "queued")
        /\ row.attempt = job[j].attempt /\ row.max = job[j].max
        /\ row.lease = NoLease /\ row.worker = NoLabel
    BY <2>1 DEF JobRow
  <2>5. IF terminal THEN Ended(j, "failed", "failed")
        ELSE Ended(j, "queued", "retry") /\ job[j].attempt < job'[j].max
    <3>1. job'[j] = row /\ MirroredBy(j) /\ job[j].status = "running"
      BY <2>1, <2>2, SetJobOthers DEF Owns, Live
    <3>2. job[j].attempt \in Nat /\ job[j].max \in Nat
      BY <2>1 DEF JobRow
    <3> HIDE DEF row
    <3>3. QED
      BY <2>3, <2>4, <3>1, <3>2 DEF Ended
  <2>6. EndedByOwner(j)
    BY <1>8, <2>1, <2>5 DEF Fail, EndedByOwner
  <2>7. \A k \in Jobs \ {j} : Kept(k)
    BY <1>8, <2>1, <2>2, SetJobOthers DEF Fail, Kept, Tenure, TypeOK
  <2>8. ProcStep
    BY <1>8, IdleStep DEF Fail
  <2>9. QED
    BY <2>6, <2>7, <2>8 DEF RowStep
<1>9. ASSUME NEW w \in Workers, LeaseLost(w) PROVE Goal
  BY <1>0, <1>9, IdleStep DEF LeaseLost
<1>10. ASSUME NEW w \in Workers, Release(w) PROVE Goal
  <2> DEFINE j == proc[w].job
             row == [job[j] EXCEPT !.status = "queued", !.worker = NoLabel, !.lease = NoLease,
                       !.max = IF @ > job[j].attempt THEN @ ELSE job[j].attempt + 1]
  <2>1. ProcStep
    BY <1>10, IdleStep DEF Release
  <2>2. CASE Owns(w)
    <3>1. j \in Jobs /\ job[j] \in JobRow
      BY <2>2 DEF Owns, BusyHasJob, TypeOK
    <3>2. SetJob(j, row) /\ history' = [history EXCEPT ![j] = Finished(j, "retry")]
      BY <1>10, <2>2 DEF Release
    <3>3. /\ row.status = "queued" /\ row.attempt = job[j].attempt /\ job[j].attempt < row.max
          /\ row.lease = NoLease /\ row.worker = NoLabel
      BY <3>1 DEF JobRow
    <3>4. Ended(j, "queued", "retry") /\ job[j].attempt < job'[j].max
      BY <2>2, <3>1, <3>2, <3>3, SetJobOthers DEF Ended, Owns, Live, TypeOK
    <3>5. EndedByOwner(j)
      BY <1>10, <2>2, <3>4 DEF Release, EndedByOwner
    <3>6. \A k \in Jobs \ {j} : Kept(k)
      BY <3>1, <3>2, SetJobOthers DEF Kept, Tenure, TypeOK
    <3>7. QED
      BY <2>1, <3>5, <3>6 DEF RowStep
  <2>3. CASE ~Owns(w)
    BY <1>0, <1>10, <2>1, <2>3 DEF Release
  <2>4. QED
    BY <2>2, <2>3
<1>11. ASSUME NEW w \in Workers, Crash(w) \/ Restart(w) PROVE Goal
  BY <1>0, <1>11, IdleStep DEF Crash, Restart
<1>12. CASE Tick
  <2>1. \A j \in Jobs : Kept(j)
    <3>1. ASSUME NEW j \in Jobs PROVE Kept(j)
      <4>1. job[j] \in JobRow
        BY DEF TypeOK
      <4>2. job'[j] = IF Live(j) THEN [job[j] EXCEPT !.lease = @ - 1] ELSE job[j]
        BY <1>12 DEF Tick
      <4>3. QED
        BY <1>12, <4>1, <4>2 DEF Tick, Kept, Tenure, JobRow, Live, NoLease
    <3>2. QED
      BY <3>1
  <2>2. QED
    BY <1>12, <2>1 DEF Tick, RowStep, ProcStep, ClaimOf
<1>13. CASE UNCHANGED vars
  BY <1>0, <1>13 DEF vars, ProcStep, ClaimOf
<1>14. QED
  BY <1>1, <1>2, <1>3, <1>4, <1>5, <1>6, <1>7, <1>8, <1>9, <1>10, <1>11, <1>12, <1>13
  DEF Next, PollStep, Settle

-----------------------------------------------------------------------------
(* The three tables agree.  The conjunction is inductive given the types:  *)
(* that a queued job has an attempt left (AllowanceHeld) is what lets a    *)
(* claim of a queued row skip the test of max_attempts, and that the last  *)
(* ledger entry fits the status is what lets the next one be appended.     *)

LEMMA ConsistentInit == Init => Consistent
BY EmptySeq DEF Init, NoRow, Consistent, RunMirrorsJob, AttemptLedger, AllowanceHeld

\* The three conjuncts for one job.
Ledger(j) ==
  /\ Len(history[j]) = job[j].attempt
  /\ \A n \in 1..(job[j].attempt - 1) : history[j][n] \in {"retry", "lease_expired"}
  /\ job[j].attempt > 0 => history[j][job[j].attempt] \in LastOutcomes(job[j].status)
  /\ job[j].attempt = 0 => job[j].status \in {"absent", "queued"}
Allowed(j) ==
  /\ job[j].status = "queued" /\ job[j].attempt > 0 => job[j].attempt < job[j].max
  /\ job[j].attempt > 0 => job[j].attempt <= job[j].max
Mirrors(j) == run[j] = [status |-> job[j].status, error |-> job[j].error]

LEMMA ConsistentByJob == Consistent <=> \A j \in Jobs : Ledger(j) /\ Allowed(j) /\ Mirrors(j)
BY DEF Consistent, RunMirrorsJob, AttemptLedger, AllowanceHeld, Ledger, Allowed, Mirrors

LEMMA ConsistentRow ==
  ASSUME TypeOK, TypeOK', NEW j \in Jobs, Ledger(j), Allowed(j), Mirrors(j), RowStep(j)
  PROVE  Ledger(j)' /\ Allowed(j)' /\ Mirrors(j)'
<1> USE QueueAssumption
<1>0. /\ job[j].attempt \in Nat /\ job[j].max \in Nat \ {0} /\ job[j].status \in Status
      /\ history[j] \in Seq(Outcome)
  BY DEF TypeOK, JobRow
<1>1. CASE Kept(j)
  BY <1>1 DEF Kept, Tenure, Ledger, Allowed, Mirrors
<1>2. CASE Added(j)
  <2>1. job'[j].status = "queued" /\ job'[j].attempt = 0 /\ job[j].attempt = 0
    BY <1>0, <1>2 DEF Added, NoRow, Ledger, LastOutcomes
  <2>2. Ledger(j)'
    BY <1>2, <2>1 DEF Added, Ledger
  <2>3. Allowed(j)' /\ Mirrors(j)'
    BY <1>2, <2>1 DEF Added, Allowed, Mirrors, MirroredBy
  <2>4. QED
    BY <2>2, <2>3
<1>3. ASSUME NEW w \in Workers, GrantedTo(j, w) PROVE Ledger(j)' /\ Allowed(j)' /\ Mirrors(j)'
  <2> DEFINE h == IF job[j].status = "running" THEN Finished(j, "lease_expired") ELSE history[j]
  <2>1. /\ h \in Seq(Outcome) /\ Len(h) = job[j].attempt
        /\ \A n \in 1..job[j].attempt : h[n] \in {"retry", "lease_expired"}
    <3>1. CASE job[j].status = "running"
      BY <1>0, <3>1, FinishedLedger DEF Outcome, Ledger
    <3>2. CASE job[j].status = "queued"
      BY <1>0, <3>2 DEF Ledger, LastOutcomes
    <3>3. job[j].status \in {"running", "queued"}
      BY <1>3 DEF GrantedTo, Claimable, Expired
    <3>4. QED
      BY <3>1, <3>2, <3>3
  <2>2. history'[j] = Append(h, "open")
    BY <1>3 DEF GrantedTo
  <2> HIDE DEF h
  <2>3. /\ Len(history'[j]) = job[j].attempt + 1
        /\ history'[j][job[j].attempt + 1] = "open"
        /\ \A n \in 1..job[j].attempt : history'[j][n] = h[n]
    BY <1>0, <2>1, <2>2, AppendProperties DEF Outcome
  <2>4. job'[j].status = "running" /\ job'[j].attempt = job[j].attempt + 1
    BY <1>3 DEF GrantedTo, Granted
  <2>5. Ledger(j)'
    <3>1. \A n \in 1..(job'[j].attempt - 1) : history'[j][n] \in {"retry", "lease_expired"}
      <4>1. job'[j].attempt - 1 = job[j].attempt
        BY <1>0, <2>4
      <4>2. QED
        BY <2>1, <2>3, <4>1
    <3>2. history'[j][job'[j].attempt] \in LastOutcomes(job'[j].status)
      BY <2>3, <2>4 DEF LastOutcomes
    <3>3. QED
      BY <1>0, <2>3, <2>4, <3>1, <3>2 DEF Ledger
  <2>6. Allowed(j)'
    <3>1. job'[j].max = IF job[j].attempt = 0 THEN Allowance[w] ELSE job[j].max
      BY <1>3 DEF GrantedTo, Granted
    <3>2. Allowance[w] \in Nat \ {0}
      OBVIOUS
    <3>3. job[j].attempt > 0 => job[j].attempt < job[j].max
      BY <1>0, <1>3 DEF GrantedTo, Claimable, Allowed
    <3>4. QED
      BY <1>0, <2>4, <3>1, <3>2, <3>3 DEF Allowed
  <2>7. QED
    BY <1>3, <2>5, <2>6 DEF GrantedTo, Mirrors, MirroredBy
<1>4. ASSUME NEW s \in Status, NEW o \in Outcome, Ended(j, s, o),
             <<s, o>> \in {<<"succeeded", "succeeded">>, <<"failed", "failed">>,
                           <<"queued", "retry">>, <<"failed", "lease_expired">>,
                           <<"cancelled", "cancelled">>},
             s = "queued" => job[j].attempt < job'[j].max
      PROVE  Ledger(j)' /\ Allowed(j)' /\ Mirrors(j)'
  <2>1. /\ Len(history'[j]) = job[j].attempt
        /\ \A n \in 1..job[j].attempt :
             history'[j][n] = IF n = job[j].attempt THEN o ELSE history[j][n]
    <3>1. history'[j] = Finished(j, o) /\ Len(history[j]) = job[j].attempt
      BY <1>4 DEF Ended, Ledger
    <3>2. QED
      BY <3>1, FinishedLedger
  <2>2. job[j].attempt > 0
    BY <1>0, <1>4 DEF Ended, Ledger
  <2>3. o \in LastOutcomes(s)
    BY <1>4 DEF LastOutcomes
  <2>4. Ledger(j)'
    <3>1. job'[j].status = s /\ job'[j].attempt = job[j].attempt
      BY <1>4 DEF Ended
    <3>2. ASSUME NEW n \in 1..(job[j].attempt - 1)
          PROVE  history'[j][n] \in {"retry", "lease_expired"}
      <4>1. n \in 1..job[j].attempt /\ n # job[j].attempt
        BY <1>0
      <4>2. history'[j][n] = history[j][n]
        BY <2>1, <4>1
      <4>3. history[j][n] \in {"retry", "lease_expired"}
        BY DEF Ledger
      <4>4. QED
        BY <4>2, <4>3
    <3>3. history'[j][job[j].attempt] \in LastOutcomes(s)
      BY <1>0, <2>1, <2>2, <2>3
    <3>4. QED
      BY <1>0, <2>1, <2>2, <3>1, <3>2, <3>3 DEF Ledger
  <2>5. Allowed(j)'
    <3>1. /\ job'[j].status = s /\ job'[j].attempt = job[j].attempt
          /\ s # "queued" => job'[j].max = job[j].max
          /\ job'[j].max \in Nat
      BY <1>4 DEF Ended, TypeOK, JobRow
    <3>2. QED
      BY <1>0, <1>4, <2>2, <3>1 DEF Allowed
  <2>6. QED
    BY <1>4, <2>4, <2>5 DEF Ended, Mirrors, MirroredBy
<1>5. CASE EndedByOwner(j)
  BY <1>4, <1>5 DEF EndedByOwner, Status, Terminal, Outcome
<1>6. CASE EndedByQueue(j)
  BY <1>4, <1>6 DEF EndedByQueue, Status, Terminal, Outcome
<1>7. QED
  BY <1>1, <1>2, <1>3, <1>5, <1>6 DEF RowStep

\* In every reachable state the run row, the job row and the attempt ledger
\* tell one story, and no allowance is overdrawn.
THEOREM TablesAgree == Spec => []Consistent
<1>1. TypeOK /\ BusyHasJob /\ TypeOK' /\ Consistent /\ [Next]_vars => Consistent'
  <2> SUFFICES ASSUME TypeOK, BusyHasJob, TypeOK', Consistent, [Next]_vars
               PROVE  \A j \in Jobs : Ledger(j)' /\ Allowed(j)' /\ Mirrors(j)'
    BY DEF Consistent, RunMirrorsJob, AttemptLedger, AllowanceHeld, Ledger, Allowed, Mirrors
  <2>1. \A j \in Jobs : Ledger(j) /\ Allowed(j) /\ Mirrors(j)
    BY ConsistentByJob
  <2>2. QED
    BY <2>1, StepView, ConsistentRow
<1>2. QED
  BY <1>1, ConsistentInit, TypeCorrect, PTL DEF Spec

\* The two parts of it that outlive a crash: the attempt ledger explains the
\* job, and a queued job always has an attempt left.
THEOREM LedgerIsComplete == Spec => []AttemptLedger
BY TablesAgree, PTL DEF Consistent

THEOREM AllowanceIsHeld == Spec => []AllowanceHeld
BY TablesAgree, PTL DEF Consistent

-----------------------------------------------------------------------------
(* Leases.  The sweep leaves lease and label on the row it fails, so the   *)
(* invariant says nothing of settled rows; that is enough, because no step *)
(* brings a settled row back.                                              *)

Leased(j) ==
  /\ job[j].status = "running" => job[j].lease # NoLease /\ job[j].worker # NoLabel
  /\ job[j].status \in {"absent", "queued"} => job[j].lease = NoLease /\ job[j].worker = NoLabel

LEMMA LeasedRow ==
  ASSUME TypeOK, NEW j \in Jobs, Leased(j), RowStep(j)
  PROVE  Leased(j)'
<1> USE QueueAssumption
<1>1. CASE Kept(j)
  BY <1>1 DEF Kept, Tenure, Leased, Live
<1>2. CASE Added(j)
  BY <1>2 DEF Added, NoRow, Leased
<1>3. ASSUME NEW w \in Workers, GrantedTo(j, w) PROVE Leased(j)'
  BY <1>3 DEF GrantedTo, Granted, Leased, NoLease
<1>4. CASE EndedByOwner(j)
  BY <1>4 DEF EndedByOwner, Ended, Leased
<1>5. CASE EndedByQueue(j)
  BY <1>5 DEF EndedByQueue, Ended, Leased
<1>6. QED
  BY <1>1, <1>2, <1>3, <1>4, <1>5 DEF RowStep

\* Every running row has a lease that can run out and names its process; no
\* row that waits to be claimed carries the lease of an earlier attempt.
THEOREM RunningRowsAreLeased == Spec => []LeaseOnRunning
<1>1. Init => LeaseOnRunning
  <2>1. NoRow.status = "absent" /\ NoRow.lease = NoLease /\ NoRow.worker = NoLabel
    BY DEF NoRow
  <2>2. QED
    BY <2>1 DEF Init, LeaseOnRunning
<1>2. TypeOK /\ BusyHasJob /\ LeaseOnRunning /\ [Next]_vars => LeaseOnRunning'
  BY StepView, LeasedRow DEF LeaseOnRunning, Leased
<1>3. QED
  BY <1>1, <1>2, TypeCorrect, PTL DEF Spec

-----------------------------------------------------------------------------
\* Rows are never removed, and only enqueue_ingestion adds one.
LEMMA SameRows ==
  ASSUME TypeOK, NEW j \in Jobs, job[j].status # "absent",
         \A k \in Jobs \ {j} : job'[k] = job[k], job'[j].status # "absent"
  PROVE  Enqueued' = Enqueued
BY DEF Enqueued

LEMMA SweptEnqueued ==
  ASSUME TypeOK, NEW S, NEW j \in Jobs
  PROVE  SweptJobs(S)[j].status = "absent" <=> job[j].status = "absent"
BY SweptRow DEF Exhausted, Expired

\* Every transaction but enqueue_ingestion.
Onward ==
  \/ \E j \in Jobs : Cancel(j)
  \/ \E w \in Workers :
       \/ \E S \in SUBSET Lockable(w) : PollStep(w, S)
       \/ Heartbeat(w) \/ HandlerEnds(w) \/ Settle(w)
       \/ Release(w) \/ Crash(w) \/ Restart(w)
  \/ Tick

LEMMA RowsKept ==
  TypeOK /\ BusyHasJob /\ (Onward \/ UNCHANGED vars) => Enqueued' = Enqueued
<1> SUFFICES ASSUME TypeOK, BusyHasJob, Onward \/ UNCHANGED vars PROVE Enqueued' = Enqueued
  OBVIOUS
<1>0. ASSUME UNCHANGED job PROVE Enqueued' = Enqueued
  BY <1>0 DEF Enqueued
<1>2. ASSUME NEW j \in Jobs, Cancel(j) PROVE Enqueued' = Enqueued
  <2> DEFINE row == [job[j] EXCEPT !.status = "cancelled", !.lease = NoLease]
  <2>1. job[j].status = "running" /\ SetJob(j, row)
    BY <1>2 DEF Cancel, Live
  <2>2. row.status = "cancelled"
    BY DEF TypeOK, JobRow
  <2>3. QED
    BY <2>1, <2>2, SetJobOthers, SameRows
<1>3. ASSUME NEW w \in Workers, NEW S \in SUBSET Lockable(w), PollEmpty(w, S)
      PROVE  Enqueued' = Enqueued
  BY <1>3, SweptEnqueued DEF PollEmpty, Enqueued
<1>4. ASSUME NEW w \in Workers, NEW S \in SUBSET Lockable(w), NEW j \in Jobs, Claim(w, j, S)
      PROVE  Enqueued' = Enqueued
  <2>1. job[j].status # "absent"
    BY <1>4 DEF Claim, Ready, Claimable, Expired
  <2>2. job'[j].status = "running" /\ \A k \in Jobs \ {j} : job'[k] = SweptJobs(S)[k]
    BY <1>4, SweptType DEF Claim, Granted
  <2>3. QED
    BY <2>1, <2>2, SweptEnqueued DEF Enqueued
<1>5. ASSUME NEW w \in Workers, Heartbeat(w) PROVE Enqueued' = Enqueued
  <2> DEFINE j == proc[w].job
  <2>1. j \in Jobs /\ job[j].status = "running" /\ job[j] \in JobRow
    BY <1>5 DEF Heartbeat, Owns, Live, BusyHasJob, TypeOK
  <2>2. job' = [job EXCEPT ![j] = [job[j] EXCEPT !.lease = LeaseTicks]]
    BY <1>5 DEF Heartbeat
  <2>3. job'[j].status = "running" /\ \A k \in Jobs \ {j} : job'[k] = job[k]
    BY <2>1, <2>2 DEF TypeOK, JobRow
  <2>4. QED
    BY <2>1, <2>3, SameRows
<1>6. ASSUME NEW w \in Workers, Complete(w) PROVE Enqueued' = Enqueued
  <2> DEFINE j == proc[w].job
             row == [job[j] EXCEPT !.status = "succeeded", !.lease = NoLease]
  <2>1. j \in Jobs /\ job[j].status = "running"
    BY <1>6 DEF Complete, Owns, Live, BusyHasJob
  <2>2. SetJob(j, row) /\ row.status = "succeeded"
    BY <1>6, <2>1 DEF Complete, TypeOK, JobRow
  <2>3. QED
    BY <2>1, <2>2, SetJobOthers, SameRows
<1>7. ASSUME NEW w \in Workers, Fail(w) PROVE Enqueued' = Enqueued
  <2> DEFINE j == proc[w].job
             terminal == proc[w].verdict = "failed" \/ job[j].attempt >= job[j].max
             row == [job[j] EXCEPT !.status = IF terminal THEN "failed" ELSE "queued",
                                   !.error = "handler_error",
                                   !.lease = NoLease, !.worker = NoLabel]
  <2>1. j \in Jobs /\ job[j].status = "running" /\ job[j] \in JobRow
    BY <1>7 DEF Fail, Owns, Live, BusyHasJob, TypeOK
  <2>2. SetJob(j, row)
    BY <1>7 DEF Fail
  <2>3. row.status # "absent"
    BY <2>1 DEF JobRow
  <2> HIDE DEF row, terminal
  <2>4. QED
    BY <2>1, <2>2, <2>3, SetJobOthers, SameRows
<1>8. ASSUME NEW w \in Workers, Release(w) PROVE Enqueued' = Enqueued
  <2> DEFINE j == proc[w].job
             row == [job[j] EXCEPT !.status = "queued", !.worker = NoLabel, !.lease = NoLease,
                       !.max = IF @ > job[j].attempt THEN @ ELSE job[j].attempt + 1]
  <2>1. CASE Owns(w)
    <3>1. j \in Jobs /\ job[j].status = "running" /\ job[j] \in JobRow
      BY <2>1 DEF Owns, Live, BusyHasJob, TypeOK
    <3>2. SetJob(j, row)
      BY <1>8, <2>1 DEF Release
    <3>3. row.status = "queued"
      BY <3>1 DEF JobRow
    <3> HIDE DEF row
    <3>4. QED
      BY <3>1, <3>2, <3>3, SetJobOthers, SameRows
  <2>2. CASE ~Owns(w)
    BY <1>0, <1>8, <2>2 DEF Release
  <2>3. QED
    BY <2>1, <2>2
<1>9. CASE Tick
  <2>1. \A j \in Jobs : job'[j].status = job[j].status
    BY <1>9 DEF Tick, TypeOK, JobRow
  <2>2. QED
    BY <2>1 DEF Enqueued
<1>10. ASSUME NEW w \in Workers,
              HandlerEnds(w) \/ LeaseLost(w) \/ Crash(w) \/ Restart(w) PROVE Enqueued' = Enqueued
  BY <1>0, <1>10 DEF HandlerEnds, LeaseLost, Crash, Restart
<1>11. CASE UNCHANGED vars
  BY <1>0, <1>11 DEF vars
<1>12. QED
  BY <1>2, <1>3, <1>4, <1>5, <1>6, <1>7, <1>8, <1>9, <1>10, <1>11
  DEF Onward, PollStep, Settle

-----------------------------------------------------------------------------
(* Fencing.  OneOwner alone is not inductive: it must be known that no two *)
(* processes remember the same attempt of a job, and that none remembers   *)
(* an attempt that is still to come.                                       *)

ClaimsFenced ==
  /\ \A w \in Workers : proc[w].job \in Jobs => proc[w].attempt <= job[proc[w].job].attempt
  /\ \A v, w \in Workers :
       ClaimOf(v) = ClaimOf(w) /\ proc[v].job \in Jobs => v = w

\* No step takes an attempt number back.
LEMMA AttemptsGrow ==
  ASSUME TypeOK, NEW j \in Jobs, RowStep(j), Ledger(j)
  PROVE  job[j].attempt <= job'[j].attempt
<1>1. job[j].attempt \in Nat
  BY DEF TypeOK, JobRow
<1>2. Added(j) => job[j].attempt = 0 /\ job'[j].attempt = 0
  BY <1>1 DEF Added, NoRow, Ledger, LastOutcomes
<1>3. Kept(j) => job'[j].attempt = job[j].attempt
  BY DEF Kept, Tenure
<1>4. \A w \in Workers : GrantedTo(j, w) => job'[j].attempt = job[j].attempt + 1
  BY DEF GrantedTo, Granted
<1>5. EndedByOwner(j) \/ EndedByQueue(j) => job'[j].attempt = job[j].attempt
  BY DEF EndedByOwner, EndedByQueue, Ended
<1>6. QED
  BY <1>1, <1>2, <1>3, <1>4, <1>5 DEF RowStep

LEMMA FencedStep ==
  ASSUME TypeOK, BusyHasJob, TypeOK', Consistent, ClaimsFenced, [Next]_vars
  PROVE  ClaimsFenced'
<1> USE QueueAssumption
<1>1. \A j \in Jobs : RowStep(j) /\ Ledger(j)
  BY StepView, ConsistentByJob
<1>2. \A j \in Jobs : job[j].attempt <= job'[j].attempt
  BY <1>1, AttemptsGrow
<1>3. \A j \in Jobs : job[j].attempt \in Nat /\ job'[j].attempt \in Nat
  BY DEF TypeOK, JobRow
<1>4. \A w \in Workers : proc[w].attempt \in Nat /\ proc'[w].attempt \in Nat
  BY DEF TypeOK, Process
<1>5. CASE \A w \in Workers : ClaimOf(w)' = ClaimOf(w)
  BY <1>2, <1>3, <1>4, <1>5 DEF ClaimsFenced, ClaimOf
<1>6. ASSUME NEW w \in Workers, \A v \in Workers \ {w} : proc'[v] = proc[v],
             ClaimOf(w)' = <<NoJob, 0>>
      PROVE  ClaimsFenced'
  BY <1>2, <1>3, <1>4, <1>6 DEF ClaimsFenced, ClaimOf
<1>7. ASSUME NEW w \in Workers, \A v \in Workers \ {w} : proc'[v] = proc[v],
             NEW j \in Jobs, ClaimOf(w)' = <<j, job[j].attempt + 1>>,
             job'[j].attempt = job[j].attempt + 1
      PROVE  ClaimsFenced'
  <2>1. \A u \in Workers : proc'[u].job \in Jobs =>
          proc'[u].attempt <= job'[proc'[u].job].attempt
    BY <1>2, <1>3, <1>4, <1>7 DEF ClaimsFenced, ClaimOf
  <2>2. \A u \in Workers \ {w} : ClaimOf(u)' # ClaimOf(w)'
    BY <1>3, <1>4, <1>7 DEF ClaimsFenced, ClaimOf
  <2>3. \A u, v \in Workers \ {w} :
          ClaimOf(u)' = ClaimOf(v)' /\ proc'[u].job \in Jobs => u = v
    BY <1>7 DEF ClaimsFenced, ClaimOf
  <2>4. QED
    BY <2>1, <2>2, <2>3 DEF ClaimsFenced
<1>8. QED
  BY <1>5, <1>6, <1>7, StepView DEF ProcStep

THEOREM Fenced == Spec => []ClaimsFenced
<1>1. Init => ClaimsFenced
  BY QueueAssumption DEF Init, ClaimsFenced, ClaimOf, Idle
<1>2. QED
  BY <1>1, FencedStep, TypeCorrect, TablesAgree, PTL DEF Spec

\* No two processes ever pass owned_claim for one job, whatever their labels.
THEOREM NoTwoOwners == Spec => []OneOwner
<1>1. TypeOK /\ BusyHasJob /\ ClaimsFenced => OneOwner
  BY DEF OneOwner, Owns, BusyHasJob, ClaimsFenced, ClaimOf
<1>2. QED
  BY <1>1, TypeCorrect, Fenced, PTL

-----------------------------------------------------------------------------
(* What no step may do.                                                    *)

\* A closed ledger entry is never rewritten and no entry is ever removed.
THEOREM LedgerIsEvidence == Spec => LedgerWriteOnce
<1> DEFINE Kept1(j) == \A n \in 1..Len(history[j]) :
             /\ n <= Len(history'[j])
             /\ history[j][n] # "open" => history'[j][n] = history[j][n]
<1>1. ASSUME TypeOK, NEW j \in Jobs, Ledger(j), RowStep(j) PROVE Kept1(j)
  <2>1. /\ history[j] \in Seq(Outcome) /\ job[j].attempt \in Nat /\ job[j].status \in Status
        /\ Len(history[j]) = job[j].attempt
    BY <1>1 DEF TypeOK, JobRow, Ledger
  <2>2. job[j].status = "running" => job[j].attempt > 0 /\ history[j][job[j].attempt] = "open"
    BY <1>1, <2>1 DEF Ledger, LastOutcomes
  <2>3. CASE history'[j] = history[j]
    BY <2>1, <2>3
  <2>4. ASSUME NEW o \in Outcome, job[j].status = "running", history'[j] = Finished(j, o)
        PROVE  Kept1(j)
    <3>1. /\ Len(history'[j]) = Len(history[j])
          /\ \A n \in 1..Len(history[j]) :
               history'[j][n] = IF n = job[j].attempt THEN o ELSE history[j][n]
      BY <1>1, <2>4, FinishedLedger
    <3>2. \A n \in 1..Len(history[j]) : history[j][n] # "open" => n # job[j].attempt
      BY <2>2, <2>4
    <3> HIDE <1>1, <2>4
    <3>3. QED
      BY <2>1, <3>1, <3>2
  <2>5. ASSUME NEW w \in Workers, GrantedTo(j, w) PROVE Kept1(j)
    <3> DEFINE h == IF job[j].status = "running" THEN Finished(j, "lease_expired") ELSE history[j]
    <3>1. h \in Seq(Outcome) /\ Len(h) = Len(history[j])
      BY <1>1, <2>1, FinishedLedger DEF Outcome
    <3>2. \A n \in 1..Len(history[j]) : history[j][n] # "open" => h[n] = history[j][n]
      BY <1>1, <2>1, <2>2, FinishedLedger DEF Outcome
    <3>3. history'[j] = Append(h, "open")
      BY <2>5 DEF GrantedTo
    <3> HIDE DEF h
    <3>4. Len(history'[j]) = Len(h) + 1 /\ \A n \in 1..Len(h) : history'[j][n] = h[n]
      BY <3>1, <3>3, AppendProperties DEF Outcome
    <3>5. Len(h) \in Nat
      BY <2>1, <3>1
    <3>6. ASSUME NEW n \in 1..Len(history[j])
          PROVE  n <= Len(history'[j]) /\ history'[j][n] = h[n]
      BY <3>1, <3>4, <3>5
    <3>7. QED
      BY <3>2, <3>6
  <2>6. QED
    BY <1>1, <2>3, <2>4, <2>5
    DEF RowStep, Kept, Added, EndedByOwner, EndedByQueue, Ended, Outcome, Terminal
<1>2. TypeOK /\ BusyHasJob /\ Consistent /\ [Next]_vars => \A j \in Jobs : Kept1(j)
  BY <1>1, StepView, ConsistentByJob
<1>3. TypeOK /\ BusyHasJob /\ Consistent /\ [Next]_vars =>
        [\A j \in Jobs : \A n \in 1..Len(history[j]) :
           /\ n <= Len(history'[j])
           /\ history[j][n] # "open" => history'[j][n] = history[j][n]]_vars
  BY <1>2
<1>4. QED
  BY <1>3, TypeCorrect, TablesAgree, PTL DEF Spec, LedgerWriteOnce

\* A live lease ends only by its owner's own transaction or a cancellation.
THEOREM TenureIsSafe == Spec => LiveLeaseProtected
<1>1. TypeOK /\ BusyHasJob /\ [Next]_vars =>
        [\A j \in Jobs : Live(j) /\ Tenure(j)' # Tenure(j) =>
           \/ job'[j].status = "cancelled"
           \/ \E w \in Workers : Owns(w) /\ proc[w].job = j /\ proc'[w] # proc[w]]_vars
  <2> SUFFICES ASSUME TypeOK, BusyHasJob, [Next]_vars, NEW j \in Jobs,
                      Live(j), Tenure(j)' # Tenure(j)
               PROVE  \/ job'[j].status = "cancelled"
                      \/ \E w \in Workers : Owns(w) /\ proc[w].job = j /\ proc'[w] # proc[w]
    OBVIOUS
  <2>1. ~Claimable(j) /\ ~Exhausted(j) /\ job[j].status # "absent"
    BY DEF Live, Claimable, Exhausted, Expired, TypeOK, JobRow
  <2>2. EndedByOwner(j) \/ EndedByQueue(j)
    BY <2>1, StepView DEF RowStep, Kept, Added, GrantedTo
  <2>3. CASE EndedByQueue(j)
    BY <2>1, <2>3 DEF EndedByQueue, Ended
  <2>4. CASE EndedByOwner(j)
    <3>1. PICK w \in Workers, p \in {"polling", "down"} :
            Owns(w) /\ proc[w].job = j /\ proc' = [proc EXCEPT ![w] = Idle(p)]
      BY <2>4 DEF EndedByOwner
    <3>2. proc'[w].phase = p /\ proc[w].phase \in {"working", "settling"}
      BY <3>1 DEF Owns, Idle, TypeOK
    <3>3. QED
      BY <3>1, <3>2
  <2>5. QED
    BY <2>2, <2>3, <2>4
<1>2. QED
  BY <1>1, TypeCorrect, PTL DEF Spec, LiveLeaseProtected

\* A settled job, its run and its ledger never change again.
THEOREM SettledIsFinal == Spec => TerminalIsFinal
<1>1. TypeOK /\ BusyHasJob /\ [Next]_vars =>
        [\A j \in Jobs : job[j].status \in Terminal =>
           job'[j] = job[j] /\ run'[j] = run[j] /\ history'[j] = history[j]]_vars
  <2> SUFFICES ASSUME TypeOK, BusyHasJob, [Next]_vars,
                      NEW j \in Jobs, job[j].status \in Terminal
               PROVE  job'[j] = job[j] /\ run'[j] = run[j] /\ history'[j] = history[j]
    OBVIOUS
  <2>1. /\ ~Live(j) /\ ~Claimable(j) /\ job[j].status # "absent" /\ job[j].status # "running"
    BY DEF Live, Claimable, Expired, Terminal
  <2>2. Kept(j)
    BY <2>1, StepView DEF RowStep, Added, GrantedTo, EndedByOwner, EndedByQueue, Ended
  <2>3. QED
    BY <2>1, <2>2 DEF Kept
<1>2. QED
  BY <1>1, TypeCorrect, PTL DEF Spec, TerminalIsFinal

-----------------------------------------------------------------------------
(* Refinement: seen through the attempt numbers, every job is FencedJob.   *)

LEMMA AbstractInit == ASSUME Init, NEW j \in Jobs PROVE Abstract(j)!Init
BY QueueAssumption DEF Init, NoRow, Idle, StateOf, OutcomeOf, HoldersOf, Abstract!Init, Terminal

\* Dropping a claim removes its token and no other, since no two processes
\* hold the same one.
LEMMA DropHolder ==
  ASSUME TypeOK, ClaimsFenced, NEW j \in Jobs, NEW w \in Workers, proc[w].job = j,
         \A v \in Workers \ {w} : proc'[v] = proc[v], proc'[w].job # j
  PROVE  HoldersOf(j)' = HoldersOf(j) \ {proc[w].attempt} /\ proc[w].attempt \in HoldersOf(j)
BY DEF HoldersOf, ClaimsFenced, ClaimOf

LEMMA SameHolders ==
  ASSUME NEW j \in Jobs,
         \A w \in Workers : ClaimOf(w)' # ClaimOf(w) => proc[w].job # j /\ proc'[w].job # j
  PROVE  HoldersOf(j)' = HoldersOf(j)
BY DEF HoldersOf, ClaimOf

LEMMA AbstractStep ==
  ASSUME TypeOK, BusyHasJob, TypeOK', Consistent, ClaimsFenced, [Next]_vars, NEW j \in Jobs
  PROVE  [Abstract(j)!Next]_(Abstract(j)!fenced)
<1> USE QueueAssumption
<1>1. RowStep(j) /\ ProcStep /\ Ledger(j)
  BY StepView, ConsistentByJob
<1>2. CASE Kept(j)
  <2>1. StateOf(j)' = StateOf(j) /\ job'[j].attempt = job[j].attempt /\ OutcomeOf(j)' = OutcomeOf(j)
    BY <1>2 DEF Kept, Tenure, StateOf, OutcomeOf
  <2>2. CASE HoldersOf(j)' = HoldersOf(j)
    BY <2>1, <2>2 DEF Abstract!fenced
  <2>3. ASSUME NEW w \in Workers, \A v \in Workers \ {w} : proc'[v] = proc[v],
               ClaimOf(w)' = <<NoJob, 0>>, proc[w].job = j
        PROVE  Abstract(j)!Next
    <3>1. HoldersOf(j)' = HoldersOf(j) \ {proc[w].attempt} /\ proc[w].attempt \in HoldersOf(j)
      BY <2>3, DropHolder DEF ClaimOf
    <3>2. QED
      BY <2>1, <3>1 DEF Abstract!Next, Abstract!Forget
  <2>4. ASSUME NEW w \in Workers, \A v \in Workers \ {w} : proc'[v] = proc[v],
               ClaimOf(w)' = <<NoJob, 0>>, proc[w].job # j
        PROVE  HoldersOf(j)' = HoldersOf(j)
    BY <2>4, SameHolders DEF ClaimOf
  <2>5. ASSUME NEW w \in Workers, \A v \in Workers \ {w} : proc'[v] = proc[v],
               NEW k \in Jobs, proc[w].job \notin Jobs, ClaimOf(w)' = <<k, job[k].attempt + 1>>,
               job'[k].attempt = job[k].attempt + 1
        PROVE  HoldersOf(j)' = HoldersOf(j)
    <3>1. k # j
      BY <2>1, <2>5 DEF TypeOK, JobRow
    <3>2. QED
      BY <2>5, <3>1, SameHolders DEF ClaimOf
  <2>6. CASE \A w \in Workers : ClaimOf(w)' = ClaimOf(w)
    BY <2>2, <2>6, SameHolders
  <2>7. QED
    BY <1>1, <2>2, <2>3, <2>4, <2>5, <2>6 DEF ProcStep
<1>3. CASE Added(j)
  <2>1. HoldersOf(j)' = HoldersOf(j)
    BY <1>3, SameHolders DEF Added, ClaimOf
  <2>2. job[j].attempt = 0 /\ job'[j].attempt = 0
    BY <1>1, <1>3 DEF Added, NoRow, Ledger, LastOutcomes, TypeOK, JobRow
  <2>3. Abstract(j)!Add
    BY <1>3, <2>1, <2>2 DEF Added, NoRow, StateOf, OutcomeOf, Terminal, Abstract!Add
  <2>4. QED
    BY <2>3 DEF Abstract!Next
<1>4. ASSUME NEW w \in Workers, GrantedTo(j, w) PROVE Abstract(j)!Next
  <2>1. HoldersOf(j)' = HoldersOf(j) \cup {job[j].attempt + 1}
    BY <1>4 DEF GrantedTo, HoldersOf, TypeOK
  <2>2. StateOf(j) \in {"waiting", "held"} /\ OutcomeOf(j) = "none"
    BY <1>4 DEF GrantedTo, Claimable, Expired, StateOf, OutcomeOf, Terminal
  <2>3. StateOf(j)' = "held" /\ OutcomeOf(j)' = "none" /\ job'[j].attempt = job[j].attempt + 1
    BY <1>4 DEF GrantedTo, Granted, StateOf, OutcomeOf, Terminal
  <2>4. Abstract(j)!Grant
    BY <2>1, <2>2, <2>3 DEF Abstract!Grant
  <2>5. QED
    BY <2>4 DEF Abstract!Next
<1>5. CASE EndedByOwner(j)
  <2>1. PICK w \in Workers, p \in {"polling", "down"} :
          Owns(w) /\ proc[w].job = j /\ proc' = [proc EXCEPT ![w] = Idle(p)]
    BY <1>5 DEF EndedByOwner
  <2>2. HoldersOf(j)' = HoldersOf(j) \ {job[j].attempt} /\ job[j].attempt \in HoldersOf(j)
    <3>1. proc[w].attempt = job[j].attempt
      BY <2>1 DEF Owns
    <3>2. proc'[w].job # j /\ \A v \in Workers \ {w} : proc'[v] = proc[v]
      BY <2>1 DEF Idle, TypeOK
    <3>3. QED
      BY <2>1, <3>1, <3>2, DropHolder
  <2>3. StateOf(j) = "held" /\ OutcomeOf(j) = "none" /\ job'[j].attempt = job[j].attempt
    BY <1>5 DEF EndedByOwner, Ended, StateOf, OutcomeOf, Terminal
  <2>4. \/ StateOf(j)' = "settled" /\ OutcomeOf(j)' \in {"succeeded", "failed"}
        \/ StateOf(j)' = "waiting" /\ OutcomeOf(j)' = "none"
    BY <1>5 DEF EndedByOwner, Ended, StateOf, OutcomeOf, Terminal
  <2>5. QED
    BY <2>2, <2>3, <2>4 DEF Abstract!Next, Abstract!Settle, Abstract!Return
<1>6. CASE EndedByQueue(j)
  <2>1. HoldersOf(j)' = HoldersOf(j)
    BY <1>6, SameHolders DEF EndedByQueue, ClaimOf
  <2>2. StateOf(j) = "held" /\ job'[j].attempt = job[j].attempt
        /\ StateOf(j)' = "settled" /\ OutcomeOf(j)' \in {"failed", "cancelled"}
    BY <1>6 DEF EndedByQueue, Ended, StateOf, OutcomeOf, Terminal
  <2>3. QED
    BY <2>1, <2>2 DEF Abstract!Next, Abstract!GiveUp
<1>7. QED
  BY <1>1, <1>2, <1>3, <1>4, <1>5, <1>6 DEF RowStep

\* The queue and its workers implement the fenced lock of FencedJob.
THEOREM QueueImplementsFencedJob == Spec => ImplementsFencedJob
<1>1. Init => \A j \in Jobs : Abstract(j)!Init
  BY AbstractInit
<1>2. TypeOK /\ BusyHasJob /\ TypeOK' /\ Consistent /\ ClaimsFenced /\ [Next]_vars =>
        [\A j \in Jobs : [Abstract(j)!Next]_(Abstract(j)!fenced)]_vars
  BY AbstractStep
<1>3. QED
  BY <1>1, <1>2, TypeCorrect, TablesAgree, Fenced, PTL DEF Spec, ImplementsFencedJob

=============================================================================
