------------------------------ MODULE LeaseLock ------------------------------
(***************************************************************************)
(* The lease of one running job under PostgreSQL's row lock.  JobQueue     *)
(* takes a transaction to find the row, lock it and read the clock at one  *)
(* moment; here they are apart for the transaction that may really have to *)
(* wait.  The handler's fenced write (worker.py persist_normalization,     *)
(* extraction.py extract_candidates) locks the row for as long as it       *)
(* writes and never changes it.  The heartbeat of the same process         *)
(* (_renew_lease) evaluates the WHERE clause of its SELECT ... FOR UPDATE  *)
(* when it finds the row, and may get the lock only after that write.      *)
(* PostgreSQL then evaluates the clause again if the row was changed       *)
(* meanwhile, not if it was only locked; and now() is still the start of   *)
(* the heartbeat's transaction.                                            *)
(***************************************************************************)
EXTENDS Naturals

CONSTANTS
  Workers,      \* processes that may claim the job
  LeaseTicks,   \* job_lease_seconds, in ticks
  EndOfTime     \* bound: the last instant of the database clock

ASSUME LeaseAssumption ==
  LeaseTicks \in Nat \ {0} /\ EndOfTime \in Nat

VARIABLES
  now,      \* the database clock
  row,      \* the job: kind, attempt, lease_expires_at, changes committed to it
  writing,  \* the processes whose write holds the row: at most one
  handler,  \* each process's handler: its phase and the attempt it claimed
  beat,     \* each process's heartbeat: its phase, the row it found, its now()
  written   \* the attempts whose fenced write is committed

vars == <<now, row, writing, handler, beat, written>>

Rows     == [kind: {"normalization", "extraction"}, attempt: Nat, expires: Nat, changes: Nat]
Handlers == [phase: {"none", "working", "writing", "wrote"}, attempt: Nat]
Beats    == [phase: {"off", "asleep", "waiting"}, found: Nat, start: Nat]
Resting  == [phase |-> "none", attempt |-> 0]
Off      == [phase |-> "off", found |-> 0, start |-> 0]

\* A normalization checks its claim again before it commits.
ChecksTwice == row.kind = "normalization"

\* owned_claim's WHERE clause, with clock_timestamp().
Owned(w) == row.attempt = handler[w].attempt /\ row.expires > now

Init ==
  /\ now = 0
  /\ \E kind \in {"normalization", "extraction"} :
       row = [kind |-> kind, attempt |-> 0, expires |-> 0, changes |-> 0]
  /\ writing = {}
  /\ handler = [w \in Workers |-> Resting]
  /\ beat = [w \in Workers |-> Off]
  /\ written = {}

Tick == now < EndOfTime /\ now' = now + 1 /\ UNCHANGED <<row, writing, handler, beat, written>>

\* Mutant: FOR UPDATE is missing from the poll.
ClaimUnlocked(w) ==
  /\ handler[w].phase = "none" /\ beat[w].phase = "off"
  /\ row.expires <= now
  /\ row' = [row EXCEPT !.attempt = @ + 1, !.expires = now + LeaseTicks, !.changes = @ + 1]
  /\ handler' = [handler EXCEPT ![w] = [phase |-> "working", attempt |-> row.attempt + 1]]
  /\ beat' = [beat EXCEPT ![w] = [phase |-> "asleep", found |-> 0, start |-> now]]
  /\ UNCHANGED <<now, writing, written>>

\* claim_next_job of an idle process: SKIP LOCKED, so it never waits.
Claim(w) ==
  /\ handler[w].phase = "none" /\ beat[w].phase = "off"
  /\ writing = {}
  /\ row.expires <= now
  /\ row' = [row EXCEPT !.attempt = @ + 1, !.expires = now + LeaseTicks, !.changes = @ + 1]
  /\ handler' = [handler EXCEPT ![w] = [phase |-> "working", attempt |-> row.attempt + 1]]
  /\ beat' = [beat EXCEPT ![w] = [phase |-> "asleep", found |-> 0, start |-> now]]
  /\ UNCHANGED <<now, writing, written>>

-----------------------------------------------------------------------------
(* The handler's fenced write.                                             *)

\* owned_claim locks the row.
BeginWrite(w) ==
  /\ handler[w].phase = "working"
  /\ writing = {} /\ Owned(w)
  /\ writing' = {w}
  /\ handler' = [handler EXCEPT ![w].phase = "writing"]
  /\ UNCHANGED <<now, row, beat, written>>

\* The write commits; it leaves the row as it found it.
CommitWrite(w) ==
  /\ handler[w].phase = "writing"
  /\ ChecksTwice => Owned(w)
  /\ writing' = {}
  /\ written' = written \cup {handler[w].attempt}
  /\ handler' = [handler EXCEPT ![w].phase = "wrote"]
  /\ UNCHANGED <<now, row, beat>>

\* JobLeaseLost, from owned_claim before, inside or after the write: the
\* transaction is rolled back and the claim given up.
GiveUp(w) ==
  /\ handler[w].phase # "none" /\ ~Owned(w)
  /\ handler[w].phase = "writing" => ChecksTwice
  /\ writing' = writing \ {w}
  /\ handler' = [handler EXCEPT ![w].phase = "none"]
  /\ UNCHANGED <<now, row, beat, written>>

-----------------------------------------------------------------------------
(* One round of _renew_lease: owned_claim, heartbeat_job and commit.       *)

\* The job after a heartbeat that sets lease_expires_at.
Extended(expires) == [row EXCEPT !.expires = expires, !.changes = @ + 1]
\* Mutant: the new lease counts from the commit.
RenewalFromCommit(start) == Extended(now + LeaseTicks)
\* The new lease counts from now(), the start of the transaction.
Renewal(start) == Extended(start + LeaseTicks)

\* The row is free: the whole round at one moment.
Renew(w) ==
  /\ handler[w].phase # "none" /\ beat[w].phase = "asleep" /\ now > beat[w].start
  /\ writing = {} /\ Owned(w)
  /\ row' = Renewal(now)
  /\ beat' = [beat EXCEPT ![w].start = now]
  /\ UNCHANGED <<now, writing, handler, written>>

\* The row is locked: owned_claim finds it and waits.
Wait(w) ==
  /\ handler[w].phase # "none" /\ beat[w].phase = "asleep" /\ now > beat[w].start
  /\ writing # {} /\ Owned(w)
  /\ beat' = [beat EXCEPT ![w] = [phase |-> "waiting", found |-> row.changes, start |-> now]]
  /\ UNCHANGED <<now, row, writing, handler, written>>

\* Mutant: the clause is never evaluated again.
RequalifiedNever(w) == TRUE
\* The row as it was found, or a changed row that meets the clause now.
Requalified(w) == row.changes = beat[w].found \/ Owned(w)

\* The lock is there.  _owned_job then compares the lease with the start of the
\* transaction.
Wake(w) ==
  /\ beat[w].phase = "waiting" /\ writing = {}
  /\ Requalified(w) /\ row.expires > beat[w].start
  /\ row' = Renewal(beat[w].start)
  /\ beat' = [beat EXCEPT ![w].phase = "asleep", ![w].found = 0]
  /\ UNCHANGED <<now, writing, handler, written>>

\* JobLeaseLost ends the heartbeat; so does run_worker once the claim is given
\* up, at whatever point the heartbeat has reached.
EndBeat(w) ==
  /\ \/ beat[w].phase = "asleep" /\ ~Owned(w)
     \/ /\ beat[w].phase = "waiting" /\ writing = {}
        /\ ~(Requalified(w) /\ row.expires > beat[w].start)
     \/ beat[w].phase # "off" /\ handler[w].phase = "none"
  /\ beat' = [beat EXCEPT ![w] = Off]
  /\ UNCHANGED <<now, row, writing, handler, written>>

-----------------------------------------------------------------------------
Next ==
  \/ Tick
  \/ \E w \in Workers :
       \/ Claim(w) \/ BeginWrite(w) \/ CommitWrite(w) \/ GiveUp(w)
       \/ Renew(w) \/ Wait(w) \/ Wake(w) \/ EndBeat(w)

Spec == Init /\ [][Next]_vars

-----------------------------------------------------------------------------
TypeOK ==
  /\ now \in Nat
  /\ row \in Rows
  /\ writing \in SUBSET Workers
  /\ handler \in [Workers -> Handlers]
  /\ beat \in [Workers -> Beats]
  /\ written \subseteq Nat

\* A fenced write is committed by the newest claim only, even one that outlives
\* its lease while it holds the row.
WriteFenced == [][written' \ written \subseteq {row.attempt}]_vars

\* A renewal extends the lease of the attempt it was made for, however long it
\* waited for the row and whatever was committed meanwhile.
Renewed == row'.attempt = row.attempt /\ row' # row
RenewalFenced == [][Renewed =>
  \E w \in Workers : beat'[w] # beat[w] /\ handler[w].attempt = row.attempt]_vars

\* Whatever a heartbeat waited for, it adds less than one lease to the lease it
\* found, so a process that stopped working cannot keep a job for long.
RenewalBounded == [][Renewed => row'.expires < row.expires + LeaseTicks]_vars

\* A lease that is over is not renewed (what the tests ask of the heartbeat).
ExpiredNotRenewed == [][Renewed => row.expires > now]_vars
=============================================================================
