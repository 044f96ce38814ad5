--------------------------- MODULE LeaseLockProofs ---------------------------
(***************************************************************************)
(* Theorems about LeaseLock, for any processes, lease length and clock,    *)
(* whether the job's write checks its claim once or twice.               *)
(***************************************************************************)
EXTENDS LeaseLock, TLAPS

\* Why the lock fences: one write at a time holds the row, the row stays with
\* the writer's attempt as long as it does, and a waiting heartbeat whose row is
\* unchanged still belongs to the row's attempt.
LockInv ==
  /\ \A w \in Workers : w \in writing <=> handler[w].phase = "writing"
  /\ \A v, w \in writing : v = w
  /\ \A w \in writing : handler[w].attempt = row.attempt
  /\ \A w \in Workers : beat[w].phase = "waiting" =>
       /\ beat[w].found <= row.changes
       /\ beat[w].found = row.changes => handler[w].attempt = row.attempt

LEMMA RenewalType ==
  ASSUME TypeOK, NEW n \in Nat
  PROVE  /\ Renewal(n) \in Rows
         /\ Renewal(n).attempt = row.attempt
         /\ Renewal(n).expires = n + LeaseTicks
         /\ Renewal(n).changes = row.changes + 1
<1>1. row \in Rows
  BY DEF TypeOK, Rows
<1>2. n + LeaseTicks \in Nat /\ row.changes + 1 \in Nat
  BY <1>1, LeaseAssumption DEF Rows
<1>3. Renewal(n) = [row EXCEPT !.expires = n + LeaseTicks, !.changes = @ + 1]
  BY DEF Renewal, Extended, Rows
<1>4. QED
  BY <1>1, <1>2, <1>3 DEF Rows

LEMMA Typed == Spec => []TypeOK
<1> USE LeaseAssumption
<1>1. Init => TypeOK
  BY DEF Init, TypeOK, Rows, Handlers, Beats, Resting, Off
<1>2. TypeOK /\ [Next]_vars => TypeOK'
  <2> SUFFICES ASSUME TypeOK, [Next]_vars PROVE TypeOK'
    OBVIOUS
  <2>1. CASE Tick
    BY <2>1 DEF Tick, TypeOK, Rows
  <2>2. ASSUME NEW w \in Workers, Claim(w) PROVE TypeOK'
    <3>1. row' \in Rows
      <4>1. row \in Rows /\ now + LeaseTicks \in Nat /\ row.attempt + 1 \in Nat /\ row.changes + 1 \in Nat
        BY DEF TypeOK, Rows
      <4>2. QED
        BY <2>2, <4>1 DEF Claim, Rows
    <3>2. handler' \in [Workers -> Handlers]
      BY <2>2 DEF Claim, TypeOK, Rows, Handlers
    <3>3. beat' \in [Workers -> Beats]
      BY <2>2 DEF Claim, TypeOK, Beats
    <3>4. QED
      BY <2>2, <3>1, <3>2, <3>3 DEF Claim, TypeOK
  <2>3. ASSUME NEW w \in Workers, BeginWrite(w) PROVE TypeOK'
    BY <2>3 DEF BeginWrite, TypeOK, Rows, Handlers
  <2>4. ASSUME NEW w \in Workers, CommitWrite(w) PROVE TypeOK'
    BY <2>4 DEF CommitWrite, TypeOK, Rows, Handlers
  <2>5. ASSUME NEW w \in Workers, GiveUp(w) PROVE TypeOK'
    BY <2>5 DEF GiveUp, TypeOK, Rows, Handlers
  <2>6. ASSUME NEW w \in Workers, Renew(w) PROVE TypeOK'
    BY <2>6, RenewalType DEF Renew, TypeOK, Rows, Beats
  <2>7. ASSUME NEW w \in Workers, Wait(w) PROVE TypeOK'
    BY <2>7 DEF Wait, TypeOK, Rows, Beats
  <2>8. ASSUME NEW w \in Workers, Wake(w) PROVE TypeOK'
    <3>1. beat[w].start \in Nat
      BY DEF TypeOK, Rows, Beats
    <3>2. row' \in Rows
      BY <2>8, <3>1, RenewalType DEF Wake
    <3>3. beat' \in [Workers -> Beats]
      BY <2>8 DEF Wake, TypeOK, Rows, Beats
    <3>4. QED
      BY <2>8, <3>2, <3>3 DEF Wake, TypeOK, Rows
  <2>9. ASSUME NEW w \in Workers, EndBeat(w) PROVE TypeOK'
    BY <2>9 DEF EndBeat, TypeOK, Rows, Beats, Off
  <2>10. CASE UNCHANGED vars
    BY <2>10 DEF vars, TypeOK, Rows
  <2>11. QED
    BY <2>1, <2>2, <2>3, <2>4, <2>5, <2>6, <2>7, <2>8, <2>9, <2>10 DEF Next
<1>3. QED
  BY <1>1, <1>2, PTL DEF Spec

LEMMA Locked == Spec => []LockInv
<1>1. Init => LockInv
  BY DEF Init, LockInv, Resting, Off
<1>2. TypeOK /\ LockInv /\ [Next]_vars => LockInv'
  <2> SUFFICES ASSUME TypeOK, LockInv, [Next]_vars PROVE LockInv'
    OBVIOUS
  <2>a. /\ row.attempt \in Nat /\ row.changes \in Nat
        /\ \A v \in Workers : handler[v].attempt \in Nat /\ beat[v].found \in Nat
    BY DEF TypeOK, Rows, Handlers, Beats
  <2> USE DEF LockInv
  <2>1. CASE Tick
    BY <2>1 DEF Tick
  <2>2. ASSUME NEW w \in Workers, Claim(w) PROVE LockInv'
    <3>1. /\ writing = {} /\ writing' = {}
          /\ row'.attempt = row.attempt + 1 /\ row'.changes = row.changes + 1
          /\ handler'[w].phase = "working" /\ beat'[w].phase = "asleep"
          /\ \A v \in Workers \ {w} : handler'[v] = handler[v] /\ beat'[v] = beat[v]
      BY <2>2 DEF Claim, TypeOK, Rows
    <3>2. \A v \in Workers : beat'[v].phase = "waiting" =>
            beat'[v].found <= row'.changes /\ beat'[v].found # row'.changes
      BY <2>a, <3>1
    <3>3. QED
      BY <3>1, <3>2
  <2>3. ASSUME NEW w \in Workers, BeginWrite(w) PROVE LockInv'
    BY <2>3 DEF BeginWrite, Owned, TypeOK, Rows, Handlers
  <2>4. ASSUME NEW w \in Workers, CommitWrite(w) PROVE LockInv'
    BY <2>4 DEF CommitWrite, TypeOK, Rows, Handlers
  <2>5. ASSUME NEW w \in Workers, GiveUp(w) PROVE LockInv'
    BY <2>5 DEF GiveUp, TypeOK, Rows, Handlers
  <2>6. ASSUME NEW w \in Workers, Renew(w) PROVE LockInv'
    <3>1. /\ row'.attempt = row.attempt /\ row'.changes = row.changes + 1
          /\ UNCHANGED <<writing, handler>>
          /\ \A v \in Workers : beat'[v].phase = beat[v].phase /\ beat'[v].found = beat[v].found
      BY <2>6, RenewalType DEF Renew, TypeOK, Rows, Beats
    <3>2. QED
      BY <2>a, <3>1
  <2>7. ASSUME NEW w \in Workers, Wait(w) PROVE LockInv'
    <3>1. /\ UNCHANGED <<row, writing, handler>>
          /\ handler[w].attempt = row.attempt
          /\ beat'[w].found = row.changes
          /\ \A v \in Workers \ {w} : beat'[v] = beat[v]
      BY <2>7 DEF Wait, Owned, TypeOK, Rows
    <3>2. QED
      BY <2>a, <3>1
  <2>8. ASSUME NEW w \in Workers, Wake(w) PROVE LockInv'
    <3>1. /\ row'.attempt = row.attempt /\ row'.changes = row.changes + 1
          /\ UNCHANGED <<writing, handler>>
          /\ beat'[w].phase = "asleep"
          /\ \A v \in Workers \ {w} : beat'[v] = beat[v]
      <4>1. beat[w].start \in Nat
        BY DEF TypeOK, Rows, Beats
      <4>2. QED
        BY <2>8, <4>1, RenewalType DEF Wake, TypeOK, Rows
    <3>2. QED
      BY <2>a, <3>1
  <2>9. ASSUME NEW w \in Workers, EndBeat(w) PROVE LockInv'
    BY <2>9 DEF EndBeat, Off, TypeOK, Rows
  <2>10. CASE UNCHANGED vars
    BY <2>10 DEF vars
  <2>11. QED
    BY <2>1, <2>2, <2>3, <2>4, <2>5, <2>6, <2>7, <2>8, <2>9, <2>10 DEF Next
<1>3. QED
  BY <1>1, <1>2, Typed, PTL DEF Spec

-----------------------------------------------------------------------------
\* Only the row's newest attempt commits a fenced write.
THEOREM OnlyTheNewestWrites == Spec => WriteFenced
<1>1. TypeOK /\ LockInv /\ [Next]_vars => [written' \ written \subseteq {row.attempt}]_vars
  <2> SUFFICES ASSUME TypeOK, LockInv, Next PROVE written' \ written \subseteq {row.attempt}
    OBVIOUS
  <2>1. ASSUME NEW w \in Workers, CommitWrite(w) PROVE written' \subseteq written \cup {row.attempt}
    BY <2>1 DEF CommitWrite, LockInv
  <2>2. CASE UNCHANGED written
    BY <2>2
  <2>3. QED
    BY <2>1, <2>2 DEF Next, Tick, Claim, BeginWrite, GiveUp, Renew, Wait, Wake, EndBeat
<1>2. QED
  BY <1>1, Typed, Locked, PTL DEF Spec, WriteFenced

\* A renewal belongs to the attempt it renews.
THEOREM RenewalsAreFenced == Spec => RenewalFenced
<1> DEFINE Fenced == Renewed =>
      \E w \in Workers : beat'[w] # beat[w] /\ handler[w].attempt = row.attempt
<1>1. TypeOK /\ LockInv /\ [Next]_vars => [Fenced]_vars
  <2> SUFFICES ASSUME TypeOK, LockInv, Next, Renewed PROVE Fenced
    OBVIOUS
  <2>0. row.attempt \in Nat /\ row'.attempt = row.attempt /\ row' # row
    BY DEF TypeOK, Rows, Renewed
  <2>1. ASSUME NEW w \in Workers, Renew(w) PROVE Fenced
    <3>1. handler[w].attempt = row.attempt
      BY <2>1 DEF Renew, Owned
    <3>2. beat'[w].start = now /\ now # beat[w].start
      BY <2>1 DEF Renew, TypeOK, Rows, Beats
    <3>3. QED
      BY <3>1, <3>2
  <2>2. ASSUME NEW w \in Workers, Wake(w) PROVE Fenced
    <3>1. handler[w].attempt = row.attempt
      BY <2>2 DEF Wake, Requalified, Owned, LockInv
    <3>2. beat'[w].phase = "asleep" /\ beat[w].phase = "waiting"
      BY <2>2 DEF Wake, TypeOK, Rows, Beats
    <3>3. QED
      BY <3>1, <3>2
  <2>3. ASSUME NEW w \in Workers, Claim(w) PROVE FALSE
    BY <2>0, <2>3 DEF Claim
  <2>4. QED
    BY <2>0, <2>1, <2>2, <2>3
    DEF Next, Tick, BeginWrite, CommitWrite, GiveUp, Wait, EndBeat
<1>2. QED
  BY <1>1, Typed, Locked, PTL DEF Spec, RenewalFenced

\* A renewal adds less than one lease to the lease it finds.
THEOREM RenewalsAreBounded == Spec => RenewalBounded
<1> DEFINE Bounded == Renewed => row'.expires < row.expires + LeaseTicks
<1>1. TypeOK /\ [Next]_vars => [Bounded]_vars
  <2> USE LeaseAssumption
  <2> SUFFICES ASSUME TypeOK, Next, Renewed PROVE row'.expires < row.expires + LeaseTicks
    OBVIOUS
  <2>0. /\ row.attempt \in Nat /\ row.expires \in Nat /\ now \in Nat
        /\ row'.attempt = row.attempt /\ row' # row
    BY DEF TypeOK, Rows, Renewed
  <2>1. ASSUME NEW w \in Workers, Renew(w) PROVE row'.expires < row.expires + LeaseTicks
    <3>1. row'.expires = now + LeaseTicks /\ now < row.expires
      BY <2>0, <2>1, RenewalType DEF Renew, Owned
    <3>2. QED
      BY <2>0, <3>1
  <2>2. ASSUME NEW w \in Workers, Wake(w) PROVE row'.expires < row.expires + LeaseTicks
    <3>1. beat[w].start \in Nat
      BY DEF TypeOK, Rows, Beats
    <3>2. row'.expires = beat[w].start + LeaseTicks /\ beat[w].start < row.expires
      BY <2>0, <2>2, <3>1, RenewalType DEF Wake
    <3>3. QED
      BY <2>0, <3>1, <3>2
  <2>3. ASSUME NEW w \in Workers, Claim(w) PROVE FALSE
    BY <2>0, <2>3 DEF Claim
  <2>4. QED
    BY <2>0, <2>1, <2>2, <2>3
    DEF Next, Tick, BeginWrite, CommitWrite, GiveUp, Wait, EndBeat
<1>2. QED
  BY <1>1, Typed, PTL DEF Spec, RenewalBounded

-----------------------------------------------------------------------------
(* The attempts, and how far a lease reaches.                              *)

\* Claims still believed in are of different attempts the row has granted, and
\* one that has yet to write is of an attempt nothing is written for.
AttemptInv ==
  /\ \A w \in Workers : handler[w].phase # "none" => handler[w].attempt \in 1..row.attempt
  /\ \A v, w \in Workers : v # w /\ handler[v].phase # "none" /\ handler[w].phase # "none" =>
       handler[v].attempt # handler[w].attempt
  /\ written \subseteq 1..row.attempt
  /\ \A w \in Workers : handler[w].phase \in {"working", "writing"} => handler[w].attempt \notin written

\* No lease reaches further than its length from now, and no heartbeat's
\* transaction started later than now.
ReachInv ==
  /\ row.expires <= now + LeaseTicks
  /\ \A w \in Workers : beat[w].start <= now

LEMMA Attempted == Spec => []AttemptInv
<1>1. Init => AttemptInv
  BY DEF Init, AttemptInv, Resting
<1>2. TypeOK /\ AttemptInv /\ [Next]_vars => AttemptInv'
  <2> SUFFICES ASSUME TypeOK, AttemptInv, [Next]_vars PROVE AttemptInv'
    OBVIOUS
  <2>a. row.attempt \in Nat /\ \A v \in Workers : handler[v].attempt \in Nat
    BY DEF TypeOK, Rows, Handlers
  <2> USE DEF AttemptInv
  <2>1. ASSUME NEW w \in Workers, Claim(w) PROVE AttemptInv'
    <3>1. /\ row'.attempt = row.attempt + 1 /\ written' = written
          /\ handler'[w].phase = "working" /\ handler'[w].attempt = row.attempt + 1
          /\ \A v \in Workers \ {w} : handler'[v] = handler[v]
      BY <2>1 DEF Claim, TypeOK, Rows
    <3>2. row.attempt + 1 \notin written /\ written \subseteq 1..(row.attempt + 1)
      BY <2>a
    <3>3. \A v \in Workers \ {w} : handler[v].phase # "none" =>
            handler[v].attempt # row.attempt + 1 /\ handler[v].attempt \in 1..(row.attempt + 1)
      BY <2>a
    <3>4. QED
      BY <2>a, <3>1, <3>2, <3>3
  <2>2. ASSUME NEW w \in Workers, CommitWrite(w) PROVE AttemptInv'
    <3>1. /\ UNCHANGED row /\ written' = written \cup {handler[w].attempt}
          /\ handler[w].phase = "writing" /\ handler'[w].phase = "wrote"
          /\ \A v \in Workers : handler'[v].attempt = handler[v].attempt
          /\ \A v \in Workers \ {w} : handler'[v] = handler[v]
      BY <2>2 DEF CommitWrite, TypeOK, Handlers
    <3>2. handler[w].attempt \in 1..row.attempt
          /\ \A v \in Workers \ {w} : handler[v].phase # "none" => handler[v].attempt # handler[w].attempt
      BY <3>1
    <3>3. \A v \in Workers : handler'[v].phase \in {"working", "writing"} => handler[v].attempt \notin written'
      BY <3>1, <3>2
    <3>4. \A v \in Workers : handler'[v].phase # "none" =>
            handler[v].phase # "none" /\ handler'[v].attempt = handler[v].attempt
      BY <3>1
    <3>5. written' \subseteq 1..row'.attempt
      BY <3>1, <3>2
    <3>6. \A v \in Workers : handler'[v].phase # "none" => handler'[v].attempt \in 1..row'.attempt
      BY <3>1, <3>4
    <3>7. \A u, v \in Workers : u # v /\ handler'[u].phase # "none" /\ handler'[v].phase # "none" =>
            handler'[u].attempt # handler'[v].attempt
      BY <3>4
    <3>8. QED
      BY <3>1, <3>3, <3>5, <3>6, <3>7
  <2>3. ASSUME NEW w \in Workers, BeginWrite(w) \/ GiveUp(w) PROVE AttemptInv'
    <3>1. /\ UNCHANGED <<row, written>>
          /\ \/ handler[w].phase = "working" /\ handler'[w].phase = "writing"
             \/ handler'[w].phase = "none"
          /\ \A v \in Workers : handler'[v].attempt = handler[v].attempt
          /\ \A v \in Workers \ {w} : handler'[v] = handler[v]
      BY <2>3 DEF BeginWrite, GiveUp, TypeOK, Handlers
    <3>2. QED
      BY <3>1
  <2>4. ASSUME row'.attempt = row.attempt, UNCHANGED <<handler, written>> PROVE AttemptInv'
    BY <2>4
  <2>5. ASSUME NEW w \in Workers, Renew(w) \/ Wait(w) \/ Wake(w) \/ EndBeat(w)
        PROVE  row'.attempt = row.attempt /\ UNCHANGED <<handler, written>>
    <3>1. now \in Nat /\ beat[w].start \in Nat
      BY DEF TypeOK, Rows, Beats
    <3>2. QED
      BY <2>5, <3>1, RenewalType DEF Renew, Wait, Wake, EndBeat
  <2>6. QED
    BY <2>1, <2>2, <2>3, <2>4, <2>5 DEF Next, Tick, vars
<1>3. QED
  BY <1>1, <1>2, Typed, PTL DEF Spec

\* A write is committed for an attempt later than every one it was committed for.
WrittenInTurn == [][\A w \in Workers : handler[w].phase = "writing" /\ handler'[w].phase = "wrote" =>
  \A m \in written : m < handler[w].attempt]_vars

\* The job's write is committed at most once per attempt and in the order of the
\* attempts, however the lease, the lock and the heartbeats are timed.
THEOREM WritesAreInTurn == Spec => WrittenInTurn
<1> DEFINE InTurn == \A w \in Workers : handler[w].phase = "writing" /\ handler'[w].phase = "wrote" =>
                       \A m \in written : m < handler[w].attempt
<1>1. TypeOK /\ LockInv /\ AttemptInv => InTurn
  <2> SUFFICES ASSUME TypeOK, LockInv, AttemptInv, NEW w \in Workers, handler[w].phase = "writing",
                      NEW m \in written
               PROVE  m < handler[w].attempt
    OBVIOUS
  <2>1. handler[w].attempt = row.attempt /\ handler[w].attempt \notin written
    BY DEF LockInv, AttemptInv
  <2>2. m \in 1..row.attempt /\ row.attempt \in Nat
    BY DEF AttemptInv, TypeOK, Rows
  <2>3. QED
    BY <2>1, <2>2
<1>2. TypeOK /\ LockInv /\ AttemptInv /\ [Next]_vars => [InTurn]_vars
  BY <1>1
<1>3. QED
  BY <1>2, Typed, Locked, Attempted, PTL DEF Spec, WrittenInTurn

\* A lease never reaches further than job_lease_seconds from now, whatever its
\* heartbeat waited for: a process that stops renewing has lost the job after
\* that time, and any idle process may claim it.
LeaseInReach == row.expires <= now + LeaseTicks

THEOREM LeasesAreInReach == Spec => []LeaseInReach
<1> USE LeaseAssumption
<1>1. Init => ReachInv
  BY DEF Init, ReachInv, Off
<1>2. TypeOK /\ ReachInv /\ [Next]_vars => ReachInv'
  <2> SUFFICES ASSUME TypeOK, ReachInv, [Next]_vars PROVE ReachInv'
    OBVIOUS
  <2>a. /\ row.expires \in Nat /\ now \in Nat /\ LeaseTicks \in Nat
        /\ \A v \in Workers : beat[v].start \in Nat
    BY DEF TypeOK, Rows, Beats
  <2> USE DEF ReachInv
  <2>1. CASE Tick
    BY <2>a, <2>1 DEF Tick
  <2>2. ASSUME NEW w \in Workers, Claim(w) PROVE ReachInv'
    <3>1. /\ row'.expires = now + LeaseTicks /\ now' = now
          /\ beat'[w].start = now /\ \A v \in Workers \ {w} : beat'[v] = beat[v]
      BY <2>2 DEF Claim, TypeOK, Rows
    <3>2. QED
      BY <2>a, <3>1
  <2>3. ASSUME NEW w \in Workers, Renew(w) \/ Wake(w) PROVE ReachInv'
    <3>1. PICK start \in Nat : start <= now /\ row' = Renewal(start)
      BY <2>3, <2>a DEF Renew, Wake
    <3>2. row'.expires = start + LeaseTicks
      BY <3>1, RenewalType
    <3>3. now' = now /\ \A v \in Workers : beat'[v].start = now \/ beat'[v].start = beat[v].start
      BY <2>3 DEF Renew, Wake, TypeOK, Beats
    <3>4. QED
      BY <2>a, <3>1, <3>2, <3>3
  <2>4. ASSUME NEW w \in Workers, Wait(w) \/ EndBeat(w) PROVE ReachInv'
    <3>1. /\ now' = now /\ row' = row
          /\ \A v \in Workers : beat'[v].start \in {now, 0, beat[v].start}
      BY <2>4 DEF Wait, EndBeat, Off, TypeOK, Beats
    <3>2. QED
      BY <2>a, <3>1
  <2>5. CASE UNCHANGED <<now, row, beat>>
    BY <2>5
  <2>6. QED
    BY <2>1, <2>2, <2>3, <2>4, <2>5 DEF Next, BeginWrite, CommitWrite, GiveUp, vars
<1>3. ReachInv => LeaseInReach
  BY DEF ReachInv, LeaseInReach
<1>4. QED
  BY <1>1, <1>2, <1>3, Typed, PTL DEF Spec
=============================================================================
