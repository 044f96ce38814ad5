-------------------------- MODULE SourceRegistryProofs --------------------------
(***************************************************************************)
(* What holds of source registration for any number of requests, versions  *)
(* and selected conversations.  The invariant says which rows of its       *)
(* versions a request has placed, in its own transaction or before it, at  *)
(* each statement; that no row is in two places; and that the file of an   *)
(* artifact is older than every row that names it.                         *)
(***************************************************************************)
EXTENDS SourceRegistry, SequenceTheorems, TLAPS

\* What r would find: committed rows and its own.
Placed(r) == table \cup mine[r]

Whole(v) ==
  {ArtifactRow(v), SourceRow(v), VersionRow(v), RunRow(v), JobRow(v)}

\* No row is in two open transactions, nor in one and committed.
Exclusive ==
  /\ \A r, q \in Requests : r # q => mine[r] \cap mine[q] = {}
  /\ \A r \in Requests : mine[r] \cap table = {}

\* A new version and its audit event are in one transaction, that of the event.
AuditsTogether ==
  \A r \in Requests : \A v \in Version :
    /\ VersionRow(v) \in mine[r] <=> EventRow(v, r) \in mine[r]
    /\ \A q \in Requests : EventRow(v, q) \in mine[r] => q = r

\* The file of an artifact comes before any of its rows.
FilesFirst ==
  \A r \in Requests :
    /\ \A v \in Version : ArtifactRow(v) \in Placed(r) => v.artifact \in published
    /\ at[r] \in Inserting \cup {"check"} => Item(r).artifact \in published

\* The rows of the current version that are placed at each statement.
Reached(r) ==
  /\ at[r] \in {"source", "version", "run", "job"} => ArtifactRow(Item(r)) \in Placed(r)
  /\ at[r] \in {"version", "run", "job"} => SourceRow(Item(r)) \in Placed(r)
  /\ at[r] \in {"run", "job"} => VersionRow(Item(r)) \in Placed(r)
  /\ at[r] = "job" => RunRow(Item(r)) \in Placed(r)

\* The versions before the current one are complete, and before the commit all.
Done(r) ==
  /\ at[r] \in {"new", "receiving"} => turn[r] = 1
  /\ at[r] = "commit" => turn[r] = Len(asked[r].items)
  /\ at[r] # "over" => \A i \in 1 .. Len(asked[r].items) :
       i < turn[r] \/ at[r] = "commit" => Whole(asked[r].items[i]) \subseteq Placed(r)

\* A transaction only inserts versions it was asked for, and has come to.
Own(r) ==
  \A v \in Version : VersionRow(v) \in mine[r] =>
    \E i \in 1 .. turn[r] : v = asked[r].items[i]

\* Who is not in a transaction has no rows.
Idle(r) == at[r] \notin InTransaction => mine[r] = {}

Progress == \A r \in Requests : Reached(r) /\ Done(r) /\ Own(r) /\ Idle(r)

RegistryInv ==
  /\ TypeOK /\ Exclusive /\ AuditsTogether /\ FilesFirst /\ Progress
  /\ RowsHaveFiles /\ VersionsAreWhole /\ AuditedOnce /\ AcceptedIsRegistered

-----------------------------------------------------------------------------
(* Rows.                                                                   *)

\* Rows of different tables differ, and a row tells its key.
LEMMA RowsDiffer ==
  ASSUME NEW v, NEW w, NEW r, NEW q
  PROVE  /\ ArtifactRow(v) \notin {SourceRow(w), VersionRow(w), EventRow(w, q), RunRow(w), JobRow(w)}
         /\ SourceRow(v) \notin {VersionRow(w), EventRow(w, q), RunRow(w), JobRow(w)}
         /\ VersionRow(v) \notin {EventRow(w, q), RunRow(w), JobRow(w)}
         /\ EventRow(v, r) \notin {RunRow(w), JobRow(w)}
         /\ RunRow(v) # JobRow(w)
         /\ ArtifactRow(v) = ArtifactRow(w) => v.artifact = w.artifact
         /\ VersionRow(v) = VersionRow(w) => v = w
         /\ EventRow(v, r) = EventRow(w, q) => v = w /\ r = q
  BY DEF ArtifactRow, SourceRow, VersionRow, EventRow, RunRow, JobRow

\* A command names at least one version, and the handler is at one of them.
LEMMA ItemTyped ==
  ASSUME TypeOK, NEW r \in Requests
  PROVE  /\ asked[r].items \in Seq(Version)
         /\ Len(asked[r].items) \in Nat /\ turn[r] \in 1 .. Len(asked[r].items)
         /\ \A i \in 1 .. Len(asked[r].items) : asked[r].items[i] \in Version
         /\ Item(r) \in Version
  <1>1. asked[r].items \in Seq(Version)
    BY RegistryAssumption DEF TypeOK
  <1>2. Len(asked[r].items) \in Nat /\ turn[r] \in 1 .. Len(asked[r].items)
    BY <1>1 DEF TypeOK
  <1>3. \A i \in 1 .. Len(asked[r].items) : asked[r].items[i] \in Version
    BY <1>1
  <1> QED BY <1>1, <1>2, <1>3 DEF Item

\* The row a statement is about, by its place in the handler.
LEMMA WantedIs ==
  ASSUME NEW r
  PROVE  /\ at[r] \in {"look", "insert"} => Wanted(r) = ArtifactRow(Item(r))
         /\ at[r] = "source" => Wanted(r) = SourceRow(Item(r))
         /\ at[r] = "version" => Wanted(r) = VersionRow(Item(r))
         /\ at[r] = "run" => Wanted(r) = RunRow(Item(r))
         /\ at[r] = "job" => Wanted(r) = JobRow(Item(r))
  BY DEF Wanted

LEMMA InsertedTyped ==
  ASSUME TypeOK, NEW r \in Requests, at[r] \in Inserting
  PROVE  Inserted(r) \subseteq Rows
  <1>1. Item(r) \in Version BY ItemTyped
  <1>2. EventRow(Item(r), r) \in Rows BY <1>1 DEF Rows
  <1>3. Wanted(r) \in Rows BY <1>1, WantedIs DEF Rows, Inserting
  <1> QED BY <1>2, <1>3 DEF Inserted

-----------------------------------------------------------------------------
(* What a step does to the rows.                                           *)

Keeps ==
  /\ table' = table
  /\ \A q \in Requests :
       mine'[q] = mine[q] \/ (mine'[q] = {} /\ (at'[q] = "over" \/ at[q] = "new"))

Adds(r) ==
  /\ at[r] \in Inserting \ {"look"} /\ ~Waits(r)
  /\ ~(at[r] = "insert" /\ Wanted(r) \in table)
  /\ table' = table
  /\ mine' = [mine EXCEPT ![r] = @ \cup Inserted(r)]

Commits(r) ==
  /\ at[r] = "commit" /\ at'[r] = "over"
  /\ table' = table \cup mine[r]
  /\ mine' = [mine EXCEPT ![r] = {}]

\* Every step keeps the rows but for transactions it ends, or adds rows to one
\* transaction, or commits one.
LEMMA Footprint ==
  ASSUME TypeOK, [Next]_vars
  PROVE  Keeps \/ (\E r \in Requests : Adds(r)) \/ (\E r \in Requests : Commits(r))
  <1> USE DEF TypeOK
  <1>1. ASSUME NEW r \in Requests, Receive(r) PROVE Keeps
    BY <1>1 DEF Receive, rows, Keeps
  <1>2. ASSUME NEW r \in Requests, RefuseUpload(r) PROVE Keeps
    BY <1>2 DEF RefuseUpload, rows, Keeps
  <1>3. ASSUME NEW r \in Requests, PublishUpload(r) \/ Put(r) \/ Check(r) \/ Look(r) PROVE Keeps
    BY <1>3 DEF PublishUpload, Put, Check, Look, rows, Keeps
  <1>4. ASSUME NEW r \in Requests, RefuseWrite(r) \/ Duplicate(r) \/ Abort(r) PROVE Keeps
    BY <1>4 DEF RefuseWrite, Duplicate, Abort, Tells, Goes, rows, Keeps
  <1>5. ASSUME NEW r \in Requests, Insert(r) \/ InsertJob(r) PROVE Adds(r)
    BY <1>5 DEF Insert, InsertJob, Adds, Inserting
  <1>6. ASSUME NEW r \in Requests, Commit(r) \/ CommitUnheard(r) PROVE Commits(r)
    BY <1>6 DEF Commit, CommitUnheard, Tells, Goes, Commits
  <1>7. CASE Crash
    BY <1>7 DEF Crash, Keeps
  <1>8. CASE Revoke \/ UNCHANGED vars
    BY <1>8 DEF Revoke, vars, rows, Keeps
  <1> QED BY <1>1, <1>2, <1>3, <1>4, <1>5, <1>6, <1>7, <1>8 DEF Next, Statement

\* The loop over the versions stays inside the command.
LEMMA TurnStep ==
  ASSUME TypeOK, NEW r \in Requests, InsertJob(r)
  PROVE  /\ turn' \in [Requests -> Nat]
         /\ \A q \in Requests : turn'[q] \in 1 .. Len(asked'[q].items)
  <1>1. Len(asked[r].items) \in Nat /\ turn[r] \in 1 .. Len(asked[r].items)
    BY ItemTyped
  <1>2. turn \in [Requests -> Nat] /\ \A q \in Requests : turn[q] \in 1 .. Len(asked[q].items)
    BY DEF TypeOK
  <1>3. asked' = asked
    BY DEF InsertJob
  <1>4. CASE turn' = turn
    BY <1>2, <1>3, <1>4
  <1>5. CASE turn[r] < Len(asked[r].items) /\ turn' = [turn EXCEPT ![r] = @ + 1]
    <2>1. turn[r] + 1 \in Nat /\ turn[r] + 1 \in 1 .. Len(asked[r].items)
      BY <1>1, <1>5
    <2> QED BY <1>2, <1>3, <1>5, <2>1
  <1> QED BY <1>4, <1>5 DEF InsertJob

LEMMA TypeStep ==
  ASSUME TypeOK, [Next]_vars
  PROVE  TypeOK'
  <1>1. ASSUME NEW r \in Requests
        PROVE  Item(r).artifact \in Artifacts
    BY ItemTyped DEF Version
  <1> USE DEF TypeOK, Phases, InTransaction, Inserting, Goes, Tells, rows, files, rights
  <1>2. ASSUME NEW r \in Requests, Receive(r) PROVE TypeOK'
    BY <1>2 DEF Receive
  <1>3. ASSUME NEW r \in Requests, RefuseUpload(r) PROVE TypeOK'
    BY <1>3 DEF RefuseUpload
  <1>4. ASSUME NEW r \in Requests, PublishUpload(r) PROVE TypeOK'
    BY <1>1, <1>4 DEF PublishUpload
  <1>5. ASSUME NEW r \in Requests, Put(r) PROVE TypeOK'
    BY <1>1, <1>5 DEF Put
  <1>6. ASSUME NEW r \in Requests, Check(r) \/ Look(r) PROVE TypeOK'
    BY <1>6 DEF Check, Look
  <1>7. ASSUME NEW r \in Requests, RefuseWrite(r) \/ Duplicate(r) \/ Abort(r) PROVE TypeOK'
    BY <1>7 DEF RefuseWrite, Duplicate, Abort
  <1>8. ASSUME NEW r \in Requests, Insert(r) PROVE TypeOK'
    <2>1. Inserted(r) \subseteq Rows BY <1>8, InsertedTyped DEF Insert
    <2>2. After[at[r]] \in Phases BY <1>8 DEF Insert, After
    <2> QED BY <1>8, <2>1, <2>2 DEF Insert
  <1>9. ASSUME NEW r \in Requests, InsertJob(r) PROVE TypeOK'
    <2>1. Inserted(r) \subseteq Rows BY <1>9, InsertedTyped DEF InsertJob
    <2>2. Len(asked[r].items) \in Nat /\ turn[r] \in 1 .. Len(asked[r].items)
      BY ItemTyped
    <2>3. turn' \in [Requests -> Nat] /\ \A q \in Requests : turn'[q] \in 1 .. Len(asked'[q].items)
      BY <1>9, TurnStep
    <2>5. at' \in [Requests -> Phases] /\ mine' \in [Requests -> SUBSET Rows]
      BY <1>9, <2>1 DEF InsertJob
    <2> QED BY <1>9, <2>3, <2>5 DEF InsertJob
  <1>10. ASSUME NEW r \in Requests, Commit(r) \/ CommitUnheard(r) PROVE TypeOK'
    BY <1>10 DEF Commit, CommitUnheard
  <1>11. CASE Crash
    BY <1>11 DEF Crash
  <1>12. CASE Revoke \/ UNCHANGED vars
    BY <1>12 DEF Revoke, vars
  <1> QED
    BY <1>2, <1>3, <1>4, <1>5, <1>6, <1>7, <1>8, <1>9, <1>10, <1>11, <1>12
       DEF Next, Statement

-----------------------------------------------------------------------------
(* The rows a statement inserts.                                           *)

LEMMA InsertedIs ==
  ASSUME TypeOK, NEW r \in Requests, at[r] \in Inserting
  PROVE  /\ Wanted(r) \in Placed(r) \cup Inserted(r)
         /\ \A v \in Version :
              /\ VersionRow(v) \in Inserted(r) <=>
                   at[r] = "version" /\ v = Item(r) /\ VersionRow(v) \notin Placed(r)
              /\ ArtifactRow(v) \in Inserted(r) =>
                   at[r] \in {"look", "insert"} /\ v.artifact = Item(r).artifact
         /\ \A v \in Version, q \in Requests :
              EventRow(v, q) \in Inserted(r) <=>
                at[r] = "version" /\ v = Item(r) /\ q = r /\ VersionRow(v) \notin Placed(r)
  <1>1. Wanted(r) \in Placed(r) \cup Inserted(r)
    BY DEF Inserted, Placed
  <1>2. ASSUME NEW v \in Version, at[r] # "version"
        PROVE  VersionRow(v) \notin Inserted(r) /\ \A q \in Requests : EventRow(v, q) \notin Inserted(r)
    BY <1>2, WantedIs, RowsDiffer DEF Inserted, Inserting
  <1>3. ASSUME NEW v \in Version, at[r] = "version"
        PROVE  /\ VersionRow(v) \in Inserted(r) <=> v = Item(r) /\ VersionRow(v) \notin Placed(r)
               /\ \A q \in Requests : EventRow(v, q) \in Inserted(r) <=>
                    v = Item(r) /\ q = r /\ VersionRow(v) \notin Placed(r)
    BY <1>3, WantedIs, RowsDiffer DEF Inserted, Placed
  <1>4. ASSUME NEW v \in Version, ArtifactRow(v) \in Inserted(r)
        PROVE  at[r] \in {"look", "insert"} /\ v.artifact = Item(r).artifact
    BY <1>4, WantedIs, RowsDiffer DEF Inserted, Inserting
  <1> QED BY <1>1, <1>2, <1>3, <1>4

\* An inserted row was in no transaction and not committed.
LEMMA InsertedFresh ==
  ASSUME TypeOK, Exclusive, AuditsTogether, AuditedOnce,
         NEW r \in Requests, Adds(r), NEW row \in Inserted(r)
  PROVE  row \notin Placed(r) /\ \A q \in Requests : q # r => row \notin mine[q]
  <1>1. Item(r) \in Version BY ItemTyped
  <1>2. row = Wanted(r) \/ (at[r] = "version" /\ row = EventRow(Item(r), r))
    BY DEF Inserted
  <1>3. Wanted(r) \notin Placed(r) BY DEF Inserted, Placed
  <1>4. CASE row = Wanted(r)
    BY <1>3, <1>4 DEF Adds, Waits, WaitsFor
  <1>5. CASE at[r] = "version" /\ row = EventRow(Item(r), r)
    <2>1. VersionRow(Item(r)) \notin Placed(r) BY <1>3, <1>5, WantedIs
    <2>2. row \notin table BY <1>1, <1>5, <2>1 DEF AuditedOnce, Placed
    <2>3. row \notin mine[r] BY <1>1, <1>5, <2>1 DEF AuditsTogether, Placed
    <2>4. ASSUME NEW q \in Requests, q # r PROVE row \notin mine[q]
      BY <1>1, <1>5, <2>4 DEF AuditsTogether
    <2> QED BY <2>2, <2>3, <2>4 DEF Placed
  <1> QED BY <1>2, <1>4, <1>5

LEMMA ExclusiveStep ==
  ASSUME TypeOK, Exclusive, AuditsTogether, AuditedOnce, [Next]_vars
  PROVE  Exclusive'
  <1>1. CASE Keeps
    BY <1>1 DEF Exclusive, Keeps
  <1>2. ASSUME NEW r \in Requests, Adds(r) PROVE Exclusive'
    <2>1. \A row \in Inserted(r) : row \notin table /\ row \notin mine[r]
      BY <1>2, InsertedFresh DEF Placed
    <2>2. \A row \in Inserted(r) : \A q \in Requests : q # r => row \notin mine[q]
      BY <1>2, InsertedFresh
    <2>3. table' = table /\ mine'[r] = mine[r] \cup Inserted(r)
      BY <1>2 DEF Adds, TypeOK
    <2>4. \A q \in Requests : q # r => mine'[q] = mine[q]
      BY <1>2 DEF Adds, TypeOK
    <2> QED BY <2>1, <2>2, <2>3, <2>4 DEF Exclusive
  <1>3. ASSUME NEW r \in Requests, Commits(r) PROVE Exclusive'
    BY <1>3 DEF Exclusive, Commits, TypeOK
  <1> QED BY <1>1, <1>2, <1>3, Footprint

LEMMA AuditsTogetherStep ==
  ASSUME TypeOK, Exclusive, AuditsTogether, [Next]_vars
  PROVE  AuditsTogether'
  <1>1. CASE Keeps
    BY <1>1 DEF AuditsTogether, Keeps
  <1>2. ASSUME NEW r \in Requests, Adds(r) PROVE AuditsTogether'
    <2>1. mine'[r] = mine[r] \cup Inserted(r) /\ at[r] \in Inserting
      BY <1>2 DEF Adds, TypeOK
    <2>2. \A q \in Requests : q # r => mine'[q] = mine[q]
      BY <1>2 DEF Adds, TypeOK
    <2>3. \A v \in Version :
            /\ VersionRow(v) \in mine'[r] <=> EventRow(v, r) \in mine'[r]
            /\ \A q \in Requests : EventRow(v, q) \in mine'[r] => q = r
      BY <2>1, InsertedIs DEF AuditsTogether
    <2> QED BY <2>2, <2>3 DEF AuditsTogether
  <1>3. ASSUME NEW r \in Requests, Commits(r) PROVE AuditsTogether'
    BY <1>3 DEF AuditsTogether, Commits, TypeOK
  <1> QED BY <1>1, <1>2, <1>3, Footprint

LEMMA AuditedOnceStep ==
  ASSUME TypeOK, Exclusive, AuditsTogether, AuditedOnce, [Next]_vars
  PROVE  AuditedOnce'
  <1>1. CASE table' = table
    BY <1>1 DEF AuditedOnce
  <1>2. ASSUME NEW r \in Requests, Commits(r) PROVE AuditedOnce'
    <2>1. table' = table \cup mine[r] /\ mine[r] \cap table = {}
      BY <1>2 DEF Commits, Exclusive
    <2>2. ASSUME NEW v \in Version, VersionRow(v) \in mine[r]
          PROVE  /\ EventRow(v, r) \in table'
                 /\ \A q \in Requests : EventRow(v, q) \in table' => q = r
      BY <2>1, <2>2 DEF AuditsTogether, AuditedOnce
    <2>3. ASSUME NEW v \in Version, VersionRow(v) \notin mine[r]
          PROVE  \A q \in Requests : EventRow(v, q) \notin mine[r]
      BY <2>3 DEF AuditsTogether
    <2> QED BY <2>1, <2>2, <2>3 DEF AuditedOnce
  <1> QED BY <1>1, <1>2, Footprint DEF Keeps, Adds

-----------------------------------------------------------------------------
(* Files.                                                                  *)

LEMMA FilesStay ==
  ASSUME [Next]_vars
  PROVE  published \subseteq published' /\ asked' = asked
  BY DEF Next, Statement, vars, rows, files, rights, Receive, RefuseUpload, PublishUpload,
         Put, Check, RefuseWrite, Look, Duplicate, Insert, InsertJob, Commit, CommitUnheard,
         Abort, Crash, Revoke

\* A handler that has come to its check has published the file.
LEMMA FileOfItem ==
  ASSUME TypeOK, FilesFirst, [Next]_vars, NEW q \in Requests,
         at'[q] \in Inserting \cup {"check"}
  PROVE  Item(q)'.artifact \in published'
  <1>1. published \subseteq published' /\ asked' = asked BY FilesStay
  <1>2. ASSUME turn'[q] = turn[q], at[q] \in Inserting \cup {"check"}
        PROVE  Item(q)'.artifact \in published'
    BY <1>1, <1>2 DEF FilesFirst, Item
  <1> USE DEF TypeOK, Goes, Tells, Inserting
  <1>3. ASSUME NEW r \in Requests, Receive(r) PROVE Item(q)'.artifact \in published'
    BY <1>2, <1>3 DEF Receive
  <1>4. ASSUME NEW r \in Requests, PublishUpload(r) \/ Put(r)
        PROVE  Item(q)'.artifact \in published'
    <2>1. CASE q = r BY <1>4, <2>1 DEF PublishUpload, Put, Item
    <2>2. CASE q # r BY <1>2, <1>4, <2>2 DEF PublishUpload, Put
    <2> QED BY <2>1, <2>2
  <1>5. ASSUME NEW r \in Requests, Check(r) \/ Look(r)
        PROVE  Item(q)'.artifact \in published'
    BY <1>2, <1>5 DEF Check, Look
  <1>6. ASSUME NEW r \in Requests, RefuseUpload(r) \/ RefuseWrite(r) \/ Duplicate(r) \/ Abort(r)
        PROVE  Item(q)'.artifact \in published'
    BY <1>2, <1>6 DEF RefuseUpload, RefuseWrite, Duplicate, Abort
  <1>7. ASSUME NEW r \in Requests, Insert(r) PROVE Item(q)'.artifact \in published'
    BY <1>2, <1>7 DEF Insert
  <1>8. ASSUME NEW r \in Requests, InsertJob(r) PROVE Item(q)'.artifact \in published'
    BY <1>2, <1>8 DEF InsertJob
  <1>9. ASSUME NEW r \in Requests, Commit(r) \/ CommitUnheard(r)
        PROVE  Item(q)'.artifact \in published'
    BY <1>2, <1>9 DEF Commit, CommitUnheard
  <1>10. CASE Crash BY <1>10 DEF Crash
  <1>11. CASE Revoke \/ UNCHANGED vars BY <1>2, <1>11 DEF Revoke, vars
  <1> QED BY <1>3, <1>4, <1>5, <1>6, <1>7, <1>8, <1>9, <1>10, <1>11 DEF Next, Statement

LEMMA FilesFirstStep ==
  ASSUME TypeOK, FilesFirst, [Next]_vars
  PROVE  FilesFirst'
  <1>1. published \subseteq published' BY FilesStay
  <1> DEFINE Filed(row) == \A v \in Version : row = ArtifactRow(v) => v.artifact \in published
  <1>2. \A r \in Requests : \A row \in Placed(r) : Filed(row)
    BY DEF FilesFirst
  <1>3. ASSUME NEW r \in Requests, NEW row \in Placed(r)', NEW q \in Requests,
               row \in Placed(r) \cup Placed(q) \/ (Adds(q) /\ row \in Inserted(q))
        PROVE  Filed(row)
    <2>1. CASE row \in Placed(r) \cup Placed(q) BY <1>2, <2>1
    <2>2. CASE Adds(q) /\ row \in Inserted(q)
      BY <2>2, InsertedIs DEF FilesFirst, Adds, Inserting
    <2> QED BY <1>3, <2>1, <2>2
  <1>4. ASSUME NEW r \in Requests, NEW row \in Placed(r)'
        PROVE  \E q \in Requests : row \in Placed(r) \cup Placed(q) \/ (Adds(q) /\ row \in Inserted(q))
    <2>1. CASE Keeps BY <1>4, <2>1 DEF Keeps, Placed
    <2>2. ASSUME NEW q \in Requests, Adds(q)
          PROVE  row \in Placed(r) \cup Inserted(q)
      BY <1>4, <2>2 DEF Adds, Placed, TypeOK
    <2>3. ASSUME NEW q \in Requests, Commits(q)
          PROVE  row \in Placed(r) \cup Placed(q)
      BY <1>4, <2>3 DEF Commits, Placed, TypeOK
    <2> QED BY <2>1, <2>2, <2>3, Footprint
  <1>5. \A r \in Requests : \A row \in Placed(r)' : Filed(row)
    BY <1>3, <1>4
  <1>6. \A r \in Requests : \A v \in Version :
          ArtifactRow(v) \in Placed(r)' => v.artifact \in published'
    BY <1>1, <1>5
  <1> QED BY <1>6, FileOfItem DEF FilesFirst

-----------------------------------------------------------------------------
(* Progress.                                                               *)

\* How a step moves one request on.
Moves(q) ==
  \/ at'[q] \in {at[q], "over"} /\ turn'[q] = turn[q]
  \/ at[q] = "new" /\ at'[q] \in {"receiving", "put"} /\ turn'[q] = turn[q]
  \/ at[q] \in {"receiving", "put"} /\ at'[q] = "check" /\ turn'[q] = turn[q]
  \/ at[q] = "check" /\ at'[q] = "look" /\ turn'[q] = turn[q]
  \/ Look(q) \/ Insert(q) \/ InsertJob(q)

LEMMA EveryMove ==
  ASSUME TypeOK, [Next]_vars, NEW q \in Requests
  PROVE  Moves(q)
  <1> USE DEF TypeOK, Goes, Tells, Moves
  <1>1. ASSUME NEW r \in Requests, Receive(r) PROVE Moves(q)
    BY <1>1 DEF Receive
  <1>2. ASSUME NEW r \in Requests, PublishUpload(r) \/ Put(r) \/ Check(r) PROVE Moves(q)
    BY <1>2 DEF PublishUpload, Put, Check
  <1>3. ASSUME NEW r \in Requests, RefuseUpload(r) \/ RefuseWrite(r) \/ Duplicate(r) \/ Abort(r)
        PROVE  Moves(q)
    BY <1>3 DEF RefuseUpload, RefuseWrite, Duplicate, Abort
  <1>4. ASSUME NEW r \in Requests, Commit(r) \/ CommitUnheard(r) PROVE Moves(q)
    BY <1>4 DEF Commit, CommitUnheard
  <1>5. ASSUME NEW r \in Requests, Look(r) \/ Insert(r) \/ InsertJob(r) PROVE Moves(q)
    <2>1. CASE r = q BY <1>5, <2>1
    <2>2. CASE r # q
      <3>1. CASE Look(r) \/ Insert(r) BY <2>2, <3>1 DEF Look, Insert
      <3>2. CASE InsertJob(r) BY <2>2, <3>2 DEF InsertJob
      <3> QED BY <1>5, <3>1, <3>2
    <2> QED BY <2>1, <2>2
  <1>6. CASE Crash
    BY <1>6 DEF Crash
  <1>7. CASE Revoke \/ UNCHANGED vars
    BY <1>7 DEF Revoke, vars
  <1> QED BY <1>1, <1>2, <1>3, <1>4, <1>5, <1>6, <1>7 DEF Next, Statement

\* What a request has placed stays while it goes on.
LEMMA PlacedStays ==
  ASSUME TypeOK, Progress, [Next]_vars, NEW q \in Requests, at'[q] # "over"
  PROVE  Placed(q) \subseteq Placed(q)'
  <1>1. CASE Keeps
    BY <1>1 DEF Keeps, Placed, Progress, Idle, InTransaction, Inserting
  <1>2. ASSUME NEW r \in Requests, Adds(r) PROVE Placed(q) \subseteq Placed(q)'
    BY <1>2 DEF Adds, Placed, TypeOK
  <1>3. ASSUME NEW r \in Requests, Commits(r) PROVE Placed(q) \subseteq Placed(q)'
    BY <1>3 DEF Commits, Placed, TypeOK
  <1> QED BY <1>1, <1>2, <1>3, Footprint

\* After its statement the row a request wanted is placed.
LEMMA WantedPlaced ==
  ASSUME TypeOK, NEW q \in Requests, Insert(q) \/ InsertJob(q)
  PROVE  Wanted(q) \in Placed(q)'
  <1>1. Wanted(q) \in Placed(q) \cup Inserted(q)
    BY InsertedIs DEF Insert, InsertJob, Inserting
  <1>2. mine'[q] = mine[q] \cup Inserted(q) /\ table' = table
    BY DEF Insert, InsertJob, TypeOK
  <1> QED BY <1>1, <1>2 DEF Placed

LEMMA ReachedStep ==
  ASSUME TypeOK, Progress, [Next]_vars, NEW q \in Requests
  PROVE  Reached(q)'
  <1>1. Reached(q) BY DEF Progress
  <1>2. asked' = asked BY FilesStay
  <1>3. CASE at'[q] \notin {"source", "version", "run", "job"}
    BY <1>3 DEF Reached
  <1>4. CASE at'[q] = at[q] /\ turn'[q] = turn[q] /\ at'[q] # "over"
    <2>1. Item(q)' = Item(q) BY <1>2, <1>4 DEF Item
    <2>2. Placed(q) \subseteq Placed(q)' BY <1>4, PlacedStays
    <2> QED BY <1>1, <1>4, <2>1, <2>2
         DEF Reached, ArtifactRow, SourceRow, VersionRow, RunRow
  <1>5. CASE Look(q)
    <2>1. Item(q)' = Item(q) /\ Placed(q)' = Placed(q) BY <1>5 DEF Look, Item, Placed, rows
    <2>2. at'[q] \in {"source", "insert"} /\ (at'[q] = "source" => ArtifactRow(Item(q)) \in Placed(q))
      BY <1>5, WantedIs DEF Look, Goes, TypeOK, Placed
    <2> QED BY <2>1, <2>2 DEF Reached, ArtifactRow
  <1>6. CASE Insert(q)
    <2>1. Item(q)' = Item(q) /\ at'[q] = After[at[q]] BY <1>6 DEF Insert, Goes, Item, TypeOK
    <2>2. at'[q] # "over" BY <1>6, <2>1 DEF Insert, After, Inserting
    <2>3. Placed(q) \subseteq Placed(q)' BY <2>2, PlacedStays
    <2>4. Wanted(q) \in Placed(q)' BY <1>6, WantedPlaced
    <2>5. at[q] \in {"insert", "source", "version", "run"} BY <1>6 DEF Insert, Inserting
    <2> QED BY <1>1, <2>1, <2>3, <2>4, <2>5, WantedIs
         DEF Reached, After, ArtifactRow, SourceRow, VersionRow, RunRow
  <1>7. CASE InsertJob(q)
    BY <1>7 DEF InsertJob, Goes, TypeOK, Reached
  <1> QED BY <1>3, <1>4, <1>5, <1>6, <1>7, EveryMove DEF Moves

LEMMA DoneStep ==
  ASSUME TypeOK, Progress, [Next]_vars, NEW q \in Requests
  PROVE  Done(q)'
  <1>1. Done(q) /\ Reached(q) BY DEF Progress
  <1>2. asked' = asked BY FilesStay
  <1>3. turn[q] \in 1 .. Len(asked[q].items) /\ Len(asked[q].items) \in Nat
    BY ItemTyped
  <1>4. CASE at'[q] = "over" BY <1>4 DEF Done
  <1>5. ASSUME turn'[q] = turn[q], at'[q] # "over",
               at'[q] = "commit" => at[q] = "commit", at[q] # "over",
               at'[q] \in {"new", "receiving"} => at[q] \in {"new", "receiving"}
        PROVE  Done(q)'
    BY <1>1, <1>2, <1>5, PlacedStays
       DEF Done, Whole, ArtifactRow, SourceRow, VersionRow, RunRow, JobRow
  <1>6. CASE Look(q)
    BY <1>5, <1>6 DEF Look, Goes, TypeOK
  <1>7. CASE Insert(q)
    BY <1>5, <1>7 DEF Insert, Goes, After, Inserting, TypeOK
  <1>8. CASE InsertJob(q)
    <2>1. at'[q] # "over" /\ at'[q] \in {"put", "commit"} BY <1>8 DEF InsertJob, Goes, TypeOK
    <2>2. Placed(q) \subseteq Placed(q)' BY <2>1, PlacedStays
    <2>3. JobRow(Item(q)) \in Placed(q)' BY <1>8, WantedPlaced, WantedIs DEF InsertJob
    <2>4. Whole(Item(q)) \subseteq Placed(q)'
      BY <1>1, <1>8, <2>2, <2>3 DEF InsertJob, Reached, Whole
    <2>5. \A i \in 1 .. Len(asked[q].items) :
            i <= turn[q] => Whole(asked[q].items[i]) \subseteq Placed(q)'
      <3> SUFFICES ASSUME NEW i \in 1 .. Len(asked[q].items), i <= turn[q]
                   PROVE  Whole(asked[q].items[i]) \subseteq Placed(q)'
        OBVIOUS
      <3>1. CASE i = turn[q] BY <2>4, <3>1 DEF Item
      <3>2. CASE i < turn[q] BY <1>1, <1>8, <2>2, <3>2 DEF Done, InsertJob
      <3> QED BY <1>3, <3>1, <3>2
    <2>6. \/ turn'[q] = turn[q] + 1 /\ at'[q] = "put"
          \/ turn'[q] = turn[q] /\ turn[q] = Len(asked[q].items) /\ at'[q] = "commit"
      BY <1>3, <1>8 DEF InsertJob, Goes, TypeOK
    <2>7. \A i \in 1 .. Len(asked[q].items) :
            i < turn'[q] \/ at'[q] = "commit" => i <= turn[q]
      BY <1>3, <2>6
    <2> QED BY <1>2, <2>1, <2>5, <2>6, <2>7
         DEF Done, Whole, ArtifactRow, SourceRow, VersionRow, RunRow, JobRow
  <1>9. CASE at'[q] = at[q] /\ turn'[q] = turn[q]
    BY <1>4, <1>5, <1>9
  <1>10. CASE \/ at[q] = "new" /\ at'[q] \in {"receiving", "put"} /\ turn'[q] = turn[q]
              \/ at[q] \in {"receiving", "put"} /\ at'[q] = "check" /\ turn'[q] = turn[q]
              \/ at[q] = "check" /\ at'[q] = "look" /\ turn'[q] = turn[q]
    BY <1>5, <1>10
  <1> QED BY <1>4, <1>6, <1>7, <1>8, <1>9, <1>10, EveryMove DEF Moves

LEMMA OwnStep ==
  ASSUME TypeOK, Progress, [Next]_vars, NEW q \in Requests
  PROVE  Own(q)'
  <1>1. asked' = asked BY FilesStay
  <1>2. turn[q] \in 1 .. Len(asked[q].items) /\ Len(asked[q].items) \in Nat
    BY ItemTyped
  <1>3. turn[q] <= turn'[q] /\ turn'[q] \in Nat
    <2>1. turn'[q] = turn[q] \/ InsertJob(q)
      BY EveryMove DEF Moves, Look, Insert
    <2>2. InsertJob(q) => turn'[q] \in {turn[q], turn[q] + 1}
      BY DEF InsertJob, TypeOK
    <2> QED BY <1>2, <2>1, <2>2
  <1>4. ASSUME NEW v \in Version, VersionRow(v) \in mine'[q]
        PROVE  VersionRow(v) \in mine[q] \/ v = Item(q)
    <2>1. CASE Keeps BY <1>4, <2>1 DEF Keeps
    <2>2. ASSUME NEW r \in Requests, Adds(r) PROVE VersionRow(v) \in mine[q] \/ v = Item(q)
      BY <1>4, <2>2, InsertedIs DEF Adds, TypeOK
    <2>3. ASSUME NEW r \in Requests, Commits(r) PROVE VersionRow(v) \in mine[q]
      BY <1>4, <2>3 DEF Commits, TypeOK
    <2> QED BY <2>1, <2>2, <2>3, Footprint
  <1>5. ASSUME NEW v \in Version, VersionRow(v) \in mine'[q]
        PROVE  \E i \in 1 .. turn'[q] : v = asked[q].items[i]
    <2>1. CASE VersionRow(v) \in mine[q] BY <1>2, <1>3, <2>1 DEF Progress, Own
    <2>2. CASE v = Item(q) BY <1>2, <1>3, <2>2 DEF Item
    <2> QED BY <1>4, <1>5, <2>1, <2>2
  <1> QED BY <1>1, <1>5 DEF Own, VersionRow

LEMMA IdleStep ==
  ASSUME TypeOK, Progress, [Next]_vars, NEW q \in Requests
  PROVE  Idle(q)'
  <1>1. Idle(q) BY DEF Progress
  <1>2. SUFFICES ASSUME at'[q] \notin InTransaction PROVE mine'[q] = {}
    BY DEF Idle
  <1> USE DEF TypeOK, Goes, Tells, InTransaction, Inserting, Idle, rows
  <1>3. ASSUME NEW r \in Requests, Receive(r) \/ RefuseUpload(r) PROVE mine'[q] = {}
    BY <1>1, <1>2, <1>3 DEF Receive, RefuseUpload
  <1>4. ASSUME NEW r \in Requests, PublishUpload(r) \/ Put(r) \/ Check(r) \/ Look(r)
        PROVE  mine'[q] = {}
    BY <1>1, <1>2, <1>4 DEF PublishUpload, Put, Check, Look
  <1>5. ASSUME NEW r \in Requests, RefuseWrite(r) \/ Duplicate(r) \/ Abort(r) \/ Commit(r) \/ CommitUnheard(r)
        PROVE  mine'[q] = {}
    BY <1>1, <1>2, <1>5 DEF RefuseWrite, Duplicate, Abort, Commit, CommitUnheard
  <1>6. ASSUME NEW r \in Requests, Insert(r) PROVE mine'[q] = {}
    <2>1. at'[r] \in InTransaction BY <1>6 DEF Insert, After
    <2> QED BY <1>1, <1>2, <1>6, <2>1 DEF Insert
  <1>7. ASSUME NEW r \in Requests, InsertJob(r) PROVE mine'[q] = {}
    <2>1. at'[r] \in InTransaction BY <1>7 DEF InsertJob
    <2>2. q # r BY <1>2, <2>1
    <2>3. at'[q] = at[q] /\ mine'[q] = mine[q] BY <1>7, <2>2 DEF InsertJob
    <2> QED BY <1>1, <1>2, <2>3
  <1>8. CASE Crash BY <1>8 DEF Crash
  <1>9. CASE Revoke \/ UNCHANGED vars BY <1>1, <1>2, <1>9 DEF Revoke, vars
  <1> QED BY <1>3, <1>4, <1>5, <1>6, <1>7, <1>8, <1>9 DEF Next, Statement

-----------------------------------------------------------------------------
(* What is committed, and the theorems.                                    *)

\* A committing transaction has placed every version it was asked for.
LEMMA CommitsWhole ==
  ASSUME TypeOK, Progress, NEW r \in Requests, Commits(r)
  PROVE  /\ \A i \in 1 .. Len(asked[r].items) : Whole(asked[r].items[i]) \subseteq table'
         /\ \A v \in Version : VersionRow(v) \in mine[r] => Whole(v) \subseteq table'
  <1>1. \A i \in 1 .. Len(asked[r].items) : Whole(asked[r].items[i]) \subseteq table'
    BY DEF Progress, Done, Placed, Commits
  <1>2. turn[r] \in 1 .. Len(asked[r].items) /\ Len(asked[r].items) \in Nat
    BY ItemTyped
  <1> QED BY <1>1, <1>2 DEF Progress, Own

LEMMA TableGrows ==
  ASSUME TypeOK, [Next]_vars
  PROVE  table \subseteq table'
  BY Footprint DEF Keeps, Adds, Commits

LEMMA RowsHaveFilesStep ==
  ASSUME TypeOK, FilesFirst, RowsHaveFiles, [Next]_vars
  PROVE  RowsHaveFiles'
  <1>1. published \subseteq published' BY FilesStay
  <1>2. ASSUME NEW v \in Version, ArtifactRow(v) \in table'
        PROVE  v.artifact \in published
    BY <1>2, Footprint DEF Keeps, Adds, Commits, RowsHaveFiles, FilesFirst, Placed
  <1> QED BY <1>1, <1>2 DEF RowsHaveFiles, ArtifactRow

LEMMA VersionsAreWholeStep ==
  ASSUME TypeOK, Progress, VersionsAreWhole, [Next]_vars
  PROVE  VersionsAreWhole'
  <1>1. CASE table' = table BY <1>1 DEF VersionsAreWhole
  <1>2. ASSUME NEW r \in Requests, Commits(r) PROVE VersionsAreWhole'
    BY <1>2, CommitsWhole DEF VersionsAreWhole, Whole, Commits
  <1> QED BY <1>1, <1>2, Footprint DEF Keeps, Adds

LEMMA AcceptedStep ==
  ASSUME TypeOK, Progress, AcceptedIsRegistered, [Next]_vars
  PROVE  AcceptedIsRegistered'
  <1>1. SUFFICES ASSUME NEW q \in Requests, answer'[q] = "accepted",
                        NEW i \in DOMAIN asked[q].items
                 PROVE  VersionRow(asked[q].items[i]) \in table'
    BY FilesStay DEF AcceptedIsRegistered, VersionRow
  <1>2. i \in 1 .. Len(asked[q].items) BY ItemTyped
  <1>3. CASE answer[q] = "accepted"
    BY <1>3, TableGrows DEF AcceptedIsRegistered
  <1>4. CASE Commit(q)
    <2>1. Commits(q) BY <1>4 DEF Commit, Commits, Tells, Goes, TypeOK
    <2> QED BY <1>2, <2>1, CommitsWhole DEF Whole
  <1>5. answer[q] = "accepted" \/ Commit(q)
    BY <1>1 DEF Next, Statement, vars, TypeOK, Tells, Receive, RefuseUpload, PublishUpload,
       Put, Check, RefuseWrite, Look, Duplicate, Insert, InsertJob, Commit, CommitUnheard,
       Abort, Crash, Revoke
  <1> QED BY <1>3, <1>4, <1>5

LEMMA InvInit == Init => RegistryInv
  <1> SUFFICES ASSUME Init PROVE RegistryInv OBVIOUS
  <1>1. \A r \in Requests : asked[r].items \in Seq(Version) \ {<<>>}
    <2> SUFFICES ASSUME NEW r \in Requests
                 PROVE  asked[r].items \in Seq(Version) \ {<<>>}
      OBVIOUS
    <2>1. asked[r] \in Commands BY DEF Init
    <2> QED BY <2>1, RegistryAssumption
  <1>2. \A r \in Requests : Len(asked[r].items) \in Nat /\ 1 \in 1 .. Len(asked[r].items)
    <2> SUFFICES ASSUME NEW r \in Requests
                 PROVE  Len(asked[r].items) \in Nat /\ 1 \in 1 .. Len(asked[r].items)
      OBVIOUS
    <2> DEFINE items == asked[r].items
    <2>1. items \in Seq(Version) /\ items # <<>> BY <1>1
    <2> HIDE DEF items
    <2>2. Len(items) \in Nat \ {0} BY <2>1, EmptySeq
    <2>3. Len(items) \in Nat /\ 1 \in 1 .. Len(items) BY <2>2
    <2> QED BY <2>3 DEF items
  <1>3. TypeOK
    BY <1>2 DEF Init, TypeOK, Phases
  <1>4. ASSUME NEW r \in Requests
        PROVE  Reached(r) /\ Done(r) /\ Own(r) /\ Idle(r)
    <2>1. at[r] = "new" /\ turn[r] = 1 /\ mine[r] = {} BY DEF Init
    <2>2. Len(asked[r].items) \in Nat BY <1>2
    <2> QED BY <2>1, <2>2 DEF Reached, Done, Own, Idle
  <1>5. Exclusive /\ AuditsTogether /\ FilesFirst
    BY DEF Init, Exclusive, AuditsTogether, FilesFirst, Placed, Inserting
  <1>6. RowsHaveFiles /\ VersionsAreWhole /\ AuditedOnce /\ AcceptedIsRegistered
    BY DEF Init, RowsHaveFiles, VersionsAreWhole, AuditedOnce, AcceptedIsRegistered
  <1> QED BY <1>3, <1>4, <1>5, <1>6 DEF RegistryInv, Progress

LEMMA InvStep == RegistryInv /\ [Next]_vars => RegistryInv'
  <1> SUFFICES ASSUME RegistryInv, [Next]_vars PROVE RegistryInv' OBVIOUS
  <1> USE DEF RegistryInv
  <1>1. TypeOK' BY TypeStep
  <1>2. Exclusive' /\ AuditsTogether' /\ AuditedOnce'
    BY ExclusiveStep, AuditsTogetherStep, AuditedOnceStep
  <1>3. FilesFirst' /\ RowsHaveFiles' BY FilesFirstStep, RowsHaveFilesStep
  <1>4. Progress' BY ReachedStep, DoneStep, OwnStep, IdleStep DEF Progress
  <1>5. VersionsAreWhole' /\ AcceptedIsRegistered' BY VersionsAreWholeStep, AcceptedStep
  <1> QED BY <1>1, <1>2, <1>3, <1>4, <1>5

LEMMA InvAlways == Spec => []RegistryInv
  BY InvInit, InvStep, PTL DEF Spec

\* Every reachable state of the registry is well typed.
THEOREM RegistryTypeCorrect == Spec => []TypeOK
  BY InvAlways, PTL DEF RegistryInv

\* Every committed artifact row has its file (_publish runs before the insert,
\* and no abort takes a file back).
THEOREM ArtifactsHaveFiles == Spec => []RowsHaveFiles
  BY InvAlways, PTL DEF RegistryInv

\* A committed version has its source, artifact, run and job: the worker will
\* find it.
THEOREM RegisteredVersionsAreWhole == Spec => []VersionsAreWhole
  BY InvAlways, PTL DEF RegistryInv

\* Each committed version has one audit event, however many requests raced to
\* register it.
THEOREM RegistrationsAreAuditedOnce == Spec => []AuditedOnce
  BY InvAlways, PTL DEF RegistryInv

\* An accepted request has all its versions committed.
THEOREM AcceptedRequestsAreRegistered == Spec => []AcceptedIsRegistered
  BY InvAlways, PTL DEF RegistryInv

-----------------------------------------------------------------------------
(* A revoked right.                                                        *)

\* A request that may not begin, or is over, with no audit event.
Silent(r) ==
  /\ (at[r] = "new" /\ (~member \/ stashed)) \/ at[r] = "over"
  /\ \A v \in Version : EventRow(v, r) \notin table

\* A request that has not begun has left no audit event.
Unheard == \A r \in Requests : at[r] = "new" => \A v \in Version : EventRow(v, r) \notin table

\* Only the transaction of a request commits its audit events.
LEMMA EventsOfOwn ==
  ASSUME RegistryInv, [Next]_vars, NEW r \in Requests, at[r] \in {"new", "over"},
         \A v \in Version : EventRow(v, r) \notin table
  PROVE  \A v \in Version : EventRow(v, r) \notin table'
  <1>1. CASE table' = table BY <1>1 DEF EventRow
  <1>2. ASSUME NEW q \in Requests, Commits(q)
        PROVE  \A v \in Version : EventRow(v, r) \notin table'
    BY <1>2 DEF Commits, RegistryInv, AuditsTogether
  <1> QED BY <1>1, <1>2, Footprint DEF Keeps, Adds, RegistryInv

LEMMA UnheardStep == RegistryInv /\ Unheard /\ [Next]_vars => Unheard'
  <1> SUFFICES ASSUME RegistryInv, Unheard, [Next]_vars, NEW r \in Requests, at'[r] = "new"
               PROVE  \A v \in Version : EventRow(v, r) \notin table'
    BY DEF Unheard, EventRow
  <1>1. at[r] = "new"
    <2>1. CASE Look(r) BY <2>1 DEF Look, Goes, RegistryInv, TypeOK
    <2>2. CASE Insert(r)
      BY <2>2 DEF Insert, Goes, After, Inserting, RegistryInv, TypeOK
    <2>3. CASE InsertJob(r) BY <2>3 DEF InsertJob, Goes, RegistryInv, TypeOK
    <2> QED BY <2>1, <2>2, <2>3, EveryMove DEF RegistryInv, Moves
  <1> QED BY <1>1, EventsOfOwn DEF Unheard

LEMMA SilentStep ==
  ASSUME NEW r \in Requests
  PROVE  RegistryInv /\ Silent(r) /\ [Next]_vars => Silent(r)'
  <1> SUFFICES ASSUME RegistryInv, Silent(r), [Next]_vars PROVE Silent(r)'
    OBVIOUS
  <1>1. \A v \in Version : EventRow(v, r) \notin table'
    BY EventsOfOwn DEF Silent
  <1>2. member' => member
    BY DEF Next, Statement, vars, rights, Receive, RefuseUpload, PublishUpload, Put, Check,
       RefuseWrite, Look, Duplicate, Insert, InsertJob, Commit, CommitUnheard, Abort, Crash, Revoke
  <1>3. stashed => stashed'
    BY DEF Next, Statement, vars, rights, Receive, RefuseUpload, PublishUpload, Put, Check,
       RefuseWrite, Look, Duplicate, Insert, InsertJob, Commit, CommitUnheard, Abort, Crash, Revoke
  <1>4. at'[r] \in {at[r], "over"}
    <2>1. ~Receive(r) BY DEF Silent, Receive, MayWrite
    <2>2. at[r] \in {"new", "over"} BY DEF Silent
    <2> QED
      BY <2>1, <2>2 DEF RegistryInv, TypeOK, Next, Statement, vars, Goes, Tells, Inserting,
         InTransaction, Receive, RefuseUpload, PublishUpload, Put, Check, RefuseWrite, Look,
         Duplicate, Insert, InsertJob, Commit, CommitUnheard, Abort, Crash, Revoke
  <1> QED BY <1>1, <1>2, <1>3, <1>4 DEF Silent, EventRow

\* A request that comes after the right was revoked or the project stashed
\* leaves no audit event, ever.
THEOREM RevokedRequestsWriteNothing == Spec => RevokedWritesNothing
  <1>1. Spec => []Unheard
    <2>1. Init => Unheard BY DEF Init, Unheard
    <2> QED BY <2>1, UnheardStep, InvAlways, PTL DEF Spec
  <1>2. ASSUME NEW r \in Requests
        PROVE  Spec => [](at[r] = "new" /\ (~member \/ stashed)
                            => [](\A v \in Version : EventRow(v, r) \notin table))
    <2>1. Unheard /\ at[r] = "new" /\ (~member \/ stashed) => Silent(r)
      BY DEF Unheard, Silent
    <2>2. Silent(r) => \A v \in Version : EventRow(v, r) \notin table
      BY DEF Silent
    <2>3. RegistryInv /\ Silent(r) /\ [Next]_vars => Silent(r)'
      BY SilentStep
    <2> QED BY <1>1, <2>1, <2>2, <2>3, InvAlways, PTL DEF Spec
  <1> QED BY <1>2 DEF RevokedWritesNothing
===============================================================================
