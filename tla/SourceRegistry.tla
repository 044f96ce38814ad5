---------------------------- MODULE SourceRegistry ----------------------------
(***************************************************************************)
(* Registering source versions: sources/artifacts.py (the files),          *)
(* sources/service.py (the rows), and the routes of sources/router.py and  *)
(* ingestion/adapters/conversations.py that call them.  A request writes   *)
(* the bytes of each version to the artifact store first, then inserts     *)
(* the version's rows in one transaction, and answers once it committed.   *)
(*                                                                         *)
(* Requests interleave at every database statement.  Of PostgreSQL the     *)
(* model has what the code leans on: an insertion into a unique index      *)
(* waits for the open transaction that holds the key, ON CONFLICT DO       *)
(* NOTHING skips a committed key (the SELECT that follows then finds it,   *)
(* the isolation level being READ COMMITTED), and of transactions that     *)
(* wait for each other one is aborted.                                     *)
(***************************************************************************)
EXTENDS Naturals, Sequences

CONSTANTS
  Requests,    \* the requests that may arrive
  Artifacts,   \* contents, named by their sha256
  Sources,     \* (project, family, external_id)
  Commands     \* what a request may ask for

\* A version: the native_version of the code distinguishes no more than these.
Version == [source: Sources, artifact: Artifacts]

\* Uploads and git register one version, a promotion those the client selected,
\* in the client's order.
ASSUME RegistryAssumption ==
  Commands \subseteq [kind: {"upload", "git", "promotion"}, items: Seq(Version) \ {<<>>}]

VARIABLES
  at,           \* where the handler of each request is
  asked,        \* its command
  turn,         \* the position of the version it registers
  mine,         \* the rows inserted by its open transaction
  answer,       \* what the client was told
  table,        \* the committed rows
  published,    \* the artifacts whose file is in the store
  quarantine,   \* the requests with a file in quarantine
  member,       \* the actor has the capability to ingest sources
  stashed,      \* the project's state
  saw           \* the state a promotion loaded: "stashed"?

rows   == <<mine, table>>
files  == <<published, quarantine>>
rights == <<member, stashed, saw>>
vars   == <<at, asked, turn, rows, answer, files, rights>>

\* The statements of register_source_version and enqueue_ingestion that may
\* have to wait for another transaction, and what comes after each.
After == [look |-> "insert", insert |-> "source", source |-> "version",
          version |-> "run", run |-> "job"]
Inserting == {"look", "insert", "source", "version", "run", "job"}
InTransaction == Inserting \cup {"put", "check", "commit"}
Phases == InTransaction \cup {"new", "receiving", "over"}

ArtifactRow(v) == <<"artifacts", v.artifact>>
SourceRow(v)   == <<"sources", v.source>>
VersionRow(v)  == <<"source_versions", v>>
EventRow(v, r) == <<"audit_events", v, r>>
RunRow(v)      == <<"ingestion_runs", v>>
JobRow(v)      == <<"ingestion_jobs", v>>

Rows ==
  {ArtifactRow(v) : v \in Version} \cup {SourceRow(v) : v \in Version}
  \cup {VersionRow(v) : v \in Version} \cup {EventRow(v, r) : v \in Version, r \in Requests}
  \cup {RunRow(v) : v \in Version} \cup {JobRow(v) : v \in Version}

Item(r) == asked[r].items[turn[r]]

\* The row the next statement of r looks for or inserts.
Wanted(r) ==
  CASE at[r] \in {"look", "insert"} -> ArtifactRow(Item(r))
    [] at[r] = "source"  -> SourceRow(Item(r))
    [] at[r] = "version" -> VersionRow(Item(r))
    [] at[r] = "run"     -> RunRow(Item(r))
    [] at[r] = "job"     -> JobRow(Item(r))

WaitsFor(r, q) == q # r /\ at[r] \in Inserting /\ Wanted(r) \in mine[q]
Waits(r) == \E q \in Requests : WaitsFor(r, q)

Init ==
  /\ at = [r \in Requests |-> "new"]
  /\ asked \in [Requests -> Commands]
  /\ turn = [r \in Requests |-> 1]
  /\ mine = [r \in Requests |-> {}]
  /\ answer = [r \in Requests |-> "none"]
  /\ table = {} /\ published = {} /\ quarantine = {}
  /\ member = TRUE /\ stashed = FALSE
  /\ saw = [r \in Requests |-> FALSE]

Goes(r, to) == at' = [at EXCEPT ![r] = to]
Tells(r, what) == Goes(r, "over") /\ answer' = [answer EXCEPT ![r] = what]

\* Mutant: require_writable_project trusts the check of the route.
MayWriteAlways(r) == TRUE

\* What require_writable_project finds.  A promotion keeps the project object
\* it loaded, and session.get returns that one again.
MayWrite(r) ==
  member /\ ~(IF asked[r].kind = "promotion" /\ at[r] = "check" THEN saw[r] ELSE stashed)

-----------------------------------------------------------------------------
(* The files.                                                              *)

\* The route's own check passes; stage_async opens a quarantine file.
Receive(r) ==
  /\ at[r] = "new" /\ MayWrite(r)
  /\ IF asked[r].kind = "upload"
     THEN Goes(r, "receiving") /\ quarantine' = quarantine \cup {r}
     ELSE Goes(r, "put") /\ UNCHANGED quarantine
  /\ UNCHANGED <<asked, turn, rows, answer, published, rights>>

\* The stream broke or is too long, or the preflight rejects it.
RefuseUpload(r) ==
  /\ at[r] = "receiving"
  /\ Tells(r, "refused")
  /\ quarantine' = quarantine \ {r}
  /\ UNCHANGED <<asked, turn, rows, published, rights>>

\* The preflight passes and promote publishes the file, unless it exists.
PublishUpload(r) ==
  /\ at[r] = "receiving"
  /\ Goes(r, "check")
  /\ quarantine' = quarantine \ {r}
  /\ published' = published \cup {Item(r).artifact}
  /\ UNCHANGED <<asked, turn, rows, answer, rights>>

\* put, for a git manifest or the next conversation of a promotion.  Before
\* its first one a promotion loads the project.
Put(r) ==
  /\ at[r] = "put"
  /\ Goes(r, "check")
  /\ published' = published \cup {Item(r).artifact}
  /\ saw' = IF turn[r] = 1 THEN [saw EXCEPT ![r] = stashed] ELSE saw
  /\ UNCHANGED <<asked, turn, rows, answer, quarantine, member, stashed>>

-----------------------------------------------------------------------------
(* The transaction.                                                        *)

\* The check of register_source_version, for each version.
Check(r) ==
  /\ at[r] = "check" /\ MayWrite(r)
  /\ Goes(r, "look")
  /\ UNCHANGED <<asked, turn, rows, answer, files, rights>>

RefuseWrite(r) ==
  /\ at[r] \in {"new", "check"} /\ ~MayWrite(r)
  /\ Tells(r, "refused")
  /\ mine' = [mine EXCEPT ![r] = {}]
  /\ UNCHANGED <<asked, turn, table, files, rights>>

\* ON CONFLICT names sha256 only: PostgreSQL first looks for a committed row
\* of that digest, waiting for an open one ...
Look(r) ==
  /\ at[r] = "look" /\ ~Waits(r)
  /\ Goes(r, IF Wanted(r) \in table \cup mine[r] THEN "source" ELSE "insert")
  /\ UNCHANGED <<asked, turn, rows, answer, files, rights>>

\* ... and then inserts into every unique index.  storage_key has one as well:
\* if another transaction has inserted the same artifact since and commits,
\* that is an error and not a conflict.
Duplicate(r) ==
  /\ at[r] = "insert" /\ Wanted(r) \in table
  /\ Tells(r, "duplicate")
  /\ mine' = [mine EXCEPT ![r] = {}]
  /\ UNCHANGED <<asked, turn, table, files, rights>>

\* Mutant: the audit event is written for known versions too.
InsertedAudited(r) ==
  (IF Wanted(r) \in table \cup mine[r] THEN {} ELSE {Wanted(r)})
  \cup (IF at[r] = "version" THEN {EventRow(Item(r), r)} ELSE {})

\* The rows a statement adds; a new version comes with its audit event.
Inserted(r) ==
  IF Wanted(r) \in table \cup mine[r] THEN {}
  ELSE {Wanted(r)} \cup (IF at[r] = "version" THEN {EventRow(Item(r), r)} ELSE {})

\* Mutant: the version is committed before its ingestion is enqueued.
InsertCommitting(r) ==
  /\ at[r] \in Inserting \ {"look", "job"} /\ ~Waits(r)
  /\ ~(at[r] = "insert" /\ Wanted(r) \in table)
  /\ Goes(r, After[at[r]])
  /\ IF at[r] = "version"
     THEN /\ table' = table \cup mine[r] \cup Inserted(r)
          /\ mine' = [mine EXCEPT ![r] = {}]
     ELSE mine' = [mine EXCEPT ![r] = @ \cup Inserted(r)] /\ UNCHANGED table
  /\ UNCHANGED <<asked, turn, answer, files, rights>>

Insert(r) ==
  /\ at[r] \in Inserting \ {"look", "job"} /\ ~Waits(r)
  /\ ~(at[r] = "insert" /\ Wanted(r) \in table)
  /\ Goes(r, After[at[r]])
  /\ mine' = [mine EXCEPT ![r] = @ \cup Inserted(r)]
  /\ UNCHANGED <<asked, turn, answer, table, files, rights>>

\* The last row of a version; then the next version, or the commit.
InsertJob(r) ==
  /\ at[r] = "job" /\ ~Waits(r)
  /\ mine' = [mine EXCEPT ![r] = @ \cup Inserted(r)]
  /\ IF turn[r] < Len(asked[r].items)
     THEN Goes(r, "put") /\ turn' = [turn EXCEPT ![r] = @ + 1]
     ELSE Goes(r, "commit") /\ UNCHANGED turn
  /\ UNCHANGED <<asked, answer, table, files, rights>>

\* Mutant: the answer leaves before the commit, which may still fail.
CommitAfterAnswer(r) ==
  /\ at[r] = "commit"
  /\ Tells(r, "accepted")
  /\ mine' = [mine EXCEPT ![r] = {}]
  /\ table' = table \/ table' = table \cup mine[r]
  /\ UNCHANGED <<asked, turn, files, rights>>

\* session.commit, and the answer after it.
Commit(r) ==
  /\ at[r] = "commit"
  /\ Tells(r, "accepted")
  /\ table' = table \cup mine[r]
  /\ mine' = [mine EXCEPT ![r] = {}]
  /\ UNCHANGED <<asked, turn, files, rights>>

\* The transaction commits and nobody hears of it.
CommitUnheard(r) ==
  /\ at[r] = "commit"
  /\ Tells(r, "failed")
  /\ table' = table \cup mine[r]
  /\ mine' = [mine EXCEPT ![r] = {}]
  /\ UNCHANGED <<asked, turn, files, rights>>

\* Mutant: an abort takes the files of its versions along.
AbortRemovingFile(r) ==
  /\ at[r] \in InTransaction
  /\ Tells(r, "failed")
  /\ mine' = [mine EXCEPT ![r] = {}]
  /\ published' = published \ {Item(r).artifact}
  /\ UNCHANGED <<asked, turn, table, quarantine, rights>>

\* Mutant: the session is not rolled back.
AbortKeepingRows(r) ==
  /\ at[r] \in InTransaction
  /\ Tells(r, "failed")
  /\ UNCHANGED <<asked, turn, mine, table, files, rights>>

\* A statement fails, the client goes away, or PostgreSQL breaks a deadlock:
\* the session rolls back, and the files already published stay.
Abort(r) ==
  /\ at[r] \in InTransaction
  /\ Tells(r, "failed")
  /\ mine' = [mine EXCEPT ![r] = {}]
  /\ UNCHANGED <<asked, turn, table, files, rights>>

\* A cycle of transactions each waiting for the next, r among them.
Deadlocked(r) ==
  \E C \in SUBSET Requests :
    /\ r \in C
    /\ \A c \in C : /\ \E d \in C : WaitsFor(c, d)
                    /\ \E b \in C : WaitsFor(b, c)

Victim(r) == Deadlocked(r) /\ Abort(r)

-----------------------------------------------------------------------------

\* The process dies: open transactions roll back, no one is answered.
Crash ==
  /\ \E r \in Requests : at[r] \notin {"new", "over"}
  /\ at' = [r \in Requests |-> IF at[r] = "new" THEN "new" ELSE "over"]
  /\ mine' = [r \in Requests |-> {}]
  /\ UNCHANGED <<asked, turn, answer, table, files, rights>>

\* The actor loses the capability, or the project is stashed: for good.
Revoke ==
  /\ \/ member /\ member' = FALSE /\ UNCHANGED stashed
     \/ ~stashed /\ stashed' = TRUE /\ UNCHANGED member
  /\ UNCHANGED <<at, asked, turn, rows, answer, files, saw>>

\* What a request does by itself.
Statement(r) ==
  \/ Receive(r) \/ PublishUpload(r) \/ Put(r) \/ Check(r)
  \/ RefuseWrite(r) \/ Look(r) \/ Duplicate(r) \/ Insert(r) \/ InsertJob(r) \/ Commit(r)

Next ==
  \/ \E r \in Requests : Statement(r) \/ RefuseUpload(r) \/ CommitUnheard(r) \/ Abort(r)
  \/ Crash \/ Revoke

\* The event loop runs every handler on; a body arrives or its stream ends;
\* PostgreSQL finds deadlocks.
Fairness == \A r \in Requests : WF_vars(Statement(r)) /\ WF_vars(Victim(r))

Spec == Init /\ [][Next]_vars
FairSpec == Spec /\ Fairness

-----------------------------------------------------------------------------
(* Properties.                                                             *)

TypeOK ==
  /\ at \in [Requests -> Phases]
  /\ asked \in [Requests -> Commands]
  /\ turn \in [Requests -> Nat]
  /\ \A r \in Requests : turn[r] \in 1 .. Len(asked[r].items)
  /\ mine \in [Requests -> SUBSET Rows]
  /\ answer \in [Requests -> {"none", "accepted", "refused", "duplicate", "failed"}]
  /\ table \subseteq Rows
  /\ published \subseteq Artifacts
  /\ quarantine \subseteq Requests
  /\ member \in BOOLEAN /\ stashed \in BOOLEAN
  /\ saw \in [Requests -> BOOLEAN]

\* The worker opens artifacts by the digest in the row: a committed artifact
\* row has its file, although requests share files and abort independently.
RowsHaveFiles ==
  \A v \in Version : ArtifactRow(v) \in table => v.artifact \in published

\* A committed version has what the pipeline needs to find and claim it: its
\* source, its artifact, its run and its job.
VersionsAreWhole ==
  \A v \in Version : VersionRow(v) \in table =>
    {ArtifactRow(v), SourceRow(v), RunRow(v), JobRow(v)} \subseteq table

\* The audit trail tells of each registered version once, whichever of the
\* requests that raced for it inserted it, and of no other.
AuditedOnce ==
  \A v \in Version :
    /\ VersionRow(v) \in table <=> \E r \in Requests : EventRow(v, r) \in table
    /\ \A r, q \in Requests :
         EventRow(v, r) \in table /\ EventRow(v, q) \in table => r = q

\* The answers 201 and 202 are kept: every version asked for is registered.
AcceptedIsRegistered ==
  \A r \in Requests : answer[r] = "accepted" =>
    \A i \in DOMAIN asked[r].items : VersionRow(asked[r].items[i]) \in table

\* A request that arrives when the actor may no longer write changes nothing:
\* none of its versions gets an audit event.
RevokedWritesNothing ==
  \A r \in Requests :
    [](at[r] = "new" /\ (~member \/ stashed) => [](\A v \in Version : EventRow(v, r) \notin table))

\* No request hangs: it waits for transactions that end, and of those that
\* wait for each other one is given up.
EveryRequestEnds == \A r \in Requests : at[r] # "new" ~> at[r] = "over"

\* Concurrent first registrations converge and do not leak the uniqueness
\* error of the database (tests/sources/test_source_registry.py).
NoUniquenessError == \A r \in Requests : answer[r] # "duplicate"
===============================================================================
