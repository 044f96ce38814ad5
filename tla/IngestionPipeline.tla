-------------------------- MODULE IngestionPipeline --------------------------
(***************************************************************************)
(* What the two job handlers do to a source version while the queue of     *)
(* JobQueue runs them: normalization publishes content parts and schedules *)
(* extraction in one transaction (worker.py persist_normalization), and    *)
(* extraction drafts candidates that cite those parts                      *)
(* (knowledge/extraction.py extract_candidates).  Completion is a later    *)
(* transaction of the worker, so a crash, a shutdown or a lost lease can   *)
(* come between a handler's write and the completion of its job.           *)
(*                                                                         *)
(* One action is one transaction or one return of a handler.  A complete   *)
(* part set is named by the normalization attempt that wrote it, a draft   *)
(* set by the extraction attempt that wrote it.  The foreign key from      *)
(* citations to content_parts is the guard Cited; the row trigger of       *)
(* migration 0005 is met whenever the claim is owned.  Nothing in the      *)
(* program calls cancel_job, so PipelineNext leaves Cancel out.            *)
(***************************************************************************)
EXTENDS JobQueue, FiniteSets

CONSTANTS
  Versions,       \* source versions
  NormalizeJob,   \* the normalization job of each version
  ExtractJob,     \* its extraction job
  AckLossBound    \* bound: commits whose acknowledgement is lost

ASSUME PipelineAssumption ==
  /\ NormalizeJob \in [Versions -> Jobs]
  /\ ExtractJob \in [Versions -> Jobs]
  /\ \A u, v \in Versions :
       /\ NormalizeJob[u] # ExtractJob[v]
       /\ u # v => NormalizeJob[u] # NormalizeJob[v] /\ ExtractJob[u] # ExtractJob[v]
  /\ AckLossBound \in Nat

VARIABLES
  parseable, \* versions whose artifact the adapter can normalize; never changes
  parts,     \* content_parts: the attempt that wrote the version's parts, 0 if none
  assessed,  \* source_quality_assessments: the attempt that wrote it, 0 if none
  xruns,     \* extraction_runs: attempt -> status
  drafts,    \* draft_sets with their citations
  handler,   \* the locals of each process's handler
  ackLosses  \* acknowledgements lost so far

data == <<parseable, parts, assessed, xruns, drafts, ackLosses>>
pipeline == <<job, run, history, before, proc, releases, parseable, parts, assessed,
              xruns, drafts, handler, ackLosses>>

XStatus  == {"running", "succeeded", "retry", "failed"}
DraftSet == [attempt: Nat, cites: Nat]     \* the part set cited, 0 without citations
Locals   == [stage: {"none", "begun", "read", "calling", "written"}, seen: Nat]
NoLocals == [stage |-> "none", seen |-> 0]

-----------------------------------------------------------------------------
Normalizing(w, v) == proc[w].phase = "working" /\ proc[w].job = NormalizeJob[v]
Extracting(w, v)  == proc[w].phase = "working" /\ proc[w].job = ExtractJob[v]

\* Mutant: the citations do not keep their parts.
CitedNever(v) == FALSE
\* A citation refers to a part of the version, which the foreign key protects.
Cited(v) == \E d \in drafts[v] : d.cites # 0

\* One row of extraction_runs written, inserted if it is not there.
WithRun(v, n, status) ==
  [xruns EXCEPT ![v] = [m \in DOMAIN @ \cup {n} |-> IF m = n THEN status ELSE @[m]]]

\* A handler that returns or raises; its locals are gone.
Returns(w, verdict) ==
  /\ HandlerEnds(w)
  /\ proc'[w].verdict = verdict
  /\ handler' = [handler EXCEPT ![w] = NoLocals]

Goes(w, stage) == handler' = [handler EXCEPT ![w].stage = stage]

PipelineInit ==
  /\ Init
  /\ parseable \in SUBSET Versions
  /\ parts = [v \in Versions |-> 0]
  /\ assessed = [v \in Versions |-> 0]
  /\ xruns = [v \in Versions |-> <<>>]
  /\ drafts = [v \in Versions |-> {}]
  /\ handler = [w \in Workers |-> NoLocals]
  /\ ackLosses = 0

-----------------------------------------------------------------------------
(* Steps of the queue that no handler takes.                               *)

\* register_source_version schedules the normalization of a new version.
Register(v) == Enqueue(NormalizeJob[v]) /\ UNCHANGED <<data, handler>>

\* A poll; a claim starts the handler the dispatcher finds for the job.
Poll(w, skipped) ==
  \/ PollEmpty(w, skipped) /\ UNCHANGED <<data, handler>>
  \/ /\ \E j \in Jobs : Claim(w, j, skipped)
     /\ Goes(w, "begun")
     /\ UNCHANGED data

Renew(w) == Heartbeat(w) /\ UNCHANGED <<data, handler>>

\* The verdict of a handler that ended is committed, or the claim turns out lost.
SettleEnded(w) ==
  /\ proc[w].phase = "settling"
  /\ Settle(w)
  /\ UNCHANGED <<data, handler>>

\* A shutdown cancels the handler, a crash ends it: either way it leaves the
\* rows it committed as they are, an extraction run at `running' included.
Stop(w) ==
  /\ Release(w) \/ Crash(w)
  /\ handler' = [handler EXCEPT ![w] = NoLocals]
  /\ UNCHANGED data

Start(w) == Restart(w) /\ UNCHANGED <<data, handler>>

Time == Tick /\ UNCHANGED <<data, handler>>

-----------------------------------------------------------------------------
(* persist_normalization.                                                  *)

\* Mutant: the transaction does not check the claim.
PublishUnfenced(w, v) ==
  /\ Normalizing(w, v) /\ handler[w].stage = "begun"
  /\ v \in parseable
  /\ ~Cited(v)
  /\ parts' = [parts EXCEPT ![v] = proc[w].attempt]
  /\ assessed' = [assessed EXCEPT ![v] = IF @ = 0 THEN proc[w].attempt ELSE @]
  /\ Enqueue(ExtractJob[v])
  /\ Goes(w, "written")
  /\ UNCHANGED <<parseable, xruns, drafts, ackLosses>>

\* The transaction that replaces the parts, keeps the first assessment and
\* schedules extraction, between two checks of the claim.
Publish(w, v) ==
  /\ Normalizing(w, v) /\ handler[w].stage = "begun"
  /\ v \in parseable
  /\ Owns(w)
  /\ ~Cited(v)
  /\ parts' = [parts EXCEPT ![v] = proc[w].attempt]
  /\ assessed' = [assessed EXCEPT ![v] = IF @ = 0 THEN proc[w].attempt ELSE @]
  /\ Enqueue(ExtractJob[v])
  /\ Goes(w, "written")
  /\ UNCHANGED <<parseable, xruns, drafts, ackLosses>>

\* Deleting parts that a citation refers to raises, and the handler with it.
PublishRefused(w, v) ==
  /\ Normalizing(w, v) /\ handler[w].stage = "begun"
  /\ Owns(w) /\ Cited(v)
  /\ Returns(w, "retry")
  /\ UNCHANGED data

\* Mutant: an artifact without an adapter counts as normalized.
ParseFailureIgnored(w, v) ==
  /\ Normalizing(w, v) /\ handler[w].stage = "begun"
  /\ v \notin parseable
  /\ Enqueue(ExtractJob[v])
  /\ Goes(w, "written")
  /\ UNCHANGED data

\* The adapter fails or does not support the artifact: the parts stay.
ParseFails(w, v) ==
  /\ Normalizing(w, v) /\ handler[w].stage = "begun"
  /\ v \notin parseable
  /\ Returns(w, "retry")
  /\ UNCHANGED data

\* owned_claim refuses the transaction.
PublishFenced(w, v) ==
  /\ Normalizing(w, v) /\ handler[w].stage = "begun"
  /\ LeaseLost(w)
  /\ handler' = [handler EXCEPT ![w] = NoLocals]
  /\ UNCHANGED data

Published(w, v) ==
  /\ Normalizing(w, v) /\ handler[w].stage = "written"
  /\ Returns(w, "succeeded")
  /\ UNCHANGED data

\* The commit reached the database, its acknowledgement did not come back.
PublishUnheard(w, v) ==
  /\ Normalizing(w, v) /\ handler[w].stage = "written"
  /\ ackLosses < AckLossBound
  /\ ackLosses' = ackLosses + 1
  /\ Returns(w, "retry")
  /\ UNCHANGED <<parseable, parts, assessed, xruns, drafts>>

-----------------------------------------------------------------------------
(* build_extraction_handler and extract_candidates.                        *)

ReadParts(w, v) ==
  /\ Extracting(w, v) /\ handler[w].stage = "begun"
  /\ handler' = [handler EXCEPT ![w] = [stage |-> "read", seen |-> parts[v]]]
  /\ UNCHANGED <<vars, data>>

\* The provider cannot attest its model; no run exists yet.
PrepareFails(w, v) ==
  /\ Extracting(w, v) /\ handler[w].stage = "read"
  /\ \E verdict \in {"retry", "failed"} : Returns(w, verdict)
  /\ UNCHANGED data

\* A draft of an earlier attempt whose run succeeded is the result.
ReuseDraft(w, v) ==
  /\ Extracting(w, v) /\ handler[w].stage = "read"
  /\ \E d \in drafts[v] : xruns[v][d.attempt] = "succeeded"
  /\ Returns(w, "succeeded")
  /\ UNCHANGED data

\* Mutant: no look for a draft that an earlier attempt committed.
BeginRunAnyway(w, v) ==
  /\ Extracting(w, v) /\ handler[w].stage = "read"
  /\ xruns' = WithRun(v, proc[w].attempt, "running")
  /\ Goes(w, "calling")
  /\ UNCHANGED <<vars, parseable, parts, assessed, drafts, ackLosses>>

\* The run of this attempt is recorded before the provider is called; this
\* transaction does not check the claim.
BeginRun(w, v) ==
  /\ Extracting(w, v) /\ handler[w].stage = "read"
  /\ \A d \in drafts[v] : xruns[v][d.attempt] # "succeeded"
  /\ xruns' = WithRun(v, proc[w].attempt, "running")
  /\ Goes(w, "calling")
  /\ UNCHANGED <<vars, parseable, parts, assessed, drafts, ackLosses>>
\* _record_provider_failure, which does not check the claim either: an error
\* of the provider is retryable or not, any other one is failed and retried.
CallFails(w, v) ==
  /\ Extracting(w, v) /\ handler[w].stage = "calling"
  /\ \E failure \in {<<"retry", "retry">>, <<"failed", "failed">>, <<"failed", "retry">>} :
       /\ xruns' = WithRun(v, proc[w].attempt, failure[1])
       /\ Returns(w, failure[2])
  /\ UNCHANGED <<parseable, parts, assessed, drafts, ackLosses>>

\* Mutant: the final transaction does not check the claim.
SaveDraftUnfenced(w, v) ==
  /\ Extracting(w, v) /\ handler[w].stage = "calling"
  /\ \E cites \in {0, handler[w].seen} :
       /\ cites # 0 => cites = parts[v]
       /\ drafts' = [drafts EXCEPT ![v] = @ \cup {[attempt |-> proc[w].attempt, cites |-> cites]}]
  /\ xruns' = WithRun(v, proc[w].attempt, "succeeded")
  /\ Goes(w, "written")
  /\ UNCHANGED <<vars, parseable, parts, assessed, ackLosses>>

\* The final transaction: the draft, its citations and the run's outcome.
SaveDraft(w, v) ==
  /\ Extracting(w, v) /\ handler[w].stage = "calling"
  /\ Owns(w)
  /\ \E cites \in {0, handler[w].seen} :
       /\ cites # 0 => cites = parts[v]
       /\ drafts' = [drafts EXCEPT ![v] = @ \cup {[attempt |-> proc[w].attempt, cites |-> cites]}]
  /\ xruns' = WithRun(v, proc[w].attempt, "succeeded")
  /\ Goes(w, "written")
  /\ UNCHANGED <<vars, parseable, parts, assessed, ackLosses>>

\* Mutant: a draft that could not be stored passes for an empty one.
SaveRefusedSilently(w, v) ==
  /\ Extracting(w, v) /\ handler[w].stage = "calling"
  /\ Owns(w) /\ handler[w].seen # parts[v]
  /\ xruns' = WithRun(v, proc[w].attempt, "succeeded")
  /\ Returns(w, "succeeded")
  /\ UNCHANGED <<parseable, parts, assessed, drafts, ackLosses>>

\* A cited part is no longer there: the transaction fails, the run with it.
SaveRefused(w, v) ==
  /\ Extracting(w, v) /\ handler[w].stage = "calling"
  /\ Owns(w) /\ handler[w].seen # parts[v]
  /\ xruns' = WithRun(v, proc[w].attempt, "failed")
  /\ Returns(w, "retry")
  /\ UNCHANGED <<parseable, parts, assessed, drafts, ackLosses>>

\* owned_claim refuses the final transaction; the run is marked failed.
SaveFenced(w, v) ==
  /\ Extracting(w, v) /\ handler[w].stage = "calling"
  /\ LeaseLost(w)
  /\ xruns' = WithRun(v, proc[w].attempt, "failed")
  /\ handler' = [handler EXCEPT ![w] = NoLocals]
  /\ UNCHANGED <<parseable, parts, assessed, drafts, ackLosses>>

Saved(w, v) ==
  /\ Extracting(w, v) /\ handler[w].stage = "written"
  /\ Returns(w, "succeeded")
  /\ UNCHANGED data

\* The draft is committed but the handler sees an error: it overwrites the
\* outcome of the run and raises.
SaveUnheard(w, v) ==
  /\ Extracting(w, v) /\ handler[w].stage = "written"
  /\ ackLosses < AckLossBound
  /\ ackLosses' = ackLosses + 1
  /\ xruns' = WithRun(v, proc[w].attempt, "failed")
  /\ Returns(w, "retry")
  /\ UNCHANGED <<parseable, parts, assessed, drafts>>

-----------------------------------------------------------------------------
Normalize(w, v) ==
  \/ Publish(w, v) \/ PublishRefused(w, v) \/ ParseFails(w, v) \/ PublishFenced(w, v)
  \/ Published(w, v) \/ PublishUnheard(w, v)

Extract(w, v) ==
  \/ ReadParts(w, v) \/ PrepareFails(w, v) \/ ReuseDraft(w, v) \/ BeginRun(w, v)
  \/ CallFails(w, v) \/ SaveDraft(w, v) \/ SaveRefused(w, v) \/ SaveFenced(w, v)
  \/ Saved(w, v) \/ SaveUnheard(w, v)

Handle(w) == \E v \in Versions : Normalize(w, v) \/ Extract(w, v)

PipelineNext ==
  \/ \E v \in Versions : Register(v)
  \/ \E w \in Workers :
       \/ \E skipped \in SUBSET Lockable(w) : Poll(w, skipped)
       \/ Renew(w) \/ Handle(w) \/ SettleEnded(w) \/ Stop(w) \/ Start(w)
  \/ Time

PipelineSpec == PipelineInit /\ [][PipelineNext]_pipeline

PipelineFairSpec ==
  /\ PipelineSpec
  /\ WF_pipeline(Time)
  /\ \A w \in Workers : WF_pipeline(Handle(w)) /\ WF_pipeline(SettleEnded(w))
  /\ \A w \in Reliable : WF_pipeline(Poll(w, {}))

-----------------------------------------------------------------------------
(* What the pipeline promises.                                             *)

PipelineTypeOK ==
  /\ TypeOK
  /\ parseable \subseteq Versions
  /\ parts \in [Versions -> Nat] /\ assessed \in [Versions -> Nat]
  /\ \A v \in Versions : \A n \in DOMAIN xruns[v] : xruns[v][n] \in XStatus
  /\ drafts \in [Versions -> SUBSET DraftSet]
  /\ handler \in [Workers -> Locals]
  /\ ackLosses \in 0..AckLossBound

\* Extraction work exists only for a version whose parts and assessment are
\* committed, and they are the work of attempts that were really granted.
ExtractionFollowsParts == \A v \in Versions :
  /\ job[ExtractJob[v]].status # "absent" <=> parts[v] # 0
  /\ parts[v] # 0 <=> assessed[v] # 0
  /\ assessed[v] <= parts[v] /\ parts[v] <= job[NormalizeJob[v]].attempt

\* Every draft cites the parts a reader finds in the table today.
CitationsResolve == \A v \in Versions : \A d \in drafts[v] : d.cites \in {0, parts[v]}

\* A version never gets two draft sets, however often its jobs are retried.
OneDraft == \A v \in Versions : \A d, e \in drafts[v] : d = e

\* The drafts whose run says that it succeeded: those a later attempt reuses.
Standing(v) == {d \in drafts[v] : xruns[v][d.attempt] = "succeeded"}

\* Also when acknowledgements are lost, and a handler that slept through its
\* lease meets the next one, a retry never has two drafts to reuse.
OneStands == \A v \in Versions : \A d, e \in Standing(v) : d = e

\* Whatever crashes and is retried, a second draft has cost an acknowledgement.
FewDrafts == \A v \in Versions : IsFiniteSet(drafts[v]) /\ Cardinality(drafts[v]) <= 1 + ackLosses

\* A succeeded extraction job has its draft, and the draft its succeeded run.
SucceededHasDraft == \A v \in Versions :
  /\ job[ExtractJob[v]].status = "succeeded" => drafts[v] # {}
  /\ \A d \in drafts[v] : d.attempt \in DOMAIN xruns[v] /\ xruns[v][d.attempt] = "succeeded"
  /\ \A n \in DOMAIN xruns[v] : xruns[v][n] = "succeeded" => \E d \in drafts[v] : d.attempt = n

\* A part set is only ever replaced by that of a later attempt; once the
\* normalization of a version is settled its parts stand for good, and once its
\* extraction is settled so do its drafts: a stale handler that wakes up later
\* publishes nothing.
SettledStands == [][\A v \in Versions :
  /\ parts'[v] >= parts[v]
  /\ job[NormalizeJob[v]].status \in Terminal => parts'[v] = parts[v]
  /\ job[ExtractJob[v]].status \in Terminal => drafts'[v] = drafts[v]]_pipeline

\* A retry of a normalization that published its parts replaces them; it does
\* not fail on them.
RetryReplacesParts == \A v \in Versions :
  parts[v] # 0 => ~(run[NormalizeJob[v]].status = "failed"
                    /\ run[NormalizeJob[v]].error = "handler_error")

\* A registered version comes to an end: normalized or given up, and then
\* extracted or given up if it has parts.
EveryVersionEnds == \A v \in Versions :
  job[NormalizeJob[v]].status # "absent" ~>
    /\ job[NormalizeJob[v]].status \in Terminal
    /\ parts[v] # 0 => job[ExtractJob[v]].status \in Terminal
=============================================================================
