----------------------- MODULE IngestionPipelineProofs -----------------------
(***************************************************************************)
(* Theorems about IngestionPipeline, for any versions, processes and       *)
(* allowances.  The pipeline is shown to run the queue by its rules first, *)
(* so everything JobQueueProofs says of the queue can be used of it.       *)
(***************************************************************************)
EXTENDS IngestionPipeline, JobQueueProofs, FiniteSetTheorems

-----------------------------------------------------------------------------
(* The queue under the pipeline.                                           *)

\* A handler step is one step of the queue: the end of a handler, a lost
\* lease, an enqueue, or none.
LEMMA HandlerOnward ==
  ASSUME NEW w \in Workers, NEW v \in Versions, Normalize(w, v) \/ Extract(w, v)
  PROVE  Publish(w, v) \/ HandlerEnds(w) \/ LeaseLost(w) \/ UNCHANGED vars
BY DEF Normalize, Extract, PublishRefused, ParseFails, PublishFenced, Published, PublishUnheard,
       ReadParts, PrepareFails, ReuseDraft, BeginRun, CallFails, SaveDraft, SaveRefused,
       SaveFenced, Saved, SaveUnheard, Returns

\* Only the registration of a version and the publication of its parts add
\* rows to the queue.
LEMMA PipelineOnward ==
  ASSUME [PipelineNext]_pipeline
  PROVE  \/ \E v \in Versions : Register(v)
         \/ \E w \in Workers, v \in Versions : Publish(w, v)
         \/ Onward \/ UNCHANGED vars
<1>1. ASSUME NEW w \in Workers, NEW S \in SUBSET Lockable(w), Poll(w, S) PROVE Onward
  BY <1>1 DEF Poll, Onward, PollStep
<1>2. ASSUME NEW w \in Workers, Renew(w) \/ SettleEnded(w) \/ Stop(w) \/ Start(w) PROVE Onward
  BY <1>2 DEF Renew, SettleEnded, Stop, Start, Onward
<1>3. ASSUME NEW w \in Workers, Handle(w)
      PROVE  (\E v \in Versions : Publish(w, v)) \/ Onward \/ UNCHANGED vars
  BY <1>3, HandlerOnward DEF Handle, Onward, Settle
<1>4. Time => Onward
  BY DEF Time, Onward
<1>5. UNCHANGED pipeline => UNCHANGED vars
  BY DEF pipeline, vars
<1>6. QED
  BY <1>1, <1>2, <1>3, <1>4, <1>5 DEF PipelineNext

LEMMA PipelineQueueStep == [PipelineNext]_pipeline => [Next]_vars
<1>1. ASSUME NEW v \in Versions, Register(v) \/ \E w \in Workers : Publish(w, v) PROVE Next
  BY <1>1, PipelineAssumption DEF Register, Publish, Next
<1>2. Onward => Next
  BY DEF Onward, Next
<1>3. QED
  BY <1>1, <1>2, PipelineOnward

\* So the theorems about the queue hold of the pipeline.
LEMMA PipelineRunsTheQueue == PipelineSpec => Spec
<1>1. PipelineInit => Init
  BY DEF PipelineInit
<1>2. QED
  BY <1>1, PipelineQueueStep, PTL DEF PipelineSpec, Spec

\* What the pipeline's proofs use of the queue.
QueueFacts == TypeOK /\ BusyHasJob /\ Consistent /\ ClaimsFenced

LEMMA PipelineQueueFacts == PipelineSpec => []QueueFacts
BY PipelineRunsTheQueue, TypeCorrect, TablesAgree, Fenced, PTL DEF QueueFacts

\* Attempt numbers only grow, and rows stay.
LEMMA QueueGrows ==
  ASSUME QueueFacts, [PipelineNext]_pipeline
  PROVE  \A j \in Jobs : job[j].attempt <= job'[j].attempt
<1>1. \A j \in Jobs : RowStep(j) /\ Ledger(j)
  BY PipelineQueueStep, StepView, ConsistentByJob DEF QueueFacts
<1>2. QED
  BY <1>1, AttemptsGrow DEF QueueFacts

\* The claim a fenced transaction passes: the process holds the newest attempt.
LEMMA OwnerIsNewest ==
  ASSUME QueueFacts, NEW w \in Workers, Owns(w)
  PROVE  /\ proc[w].job \in Jobs
         /\ proc[w].attempt = job[proc[w].job].attempt
         /\ proc[w].attempt \in Nat \ {0}
         /\ job[proc[w].job].status = "running"
<1>1. proc[w].job \in Jobs /\ job[proc[w].job].status = "running"
      /\ proc[w].attempt = job[proc[w].job].attempt
  BY DEF QueueFacts, BusyHasJob, Owns, Live
<1>2. job[proc[w].job].attempt \in Nat /\ Ledger(proc[w].job)
  BY <1>1, ConsistentByJob DEF QueueFacts, TypeOK, JobRow
<1>3. job[proc[w].job].attempt # 0
  BY <1>1, <1>2 DEF Ledger
<1>4. QED
  BY <1>1, <1>2, <1>3

-----------------------------------------------------------------------------
(* Types.                                                                  *)

Typed == PipelineTypeOK /\ DOMAIN xruns = Versions

\* What a handler does to its process when it returns or raises.
LEMMA ReturnsView ==
  ASSUME TypeOK, NEW w \in Workers, NEW x, Returns(w, x)
  PROVE  /\ proc' = [proc EXCEPT ![w] = [proc[w] EXCEPT !.phase = "settling", !.verdict = x]]
         /\ handler' = [handler EXCEPT ![w] = NoLocals]
         /\ UNCHANGED <<job, run, history, before, releases>>
<1>1. PICK y \in Verdict \ {"none"} :
        proc' = [proc EXCEPT ![w] = [proc[w] EXCEPT !.phase = "settling", !.verdict = y]]
  BY DEF Returns, HandlerEnds, TypeOK
<1>2. proc[w] \in Process
  BY DEF TypeOK
<1>3. proc'[w].verdict = y
  BY <1>1, <1>2 DEF TypeOK, Process
<1>4. x = y
  BY <1>3 DEF Returns
<1>5. QED
  BY <1>1, <1>4 DEF Returns, HandlerEnds

\* A run written once more is still a run.
LEMMA WithRunType ==
  ASSUME Typed, NEW v \in Versions, NEW n, NEW s \in XStatus, xruns' = WithRun(v, n, s)
  PROVE  /\ DOMAIN xruns' = Versions
         /\ DOMAIN xruns'[v] = DOMAIN xruns[v] \cup {n}
         /\ \A m \in DOMAIN xruns'[v] : xruns'[v][m] = IF m = n THEN s ELSE xruns[v][m]
         /\ \A u \in Versions \ {v} : xruns'[u] = xruns[u]
         /\ \A u \in Versions : \A m \in DOMAIN xruns'[u] : xruns'[u][m] \in XStatus
<1> DEFINE f == [m \in DOMAIN xruns[v] \cup {n} |-> IF m = n THEN s ELSE xruns[v][m]]
<1>1. xruns' = [xruns EXCEPT ![v] = f]
  BY DEF WithRun
<1>2. DOMAIN xruns = Versions
  BY DEF Typed
<1>3. DOMAIN f = DOMAIN xruns[v] \cup {n} /\ \A m \in DOMAIN f : f[m] = IF m = n THEN s ELSE xruns[v][m]
  OBVIOUS
<1> HIDE DEF f
<1>4. DOMAIN xruns' = Versions /\ xruns'[v] = f /\ \A u \in Versions \ {v} : xruns'[u] = xruns[u]
  BY <1>1, <1>2
<1>5. \A u \in Versions : \A m \in DOMAIN xruns[u] : xruns[u][m] \in XStatus
  BY DEF Typed, PipelineTypeOK
<1>6. QED
  BY <1>3, <1>4, <1>5

LEMMA PipelineTypeInit == PipelineInit => Typed
<1> SUFFICES ASSUME PipelineInit PROVE Typed
  OBVIOUS
<1>1. TypeOK
  BY TypeInit DEF PipelineInit
<1>2. \A v \in Versions : DOMAIN xruns[v] = {}
  <2>1. DOMAIN <<>> = {}
    OBVIOUS
  <2>2. \A v \in Versions : xruns[v] = <<>>
    BY DEF PipelineInit
  <2>3. QED
    BY <2>1, <2>2
<1>3. NoLocals \in Locals
  BY DEF NoLocals, Locals
<1>4. QED
  BY <1>1, <1>2, <1>3, PipelineAssumption DEF PipelineInit, Typed, PipelineTypeOK

\* The handlers' locals stay of their type: only four things happen to them.
LEMMA LocalsType ==
  ASSUME Typed, NEW w \in Workers
  PROVE  /\ \A s \in {"none", "begun", "read", "calling", "written"} :
              [handler EXCEPT ![w].stage = s] \in [Workers -> Locals]
         /\ \A n \in Nat :
              [handler EXCEPT ![w] = [stage |-> "read", seen |-> n]] \in [Workers -> Locals]
         /\ [handler EXCEPT ![w] = NoLocals] \in [Workers -> Locals]
<1>1. handler \in [Workers -> Locals] /\ handler[w] \in Locals
  BY DEF Typed, PipelineTypeOK
<1>2. \A s \in {"none", "begun", "read", "calling", "written"} :
        [handler[w] EXCEPT !.stage = s] \in Locals
  BY <1>1 DEF Locals
<1>3. NoLocals \in Locals /\ \A n \in Nat : [stage |-> "read", seen |-> n] \in Locals
  BY DEF NoLocals, Locals
<1>4. QED
  BY <1>1, <1>2, <1>3

LEMMA PipelineTypeStep ==
  ASSUME Typed, QueueFacts, TypeOK', [PipelineNext]_pipeline
  PROVE  Typed'
<1> USE DEF Typed, PipelineTypeOK
<1> DEFINE Data == <<parseable, parts, assessed, xruns, drafts, ackLosses>>
<1>0. ASSUME UNCHANGED Data, handler' \in [Workers -> Locals] PROVE Typed'
  BY <1>0
<1>1. ASSUME NEW v \in Versions, Register(v) PROVE Typed'
  <2>1. UNCHANGED Data /\ handler' = handler
    BY <1>1 DEF Register, data
  <2>2. QED
    BY <1>0, <2>1
<1>2. ASSUME NEW w \in Workers, NEW S \in SUBSET Lockable(w), Poll(w, S) PROVE Typed'
  <2>1. UNCHANGED Data /\ (handler' = handler \/ Goes(w, "begun"))
    BY <1>2 DEF Poll, data
  <2>2. handler' \in [Workers -> Locals]
    <3>1. [handler EXCEPT ![w].stage = "begun"] \in [Workers -> Locals]
      BY LocalsType
    <3>2. QED
      BY <2>1, <3>1 DEF Goes
  <2>3. QED
    BY <1>0, <2>1, <2>2
<1>3. ASSUME NEW w \in Workers, Renew(w) \/ SettleEnded(w) \/ Stop(w) \/ Start(w) PROVE Typed'
  <2>1. UNCHANGED Data /\ (handler' = handler \/ handler' = [handler EXCEPT ![w] = NoLocals])
    BY <1>3 DEF Renew, SettleEnded, Stop, Start, data
  <2>2. QED
    BY <1>0, <2>1, LocalsType
<1>4. ASSUME NEW w \in Workers, NEW v \in Versions, Publish(w, v) PROVE Typed'
  <2>1. proc[w].attempt \in Nat
    BY DEF QueueFacts, TypeOK, Process
  <2>2. parts' \in [Versions -> Nat] /\ assessed' \in [Versions -> Nat]
    BY <1>4, <2>1 DEF Publish
  <2>3. QED
    BY <1>4, <2>2, LocalsType DEF Publish, Goes
<1>5. ASSUME NEW w \in Workers, NEW v \in Versions,
             \/ PublishRefused(w, v) \/ ParseFails(w, v) \/ PublishFenced(w, v)
             \/ Published(w, v) \/ PrepareFails(w, v) \/ ReuseDraft(w, v) \/ Saved(w, v)
      PROVE  Typed'
  BY <1>0, <1>5, LocalsType
  DEF PublishRefused, ParseFails, PublishFenced, Published, PrepareFails, ReuseDraft, Saved,
      Returns, data
<1>6. ASSUME NEW w \in Workers, NEW v \in Versions, PublishUnheard(w, v) PROVE Typed'
  <2>1. handler' \in [Workers -> Locals]
    BY <1>6, LocalsType DEF PublishUnheard, Returns
  <2>2. ackLosses' \in 0..AckLossBound
    <3>1. ackLosses < AckLossBound /\ ackLosses' = ackLosses + 1 /\ ackLosses \in 0..AckLossBound
      BY <1>6 DEF PublishUnheard
    <3>2. QED
      BY <3>1, PipelineAssumption
  <2>3. UNCHANGED <<parseable, parts, assessed, xruns, drafts>>
    BY <1>6 DEF PublishUnheard
  <2>4. QED
    BY <2>1, <2>2, <2>3
<1>7. ASSUME NEW w \in Workers, NEW v \in Versions, ReadParts(w, v) PROVE Typed'
  <2>1. handler' \in [Workers -> Locals]
    BY <1>7, LocalsType DEF ReadParts
  <2>2. UNCHANGED Data
    BY <1>7 DEF ReadParts, data
  <2>3. QED
    BY <1>0, <2>1, <2>2
<1>8. ASSUME NEW w \in Workers, NEW v \in Versions, NEW s \in XStatus,
             xruns' = WithRun(v, proc[w].attempt, s),
             UNCHANGED <<parseable, parts, assessed>>, drafts' \in [Versions -> SUBSET DraftSet],
             ackLosses' \in 0..AckLossBound, handler' \in [Workers -> Locals]
      PROVE  Typed'
  <2>1. /\ DOMAIN xruns' = Versions
        /\ \A u \in Versions : \A m \in DOMAIN xruns'[u] : xruns'[u][m] \in XStatus
    BY <1>8, WithRunType
  <2>2. QED
    BY <1>8, <2>1
<1>9. ASSUME NEW w \in Workers, NEW v \in Versions,
             BeginRun(w, v) \/ CallFails(w, v) \/ SaveRefused(w, v) \/ SaveFenced(w, v)
             \/ SaveUnheard(w, v)
      PROVE  Typed'
  <2>1. \E s \in XStatus : xruns' = WithRun(v, proc[w].attempt, s)
    BY <1>9 DEF BeginRun, CallFails, SaveRefused, SaveFenced, SaveUnheard, XStatus
  <2>2. handler' \in [Workers -> Locals]
    <3>1. CASE BeginRun(w, v)
      BY <3>1, LocalsType DEF BeginRun, Goes
    <3>2. ASSUME handler' = [handler EXCEPT ![w] = NoLocals] PROVE handler' \in [Workers -> Locals]
      BY <3>2, LocalsType
    <3>3. CallFails(w, v) \/ SaveRefused(w, v) \/ SaveFenced(w, v) \/ SaveUnheard(w, v)
          => handler' = [handler EXCEPT ![w] = NoLocals]
      BY Zenon DEF CallFails, SaveRefused, SaveFenced, SaveUnheard, Returns
    <3>4. QED
      BY <1>9, <3>1, <3>2, <3>3
  <2>3. ackLosses' \in 0..AckLossBound
    <3>1. CASE ackLosses' = ackLosses
      BY <3>1
    <3>2. CASE SaveUnheard(w, v)
      <4>1. ackLosses < AckLossBound /\ ackLosses' = ackLosses + 1 /\ ackLosses \in 0..AckLossBound
        BY <3>2 DEF SaveUnheard
      <4>2. QED
        BY <4>1, PipelineAssumption
    <3>3. /\ BeginRun(w, v) => ackLosses' = ackLosses
          /\ CallFails(w, v) => ackLosses' = ackLosses
          /\ SaveRefused(w, v) => ackLosses' = ackLosses
          /\ SaveFenced(w, v) => ackLosses' = ackLosses
      <4>1. BeginRun(w, v) => ackLosses' = ackLosses
        BY Zenon DEF BeginRun
      <4>2. CallFails(w, v) => ackLosses' = ackLosses
        BY Zenon DEF CallFails
      <4>3. SaveRefused(w, v) => ackLosses' = ackLosses
        BY Zenon DEF SaveRefused
      <4>4. SaveFenced(w, v) => ackLosses' = ackLosses
        BY Zenon DEF SaveFenced
      <4>5. QED
        BY <4>1, <4>2, <4>3, <4>4
    <3>4. QED
      BY <1>9, <3>1, <3>2, <3>3
  <2>4. UNCHANGED <<parseable, parts, assessed, drafts>>
    BY <1>9 DEF BeginRun, CallFails, SaveRefused, SaveFenced, SaveUnheard
  <2>5. QED
    BY <1>8, <2>1, <2>2, <2>3, <2>4
<1>10. ASSUME NEW w \in Workers, NEW v \in Versions, SaveDraft(w, v) PROVE Typed'
  <2>1. PICK c \in {0, handler[w].seen} :
          drafts' = [drafts EXCEPT ![v] = @ \cup {[attempt |-> proc[w].attempt, cites |-> c]}]
    BY <1>10 DEF SaveDraft
  <2>2. c \in Nat /\ proc[w].attempt \in Nat
    BY DEF QueueFacts, TypeOK, Process, Locals
  <2>3. drafts' \in [Versions -> SUBSET DraftSet]
    BY <2>1, <2>2 DEF DraftSet
  <2>4. handler' \in [Workers -> Locals]
    BY <1>10, LocalsType DEF SaveDraft, Goes
  <2>5. QED
    BY <1>8, <1>10, <2>3, <2>4 DEF SaveDraft, XStatus
<1>11. Time => Typed'
  BY <1>0 DEF Time, data
<1>12. UNCHANGED pipeline => Typed'
  BY <1>0 DEF pipeline
<1>13. QED
  BY <1>1, <1>2, <1>3, <1>4, <1>5, <1>6, <1>7, <1>9, <1>10, <1>11, <1>12
  DEF PipelineNext, Handle, Normalize, Extract

\* Every reachable state of the pipeline is well typed.
THEOREM PipelineTypeCorrect == PipelineSpec => [](PipelineTypeOK /\ DOMAIN xruns = Versions)
<1>1. Typed /\ QueueFacts /\ QueueFacts' /\ [PipelineNext]_pipeline => Typed'
  BY PipelineTypeStep DEF QueueFacts
<1>2. QED
  BY <1>1, PipelineTypeInit, PipelineQueueFacts, PTL DEF PipelineSpec, Typed

-----------------------------------------------------------------------------
(* What happens to parts, assessments and drafts.                          *)

\* Only two transactions write them.
LEMMA DataStep ==
  ASSUME [PipelineNext]_pipeline
  PROVE  \/ \E w \in Workers, v \in Versions : Publish(w, v) \/ SaveDraft(w, v)
         \/ UNCHANGED <<parts, assessed, drafts>>
<1>1. ASSUME NEW v \in Versions, Register(v) PROVE UNCHANGED data
  BY <1>1 DEF Register
<1>2. ASSUME NEW w \in Workers,
             (\E S \in SUBSET Lockable(w) : Poll(w, S)) \/ Renew(w) \/ SettleEnded(w)
             \/ Stop(w) \/ Start(w)
      PROVE  UNCHANGED data
  BY <1>2 DEF Poll, Renew, SettleEnded, Stop, Start
<1>3. ASSUME NEW w \in Workers, NEW v \in Versions, Normalize(w, v)
      PROVE  Publish(w, v) \/ UNCHANGED <<parts, assessed, drafts>>
  BY <1>3 DEF Normalize, PublishRefused, ParseFails, PublishFenced, Published, PublishUnheard, data
<1>4. ASSUME NEW w \in Workers, NEW v \in Versions, Extract(w, v)
      PROVE  SaveDraft(w, v) \/ UNCHANGED <<parts, assessed, drafts>>
  BY <1>4 DEF Extract, ReadParts, PrepareFails, ReuseDraft, BeginRun, CallFails, SaveRefused,
              SaveFenced, Saved, SaveUnheard, data
<1>5. Time \/ UNCHANGED pipeline => UNCHANGED <<parts, assessed, drafts>>
  BY DEF Time, pipeline, data
<1>6. UNCHANGED data => UNCHANGED <<parts, assessed, drafts>>
  BY DEF data
<1>7. QED
  BY <1>1, <1>2, <1>3, <1>4, <1>5, <1>6 DEF PipelineNext, Handle

\* A publication writes the newest attempt's parts and schedules extraction.
LEMMA PublishView ==
  ASSUME Typed, QueueFacts, NEW w \in Workers, NEW v \in Versions, Publish(w, v)
  PROVE  /\ parts' = [parts EXCEPT ![v] = job[NormalizeJob[v]].attempt]
         /\ assessed'[v] = IF assessed[v] = 0 THEN parts'[v] ELSE assessed[v]
         /\ \A u \in Versions \ {v} : assessed'[u] = assessed[u]
         /\ job[NormalizeJob[v]].attempt \in Nat \ {0}
         /\ job[NormalizeJob[v]].status = "running"
         /\ drafts' = drafts /\ ~Cited(v)
         /\ Enqueue(ExtractJob[v])
<1>1. proc[w].job = NormalizeJob[v] /\ Owns(w)
  BY DEF Publish, Normalizing
<1>2. proc[w].attempt = job[NormalizeJob[v]].attempt
      /\ proc[w].attempt \in Nat \ {0} /\ job[NormalizeJob[v]].status = "running"
  BY <1>1, OwnerIsNewest
<1>3. parts \in [Versions -> Nat] /\ assessed \in [Versions -> Nat]
  BY DEF Typed, PipelineTypeOK
<1>4. parts' = [parts EXCEPT ![v] = proc[w].attempt]
      /\ assessed' = [assessed EXCEPT ![v] = IF assessed[v] = 0 THEN proc[w].attempt ELSE assessed[v]]
  BY DEF Publish
<1>5. drafts' = drafts /\ ~Cited(v) /\ Enqueue(ExtractJob[v])
  BY DEF Publish
<1>6. QED
  BY <1>2, <1>3, <1>4, <1>5

\* Parts that are cited stay, and a draft cites what is there.
THEOREM CitationsStay == PipelineSpec => []CitationsResolve
<1>1. PipelineInit => CitationsResolve
  BY DEF PipelineInit, CitationsResolve
<1>2. ASSUME Typed, QueueFacts, CitationsResolve, [PipelineNext]_pipeline PROVE CitationsResolve'
  <2>0. drafts \in [Versions -> SUBSET DraftSet]
    BY <1>2 DEF Typed, PipelineTypeOK
  <2>1. ASSUME NEW w \in Workers, NEW v \in Versions, Publish(w, v) PROVE CitationsResolve'
    <3>1. \A u \in Versions \ {v} : parts'[u] = parts[u]
      BY <1>2, <2>1, PublishView DEF Typed, PipelineTypeOK
    <3>2. drafts' = drafts /\ \A d \in drafts[v] : d.cites = 0
      BY <1>2, <2>1, PublishView DEF Cited
    <3>3. QED
      BY <1>2, <3>1, <3>2 DEF CitationsResolve
  <2>2. ASSUME NEW w \in Workers, NEW v \in Versions, SaveDraft(w, v) PROVE CitationsResolve'
    <3>1. PICK c \in {0, parts[v]} :
            drafts' = [drafts EXCEPT ![v] = @ \cup {[attempt |-> proc[w].attempt, cites |-> c]}]
      BY <2>2 DEF SaveDraft
    <3>2. parts' = parts
      BY <2>2 DEF SaveDraft
    <3>3. \A u \in Versions \ {v} : drafts'[u] = drafts[u]
      BY <2>0, <3>1
    <3>4. \A d \in drafts'[v] : d \in drafts[v] \/ d.cites = c
      BY <2>0, <3>1
    <3>5. QED
      BY <1>2, <3>1, <3>2, <3>3, <3>4 DEF CitationsResolve
  <2>3. UNCHANGED <<parts, assessed, drafts>> => CitationsResolve'
    BY <1>2 DEF CitationsResolve
  <2>4. QED
    BY <1>2, <2>1, <2>2, <2>3, DataStep
<1>3. QED
  BY <1>1, <1>2, PipelineTypeCorrect, PipelineQueueFacts, PTL DEF PipelineSpec, Typed

\* Which rows a step adds.
LEMMA StatusStep ==
  ASSUME QueueFacts, [PipelineNext]_pipeline, NEW v \in Versions
  PROVE  \/ \E w \in Workers : Publish(w, v)
         \/ (job'[ExtractJob[v]].status # "absent" <=> job[ExtractJob[v]].status # "absent")
<1> DEFINE Same == job'[ExtractJob[v]].status # "absent" <=> job[ExtractJob[v]].status # "absent"
<1>0. ExtractJob[v] \in Jobs
  BY PipelineAssumption
<1>1. ASSUME NEW j \in Jobs, j # ExtractJob[v], Enqueue(j) PROVE Same
  <2>1. job \in [Jobs -> JobRow]
    BY DEF QueueFacts, TypeOK
  <2>2. job'[ExtractJob[v]] = job[ExtractJob[v]]
    BY <1>0, <1>1, <2>1 DEF Enqueue, SetJob
  <2>3. QED
    BY <2>2
<1>2. ASSUME NEW u \in Versions, Register(u) PROVE Same
  BY <1>1, <1>2, PipelineAssumption DEF Register
<1>3. ASSUME NEW w \in Workers, NEW u \in Versions \ {v}, Publish(w, u) PROVE Same
  BY <1>1, <1>3, PipelineAssumption DEF Publish
<1>4. ASSUME Onward \/ UNCHANGED vars PROVE Same
  <2>1. Enqueued' = Enqueued
    BY <1>4, RowsKept DEF QueueFacts
  <2>2. QED
    BY <1>0, <2>1 DEF Enqueued
<1>5. QED
  BY <1>2, <1>3, <1>4, PipelineOnward

\* Extraction is scheduled exactly when the parts and the assessment are there,
\* and both are the work of attempts that were granted.
THEOREM ExtractionIsEarned == PipelineSpec => []ExtractionFollowsParts
<1> DEFINE Parts(v) ==
      /\ parts[v] # 0 <=> assessed[v] # 0
      /\ assessed[v] <= parts[v] /\ parts[v] <= job[NormalizeJob[v]].attempt
<1>1. PipelineInit => ExtractionFollowsParts
  BY PipelineAssumption DEF PipelineInit, Init, NoRow, ExtractionFollowsParts
<1>2. ASSUME Typed, Typed', QueueFacts, QueueFacts', ExtractionFollowsParts, [PipelineNext]_pipeline
      PROVE  ExtractionFollowsParts'
  <2>0. \A v \in Versions :
          /\ parts[v] \in Nat /\ assessed[v] \in Nat
          /\ job[NormalizeJob[v]].attempt \in Nat /\ job'[NormalizeJob[v]].attempt \in Nat
          /\ job[NormalizeJob[v]].attempt <= job'[NormalizeJob[v]].attempt
    <3>1. \A v \in Versions : NormalizeJob[v] \in Jobs
      BY PipelineAssumption
    <3>2. \A j \in Jobs : job[j].attempt <= job'[j].attempt
      BY <1>2, QueueGrows
    <3>3. \A j \in Jobs : job[j].attempt \in Nat /\ job'[j].attempt \in Nat
      BY <1>2 DEF QueueFacts, TypeOK, JobRow
    <3>4. parts \in [Versions -> Nat] /\ assessed \in [Versions -> Nat]
      BY <1>2 DEF Typed, PipelineTypeOK
    <3>5. QED
      BY <3>1, <3>2, <3>3, <3>4
  <2>1. ASSUME NEW v \in Versions, UNCHANGED <<parts[v], assessed[v]>> PROVE Parts(v)'
    BY <1>2, <2>0, <2>1 DEF ExtractionFollowsParts
  <2>2. ASSUME NEW w \in Workers, NEW v \in Versions, Publish(w, v) PROVE Parts(v)' /\ parts'[v] # 0
    <3>1. parts'[v] = job[NormalizeJob[v]].attempt /\ job[NormalizeJob[v]].attempt # 0
          /\ assessed'[v] = IF assessed[v] = 0 THEN parts'[v] ELSE assessed[v]
      BY <1>2, <2>2, PublishView DEF Typed, PipelineTypeOK
    <3>2. assessed[v] <= job[NormalizeJob[v]].attempt
      BY <1>2, <2>0 DEF ExtractionFollowsParts
    <3>3. QED
      BY <2>0, <3>1, <3>2
  <2>3. ASSUME NEW w \in Workers, NEW v \in Versions, Publish(w, v)
        PROVE  job'[ExtractJob[v]].status # "absent"
    <3>1. Enqueue(ExtractJob[v]) /\ ExtractJob[v] \in Jobs /\ job \in [Jobs -> JobRow]
      BY <1>2, <2>3, PublishView, PipelineAssumption DEF QueueFacts, TypeOK
    <3>2. QED
      BY <3>1 DEF Enqueue, SetJob, NoRow
  <2>4. ASSUME NEW v \in Versions PROVE ~(\E w \in Workers : Publish(w, v)) => UNCHANGED <<parts[v], assessed[v]>>
    <3>1. ASSUME NEW w \in Workers, NEW u \in Versions \ {v}, Publish(w, u)
          PROVE  UNCHANGED <<parts[v], assessed[v]>>
      BY <1>2, <3>1, PublishView DEF Typed, PipelineTypeOK
    <3>2. ASSUME NEW w \in Workers, NEW u \in Versions, SaveDraft(w, u)
          PROVE  UNCHANGED <<parts[v], assessed[v]>>
      BY <3>2 DEF SaveDraft
    <3>3. QED
      BY <1>2, <3>1, <3>2, DataStep
  <2>5. ASSUME NEW v \in Versions PROVE Parts(v)'
        /\ (job'[ExtractJob[v]].status # "absent" <=> parts'[v] # 0)
    <3>1. CASE \E w \in Workers : Publish(w, v)
      BY <3>1, <2>2, <2>3
    <3>2. CASE ~\E w \in Workers : Publish(w, v)
      BY <1>2, <3>2, <2>1, <2>4, StatusStep DEF ExtractionFollowsParts
    <3>3. QED
      BY <3>1, <3>2
  <2>6. QED
    BY <2>5 DEF ExtractionFollowsParts
<1>3. QED
  BY <1>1, <1>2, PipelineTypeCorrect, PipelineQueueFacts, PTL DEF PipelineSpec, Typed

\* No later step takes back what a settled job left, and no older attempt's
\* parts replace newer ones.
THEOREM SettledWorkStands == PipelineSpec => SettledStands
<1> DEFINE Stands(v) ==
      /\ parts'[v] >= parts[v]
      /\ job[NormalizeJob[v]].status \in Terminal => parts'[v] = parts[v]
      /\ job[ExtractJob[v]].status \in Terminal => drafts'[v] = drafts[v]
<1>1. ASSUME Typed, QueueFacts, ExtractionFollowsParts, [PipelineNext]_pipeline,
             NEW v \in Versions
      PROVE  Stands(v)
  <2>0. \A u \in Versions : parts[u] \in Nat
    BY <1>1 DEF Typed, PipelineTypeOK
  <2>1. ASSUME NEW w \in Workers, NEW u \in Versions, Publish(w, u) PROVE Stands(v)
    <3>1. drafts' = drafts /\ job[NormalizeJob[u]].status = "running"
          /\ job[NormalizeJob[u]].attempt \in Nat
          /\ parts' = [parts EXCEPT ![u] = job[NormalizeJob[u]].attempt]
      BY <1>1, <2>1, PublishView
    <3>2. parts[u] <= job[NormalizeJob[u]].attempt
      BY <1>1 DEF ExtractionFollowsParts
    <3>3. parts \in [Versions -> Nat]
      BY <1>1 DEF Typed, PipelineTypeOK
    <3>4. "running" \notin Terminal
      BY DEF Terminal
    <3>5. CASE u = v
      BY <2>0, <3>1, <3>2, <3>3, <3>4, <3>5
    <3>6. CASE u # v
      BY <2>0, <3>1, <3>3, <3>6
    <3>7. QED
      BY <3>5, <3>6
  <2>2. ASSUME NEW w \in Workers, NEW u \in Versions, SaveDraft(w, u) PROVE Stands(v)
    <3>1. parts' = parts /\ Owns(w) /\ proc[w].job = ExtractJob[u]
      BY <2>2 DEF SaveDraft, Extracting
    <3>2. job[ExtractJob[u]].status = "running"
      BY <1>1, <3>1, OwnerIsNewest
    <3>3. "running" \notin Terminal
      BY DEF Terminal
    <3>4. drafts \in [Versions -> SUBSET DraftSet]
      BY <1>1 DEF Typed, PipelineTypeOK
    <3>5. PICK d : drafts' = [drafts EXCEPT ![u] = @ \cup {d}]
      BY <2>2 DEF SaveDraft
    <3>6. u # v => drafts'[v] = drafts[v]
      BY <3>4, <3>5
    <3>7. QED
      BY <2>0, <3>1, <3>2, <3>3, <3>6
  <2>3. UNCHANGED <<parts, assessed, drafts>> => Stands(v)
    BY <2>0
  <2>4. QED
    BY <1>1, <2>1, <2>2, <2>3, DataStep
<1>2. Typed /\ QueueFacts /\ ExtractionFollowsParts /\ [PipelineNext]_pipeline
      => [\A v \in Versions : Stands(v)]_pipeline
  BY <1>1
<1>3. QED
  BY <1>2, PipelineTypeCorrect, PipelineQueueFacts, ExtractionIsEarned, PTL
  DEF PipelineSpec, Typed, SettledStands

-----------------------------------------------------------------------------
(* The drafts of a version.                                                *)

\* Drafts that do not stand: the handler that committed one never heard of it, and overwrote
\* the outcome of its run.
Unheard(v) == drafts[v] \ Standing(v)

\* What an extraction knows of the drafts of its version.  A handler that has
\* not saved yet has no draft of its own; one that is calling the provider with
\* the newest attempt began when no draft stood, and nobody else can have saved
\* one since; the draft of a handler that saved stands until it ends; one that
\* ended well leaves a draft behind.
LocalOK(w, v) ==
  /\ Extracting(w, v) /\ handler[w].stage \in {"begun", "read", "calling"}
     => \A d \in drafts[v] : d.attempt # proc[w].attempt
  /\ Extracting(w, v) /\ handler[w].stage = "calling"
     /\ proc[w].attempt = job[ExtractJob[v]].attempt => Standing(v) = {}
  /\ Extracting(w, v) /\ handler[w].stage = "written"
     => \E d \in Standing(v) : d.attempt = proc[w].attempt
  /\ proc[w].phase = "settling" /\ proc[w].job = ExtractJob[v] /\ proc[w].verdict = "succeeded"
     => drafts[v] # {}

\* One draft stands at most; each other one has cost an acknowledgement.
RunsOK(v) ==
  /\ \A d, e \in Standing(v) : d = e
  /\ \A d, e \in drafts[v] : d.attempt = e.attempt => d = e
  /\ \A d \in drafts[v] : d.attempt \in DOMAIN xruns[v]
  /\ \A n \in DOMAIN xruns[v] : xruns[v][n] = "succeeded" => \E d \in drafts[v] : d.attempt = n
  /\ IsFiniteSet(drafts[v]) /\ Cardinality(Unheard(v)) <= ackLosses

VersionOK(v) ==
  /\ RunsOK(v)
  /\ \A d \in drafts[v] : d.attempt <= job[ExtractJob[v]].attempt
  /\ job[ExtractJob[v]].status = "succeeded" => drafts[v] # {}

DraftInv == \A v \in Versions : VersionOK(v) /\ \A w \in Workers : LocalOK(w, v)

LEMMA DraftInit == PipelineInit => DraftInv
<1> SUFFICES ASSUME PipelineInit PROVE DraftInv
  OBVIOUS
<1>1. \A v \in Versions : drafts[v] = {} /\ DOMAIN xruns[v] = {}
  <2>1. DOMAIN <<>> = {}
    OBVIOUS
  <2>2. \A v \in Versions : drafts[v] = {} /\ xruns[v] = <<>>
    BY DEF PipelineInit
  <2>3. QED
    BY <2>1, <2>2
<1>2. \A v \in Versions : job[ExtractJob[v]].status # "succeeded"
  BY PipelineAssumption DEF PipelineInit, Init, NoRow
<1>3. \A w \in Workers : proc[w].phase = "polling"
  BY DEF PipelineInit, Init, Idle
<1>4. ASSUME NEW v \in Versions PROVE VersionOK(v)
  <2>1. Standing(v) = {} /\ Unheard(v) = {}
    BY <1>1 DEF Standing, Unheard
  <2>2. IsFiniteSet({}) /\ Cardinality({}) = 0 /\ ackLosses = 0
    BY FS_EmptySet DEF PipelineInit
  <2>3. QED
    BY <1>1, <1>2, <2>1, <2>2 DEF VersionOK, RunsOK
<1>5. \A w \in Workers, v \in Versions : LocalOK(w, v)
  BY <1>3 DEF LocalOK, Extracting
<1>6. QED
  BY <1>4, <1>5 DEF DraftInv

\* A process that is not at the extraction of v claims nothing about it.
LEMMA LocalGone ==
  ASSUME NEW w \in Workers, NEW v \in Versions,
         proc'[w].job # ExtractJob[v] \/ proc'[w].phase \notin {"working", "settling"}
  PROVE  LocalOK(w, v)'
BY DEF LocalOK, Extracting

\* What a process knows stays true while its version gets no draft, and loses
\* the standing of no draft of its own.
LEMMA LocalKept ==
  ASSUME QueueFacts, QueueFacts', [PipelineNext]_pipeline, NEW w \in Workers, NEW v \in Versions,
         LocalOK(w, v), drafts'[v] = drafts[v], proc'[w] = proc[w], handler'[w] = handler[w],
         Standing(v)' \subseteq Standing(v),
         \A d \in Standing(v) : Extracting(w, v) /\ d.attempt = proc[w].attempt => d \in Standing(v)'
  PROVE  LocalOK(w, v)'
<1>1. ASSUME Extracting(w, v), proc[w].attempt = job'[ExtractJob[v]].attempt
      PROVE  proc[w].attempt = job[ExtractJob[v]].attempt
  <2>1. ExtractJob[v] \in Jobs /\ proc[w].job = ExtractJob[v]
    BY <1>1, PipelineAssumption DEF Extracting
  <2>2. job[ExtractJob[v]].attempt \in Nat /\ job'[ExtractJob[v]].attempt \in Nat
        /\ proc[w].attempt \in Nat
    BY <2>1 DEF QueueFacts, TypeOK, JobRow, Process
  <2>3. job[ExtractJob[v]].attempt <= job'[ExtractJob[v]].attempt
        /\ proc[w].attempt <= job[ExtractJob[v]].attempt
    BY <2>1, QueueGrows DEF QueueFacts, ClaimsFenced
  <2>4. QED
    BY <1>1, <2>2, <2>3
<1>2. Extracting(w, v)' <=> Extracting(w, v)
  BY DEF Extracting
<1>3. QED
  BY <1>1, <1>2 DEF LocalOK

\* A version stays in order when its drafts grow and its runs agree with them:
\* its job becomes succeeded only by the completion of a handler that ended well.
LEMMA VersionKept ==
  ASSUME QueueFacts, QueueFacts', DraftInv, [PipelineNext]_pipeline, NEW v \in Versions,
         RunsOK(v)', drafts[v] \subseteq drafts'[v], drafts'[v] \subseteq DraftSet,
         \A d \in drafts'[v] \ drafts[v] : d.attempt <= job[ExtractJob[v]].attempt
  PROVE  VersionOK(v)'
<1> DEFINE j == ExtractJob[v]
<1>0. j \in Jobs
  BY PipelineAssumption
<1>1. job[j].attempt \in Nat /\ job'[j].attempt \in Nat /\ job[j].attempt <= job'[j].attempt
  BY <1>0, QueueGrows DEF QueueFacts, TypeOK, JobRow
<1>2. \A d \in drafts'[v] : d.attempt \in Nat /\ d.attempt <= job[j].attempt
  BY DEF DraftInv, VersionOK, DraftSet
<1>3. job'[j].status = "succeeded" => drafts[v] # {}
  <2>1. RowStep(j)
    BY <1>0, PipelineQueueStep, StepView DEF QueueFacts
  <2>2. job'[j].status = "succeeded" => job[j].status = "succeeded" \/ EndedByOwner(j)
    <3>1. Kept(j) => job'[j].status = job[j].status
      BY DEF Kept, Tenure
    <3>2. Added(j) => job'[j].status = "queued"
      BY DEF Added, NoRow
    <3>3. ASSUME NEW w \in Workers, GrantedTo(j, w) PROVE job'[j].status = "running"
      BY <3>3 DEF GrantedTo, Granted
    <3>4. EndedByQueue(j) => job'[j].status \in {"failed", "cancelled"}
      BY DEF EndedByQueue, Ended
    <3>5. QED
      BY <2>1, <3>1, <3>2, <3>3, <3>4 DEF RowStep
  <2>3. ASSUME EndedByOwner(j), job'[j].status = "succeeded" PROVE drafts[v] # {}
    BY <2>3 DEF EndedByOwner, Ended, DraftInv, LocalOK
  <2>4. QED
    BY <2>2, <2>3 DEF DraftInv, VersionOK
<1>4. QED
  BY <1>1, <1>2, <1>3 DEF VersionOK

\* A process writes its own memory only.
LEMMA OneProcess ==
  ASSUME Typed, NEW w \in Workers, NEW u \in Workers \ {w},
         (\E S \in SUBSET Lockable(w) : Poll(w, S)) \/ Renew(w) \/ Handle(w)
         \/ SettleEnded(w) \/ Stop(w) \/ Start(w)
  PROVE  proc'[u] = proc[u] /\ handler'[u] = handler[u]
<1>0. proc \in [Workers -> Process] /\ handler \in [Workers -> Locals]
  BY DEF Typed, PipelineTypeOK, TypeOK
<1> DEFINE Same == proc'[u] = proc[u] /\ handler'[u] = handler[u]
<1>1. ASSUME NEW S \in SUBSET Lockable(w), Poll(w, S) PROVE Same
  BY <1>0, <1>1 DEF Poll, PollEmpty, Claim, Goes
<1>2. ASSUME HandlerEnds(w) \/ LeaseLost(w) \/ Restart(w) \/ Crash(w) \/ Release(w)
      PROVE  proc'[u] = proc[u]
  BY <1>0, <1>2 DEF HandlerEnds, LeaseLost, Restart, Crash, Release
<1>3. Renew(w) \/ Stop(w) \/ Start(w) => Same
  BY <1>0, <1>2 DEF Renew, Heartbeat, Stop, Start
<1>4. SettleEnded(w) => Same
  BY <1>0 DEF SettleEnded, Settle, Complete, Fail, LeaseLost
<1>5. ASSUME NEW v \in Versions, Normalize(w, v) \/ Extract(w, v) PROVE Same
  <2>1. Publish(w, v) \/ UNCHANGED vars => UNCHANGED proc
    BY DEF Publish, Enqueue, vars
  <2>2. proc'[u] = proc[u]
    BY <1>2, <1>5, <2>1, HandlerOnward
  <2>3. \A x : handler' = [handler EXCEPT ![w] = x] => handler'[u] = handler[u]
    BY <1>0
  <2>4. \A s : Goes(w, s) => handler'[u] = handler[u]
    BY <1>0 DEF Goes
  <2>5. Normalize(w, v) => handler'[u] = handler[u]
    BY <2>3, <2>4 DEF Normalize, Publish, PublishRefused, ParseFails, PublishFenced, Published,
                      PublishUnheard, Returns
  <2>6. Extract(w, v) => handler'[u] = handler[u]
    BY <2>3, <2>4 DEF Extract, ReadParts, PrepareFails, ReuseDraft, BeginRun, CallFails, SaveDraft,
                      SaveRefused, SaveFenced, Saved, SaveUnheard, Returns
  <2>7. QED
    BY <1>5, <2>2, <2>5, <2>6
<1>6. QED
  BY <1>1, <1>3, <1>4, <1>5 DEF Handle

\* A step that writes neither the drafts nor the runs of v leaves them standing.
LEMMA SameStanding ==
  ASSUME NEW v \in Versions, drafts'[v] = drafts[v], xruns'[v] = xruns[v]
  PROVE  Standing(v)' = Standing(v) /\ Unheard(v)' = Unheard(v)
BY DEF Standing, Unheard

\* Then they also stay in order, whether an acknowledgement is lost or not.
LEMMA SameRuns ==
  ASSUME Typed, Typed', NEW v \in Versions, RunsOK(v), drafts'[v] = drafts[v],
         xruns'[v] = xruns[v], ackLosses' \in {ackLosses, ackLosses + 1}
  PROVE  RunsOK(v)'
<1>1. Standing(v)' = Standing(v) /\ Unheard(v)' = Unheard(v)
  BY SameStanding
<1>2. IsFiniteSet(drafts[v]) /\ Unheard(v) \subseteq drafts[v]
  BY DEF RunsOK, Unheard
<1>3. Cardinality(Unheard(v)) \in Nat
  BY <1>2, FS_Subset, FS_CardinalityType
<1>4. ackLosses \in Nat /\ ackLosses' \in Nat
  BY PipelineAssumption DEF Typed, PipelineTypeOK
<1>5. Cardinality(Unheard(v)') <= ackLosses'
  BY <1>1, <1>3, <1>4 DEF RunsOK
<1>6. QED
  BY <1>1, <1>5 DEF RunsOK

\* What stays in order when a step writes neither drafts nor runs: everything
\* but what the acting process now claims.
LEMMA QuietStep ==
  ASSUME Typed, Typed', QueueFacts, QueueFacts', DraftInv, [PipelineNext]_pipeline,
         UNCHANGED <<xruns, drafts>>, ackLosses' \in {ackLosses, ackLosses + 1},
         \A w \in Workers : \/ proc'[w] = proc[w] /\ handler'[w] = handler[w]
                            \/ \A v \in Versions : LocalOK(w, v)'
  PROVE  DraftInv'
<1>1. ASSUME NEW w \in Workers, NEW v \in Versions PROVE LocalOK(w, v)'
  <2>1. Standing(v)' = Standing(v)
    BY SameStanding
  <2>2. QED
    BY <2>1, LocalKept DEF DraftInv
<1>2. ASSUME NEW v \in Versions PROVE VersionOK(v)'
  <2>1. RunsOK(v)'
    BY SameRuns DEF DraftInv, VersionOK
  <2>2. drafts'[v] \subseteq DraftSet
    BY DEF Typed, PipelineTypeOK
  <2>3. QED
    BY <2>1, <2>2, VersionKept
<1>3. QED
  BY <1>1, <1>2 DEF DraftInv

\* An attempt without a draft may record any outcome but success: it changes
\* nothing about the drafts that stand.
LEMMA UnsavedRun ==
  ASSUME Typed, Typed', DraftInv, NEW w \in Workers, NEW v \in Versions,
         Extracting(w, v), handler[w].stage \in {"read", "calling"},
         NEW s \in XStatus \ {"succeeded"}, xruns' = WithRun(v, proc[w].attempt, s),
         UNCHANGED <<drafts, ackLosses>>, NEW u \in Versions
  PROVE  RunsOK(u)' /\ Standing(u)' = Standing(u)
<1> DEFINE n == proc[w].attempt
<1>1. /\ DOMAIN xruns'[v] = DOMAIN xruns[v] \cup {n}
      /\ \A m \in DOMAIN xruns'[v] : xruns'[v][m] = IF m = n THEN s ELSE xruns[v][m]
      /\ \A x \in Versions \ {v} : xruns'[x] = xruns[x]
  BY WithRunType
<1>2. \A d \in drafts[v] : d.attempt # n
  BY DEF DraftInv, LocalOK
<1>3. RunsOK(u) /\ RunsOK(v)
  BY DEF DraftInv, VersionOK
<1>4. ackLosses \in Nat
  BY PipelineAssumption DEF Typed, PipelineTypeOK
<1> HIDE DEF n
<1>5. CASE u # v
  BY <1>1, <1>3, <1>4, <1>5, SameStanding, SameRuns
<1>6. CASE u = v
  <2>1. \A d \in drafts[v] : d.attempt \in DOMAIN xruns'[v] /\ xruns'[v][d.attempt] = xruns[v][d.attempt]
    BY <1>1, <1>2, <1>3 DEF RunsOK
  <2>2. \A m \in DOMAIN xruns'[v] : xruns'[v][m] = "succeeded" => \E d \in drafts[v] : d.attempt = m
    BY <1>1, <1>3 DEF RunsOK
  <2>3. Standing(v)' = Standing(v) /\ Unheard(v)' = Unheard(v)
    BY <2>1 DEF Standing, Unheard
  <2>4. QED
    BY <1>3, <1>6, <2>1, <2>2, <2>3 DEF RunsOK
<1>7. QED
  BY <1>5, <1>6

\* A step that writes the run of an unsaved attempt, or none, and no draft.
LEMMA RunStep ==
  ASSUME Typed, Typed', QueueFacts, QueueFacts', DraftInv, [PipelineNext]_pipeline,
         NEW w \in Workers, NEW v \in Versions, Extracting(w, v),
         handler[w].stage \in {"read", "calling"},
         NEW s \in XStatus \ {"succeeded"}, xruns' = WithRun(v, proc[w].attempt, s),
         UNCHANGED <<drafts, ackLosses>>,
         \A u \in Workers \ {w} : proc'[u] = proc[u] /\ handler'[u] = handler[u],
         \A u \in Versions : LocalOK(w, u)'
  PROVE  DraftInv'
<1>1. ASSUME NEW x \in Workers, NEW u \in Versions PROVE LocalOK(x, u)'
  <2>1. Standing(u)' = Standing(u)
    BY UnsavedRun
  <2>2. QED
    BY <2>1, LocalKept DEF DraftInv
<1>2. ASSUME NEW u \in Versions PROVE VersionOK(u)'
  <2>1. RunsOK(u)'
    BY UnsavedRun
  <2>2. drafts'[u] \subseteq DraftSet /\ drafts'[u] = drafts[u]
    BY DEF Typed, PipelineTypeOK
  <2>3. QED
    BY <2>1, <2>2, VersionKept
<1>3. QED
  BY <1>1, <1>2 DEF DraftInv

\* The draft that is saved is the only one that stands: its process still owns
\* the newest attempt, and none stood when it began.
LEMMA SaveStep ==
  ASSUME Typed, Typed', QueueFacts, QueueFacts', DraftInv, [PipelineNext]_pipeline,
         NEW w \in Workers, NEW v \in Versions, SaveDraft(w, v)
  PROVE  DraftInv'
<1> DEFINE n == proc[w].attempt
           j == ExtractJob[v]
<1>1. /\ Extracting(w, v) /\ handler[w].stage = "calling" /\ Owns(w) /\ proc[w].job = j
      /\ xruns' = WithRun(v, n, "succeeded")
      /\ handler' = [handler EXCEPT ![w].stage = "written"]
      /\ UNCHANGED vars /\ ackLosses' = ackLosses
  BY DEF SaveDraft, Goes, Extracting
<1>2. j \in Jobs /\ n = job[j].attempt /\ n \in Nat
  BY <1>1, OwnerIsNewest
<1>3. Standing(v) = {} /\ \A d \in drafts[v] : d.attempt # n
  BY <1>1, <1>2 DEF DraftInv, LocalOK
<1>4. PICK c : drafts' = [drafts EXCEPT ![v] = @ \cup {[attempt |-> n, cites |-> c]}]
  BY DEF SaveDraft
<1> DEFINE new == [attempt |-> n, cites |-> c]
<1>5. drafts'[v] = drafts[v] \cup {new} /\ \A u \in Versions \ {v} : drafts'[u] = drafts[u]
  BY <1>4 DEF Typed, PipelineTypeOK
<1>6. /\ DOMAIN xruns'[v] = DOMAIN xruns[v] \cup {n}
      /\ \A m \in DOMAIN xruns'[v] : xruns'[v][m] = IF m = n THEN "succeeded" ELSE xruns[v][m]
      /\ \A x \in Versions \ {v} : xruns'[x] = xruns[x]
  BY <1>1, WithRunType DEF XStatus
<1>7. proc' = proc /\ job' = job
  BY <1>1 DEF vars
<1>8. handler \in [Workers -> Locals]
  BY DEF Typed, PipelineTypeOK
<1>9. handler'[w].stage = "written" /\ \A u \in Workers \ {w} : handler'[u] = handler[u]
  BY <1>1, <1>8 DEF Locals
<1>10. new.attempt = n /\ new \notin drafts[v]
  BY <1>3
<1>11. RunsOK(v)
  BY DEF DraftInv, VersionOK
<1> HIDE DEF n, new
<1>12. Standing(v)' = {new} /\ Unheard(v)' = Unheard(v)
  <2>1. \A d \in drafts[v] : d \notin Standing(v)' /\ d \notin Standing(v)
    <3>1. \A d \in drafts[v] : d.attempt \in DOMAIN xruns[v] /\ xruns[v][d.attempt] # "succeeded"
      BY <1>3, <1>11 DEF Standing, RunsOK
    <3>2. \A d \in drafts[v] : xruns'[v][d.attempt] # "succeeded"
      BY <1>3, <1>6, <3>1
    <3>3. QED
      BY <3>1, <3>2 DEF Standing
  <2>2. new \in Standing(v)'
    BY <1>5, <1>6, <1>10 DEF Standing
  <2>3. Standing(v)' = {new}
    BY <1>5, <2>1, <2>2 DEF Standing
  <2>4. Unheard(v) = drafts[v] /\ Unheard(v)' = drafts[v]
    BY <1>3, <1>5, <1>10, <2>3 DEF Unheard
  <2>5. QED
    BY <2>3, <2>4
<1>13. RunsOK(v)'
  <2>1. \A d, e \in drafts'[v] : d.attempt = e.attempt => d = e
    BY <1>3, <1>5, <1>10, <1>11 DEF RunsOK
  <2>2. \A d \in drafts'[v] : d.attempt \in DOMAIN xruns'[v]
    BY <1>5, <1>6, <1>10, <1>11 DEF RunsOK
  <2>3. \A m \in DOMAIN xruns'[v] : xruns'[v][m] = "succeeded" => \E d \in drafts'[v] : d.attempt = m
    BY <1>5, <1>6, <1>10, <1>11 DEF RunsOK
  <2>4. IsFiniteSet(drafts'[v])
    BY <1>5, <1>11, FS_AddElement DEF RunsOK
  <2>5. Cardinality(Unheard(v)') <= ackLosses'
    BY <1>1, <1>11, <1>12 DEF RunsOK
  <2>6. QED
    BY <1>12, <2>1, <2>2, <2>3, <2>4, <2>5 DEF RunsOK
<1>14. ackLosses \in Nat
  BY PipelineAssumption DEF Typed, PipelineTypeOK
<1>15. ASSUME NEW u \in Versions PROVE VersionOK(u)'
  <2>1. drafts'[u] \subseteq DraftSet
    BY DEF Typed, PipelineTypeOK
  <2>2. CASE u = v
    <3>1. \A d \in drafts'[v] \ drafts[v] : d.attempt <= job[j].attempt
      BY <1>2, <1>5, <1>10
    <3>2. drafts[v] \subseteq drafts'[v]
      BY <1>5
    <3>3. QED
      BY <1>13, <2>1, <2>2, <3>1, <3>2, VersionKept
  <2>3. CASE u # v
    <3>1. RunsOK(u) /\ drafts'[u] = drafts[u] /\ xruns'[u] = xruns[u]
      BY <1>5, <1>6, <2>3 DEF DraftInv, VersionOK
    <3>2. RunsOK(u)'
      BY <1>1, <1>14, <3>1, SameRuns
    <3>3. QED
      BY <2>1, <3>1, <3>2, VersionKept
  <2>4. QED
    BY <2>2, <2>3
<1>16. ASSUME NEW u \in Versions \ {v} PROVE ExtractJob[u] # j
  BY PipelineAssumption
<1>17. ASSUME NEW u \in Versions PROVE LocalOK(w, u)'
  <2>1. CASE u = v
    <3>1. new \in Standing(v)' /\ new.attempt = proc'[w].attempt /\ proc'[w].phase = "working"
      BY <1>1, <1>7, <1>10, <1>12 DEF Extracting, n
    <3>2. QED
      BY <1>9, <2>1, <3>1 DEF LocalOK
  <2>2. CASE u # v
    BY <1>1, <1>7, <1>16, <2>2, LocalGone
  <2>3. QED
    BY <2>1, <2>2
<1>18. ASSUME NEW x \in Workers \ {w}, NEW u \in Versions PROVE LocalOK(x, u)'
  <2>1. proc'[x] = proc[x] /\ handler'[x] = handler[x] /\ LocalOK(x, u)
    BY <1>7, <1>9 DEF DraftInv
  <2>2. CASE u # v
    BY <1>5, <1>6, <2>1, <2>2, SameStanding, LocalKept
  <2>3. CASE u = v
    <3>1. proc[x].job = j => proc[x].attempt # n
      BY <1>1, <1>2 DEF QueueFacts, ClaimsFenced, ClaimOf, n
    <3>2. Extracting(x, v)' <=> Extracting(x, v)
      BY <1>7 DEF Extracting
    <3>3. Extracting(x, v) => proc[x].job = j
      BY DEF Extracting
    <3>4. ~(Extracting(x, v) /\ handler[x].stage = "written")
      BY <1>3, <2>1, <2>3 DEF LocalOK
    <3>5. drafts'[v] # {}
      BY <1>5
    <3>6. QED
      BY <1>2, <1>5, <1>7, <1>10, <2>1, <2>3, <3>1, <3>2, <3>3, <3>4, <3>5 DEF LocalOK
  <2>4. QED
    BY <2>2, <2>3
<1>19. QED
  BY <1>15, <1>17, <1>18 DEF DraftInv

\* An extraction that returns without success, or well with a draft there.
LEMMA ReturnsLocal ==
  ASSUME Typed, NEW w \in Workers, NEW v \in Versions, NEW x, Returns(w, x),
         x # "succeeded" \/ drafts'[v] # {} \/ proc[w].job # ExtractJob[v]
  PROVE  LocalOK(w, v)'
<1>1. proc'[w].phase = "settling" /\ proc'[w].verdict = x /\ proc'[w].job = proc[w].job
  <2>1. TypeOK /\ proc \in [Workers -> Process] /\ proc[w] \in Process
    BY DEF Typed, PipelineTypeOK, TypeOK
  <2>2. proc' = [proc EXCEPT ![w] = [proc[w] EXCEPT !.phase = "settling", !.verdict = x]]
    BY <2>1, ReturnsView
  <2>3. proc'[w] = [proc[w] EXCEPT !.phase = "settling", !.verdict = x]
    BY <2>1, <2>2
  <2>4. QED
    BY <2>1, <2>3 DEF Process
<1>2. QED
  BY <1>1 DEF LocalOK, Extracting

\* A handler that never hears of its commit overwrites the outcome of its own
\* run: its draft was the one that stood, and an acknowledgement is spent.
LEMMA UnheardStep ==
  ASSUME Typed, Typed', QueueFacts, QueueFacts', DraftInv, [PipelineNext]_pipeline,
         NEW w \in Workers, NEW v \in Versions, SaveUnheard(w, v),
         \A u \in Workers \ {w} : proc'[u] = proc[u] /\ handler'[u] = handler[u],
         \A u \in Versions : LocalOK(w, u)'
  PROVE  DraftInv'
<1> DEFINE n == proc[w].attempt
<1>1. /\ Extracting(w, v) /\ handler[w].stage = "written"
      /\ xruns' = WithRun(v, n, "failed") /\ drafts' = drafts /\ ackLosses' = ackLosses + 1
  BY DEF SaveUnheard
<1>2. /\ DOMAIN xruns'[v] = DOMAIN xruns[v] \cup {n}
      /\ \A m \in DOMAIN xruns'[v] : xruns'[v][m] = IF m = n THEN "failed" ELSE xruns[v][m]
      /\ \A x \in Versions \ {v} : xruns'[x] = xruns[x]
  BY <1>1, WithRunType DEF XStatus
<1>3. PICK own \in Standing(v) : own.attempt = n
  BY <1>1 DEF DraftInv, LocalOK
<1>4. RunsOK(v)
  BY DEF DraftInv, VersionOK
<1> HIDE DEF n
<1>5. Standing(v) = {own} /\ own \in drafts[v] /\ \A d \in drafts[v] : d.attempt = n => d = own
  BY <1>3, <1>4 DEF RunsOK, Standing
<1>6. Standing(v)' = {} /\ Unheard(v)' = Unheard(v) \cup {own} /\ own \notin Unheard(v)
  <2>1. ASSUME NEW d \in drafts[v] PROVE d \notin Standing(v)'
    <3>1. d.attempt \in DOMAIN xruns'[v]
      BY <1>2, <1>4 DEF RunsOK
    <3>2. d # own => d.attempt # n /\ xruns[v][d.attempt] # "succeeded"
      BY <1>5 DEF Standing
    <3>3. xruns'[v][d.attempt] # "succeeded"
      BY <1>2, <1>3, <3>1, <3>2
    <3>4. QED
      BY <3>3 DEF Standing
  <2>2. Standing(v)' = {}
    BY <1>1, <2>1 DEF Standing
  <2>3. QED
    BY <1>1, <1>5, <2>2 DEF Unheard
<1>7. Cardinality(Unheard(v)') <= ackLosses'
  <2>1. IsFiniteSet(Unheard(v))
    BY <1>4, FS_Subset DEF RunsOK, Unheard
  <2>2. Cardinality(Unheard(v) \cup {own}) = Cardinality(Unheard(v)) + 1
        /\ Cardinality(Unheard(v)) \in Nat
    BY <1>6, <2>1, FS_AddElement, FS_CardinalityType
  <2>3. ackLosses \in Nat
    BY PipelineAssumption DEF Typed, PipelineTypeOK
  <2>4. QED
    BY <1>1, <1>4, <1>6, <2>2, <2>3 DEF RunsOK
<1>8. RunsOK(v)'
  <2>1. \A d \in drafts'[v] : d.attempt \in DOMAIN xruns'[v]
    BY <1>1, <1>2, <1>4 DEF RunsOK
  <2>2. \A m \in DOMAIN xruns'[v] : xruns'[v][m] = "succeeded" => \E d \in drafts'[v] : d.attempt = m
    BY <1>1, <1>2, <1>4 DEF RunsOK
  <2>3. QED
    BY <1>1, <1>4, <1>6, <1>7, <2>1, <2>2 DEF RunsOK
<1>9. ASSUME NEW u \in Versions PROVE VersionOK(u)'
  <2>1. drafts'[u] \subseteq DraftSet /\ drafts'[u] = drafts[u]
    BY <1>1 DEF Typed, PipelineTypeOK
  <2>2. CASE u = v
    BY <1>8, <2>1, <2>2, VersionKept
  <2>3. CASE u # v
    <3>1. RunsOK(u) /\ xruns'[u] = xruns[u]
      BY <1>2, <2>3 DEF DraftInv, VersionOK
    <3>2. RunsOK(u)'
      BY <1>1, <2>1, <3>1, SameRuns
    <3>3. QED
      BY <2>1, <3>2, VersionKept
  <2>4. QED
    BY <2>2, <2>3
<1>10. ASSUME NEW x \in Workers \ {w}, NEW u \in Versions PROVE LocalOK(x, u)'
  <2>1. LocalOK(x, u) /\ drafts'[u] = drafts[u]
    BY <1>1 DEF DraftInv
  <2>2. CASE u # v
    <3>1. Standing(u)' = Standing(u)
      BY <1>2, <2>1, <2>2, SameStanding
    <3>2. QED
      BY <2>1, <3>1, LocalKept
  <2>3. CASE u = v
    <3>1. ExtractJob[v] \in Jobs
      BY PipelineAssumption
    <3>2. Extracting(x, v) => proc[x].attempt # n
      BY <1>1, <3>1 DEF QueueFacts, ClaimsFenced, ClaimOf, Extracting, n
    <3>3. Extracting(x, v) => \A d \in Standing(v) : d.attempt # proc[x].attempt
      BY <1>3, <1>5, <3>2
    <3>4. QED
      BY <1>6, <2>1, <2>3, <3>3, LocalKept
  <2>4. QED
    BY <2>2, <2>3
<1>11. QED
  BY <1>9, <1>10 DEF DraftInv

LEMMA ExtractStep ==
  ASSUME Typed, Typed', QueueFacts, QueueFacts', DraftInv, [PipelineNext]_pipeline,
         NEW w \in Workers, NEW v \in Versions, Extract(w, v),
         \A u \in Workers \ {w} : proc'[u] = proc[u] /\ handler'[u] = handler[u]
  PROVE  DraftInv'
<1>0. handler \in [Workers -> Locals] /\ proc \in [Workers -> Process]
      /\ \A u \in Versions \ {v} : ExtractJob[u] # ExtractJob[v]
  BY PipelineAssumption DEF Typed, PipelineTypeOK, TypeOK
<1>1. CASE ReadParts(w, v)
  <2>1. proc' = proc /\ handler[w].stage = "begun" /\ handler'[w].stage = "read"
        /\ job' = job /\ UNCHANGED <<xruns, drafts, ackLosses>>
    BY <1>0, <1>1 DEF ReadParts, vars, data
  <2>2. ASSUME NEW u \in Versions PROVE LocalOK(w, u)'
    BY <2>1 DEF DraftInv, LocalOK, Extracting
  <2>3. QED
    BY <2>1, <2>2, QuietStep
<1>2. CASE PrepareFails(w, v)
  <2>1. PICK x \in {"retry", "failed"} : Returns(w, x)
    BY <1>2 DEF PrepareFails
  <2>2. UNCHANGED <<xruns, drafts, ackLosses>>
    BY <1>2 DEF PrepareFails, data
  <2>3. ASSUME NEW u \in Versions PROVE LocalOK(w, u)'
    BY <2>1, ReturnsLocal
  <2>4. QED
    BY <2>2, <2>3, QuietStep
<1>3. ASSUME Returns(w, "succeeded"), UNCHANGED data, drafts[v] # {}, Extracting(w, v) PROVE DraftInv'
  <2>1. UNCHANGED <<xruns, drafts, ackLosses>>
    BY <1>3 DEF data
  <2>2. ASSUME NEW u \in Versions PROVE LocalOK(w, u)'
    BY <1>0, <1>3, <2>1, ReturnsLocal DEF Extracting
  <2>3. QED
    BY <2>1, <2>2, QuietStep
<1>4. CASE ReuseDraft(w, v)
  BY <1>3, <1>4 DEF ReuseDraft
<1>5. CASE Saved(w, v)
  <2>1. drafts[v] # {}
    BY <1>5 DEF Saved, DraftInv, LocalOK, Standing
  <2>2. QED
    BY <1>3, <1>5, <2>1 DEF Saved
<1>6. CASE BeginRun(w, v)
  <2>1. /\ proc' = proc /\ job' = job /\ handler[w].stage = "read" /\ Extracting(w, v)
        /\ xruns' = WithRun(v, proc[w].attempt, "running")
        /\ UNCHANGED <<drafts, ackLosses>>
    BY <1>6 DEF BeginRun, vars
  <2>2. handler'[w].stage = "calling"
    BY <1>0, <1>6 DEF BeginRun, Goes, Locals
  <2>3. Standing(v) = {} /\ Standing(v)' = {}
    <3>1. \A d \in drafts[v] : xruns[v][d.attempt] # "succeeded" /\ d.attempt # proc[w].attempt
                              /\ d.attempt \in DOMAIN xruns[v]
      BY <1>6 DEF BeginRun, DraftInv, VersionOK, RunsOK, LocalOK
    <3>2. \A d \in drafts[v] : xruns'[v][d.attempt] = xruns[v][d.attempt]
      BY <2>1, <3>1, WithRunType DEF XStatus
    <3>3. QED
      BY <2>1, <3>1, <3>2 DEF Standing
  <2>4. ASSUME NEW u \in Versions PROVE LocalOK(w, u)'
    <3>1. u # v => proc'[w].job # ExtractJob[u]
      BY <1>0, <2>1 DEF Extracting
    <3>2. CASE u # v
      BY <3>1, <3>2, LocalGone
    <3>3. CASE u = v
      <4>1. \A d \in drafts'[v] : d.attempt # proc'[w].attempt
        BY <2>1 DEF DraftInv, LocalOK
      <4>2. QED
        BY <2>1, <2>2, <2>3, <3>3, <4>1 DEF LocalOK, Extracting
    <3>4. QED
      BY <3>2, <3>3
  <2>5. QED
    BY <2>1, <2>4, RunStep DEF XStatus
<1>7. ASSUME NEW s \in XStatus \ {"succeeded"}, Extracting(w, v), handler[w].stage = "calling",
             xruns' = WithRun(v, proc[w].attempt, s), UNCHANGED <<drafts, ackLosses>>,
             LeaseLost(w) \/ \E x \in {"retry", "failed"} : Returns(w, x)
      PROVE  DraftInv'
  <2>1. ASSUME NEW u \in Versions PROVE LocalOK(w, u)'
    <3>1. CASE LeaseLost(w)
      <4>1. proc'[w].phase = "polling"
        BY <1>0, <3>1 DEF LeaseLost, Idle
      <4>2. QED
        BY <4>1, LocalGone
    <3>2. CASE \E x \in {"retry", "failed"} : Returns(w, x)
      BY <3>2, ReturnsLocal
    <3>3. QED
      BY <1>7, <3>1, <3>2
  <2>2. QED
    BY <1>7, <2>1, RunStep
<1>8. CASE CallFails(w, v)
  <2>1. PICK f \in {<<"retry", "retry">>, <<"failed", "failed">>, <<"failed", "retry">>} :
          xruns' = WithRun(v, proc[w].attempt, f[1]) /\ Returns(w, f[2])
    BY <1>8 DEF CallFails
  <2>2. f[1] \in XStatus \ {"succeeded"} /\ f[2] \in {"retry", "failed"}
    BY DEF XStatus
  <2>3. Extracting(w, v) /\ handler[w].stage = "calling" /\ UNCHANGED <<drafts, ackLosses>>
    BY <1>8 DEF CallFails
  <2>4. QED
    BY <1>7, <2>1, <2>2, <2>3
<1>9. CASE SaveRefused(w, v)
  BY <1>7, <1>9 DEF SaveRefused, XStatus
<1>10. CASE SaveFenced(w, v)
  BY <1>7, <1>10 DEF SaveFenced, XStatus
<1>11. CASE SaveUnheard(w, v)
  <2>1. ASSUME NEW u \in Versions PROVE LocalOK(w, u)'
    BY <1>11, ReturnsLocal DEF SaveUnheard
  <2>2. QED
    BY <1>11, <2>1, UnheardStep
<1>12. CASE SaveDraft(w, v)
  BY <1>12, SaveStep
<1>13. QED
  BY <1>1, <1>2, <1>4, <1>5, <1>6, <1>8, <1>9, <1>10, <1>11, <1>12 DEF Extract

LEMMA NormalizeStep ==
  ASSUME Typed, Typed', QueueFacts, QueueFacts', DraftInv, [PipelineNext]_pipeline,
         NEW w \in Workers, NEW v \in Versions, Normalize(w, v),
         \A u \in Workers \ {w} : proc'[u] = proc[u] /\ handler'[u] = handler[u]
  PROVE  DraftInv'
<1>0. proc \in [Workers -> Process]
  BY DEF Typed, PipelineTypeOK, TypeOK
<1>2. proc[w].job = NormalizeJob[v] /\ \A u \in Versions : ExtractJob[u] # NormalizeJob[v]
  BY PipelineAssumption
  DEF Normalize, Publish, PublishRefused, ParseFails, PublishFenced, Published, PublishUnheard,
      Normalizing
<1>3. UNCHANGED <<xruns, drafts>> /\ ackLosses' \in {ackLosses, ackLosses + 1}
  BY DEF Normalize, Publish, PublishRefused, ParseFails, PublishFenced, Published,
         PublishUnheard, data
<1>4. proc'[w].phase = "polling" \/ proc'[w].job = proc[w].job
  <2>1. LeaseLost(w) => proc'[w].phase = "polling"
    BY <1>0 DEF LeaseLost, Idle
  <2>2. HandlerEnds(w) => proc'[w].job = proc[w].job
    BY <1>0 DEF HandlerEnds, Process
  <2>3. Publish(w, v) \/ UNCHANGED vars => UNCHANGED proc
    BY DEF Publish, Enqueue, vars
  <2>4. QED
    BY <2>1, <2>2, <2>3, HandlerOnward
<1>5. ASSUME NEW u \in Versions PROVE LocalOK(w, u)'
  BY <1>2, <1>4, LocalGone
<1>6. QED
  BY <1>3, <1>5, QuietStep

LEMMA DraftStep ==
  ASSUME Typed, Typed', QueueFacts, QueueFacts', DraftInv, [PipelineNext]_pipeline
  PROVE  DraftInv'
<1>0. handler \in [Workers -> Locals] /\ proc \in [Workers -> Process]
  BY DEF Typed, PipelineTypeOK, TypeOK
<1>1. ASSUME UNCHANGED data, proc' = proc, handler' = handler PROVE DraftInv'
  BY <1>1, QuietStep DEF data
<1>2. ASSUME NEW v \in Versions, Register(v) PROVE DraftInv'
  BY <1>1, <1>2 DEF Register, Enqueue
<1>3. Time \/ UNCHANGED pipeline => DraftInv'
  BY <1>1 DEF Time, Tick, pipeline, data
<1>4. ASSUME NEW w \in Workers, UNCHANGED data,
             (\E S \in SUBSET Lockable(w) : Poll(w, S)) \/ Renew(w)
             \/ SettleEnded(w) \/ Stop(w) \/ Start(w),
             \A v \in Versions : LocalOK(w, v)'
      PROVE  DraftInv'
  BY <1>4, OneProcess, QuietStep DEF data
<1>5. ASSUME NEW w \in Workers, NEW S \in SUBSET Lockable(w), Poll(w, S) PROVE DraftInv'
  <2>1. CASE PollEmpty(w, S) /\ UNCHANGED <<data, handler>>
    BY <1>1, <2>1 DEF PollEmpty
  <2>2. ASSUME NEW j \in Jobs, Claim(w, j, S), Goes(w, "begun"), UNCHANGED data,
               NEW v \in Versions
        PROVE  LocalOK(w, v)'
    <3>1. proc'[w] = [phase |-> "working", job |-> j, attempt |-> job[j].attempt + 1, verdict |-> "none"]
      BY <1>0, <2>2 DEF Claim
    <3>2. handler'[w].stage = "begun" /\ drafts' = drafts
      BY <1>0, <2>2 DEF Goes, Locals, data
    <3>3. j = ExtractJob[v] => \A d \in drafts[v] : d.attempt # job[j].attempt + 1
      <4>1. job[j].attempt \in Nat /\ \A d \in drafts[v] : d.attempt \in Nat
        BY DEF QueueFacts, TypeOK, JobRow, Typed, PipelineTypeOK, DraftSet
      <4>2. j = ExtractJob[v] => \A d \in drafts[v] : d.attempt <= job[j].attempt
        BY DEF DraftInv, VersionOK
      <4>3. QED
        BY <4>1, <4>2
    <3>4. QED
      BY <3>1, <3>2, <3>3 DEF LocalOK, Extracting
  <2>3. QED
    BY <1>4, <1>5, <2>1, <2>2 DEF Poll
<1>6. ASSUME NEW w \in Workers, Renew(w) PROVE DraftInv'
  BY <1>1, <1>6 DEF Renew, Heartbeat
<1>7. ASSUME NEW w \in Workers, NEW p \in {"polling", "down"}, UNCHANGED data, proc' = [proc EXCEPT ![w] = Idle(p)],
             SettleEnded(w) \/ Stop(w) \/ Start(w)
      PROVE  DraftInv'
  <2>1. proc'[w].phase = p
    BY <1>0, <1>7 DEF Idle
  <2>2. QED
    BY <1>4, <1>7, <2>1, LocalGone
<1>8. ASSUME NEW w \in Workers, SettleEnded(w) \/ Stop(w) \/ Start(w) PROVE DraftInv'
  <2>1. SettleEnded(w) => UNCHANGED data /\ proc' = [proc EXCEPT ![w] = Idle("polling")]
    BY DEF SettleEnded, Settle, Complete, Fail, LeaseLost
  <2>2. Stop(w) => UNCHANGED data /\ proc' = [proc EXCEPT ![w] = Idle("down")]
    BY DEF Stop, Release, Crash
  <2>3. Start(w) => UNCHANGED data /\ proc' = [proc EXCEPT ![w] = Idle("polling")]
    BY DEF Start, Restart
  <2>4. QED
    BY <1>7, <1>8, <2>1, <2>2, <2>3
<1>9. ASSUME NEW w \in Workers, Handle(w) PROVE DraftInv'
  BY <1>9, OneProcess, ExtractStep, NormalizeStep DEF Handle
<1>10. QED
  BY <1>2, <1>3, <1>5, <1>6, <1>8, <1>9 DEF PipelineNext

LEMMA DraftsInOrder == PipelineSpec => []DraftInv
<1>1. Typed /\ Typed' /\ QueueFacts /\ QueueFacts' /\ DraftInv /\ [PipelineNext]_pipeline => DraftInv'
  BY DraftStep
<1>2. QED
  BY <1>1, DraftInit, PipelineTypeCorrect, PipelineQueueFacts, PTL DEF PipelineSpec, Typed

\* What a job that succeeded leaves, also when acknowledgements are lost.
SuccessDrafted == \A v \in Versions :
  job[ExtractJob[v]].status = "succeeded" => drafts[v] # {}

\* Whatever crashes, lost leases, retries and lost acknowledgements an extraction
\* goes through: a version never has two drafts whose runs both succeeded, so
\* the draft a retry reuses is unique.
THEOREM OneDraftStands == PipelineSpec => []OneStands
<1>1. DraftInv => OneStands
  BY DEF DraftInv, VersionOK, RunsOK, OneStands
<1>2. QED
  BY <1>1, DraftsInOrder, PTL

\* Sets with one member at most.
LEMMA AtMostOne ==
  ASSUME NEW S, \A d, e \in S : d = e
  PROVE  IsFiniteSet(S) /\ Cardinality(S) \in 0..1
<1>1. CASE S = {}
  BY <1>1, FS_EmptySet
<1>2. CASE S # {}
  <2>1. PICK d : S = {d}
    BY <1>2
  <2>2. QED
    BY <2>1, FS_Singleton
<1>3. QED
  BY <1>1, <1>2

\* A second draft takes a commit whose acknowledgement was lost: beyond one, a
\* version has at most one draft for each of them.  The duplicates of the run
\* `pipeline_unheard' have no other cause.
THEOREM DuplicatesAreUnheard == PipelineSpec => []FewDrafts
<1>1. Typed /\ DraftInv => FewDrafts
  <2> SUFFICES ASSUME Typed, DraftInv, NEW v \in Versions
               PROVE  IsFiniteSet(drafts[v]) /\ Cardinality(drafts[v]) <= 1 + ackLosses
    BY DEF FewDrafts
  <2>1. RunsOK(v)
    BY DEF DraftInv, VersionOK
  <2>2. IsFiniteSet(Standing(v)) /\ Cardinality(Standing(v)) \in 0..1
    BY <2>1, AtMostOne DEF RunsOK
  <2>3. IsFiniteSet(Unheard(v)) /\ Cardinality(Unheard(v)) <= ackLosses
    BY <2>1, FS_Subset DEF RunsOK, Unheard
  <2>4. drafts[v] = Standing(v) \cup Unheard(v) /\ Standing(v) \cap Unheard(v) = {}
    BY DEF Standing, Unheard
  <2>5. Cardinality(Standing(v) \cap Unheard(v)) = 0
    BY <2>4, FS_EmptySet
  <2>6. Cardinality(drafts[v]) = Cardinality(Standing(v)) + Cardinality(Unheard(v))
    <3>1. Cardinality(Unheard(v)) \in Nat /\ Cardinality(Standing(v)) \in Nat
      BY <2>2, <2>3, FS_CardinalityType
    <3>2. Cardinality(Standing(v) \cup Unheard(v))
            = Cardinality(Standing(v)) + Cardinality(Unheard(v)) - Cardinality(Standing(v) \cap Unheard(v))
      BY <2>2, <2>3, FS_Union
    <3>3. QED
      BY <2>4, <2>5, <3>1, <3>2
  <2>7. ackLosses \in Nat /\ Cardinality(Unheard(v)) \in Nat
    BY <2>3, FS_CardinalityType, PipelineAssumption DEF Typed, PipelineTypeOK
  <2>8. QED
    BY <2>1, <2>2, <2>3, <2>6, <2>7 DEF RunsOK
<1>2. QED
  BY <1>1, PipelineTypeCorrect, DraftsInOrder, PTL DEF Typed

\* An extraction job that succeeded has a draft, whatever went unheard; but not
\* always one that stands, since a superseded handler may strike it out later.
THEOREM SuccessLeavesADraft == PipelineSpec => []SuccessDrafted
<1>1. DraftInv => SuccessDrafted
  BY DEF DraftInv, VersionOK, SuccessDrafted
<1>2. QED
  BY <1>1, DraftsInOrder, PTL

\* While every acknowledgement comes back, every draft stands.
LEMMA EveryDraftStands ==
  ASSUME AckLossBound = 0, Typed, DraftInv, NEW v \in Versions
  PROVE  drafts[v] = Standing(v) /\ RunsOK(v)
<1>1. RunsOK(v)
  BY DEF DraftInv, VersionOK
<1>2. ackLosses = 0
  BY DEF Typed, PipelineTypeOK
<1>3. IsFiniteSet(Unheard(v))
  BY <1>1, FS_Subset DEF RunsOK, Unheard
<1>4. Cardinality(Unheard(v)) = 0
  BY <1>1, <1>2, <1>3, FS_CardinalityType DEF RunsOK
<1>5. Unheard(v) = {}
  BY <1>3, <1>4, FS_EmptySet
<1>6. QED
  BY <1>1, <1>5 DEF Unheard, Standing

\* While no acknowledgement of a commit is lost, a version gets one draft set at
\* most, whatever crashes, lost leases and retries its extraction goes through.
THEOREM OneDraftEach == AckLossBound = 0 => (PipelineSpec => []OneDraft)
<1> SUFFICES ASSUME AckLossBound = 0 PROVE PipelineSpec => []OneDraft
  OBVIOUS
<1>1. Typed /\ DraftInv => OneDraft
  BY EveryDraftStands DEF RunsOK, OneDraft
<1>2. QED
  BY <1>1, PipelineTypeCorrect, DraftsInOrder, PTL DEF Typed

\* Then a succeeded extraction job has its draft, and runs and drafts agree.
THEOREM SuccessHasItsDraft == AckLossBound = 0 => (PipelineSpec => []SucceededHasDraft)
<1> SUFFICES ASSUME AckLossBound = 0 PROVE PipelineSpec => []SucceededHasDraft
  OBVIOUS
<1>1. Typed /\ DraftInv => SucceededHasDraft
  <2> SUFFICES ASSUME Typed, DraftInv, NEW v \in Versions
               PROVE  /\ job[ExtractJob[v]].status = "succeeded" => drafts[v] # {}
                      /\ \A d \in drafts[v] : d.attempt \in DOMAIN xruns[v] /\ xruns[v][d.attempt] = "succeeded"
                      /\ \A n \in DOMAIN xruns[v] : xruns[v][n] = "succeeded"
                                                    => \E d \in drafts[v] : d.attempt = n
    BY DEF SucceededHasDraft
  <2>1. drafts[v] = Standing(v) /\ RunsOK(v)
    BY EveryDraftStands
  <2>2. \A d \in drafts[v] : xruns[v][d.attempt] = "succeeded"
    BY <2>1 DEF Standing
  <2>3. job[ExtractJob[v]].status = "succeeded" => drafts[v] # {}
    BY DEF DraftInv, VersionOK
  <2>4. QED
    BY <2>1, <2>2, <2>3 DEF RunsOK
<1>2. QED
  BY <1>1, PipelineTypeCorrect, DraftsInOrder, PTL DEF Typed
=============================================================================
