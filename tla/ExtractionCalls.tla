--------------------------- MODULE ExtractionCalls ---------------------------
(***************************************************************************)
(* The model calls of the extraction jobs of one worker process: the loop  *)
(* of extract_candidates over the windows of a source, the two exchanges   *)
(* OllamaProvider has with the server for each window (GET /api/tags,      *)
(* which attests the model, then POST /api/chat), and the call history     *)
(* the extraction run keeps as evidence of who answered.                   *)
(*                                                                         *)
(* run_worker awaits its handlers in one task, so the ContextVars of the   *)
(* provider outlive a window, a job and a failure; only a new process      *)
(* starts with fresh ones.  The server may change the model it serves at   *)
(* any moment.  A settlement may lose its lease, so a job may be attempted *)
(* again after any outcome.  Drafts are the matter of IngestionPipeline.   *)
(***************************************************************************)
EXTENDS Naturals, Sequences, FiniteSets, SequencesExt

CONSTANTS
  Sources,       \* source versions with an extraction job
  Samples,       \* texts _windows is checked on: the lengths of their parts, in order
  Texts,         \* those of them the sources may have
  Limit,         \* max_window_characters
  Digests,       \* models the server may have under the configured name
  Configured,    \* the digest of the settings
  NoDigest,
  AttemptBound,  \* bound: attempts of jobs
  SwapBound,     \* bound: changes of the served model
  CrashBound     \* bound: crashes and shutdowns of the process

ASSUME CallsAssumption ==
  /\ Configured \in Digests /\ NoDigest \notin Digests
  /\ Sources # {} /\ Limit \in Nat \ {0}
  /\ Texts \subseteq Samples /\ Samples \subseteq Seq(Nat)
  /\ AttemptBound \in Nat /\ SwapBound \in Nat /\ CrashBound \in Nat

VARIABLES
  text,      \* the parts of each source
  provider,  \* what build_model_provider chose: "ollama" or "unavailable"
  served,    \* the model behind the configured name
  context,   \* the ContextVars of the provider
  call,      \* the locals of the handler that runs
  attempts,  \* attempts granted; the last of them is the one that runs
  run,       \* the extraction_runs row of each attempt
  swaps, crashes

vars == <<text, provider, served, context, call, attempts, run, swaps, crashes>>

-----------------------------------------------------------------------------
(* _windows.                                                               *)

Least(a, b) == IF a < b THEN a ELSE b

\* The slices range(0, len(text), limit) cuts out of part p.
Slices(t, p) == [k \in 1..((t[p] + Limit - 1) \div Limit) |->
  [part |-> p, from |-> (k - 1) * Limit, to |-> Least(k * Limit, t[p])]]

Items(t) == FlattenSeq([p \in DOMAIN t |-> Slices(t, p)])

Length(item) == item.to - item.from

\* Mutant: the size is not reset with the window.
PackSizeKept(acc, item) ==
  IF acc.current # <<>> /\ acc.size + Length(item) > Limit
  THEN [windows |-> Append(acc.windows, acc.current), current |-> <<item>>,
        size |-> acc.size + Length(item)]
  ELSE [acc EXCEPT !.current = Append(@, item), !.size = @ + Length(item)]

\* An item joins the window that is open, or closes it and opens the next.
Pack(acc, item) ==
  IF acc.current # <<>> /\ acc.size + Length(item) > Limit
  THEN [windows |-> Append(acc.windows, acc.current), current |-> <<item>>, size |-> Length(item)]
  ELSE [acc EXCEPT !.current = Append(@, item), !.size = @ + Length(item)]

Windows(t) ==
  LET packed == FoldLeft(Pack, [windows |-> <<>>, current |-> <<>>, size |-> 0], Items(t))
  IN IF packed.current = <<>> THEN packed.windows ELSE Append(packed.windows, packed.current)

-----------------------------------------------------------------------------
(* Errors, evidence, the rows.                                             *)

\* "escaped" is an exception the provider does not translate: httpx raises a
\* DecodingError, which is no TransportError, for a body it cannot decompress.
Escaped    == "escaped"
Retryable  == {"provider_timeout", "provider_unavailable"}
Unanswered == {"provider_timeout", "provider_response_invalid"}
Errors     == Retryable \cup Unanswered \cup
  {"none", Escaped, "internal_error", "provider_schema", "provider_model_digest_mismatch",
   "provider_metadata_missing", "provider_metadata_mismatch"}

\* The digest of the provider that stands for a disabled one.
Nobody  == "unavailable"
Declared == IF provider = "ollama" THEN Configured ELSE Nobody

\* Which exchange a response came from, the model that gave it, and whether the
\* model was changed between the attestation and the answer.  The code learns
\* the digest of a GET /api/tags; that of a POST /api/chat is the model's.
NoEvidence == [attempt |-> 0, window |-> 0, kind |-> "none", digest |-> NoDigest, raced |-> FALSE]
Exchanged(kind, digest) ==
  [attempt |-> attempts, window |-> call.window, kind |-> kind, digest |-> digest, raced |-> call.raced]

NoGeneration == [digest |-> NoDigest, evidence |-> NoEvidence, error |-> "none", outcome |-> "none"]
Fresh == [prepared |-> Declared, response |-> NoEvidence, generation |-> NoGeneration]

NoCall == [phase |-> "idle", source |-> CHOOSE s \in Sources : TRUE, window |-> 0,
           raced |-> FALSE, calls |-> <<>>, error |-> "none"]
NoRun  == [source |-> CHOOSE s \in Sources : TRUE, digest |-> NoDigest, status |-> "absent",
           calls |-> <<>>, error |-> "none"]

Init ==
  /\ text \in [Sources -> Texts]
  /\ provider \in {"ollama", "unavailable"}
  /\ served = Configured
  /\ context = Fresh
  /\ call = NoCall
  /\ attempts = 0
  /\ run = [n \in 1..AttemptBound |-> NoRun]
  /\ swaps = 0 /\ crashes = 0

-----------------------------------------------------------------------------
(* OllamaProvider.                                                         *)

\* What may come back of GET /api/tags.  A request that fails leaves the
\* response metadata of an earlier exchange in place.
TagsReplies ==
  {[error |-> e, response |-> context.response] : e \in Unanswered \cup {Escaped}}
  \cup {[error |-> "provider_schema", response |-> Exchanged("tags", NoDigest)]}
  \cup {[error |-> IF served = Configured THEN "none" ELSE "provider_model_digest_mismatch",
         response |-> Exchanged("tags", served)]}

\* Mutant: the answer leaves the metadata of the request before it.
ChatRepliesUnmarked ==
  {[error |-> e, response |-> context.response] :
     e \in Unanswered \cup {Escaped, "provider_schema", "none"}}

\* What may come back of POST /api/chat; any model answers to the name.
ChatReplies ==
  {[error |-> e, response |-> context.response] : e \in Unanswered \cup {Escaped}}
  \cup {[error |-> e, response |-> Exchanged("chat", served)] : e \in {"provider_schema", "none"}}

\* Mutant: only an answer that came back is recorded.
RecordedIfAnswered(reply) ==
  [context EXCEPT
    !.response = reply.response,
    !.generation = IF reply.error \in Unanswered \cup {Escaped} THEN context.generation
                   ELSE [digest |-> context.prepared, evidence |-> reply.response, error |-> reply.error,
                         outcome |-> IF reply.error = "none" THEN "succeeded" ELSE "failed"]]

\* _record_generation_metadata: what a generation came to, unless an exception
\* escaped that nothing records.
Recorded(reply) ==
  [context EXCEPT
    !.response = reply.response,
    !.generation = IF reply.error = Escaped THEN context.generation
                   ELSE [digest |-> context.prepared, evidence |-> reply.response, error |-> reply.error,
                         outcome |-> IF reply.error = "none" THEN "succeeded" ELSE "failed"]]

\* prepare_generation: a successful attestation is no generation yet.
Prepared(reply) ==
  IF reply.error = "none"
  THEN [context EXCEPT !.response = reply.response, !.prepared = reply.response.digest]
  ELSE Recorded(reply)

-----------------------------------------------------------------------------
(* extract_candidates.                                                     *)

Working(phase) == call.phase = phase

Take(s) ==
  /\ Working("idle") /\ attempts < AttemptBound
  /\ attempts' = attempts + 1
  /\ call' = [NoCall EXCEPT !.phase = "preparing", !.source = s]
  /\ UNCHANGED <<text, provider, served, context, run, swaps, crashes>>

\* The provider attests its model before anything is recorded; if it cannot,
\* the attempt fails without a run.
Prepare ==
  /\ Working("preparing") /\ provider = "ollama"
  /\ \E reply \in TagsReplies :
       /\ context' = Prepared(reply)
       /\ call' = IF reply.error = "none" THEN [call EXCEPT !.phase = "opening"] ELSE NoCall
  /\ UNCHANGED <<text, provider, served, attempts, run, swaps, crashes>>

PrepareUnavailable ==
  /\ Working("preparing") /\ provider = "unavailable"
  /\ call' = [call EXCEPT !.phase = "opening"]
  /\ UNCHANGED <<text, provider, served, context, attempts, run, swaps, crashes>>

Extracted(s) == \E n \in DOMAIN run : run[n].source = s /\ run[n].status = "succeeded"

\* A draft of an earlier attempt whose run succeeded is the result.
Reuse ==
  /\ Working("opening") /\ Extracted(call.source)
  /\ call' = NoCall
  /\ UNCHANGED <<text, provider, served, context, attempts, run, swaps, crashes>>

\* The phase after `done' windows were answered.
Turn(done) == IF done = Len(Windows(text[call.source])) THEN "saving" ELSE "attesting"

\* Mutant: the run of the source is looked up, not that of the attempt.
OpenOfSource ==
  /\ Working("opening") /\ ~Extracted(call.source)
  /\ run' = IF \E n \in DOMAIN run : run[n].source = call.source /\ run[n].status = "retry"
            THEN [n \in DOMAIN run |-> IF run[n].source = call.source /\ run[n].status = "retry"
                                       THEN [run[n] EXCEPT !.status = "running", !.calls = <<>>] ELSE run[n]]
            ELSE [run EXCEPT ![attempts] = [NoRun EXCEPT !.source = call.source,
                                              !.digest = context.prepared, !.status = "running"]]
  /\ call' = [call EXCEPT !.phase = Turn(0), !.window = 1]
  /\ UNCHANGED <<text, provider, served, context, attempts, swaps, crashes>>

\* The run of this attempt, with the identity the provider has just attested.
Open ==
  /\ Working("opening") /\ ~Extracted(call.source)
  /\ run' = [run EXCEPT ![attempts] = [NoRun EXCEPT !.source = call.source,
                                         !.digest = context.prepared, !.status = "running"]]
  /\ call' = [call EXCEPT !.phase = Turn(0), !.window = 1]
  /\ UNCHANGED <<text, provider, served, context, attempts, swaps, crashes>>

\* The call a window's entry is made of: the last one the provider recorded.
Entry(generation) ==
  [window |-> call.window, digest |-> generation.digest, evidence |-> generation.evidence,
   outcome |-> generation.outcome, error |-> generation.error]

Matches(generation) == generation.digest = run[attempts].digest

\* Mutant: a retryable failure is tried again at once.
FailedWithRetry(generation, error) ==
  IF error \in Retryable
  THEN [call EXCEPT !.phase = "attesting", !.calls = Append(@, Entry(generation))]
  ELSE [call EXCEPT !.phase = "failing", !.error = error,
                    !.calls = IF generation = NoGeneration THEN @ ELSE Append(@, Entry(generation))]

\* Mutant: the same window is tried until it is answered.
FailedUntilAnswered(generation, error) ==
  [call EXCEPT !.phase = "attesting"]

\* The except branch: the provider's metadata are the evidence of the failure;
\* without any, or with another identity in them, that is the error.
Failed(generation, error) ==
  [call EXCEPT
    !.phase = "failing",
    !.calls = IF generation = NoGeneration THEN @ ELSE Append(@, Entry(generation)),
    !.error = IF generation = NoGeneration THEN "provider_metadata_missing"
              ELSE IF ~Matches(generation) THEN "provider_metadata_mismatch"
              ELSE error]

\* An answer under the run's identity is kept, and the next window is due.
Answered(generation) ==
  IF ~Matches(generation) THEN Failed(generation, "none")
  ELSE [call EXCEPT !.phase = Turn(call.window), !.window = @ + 1,
                    !.calls = Append(@, Entry(generation))]

\* Mutant: generate trusts the attestation of the job's beginning.
AttestOnce ==
  /\ Working("attesting") /\ provider = "ollama"
  /\ call' = [call EXCEPT !.phase = "chatting", !.raced = FALSE]
  /\ UNCHANGED <<text, provider, served, context, attempts, run, swaps, crashes>>

\* generate attests the model again for every window.
Attest ==
  /\ Working("attesting") /\ provider = "ollama"
  /\ \E reply \in TagsReplies :
       LET heard == Prepared(reply) IN
       /\ context' = heard
       /\ call' = IF reply.error = "none" THEN [call EXCEPT !.phase = "chatting", !.raced = FALSE]
                  ELSE Failed(heard.generation, reply.error)
  /\ UNCHANGED <<text, provider, served, attempts, run, swaps, crashes>>

Chat ==
  /\ Working("chatting")
  /\ \E reply \in ChatReplies :
       LET heard == Recorded(reply) IN
       /\ context' = heard
       /\ call' = IF reply.error = "none" THEN Answered(heard.generation)
                  ELSE Failed(heard.generation, reply.error)
  /\ UNCHANGED <<text, provider, served, attempts, run, swaps, crashes>>

\* UnavailableProvider.generate raises and never has metadata.
GenerateUnavailable ==
  /\ Working("attesting") /\ provider = "unavailable"
  /\ call' = Failed(context.generation, "provider_unavailable")
  /\ UNCHANGED <<text, provider, served, context, attempts, run, swaps, crashes>>

Ends(status, error, calls) ==
  /\ run' = [run EXCEPT ![attempts] = [@ EXCEPT !.status = status, !.error = error, !.calls = calls]]
  /\ call' = NoCall
  /\ UNCHANGED <<text, provider, served, context, attempts, swaps, crashes>>

\* _record_provider_failure.
RecordFailure ==
  /\ Working("failing")
  /\ Ends(IF call.error \in Retryable THEN "retry" ELSE "failed",
          IF call.error = Escaped THEN "internal_error" ELSE call.error, call.calls)

\* The final transaction, with the draft.
Save ==
  /\ Working("saving")
  /\ Ends("succeeded", "none", call.calls)

\* The claim is lost or a citation no longer resolves: the transaction rolls
\* back, the history with it, and the handler marks the run.
SaveFails ==
  /\ Working("saving")
  /\ Ends("failed", "internal_error", run[attempts].calls)

-----------------------------------------------------------------------------
(* The surroundings.                                                       *)

\* The name is given to another model.
Swap(d) ==
  /\ swaps < SwapBound /\ d # served
  /\ served' = d /\ swaps' = swaps + 1
  /\ call' = [call EXCEPT !.raced = @ \/ Working("chatting")]
  /\ UNCHANGED <<text, provider, context, attempts, run, crashes>>

\* The process dies or is shut down; the next one has fresh ContextVars.
Crash ==
  /\ crashes < CrashBound
  /\ crashes' = crashes + 1
  /\ context' = Fresh
  /\ call' = NoCall
  /\ UNCHANGED <<text, provider, served, attempts, run, swaps>>

Handle ==
  \/ Prepare \/ PrepareUnavailable \/ Reuse \/ Open
  \/ Attest \/ Chat \/ GenerateUnavailable
  \/ RecordFailure \/ Save \/ SaveFails

Next ==
  \/ \E s \in Sources : Take(s)
  \/ Handle
  \/ \E d \in Digests : Swap(d)
  \/ Crash

Spec == Init /\ [][Next]_vars

\* Every request ends: httpx has its timeout, the database its own.
FairSpec == Spec /\ WF_vars(Handle)

-----------------------------------------------------------------------------
(* What a run's history is worth.                                          *)

Evidence == [attempt : 0..AttemptBound, window : Nat, kind : {"none", "tags", "chat"},
             digest : Digests \cup {NoDigest}, raced : BOOLEAN]
Identities == Digests \cup {NoDigest, Nobody}
Generations == [digest : Identities, evidence : Evidence, error : Errors,
                outcome : {"none", "succeeded", "failed"}]
Contexts == [prepared : Identities, response : Evidence, generation : Generations]
Entries == [window : Nat, digest : Identities, evidence : Evidence, error : Errors,
            outcome : {"succeeded", "failed"}]
Calls == [source : Sources, window : Nat, raced : BOOLEAN, calls : Seq(Entries), error : Errors,
          phase : {"idle", "preparing", "opening", "attesting", "chatting", "failing", "saving"}]
Rows == [source : Sources, digest : Identities, calls : Seq(Entries), error : Errors,
         status : {"absent", "running", "succeeded", "retry", "failed"}]

\* Everything is of its type, and a recorded generation has an outcome.
TypeOK ==
  /\ text \in [Sources -> Texts] /\ provider \in {"ollama", "unavailable"} /\ served \in Digests
  /\ context \in Contexts /\ context.prepared = Declared
  /\ context.generation = NoGeneration \/ context.generation.outcome # "none"
  /\ call \in Calls
  /\ attempts \in 0..AttemptBound /\ run \in [1..AttemptBound -> Rows]
  /\ swaps \in 0..SwapBound /\ crashes \in 0..CrashBound

Histories == {call.calls} \cup {run[n].calls : n \in DOMAIN run}

Covered(t) ==
  LET windows == Windows(t)
      items == FlattenSeq(windows)
      size(w) == FoldLeft(LAMBDA sum, item : sum + Length(item), 0, w)
  IN /\ \A p \in DOMAIN t : \A c \in 0..(t[p] - 1) :
          Cardinality({i \in DOMAIN items : items[i].part = p /\ items[i].from <= c /\ c < items[i].to}) = 1
     /\ \A i, j \in DOMAIN items : i < j =>
          \/ items[i].part < items[j].part
          \/ items[i].part = items[j].part /\ items[i].to <= items[j].from
     /\ \A k \in DOMAIN windows : windows[k] # <<>> /\ size(windows[k]) <= Limit
     /\ \A k \in 1..(Len(windows) - 1) : size(windows[k]) + Length(windows[k + 1][1]) > Limit

Miscut == {t \in Samples : ~Covered(t)}

\* _windows neither drops, repeats nor reorders text: the items of its windows
\* are slices of the parts in order that hold each character once, each window
\* fits the limit, and none is closed before the item that would not fit.
TextIsCovered == Miscut = {} /\ \A s \in Sources : Covered(text[s])

\* A history has the windows of the source one after the other, and only the
\* last of its calls may have failed.
HistoryFollowsWindows == \A calls \in Histories : \A i \in DOMAIN calls :
  calls[i].window = i /\ (i < Len(calls) => calls[i].outcome = "succeeded")

\* A succeeded run has an answer for every window, each with the evidence of
\* its own chat and under the identity the run declares.
SucceededIsAnswered == \A n \in DOMAIN run : run[n].status = "succeeded" =>
  /\ Len(run[n].calls) = Len(Windows(text[run[n].source]))
  /\ \A i \in DOMAIN run[n].calls : LET e == run[n].calls[i] IN
       /\ e.outcome = "succeeded" /\ e.digest = run[n].digest
       /\ e.evidence.kind = "chat" /\ e.evidence.attempt = n /\ e.evidence.window = i

\* A run that ended with an error of the provider has the call that failed with
\* this error at the end of its history, and is retried only for a passing one.
FailureNamesItsCause == \A n \in DOMAIN run : LET r == run[n] IN
  r.status \in {"retry", "failed"} /\ r.error \notin {"internal_error", "provider_metadata_missing"} =>
    /\ r.calls # <<>>
    /\ r.calls[Len(r.calls)].outcome = "failed" /\ r.calls[Len(r.calls)].error = r.error
    /\ r.status = "retry" <=> r.error \in Retryable

\* An answer of another model than the run declares is accepted only if the
\* model was changed between the attestation of that very window and its answer.
UnnoticedOnlyInARace == \A calls \in Histories : \A i \in DOMAIN calls :
  calls[i].outcome = "succeeded" /\ calls[i].evidence.digest # Configured => calls[i].evidence.raced

\* The history and identity of a run that ended never change, nor does its end.
EvidenceStands == [][\A n \in DOMAIN run :
  run[n].status \notin {"absent", "running"} => run'[n] = run[n]]_vars

\* An attempt comes to an end, whatever the server answers.
EveryAttemptEnds == ~Working("idle") ~> Working("idle")
=============================================================================
