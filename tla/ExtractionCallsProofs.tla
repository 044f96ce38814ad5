------------------------- MODULE ExtractionCallsProofs -------------------------
(***************************************************************************)
(* Proofs about ExtractionCalls: what a call history says holds for any    *)
(* texts, any number of attempts, changes of the model and crashes.  The   *)
(* proofs use the windows only as something the loop goes through; how     *)
(* _windows cuts a text is the subject of WindowsProofs.                   *)
(***************************************************************************)
EXTENDS ExtractionCalls, TLAPS

\* An answer of another model than the configured one was raced by the change.
Honest(x) == x.outcome = "succeeded" /\ x.evidence.digest # Configured => x.evidence.raced

\* Entry i of attempt n is the answer to that very window.
Own(e, n, i) ==
  /\ e.window = i /\ e.outcome = "succeeded" /\ e.digest = Declared /\ Honest(e)
  /\ e.evidence.kind = "chat" /\ e.evidence.attempt = n /\ e.evidence.window = i

AllOwn(calls, n) == \A i \in 1..Len(calls) : Own(calls[i], n, i)

\* A history that ends with the call that failed with `error'; an exception
\* that escaped leaves whatever the provider had recorded before.
EndsFailed(calls, n, error) ==
  /\ Len(calls) # 0
  /\ \A i \in 1..Len(calls) : i # Len(calls) => Own(calls[i], n, i)
  /\ LET last == calls[Len(calls)] IN
       /\ last.window = Len(calls) /\ Honest(last)
       /\ error = Escaped \/ (last.outcome = "failed" /\ last.error = error)

Broken(calls, n, error) ==
  \/ error = "provider_metadata_missing" /\ AllOwn(calls, n)
  \/ error \notin {"provider_metadata_missing", "internal_error"} /\ EndsFailed(calls, n, error)

\* The row of attempt n.
RowOK(n) ==
  /\ run[n].status \in {"absent", "running"} => run[n].calls = <<>>
  /\ n > attempts => run[n].status = "absent"
  /\ run[n].status = "succeeded" =>
       /\ AllOwn(run[n].calls, n) /\ run[n].digest = Declared
       /\ Len(run[n].calls) = Len(Windows(text[run[n].source]))
  /\ run[n].status \in {"retry", "failed"} =>
       \/ run[n].status = "failed" /\ run[n].error = "internal_error"
          /\ (run[n].calls = <<>> \/ EndsFailed(run[n].calls, n, Escaped))
       \/ /\ Broken(run[n].calls, n, run[n].error) /\ run[n].error # Escaped
          /\ run[n].status = "retry" <=> run[n].error \in Retryable

Underway == {"attesting", "chatting", "failing", "saving"}

\* The handler that runs, and the row it will close.
CallOK ==
  /\ call.phase # "idle" => attempts # 0
  /\ call.phase \in {"idle", "preparing", "opening"} => call.calls = <<>>
  /\ call.phase \in {"preparing", "opening"} => run[attempts].status = "absent"
  /\ call.phase \in Underway =>
       run[attempts].status = "running" /\ run[attempts].source = call.source /\ run[attempts].digest = Declared
  /\ call.phase \in {"attesting", "chatting"} => AllOwn(call.calls, attempts) /\ Len(call.calls) + 1 = call.window
  /\ call.phase = "saving" =>
       AllOwn(call.calls, attempts) /\ Len(call.calls) = Len(Windows(text[call.source]))
  /\ call.phase = "failing" => Broken(call.calls, attempts, call.error)
  /\ call.phase = "chatting" => provider = "ollama" /\ (served = Configured \/ call.raced)

\* What the provider remembers.
ContextOK ==
  \/ context.generation = NoGeneration
  \/ context.generation.digest = Declared /\ Honest(context.generation) /\ provider = "ollama"

CallsInv == TypeOK /\ ContextOK /\ CallOK /\ \A n \in 1..AttemptBound : RowOK(n)

-----------------------------------------------------------------------------
(* Lemmas.                                                                 *)

\* Appending to a sequence keeps what it had and puts the element last.
LEMMA Appended ==
  ASSUME NEW S, NEW q \in Seq(S), NEW e \in S
  PROVE  /\ Append(q, e) \in Seq(S) /\ Len(Append(q, e)) = Len(q) + 1
         /\ Len(q) \in Nat /\ Len(Append(q, e)) \in Nat
         /\ \A i \in 1..Len(q) : Append(q, e)[i] = q[i]
         /\ Append(q, e)[Len(q) + 1] = e
  OBVIOUS

\* The values variables start from are of their types.
LEMMA Blanks ==
  /\ NoEvidence \in Evidence
  /\ NoGeneration \in Generations
  /\ NoCall \in Calls /\ NoCall.phase = "idle" /\ NoCall.calls = <<>>
  /\ NoRun \in Rows /\ NoRun.status = "absent" /\ NoRun.calls = <<>>
  /\ (CHOOSE s \in Sources : TRUE) \in Sources
<1>1. (CHOOSE s \in Sources : TRUE) \in Sources
  BY CallsAssumption
<1>2. NoEvidence \in Evidence
  BY CallsAssumption DEF NoEvidence, Evidence
<1>3. NoGeneration \in Generations
  BY <1>2 DEF NoGeneration, Generations, Identities, Errors
<1>4. NoCall \in Calls /\ NoCall.phase = "idle" /\ NoCall.calls = <<>>
  BY <1>1 DEF NoCall, Calls, Errors
<1>5. NoRun \in Rows /\ NoRun.status = "absent" /\ NoRun.calls = <<>>
  BY <1>1 DEF NoRun, Rows, Errors, Identities
<1> QED
  BY <1>1, <1>2, <1>3, <1>4, <1>5

LEMMA FreshTyped ==
  /\ Fresh \in Contexts /\ Fresh.prepared = Declared /\ Fresh.generation = NoGeneration
  BY Blanks, CallsAssumption DEF Fresh, Contexts, Identities, Declared, Nobody

\* What the server may answer to the attestation.
LEMMA TagsTyped ==
  ASSUME TypeOK, NEW reply \in TagsReplies
  PROVE  /\ reply.error \in Errors /\ reply.response \in Evidence
         /\ reply.error # "internal_error" /\ reply.error # "provider_metadata_missing"
         /\ reply.error = "none" => reply.response.digest = Configured /\ served = Configured
<1>1. \A d \in Digests \cup {NoDigest} : Exchanged("tags", d) \in Evidence /\ Exchanged("tags", d).digest = d
  BY CallsAssumption DEF TypeOK, Exchanged, Evidence, Calls
<1>2. context.response \in Evidence
  BY DEF TypeOK, Contexts
<1> QED
  BY <1>1, <1>2 DEF TagsReplies, Unanswered, Escaped, Errors, Retryable, TypeOK

\* What it may answer to a chat; an answer is the evidence of this window.
LEMMA ChatTyped ==
  ASSUME TypeOK, NEW reply \in ChatReplies
  PROVE  /\ reply.error \in Errors /\ reply.response \in Evidence
         /\ reply.error # "internal_error" /\ reply.error # "provider_metadata_missing"
         /\ reply.error = "none" =>
              /\ reply.response.kind = "chat" /\ reply.response.attempt = attempts
              /\ reply.response.window = call.window
              /\ reply.response.digest = served /\ reply.response.raced = call.raced
<1>1. /\ Exchanged("chat", served) \in Evidence
      /\ Exchanged("chat", served).kind = "chat" /\ Exchanged("chat", served).attempt = attempts
      /\ Exchanged("chat", served).window = call.window
      /\ Exchanged("chat", served).digest = served /\ Exchanged("chat", served).raced = call.raced
  BY CallsAssumption DEF TypeOK, Exchanged, Evidence, Calls
<1>2. context.response \in Evidence
  BY DEF TypeOK, Contexts
<1> QED
  BY <1>1, <1>2 DEF ChatReplies, Unanswered, Escaped, Errors, Retryable

\* What _record_generation_metadata leaves behind.
LEMMA RecordedTyped ==
  ASSUME TypeOK, ContextOK, provider = "ollama", NEW reply,
         reply.error \in Errors, reply.response \in Evidence,
         reply.error = "none" => reply.response.digest = Configured \/ reply.response.raced
  PROVE  LET heard == Recorded(reply)  generation == heard.generation IN
         /\ heard \in Contexts /\ heard.prepared = Declared
         /\ generation = NoGeneration \/ generation.outcome # "none"
         /\ generation = NoGeneration \/ (generation.digest = Declared /\ Honest(generation))
         /\ reply.error # Escaped =>
              /\ generation # NoGeneration /\ generation.error = reply.error
              /\ generation.evidence = reply.response
              /\ generation.outcome = IF reply.error = "none" THEN "succeeded" ELSE "failed"
<1> DEFINE heard == Recorded(reply)
           new == [digest |-> context.prepared, evidence |-> reply.response, error |-> reply.error,
                   outcome |-> IF reply.error = "none" THEN "succeeded" ELSE "failed"]
<1>1. context \in Contexts /\ context.prepared = Declared /\ Declared \in Identities
  BY CallsAssumption DEF TypeOK, Declared, Identities, Nobody
<1>2. /\ new \in Generations /\ new # NoGeneration /\ new.outcome # "none" /\ new.digest = Declared
      /\ new.error = reply.error /\ new.evidence = reply.response
      /\ new.outcome = IF reply.error = "none" THEN "succeeded" ELSE "failed"
  BY <1>1 DEF Generations, NoGeneration
<1>3. Honest(new)
  BY <1>2 DEF Honest
<1>4. CASE reply.error = Escaped
  <2>1. heard.generation = context.generation /\ heard \in Contexts /\ heard.prepared = Declared
    BY <1>1, <1>4 DEF Recorded, Contexts
  <2> QED
    BY <2>1, <1>4 DEF ContextOK, TypeOK
<1>5. CASE reply.error # Escaped
  <2>1. heard.generation = new /\ heard \in Contexts /\ heard.prepared = Declared
    BY <1>1, <1>2, <1>5 DEF Recorded, Contexts
  <2> QED
    BY <2>1, <1>2, <1>3, <1>5
<1> QED
  BY <1>4, <1>5

\* The entry the loop makes of what the provider recorded.
LEMMA EntryTyped ==
  ASSUME TypeOK, NEW generation \in Generations, generation.outcome # "none"
  PROVE  /\ Entry(generation) \in Entries
         /\ Entry(generation).window = call.window /\ Entry(generation).digest = generation.digest
         /\ Entry(generation).evidence = generation.evidence
         /\ Entry(generation).outcome = generation.outcome /\ Entry(generation).error = generation.error
  BY DEF TypeOK, Entry, Entries, Generations, Calls

\* A call that fails leaves a history that ends with it.
LEMMA FailedTyped ==
  ASSUME TypeOK, CallOK, call.phase \in {"attesting", "chatting"},
         NEW generation \in Generations,
         \/ generation = NoGeneration
         \/ generation.outcome # "none" /\ generation.digest = Declared /\ Honest(generation),
         NEW error \in Errors, error \notin {"internal_error", "provider_metadata_missing"},
         \/ error = Escaped \/ generation = NoGeneration
         \/ generation.outcome = "failed" /\ generation.error = error
  PROVE  LET failed == Failed(generation, error) IN
         /\ failed \in Calls /\ failed.phase = "failing" /\ failed.source = call.source
         /\ Broken(failed.calls, attempts, failed.error)
<1> DEFINE failed == Failed(generation, error)
           entry == Entry(generation)
           longer == Append(call.calls, entry)
<1>1. /\ call \in Calls /\ call.calls \in Seq(Entries)
      /\ AllOwn(call.calls, attempts) /\ Len(call.calls) + 1 = call.window
      /\ run[attempts].digest = Declared
  BY DEF TypeOK, CallOK, Calls, Underway
<1>2. CASE generation = NoGeneration
  <2>1. failed = [call EXCEPT !.phase = "failing", !.calls = call.calls, !.error = "provider_metadata_missing"]
    BY <1>2 DEF Failed
  <2>2. failed.calls = call.calls /\ failed.error = "provider_metadata_missing"
    BY <2>1, <1>1 DEF Calls
  <2> QED
    BY <2>1, <2>2, <1>1 DEF Calls, Errors, Broken
<1>3. CASE generation # NoGeneration
  <2>1. /\ entry \in Entries /\ entry.window = call.window /\ entry.evidence = generation.evidence
        /\ entry.outcome = generation.outcome /\ entry.error = generation.error
    BY <1>3, EntryTyped
  <2>2. /\ longer \in Seq(Entries) /\ Len(longer) = Len(call.calls) + 1 /\ Len(call.calls) \in Nat
        /\ \A i \in 1..Len(call.calls) : longer[i] = call.calls[i]
        /\ longer[Len(call.calls) + 1] = entry
    <3> HIDE DEF entry
    <3> QED  BY <1>1, <2>1, Appended
  <2>3. failed = [call EXCEPT !.phase = "failing", !.calls = longer, !.error = error]
    BY <1>1, <1>3 DEF Failed, Matches
  <2> HIDE DEF entry, longer
  <2>4. failed \in Calls /\ failed.calls = longer /\ failed.error = error
        /\ failed.phase = "failing" /\ failed.source = call.source
    <3> HIDE DEF failed
    <3> QED  BY <2>2, <2>3, <1>1 DEF Calls
  <2>5. \A i \in 1..Len(longer) : i # Len(longer) => Own(longer[i], attempts, i)
    BY <1>1, <2>2 DEF AllOwn
  <2>6. Honest(entry)
    BY <1>3, <2>1 DEF Honest
  <2>7. EndsFailed(longer, attempts, error)
    BY <1>1, <1>3, <2>1, <2>2, <2>5, <2>6 DEF EndsFailed
  <2>8. Broken(failed.calls, attempts, failed.error)
    <3> HIDE DEF failed
    <3> QED  BY <2>4, <2>7 DEF Broken
  <2> QED
    BY <2>4, <2>8
<1> QED
  BY <1>2, <1>3

\* An answer is one more entry of its own, and the next window is due.
LEMMA AnsweredTyped ==
  ASSUME TypeOK, CallOK, call.phase \in {"attesting", "chatting"},
         NEW generation \in Generations,
         generation.outcome = "succeeded", generation.digest = Declared, Honest(generation),
         generation.evidence.kind = "chat", generation.evidence.attempt = attempts,
         generation.evidence.window = call.window
  PROVE  LET next == Answered(generation) IN
         /\ next \in Calls /\ next.source = call.source
         /\ AllOwn(next.calls, attempts)
         /\ \/ next.phase = "attesting" /\ Len(next.calls) + 1 = next.window
            \/ next.phase = "saving" /\ Len(next.calls) = Len(Windows(text[call.source]))
<1> DEFINE next == Answered(generation)
           entry == Entry(generation)
           longer == Append(call.calls, entry)
<1>1. /\ call \in Calls /\ call.calls \in Seq(Entries) /\ call.window \in Nat
      /\ AllOwn(call.calls, attempts) /\ Len(call.calls) + 1 = call.window
      /\ run[attempts].digest = Declared
  BY DEF TypeOK, CallOK, Calls, Underway
<1>2. /\ entry \in Entries /\ entry.window = call.window /\ entry.evidence = generation.evidence
      /\ entry.outcome = "succeeded" /\ entry.digest = Declared
  BY EntryTyped
<1>3. /\ longer \in Seq(Entries) /\ Len(longer) = call.window /\ Len(call.calls) \in Nat
      /\ \A i \in 1..Len(call.calls) : longer[i] = call.calls[i]
      /\ longer[Len(call.calls) + 1] = entry
  <2> HIDE DEF entry
  <2> QED  BY <1>1, <1>2, Appended
<1>4. next = [call EXCEPT !.phase = Turn(call.window), !.window = call.window + 1, !.calls = longer]
  BY <1>1 DEF Answered, Matches
<1> HIDE DEF next, entry, longer
<1>5. Own(entry, attempts, call.window)
  BY <1>2 DEF Own, Honest
<1>6. AllOwn(longer, attempts)
  BY <1>1, <1>3, <1>5 DEF AllOwn
<1>7. /\ Turn(call.window) \in {"saving", "attesting"}
      /\ Turn(call.window) = "saving" => call.window = Len(Windows(text[call.source]))
  BY DEF Turn
<1>8. /\ next \in Calls /\ next.source = call.source /\ next.calls = longer
      /\ next.phase = Turn(call.window) /\ next.window = call.window + 1
  <2>1. PICK turn \in {"saving", "attesting"} : turn = Turn(call.window)
    BY <1>7
  <2>2. next = [call EXCEPT !.phase = turn, !.window = call.window + 1, !.calls = longer]
    BY <1>4, <2>1
  <2>3. call.window + 1 \in Nat
    BY <1>1
  <2> QED
    BY <1>1, <1>3, <2>1, <2>2, <2>3 DEF Calls
<1>9. /\ AllOwn(next.calls, attempts)
      /\ \/ next.phase = "attesting" /\ Len(next.calls) + 1 = next.window
         \/ next.phase = "saving" /\ Len(next.calls) = Len(Windows(text[call.source]))
  BY <1>3, <1>6, <1>7, <1>8
<1> QED
  BY <1>8, <1>9 DEF next

\* A step that leaves the rows and the provider alone keeps what is true of
\* every history.
LEMMA HistoriesKept ==
  ASSUME UNCHANGED provider, NEW calls, NEW n, NEW error
  PROVE  /\ AllOwn(calls, n)' = AllOwn(calls, n)
         /\ EndsFailed(calls, n, error)' = EndsFailed(calls, n, error)
         /\ Broken(calls, n, error)' = Broken(calls, n, error)
  BY DEF AllOwn, EndsFailed, Broken, Own, Honest, Declared

\* A row that is not written, in a step after which no fewer attempts are granted.
LEMMA RowSame ==
  ASSUME CallsInv, UNCHANGED <<text, provider>>, attempts' \in Nat, attempts' >= attempts,
         NEW n \in 1..AttemptBound, run'[n] = run[n]
  PROVE  RowOK(n)'
<1>1. RowOK(n) /\ n \in Nat /\ attempts \in Nat
  BY DEF CallsInv, TypeOK
<1>2. Declared' = Declared /\ text' = text
  BY DEF Declared
<1>3. AllOwn(run[n].calls, n)' <=> AllOwn(run[n].calls, n)
  BY <1>2 DEF AllOwn, Own, Honest
<1>4. \A error : EndsFailed(run[n].calls, n, error)' <=> EndsFailed(run[n].calls, n, error)
  BY <1>2 DEF EndsFailed, Own, Honest
<1>5. Broken(run[n].calls, n, run[n].error)' <=> Broken(run[n].calls, n, run[n].error)
  BY <1>3, <1>4 DEF Broken
<1>6. n > attempts' => n > attempts
  BY <1>1
<1>7. EndsFailed(run[n].calls, n, Escaped)' <=> EndsFailed(run[n].calls, n, Escaped)
  BY <1>2 DEF EndsFailed, Own, Honest
<1>8. QED
  BY <1>1, <1>2, <1>3, <1>5, <1>6, <1>7 DEF RowOK

LEMMA RowsKept ==
  ASSUME CallsInv, UNCHANGED <<text, provider, run>>, attempts' \in Nat, attempts' >= attempts
  PROVE  \A n \in 1..AttemptBound : RowOK(n)'
  BY RowSame

LEMMA RowKept ==
  ASSUME CallsInv, UNCHANGED <<text, provider, attempts>>,
         NEW n \in 1..AttemptBound, run'[n] = run[n]
  PROVE  RowOK(n)'
<1>1. attempts \in Nat
  BY DEF CallsInv, TypeOK
<1>2. QED
  BY <1>1, RowSame

LEMMA InitOK == Init => CallsInv
<1> SUFFICES ASSUME Init PROVE CallsInv
  OBVIOUS
<1>1. TypeOK /\ ContextOK
  BY Blanks, FreshTyped, CallsAssumption DEF Init, TypeOK, ContextOK
<1>2. CallOK
  BY Blanks DEF Init, CallOK, Underway
<1>3. \A n \in 1..AttemptBound : RowOK(n)
  BY Blanks, CallsAssumption DEF Init, RowOK
<1> QED
  BY <1>1, <1>2, <1>3 DEF CallsInv

\* The handler stops, with or without an answer: nothing of the job is left.
LEMMA IdleOK ==
  ASSUME CallsInv, call' = NoCall, context' \in Contexts, context'.prepared = Declared,
         context'.generation = NoGeneration \/ context'.generation.outcome # "none",
         ContextOK', \A n \in 1..AttemptBound : RowOK(n)', run' \in [1..AttemptBound -> Rows],
         UNCHANGED <<text, provider, served, attempts, swaps>>, crashes' \in 0..CrashBound
  PROVE  CallsInv'
<1>1. TypeOK'
  BY Blanks DEF CallsInv, TypeOK, Declared
<1>2. CallOK'
  BY Blanks DEF CallOK, Underway
<1> QED
  BY <1>1, <1>2 DEF CallsInv

LEMMA TakeOK == ASSUME CallsInv, NEW s \in Sources, Take(s) PROVE CallsInv'
<1>1. attempts' = attempts + 1 /\ attempts' \in 1..AttemptBound /\ attempts' > attempts /\ attempts \in Nat
  BY CallsAssumption DEF CallsInv, TypeOK, Take
<1>2. /\ call' \in Calls /\ call'.phase = "preparing" /\ call'.calls = <<>>
  BY Blanks DEF Take, Calls
<1>3. TypeOK'
  BY <1>1, <1>2 DEF CallsInv, TypeOK, Take, Declared
<1>4. run[attempts'].status = "absent"
  BY <1>1 DEF CallsInv, RowOK
<1>5. CallOK'
  BY <1>1, <1>2, <1>4 DEF CallOK, Underway, Take
<1>6. \A n \in 1..AttemptBound : RowOK(n)'
  BY <1>1, RowsKept DEF Take
<1>7. ContextOK'
  BY DEF CallsInv, ContextOK, Take, Declared, Honest
<1> QED
  BY <1>3, <1>5, <1>6, <1>7 DEF CallsInv

\* What prepare_generation leaves behind, attested or not.
LEMMA PreparedTyped ==
  ASSUME TypeOK, ContextOK, provider = "ollama", NEW reply \in TagsReplies
  PROVE  LET heard == Prepared(reply)  generation == heard.generation IN
         /\ heard \in Contexts /\ heard.prepared = Declared
         /\ generation = NoGeneration \/ generation.outcome # "none"
         /\ generation = NoGeneration \/ (generation.digest = Declared /\ Honest(generation))
         /\ reply.error \notin {"none", Escaped} => generation.error = reply.error /\ generation.outcome = "failed"
<1> DEFINE heard == Prepared(reply)
<1>1. reply.error \in Errors /\ reply.response \in Evidence
      /\ (reply.error = "none" => reply.response.digest = Configured)
  BY TagsTyped
<1>2. CASE reply.error = "none"
  <2>1. heard = [context EXCEPT !.response = reply.response, !.prepared = Configured]
    BY <1>1, <1>2 DEF Prepared
  <2>2. context \in Contexts /\ Declared = Configured /\ Configured \in Identities
    BY CallsAssumption DEF TypeOK, Declared, Identities
  <2>3. heard \in Contexts /\ heard.prepared = Declared /\ heard.generation = context.generation
    <3> HIDE DEF heard
    <3> QED  BY <1>1, <2>1, <2>2 DEF Contexts
  <2> QED
    BY <1>2, <2>3 DEF ContextOK, TypeOK
<1>3. CASE reply.error # "none"
  <2>1. heard = Recorded(reply)
    BY <1>3 DEF Prepared
  <2> QED
    BY <1>1, <1>3, <2>1, RecordedTyped
<1> QED
  BY <1>2, <1>3

LEMMA PrepareOK == ASSUME CallsInv, Prepare PROVE CallsInv'
<1>1. PICK reply \in TagsReplies :
        /\ context' = Prepared(reply)
        /\ call' = IF reply.error = "none" THEN [call EXCEPT !.phase = "opening"] ELSE NoCall
  BY DEF Prepare
<1>2. /\ UNCHANGED <<text, provider, served, attempts, run, swaps, crashes>>
      /\ call.phase = "preparing" /\ provider = "ollama" /\ attempts \in Nat
      /\ run \in [1..AttemptBound -> Rows] /\ crashes \in 0..CrashBound
  BY CallsAssumption DEF Prepare, Working, CallsInv, TypeOK
<1>3. /\ context' \in Contexts /\ context'.prepared = Declared
      /\ context'.generation = NoGeneration \/ context'.generation.outcome # "none"
      /\ context'.generation = NoGeneration
         \/ (context'.generation.digest = Declared /\ Honest(context'.generation))
  BY <1>1, <1>2, PreparedTyped DEF CallsInv
<1>4. ContextOK'
  BY <1>2, <1>3 DEF ContextOK, Honest, Declared
<1>5. \A n \in 1..AttemptBound : RowOK(n)'
  BY <1>2, RowsKept
<1>6. CASE reply.error # "none"
  BY <1>1, <1>2, <1>3, <1>4, <1>5, <1>6, IdleOK
<1>7. CASE reply.error = "none"
  <2>1. call' = [call EXCEPT !.phase = "opening"] /\ call \in Calls
    BY <1>1, <1>7 DEF CallsInv, TypeOK
  <2>2. call' \in Calls /\ call'.phase = "opening" /\ call'.calls = call.calls
    BY <2>1 DEF Calls
  <2>3. TypeOK'
    BY <1>2, <1>3, <2>2 DEF CallsInv, TypeOK, Declared
  <2>4. CallOK'
    BY <1>2, <2>2 DEF CallsInv, CallOK, Underway
  <2> QED
    BY <1>4, <1>5, <2>3, <2>4 DEF CallsInv
<1> QED
  BY <1>6, <1>7

LEMMA PrepareUnavailableOK == ASSUME CallsInv, PrepareUnavailable PROVE CallsInv'
<1>1. /\ UNCHANGED <<text, provider, served, context, attempts, run, swaps, crashes>>
      /\ call.phase = "preparing" /\ attempts \in Nat
      /\ call' = [call EXCEPT !.phase = "opening"] /\ call \in Calls
  BY CallsAssumption DEF PrepareUnavailable, Working, CallsInv, TypeOK
<1>2. call' \in Calls /\ call'.phase = "opening" /\ call'.calls = call.calls
  BY <1>1 DEF Calls
<1>3. TypeOK' /\ ContextOK'
  BY <1>1, <1>2 DEF CallsInv, TypeOK, Declared, ContextOK, Honest
<1>4. CallOK'
  BY <1>1, <1>2 DEF CallsInv, CallOK, Underway
<1> QED
  BY <1>1, <1>3, <1>4, RowsKept DEF CallsInv

LEMMA ReuseOK == ASSUME CallsInv, Reuse PROVE CallsInv'
<1>1. /\ UNCHANGED <<text, provider, served, context, attempts, run, swaps, crashes>>
      /\ call' = NoCall /\ attempts \in Nat
  BY CallsAssumption DEF Reuse, CallsInv, TypeOK
<1>2. ContextOK' /\ \A n \in 1..AttemptBound : RowOK(n)'
  BY <1>1, RowsKept DEF CallsInv, ContextOK, Honest, Declared
<1> QED
  BY <1>1, <1>2, IdleOK DEF CallsInv, TypeOK

LEMMA CrashOK == ASSUME CallsInv, Crash PROVE CallsInv'
<1>1. /\ UNCHANGED <<text, provider, served, attempts, run, swaps>>
      /\ call' = NoCall /\ context' = Fresh /\ attempts \in Nat
      /\ crashes' \in 0..CrashBound /\ run \in [1..AttemptBound -> Rows]
  BY CallsAssumption DEF Crash, CallsInv, TypeOK
<1>2. ContextOK' /\ \A n \in 1..AttemptBound : RowOK(n)'
  BY <1>1, RowsKept, FreshTyped DEF ContextOK
<1> QED
  BY <1>1, <1>2, IdleOK, FreshTyped

LEMMA SwapOK == ASSUME CallsInv, NEW d \in Digests, Swap(d) PROVE CallsInv'
<1>1. /\ UNCHANGED <<text, provider, context, attempts, run, crashes>>
      /\ call' = [call EXCEPT !.raced = call.raced \/ Working("chatting")]
      /\ served' = d /\ swaps' \in 0..SwapBound /\ attempts \in Nat /\ call \in Calls
  BY CallsAssumption DEF Swap, CallsInv, TypeOK
<1>2. /\ call' \in Calls /\ call'.phase = call.phase /\ call'.calls = call.calls
      /\ call'.window = call.window /\ call'.source = call.source /\ call'.error = call.error
      /\ call.phase = "chatting" => call'.raced
  <2>1. PICK raced \in BOOLEAN : raced = (call.raced \/ Working("chatting"))
    BY <1>1 DEF Calls
  <2>2. call' = [call EXCEPT !.raced = raced]
    BY <1>1, <2>1
  <2> QED
    BY <1>1, <2>1, <2>2 DEF Calls, Working
<1>3. TypeOK' /\ ContextOK'
  BY <1>1, <1>2 DEF CallsInv, TypeOK, Declared, ContextOK, Honest
<1>4. CallOK'
  <2>1. /\ attempts' = attempts /\ Declared' = Declared /\ UNCHANGED <<text, run, provider>>
    BY <1>1 DEF Declared
  <2>2. CallOK
    BY DEF CallsInv
  <2>3. AllOwn(call.calls, attempts) => AllOwn(call.calls, attempts)'
    BY <1>2, <2>1 DEF AllOwn, Own, Honest
  <2>4. EndsFailed(call.calls, attempts, call.error) => EndsFailed(call.calls, attempts, call.error)'
    BY <1>2, <2>1 DEF EndsFailed, Own, Honest
  <2>5. Broken(call.calls, attempts, call.error) => Broken(call.calls, attempts, call.error)'
    BY <1>2, <2>3, <2>4 DEF Broken
  <2> QED
    BY <1>2, <2>1, <2>2, <2>3, <2>5 DEF CallOK, Underway
<1> QED
  BY <1>1, <1>3, <1>4, RowsKept DEF CallsInv

LEMMA OpenOK == ASSUME CallsInv, Open PROVE CallsInv'
<1> DEFINE row == [NoRun EXCEPT !.source = call.source, !.digest = context.prepared, !.status = "running"]
<1>1. /\ UNCHANGED <<text, provider, served, context, attempts, swaps, crashes>>
      /\ call.phase = "opening" /\ call.calls = <<>> /\ call \in Calls
      /\ run \in [1..AttemptBound -> Rows] /\ attempts \in 1..AttemptBound
      /\ run' = [run EXCEPT ![attempts] = row]
      /\ call' = [call EXCEPT !.phase = Turn(0), !.window = 1]
  BY CallsAssumption DEF Open, Working, CallsInv, TypeOK, CallOK
<1>2. context.prepared = Declared /\ Declared \in Identities
  BY DEF CallsInv, TypeOK, Contexts
<1>3. row \in Rows /\ row.status = "running" /\ row.source = call.source /\ row.digest = Declared /\ row.calls = <<>>
  BY <1>1, <1>2, Blanks DEF Rows, Calls
<1> HIDE DEF row
<1>4. /\ run' \in [1..AttemptBound -> Rows] /\ run'[attempts] = row
      /\ \A n \in 1..AttemptBound : n # attempts => run'[n] = run[n]
  BY <1>1, <1>3
<1>5. PICK turn \in {"saving", "attesting"} :
        turn = Turn(0) /\ (turn = "saving" => Len(Windows(text[call.source])) = 0)
  BY DEF Turn
<1>6. /\ call' \in Calls /\ call'.phase = turn /\ call'.window = 1
      /\ call'.calls = <<>> /\ call'.source = call.source
  BY <1>1, <1>5 DEF Calls
<1>7. TypeOK' /\ ContextOK'
  BY <1>1, <1>4, <1>6 DEF CallsInv, TypeOK, Declared, ContextOK, Honest
<1>8. CallOK'
  BY <1>1, <1>3, <1>4, <1>5, <1>6 DEF CallOK, Underway, AllOwn, Declared
<1>9. ASSUME NEW n \in 1..AttemptBound PROVE RowOK(n)'
  <2>1. CASE n = attempts
    BY <1>1, <1>3, <1>4, <2>1 DEF RowOK
  <2>2. CASE n # attempts
    BY <1>1, <1>4, <2>2, RowKept
  <2> QED
    BY <2>1, <2>2
<1> QED
  BY <1>7, <1>8, <1>9 DEF CallsInv

\* The row of the attempt is closed with a true history, and the handler is done.
LEMMA EndsOK ==
  ASSUME CallsInv, call.phase \in {"failing", "saving"},
         NEW status \in {"succeeded", "retry", "failed"}, NEW error \in Errors, NEW calls \in Seq(Entries),
         Ends(status, error, calls),
         status = "succeeded" =>
           AllOwn(calls, attempts) /\ Len(calls) = Len(Windows(text[call.source])),
         status # "succeeded" =>
           \/ status = "failed" /\ error = "internal_error"
              /\ (calls = <<>> \/ EndsFailed(calls, attempts, Escaped))
           \/ Broken(calls, attempts, error) /\ error # Escaped /\ (status = "retry" <=> error \in Retryable)
  PROVE  CallsInv'
<1>1. /\ UNCHANGED <<text, provider, served, context, attempts, swaps, crashes>>
      /\ call' = NoCall
      /\ run \in [1..AttemptBound -> Rows] /\ attempts \in 1..AttemptBound
      /\ run' = [run EXCEPT ![attempts] = [run[attempts] EXCEPT !.status = status, !.error = error, !.calls = calls]]
      /\ run[attempts].source = call.source /\ run[attempts].digest = Declared
  BY CallsAssumption DEF Ends, CallsInv, TypeOK, CallOK, Underway
<1>2. /\ run' \in [1..AttemptBound -> Rows]
      /\ run'[attempts].status = status /\ run'[attempts].error = error /\ run'[attempts].calls = calls
      /\ run'[attempts].source = call.source /\ run'[attempts].digest = Declared
      /\ \A n \in 1..AttemptBound : n # attempts => run'[n] = run[n]
  BY <1>1 DEF Rows
<1>3. ASSUME NEW n \in 1..AttemptBound PROVE RowOK(n)'
  <2>1. CASE n = attempts
    BY <1>1, <1>2, <2>1, HistoriesKept DEF RowOK, Declared
  <2>2. CASE n # attempts
    BY <1>1, <1>2, <2>2, RowKept
  <2> QED
    BY <2>1, <2>2
<1>4. ContextOK'
  BY <1>1 DEF CallsInv, ContextOK, Honest, Declared
<1> QED
  BY <1>1, <1>2, <1>3, <1>4, IdleOK DEF CallsInv, TypeOK

LEMMA RecordFailureOK == ASSUME CallsInv, RecordFailure PROVE CallsInv'
<1> DEFINE status == IF call.error \in Retryable THEN "retry" ELSE "failed"
           error == IF call.error = Escaped THEN "internal_error" ELSE call.error
<1>1. /\ call.phase = "failing" /\ Broken(call.calls, attempts, call.error)
      /\ call.calls \in Seq(Entries) /\ call.error \in Errors
      /\ Ends(status, error, call.calls)
  BY DEF RecordFailure, Working, CallsInv, CallOK, TypeOK, Calls
<1>2. error \in Errors /\ status \in {"succeeded", "retry", "failed"} /\ status # "succeeded"
  BY <1>1 DEF Errors
<1>3. \/ status = "failed" /\ error = "internal_error" /\ EndsFailed(call.calls, attempts, Escaped)
      \/ Broken(call.calls, attempts, error) /\ error # Escaped /\ (status = "retry" <=> error \in Retryable)
  BY <1>1 DEF Broken, Escaped, Retryable
<1> HIDE DEF status, error
<1> QED
  BY <1>1, <1>2, <1>3, EndsOK

LEMMA SaveOK == ASSUME CallsInv, Save PROVE CallsInv'
<1>1. /\ call.phase = "saving" /\ call.calls \in Seq(Entries) /\ Ends("succeeded", "none", call.calls)
      /\ AllOwn(call.calls, attempts) /\ Len(call.calls) = Len(Windows(text[call.source]))
  BY DEF Save, Working, CallsInv, CallOK, TypeOK, Calls
<1> QED
  BY <1>1, EndsOK DEF Errors

LEMMA SaveFailsOK == ASSUME CallsInv, SaveFails PROVE CallsInv'
<1>1. /\ call.phase = "saving" /\ run[attempts].calls = <<>> /\ <<>> \in Seq(Entries)
      /\ Ends("failed", "internal_error", run[attempts].calls)
  BY DEF SaveFails, Working, CallsInv, CallOK, TypeOK, Calls, RowOK, Underway
<1> QED
  BY <1>1, EndsOK DEF Errors

\* A handler that goes on within its job keeps what was true of its row.
LEMMA GoesOnOK ==
  ASSUME CallsInv, call.phase \in Underway, call' \in Calls, call'.source = call.source,
         UNCHANGED <<text, provider, served, attempts, run, swaps, crashes>>,
         context' \in Contexts, context'.prepared = Declared,
         \/ context'.generation = NoGeneration
         \/ /\ context'.generation.outcome # "none" /\ context'.generation.digest = Declared
            /\ Honest(context'.generation) /\ provider = "ollama",
         \/ /\ call'.phase \in {"attesting", "chatting"}
            /\ AllOwn(call'.calls, attempts) /\ Len(call'.calls) + 1 = call'.window
         \/ call'.phase = "saving" /\ AllOwn(call'.calls, attempts)
            /\ Len(call'.calls) = Len(Windows(text[call.source]))
         \/ call'.phase = "failing" /\ Broken(call'.calls, attempts, call'.error),
         call'.phase = "chatting" => provider = "ollama" /\ (served = Configured \/ call'.raced)
  PROVE  CallsInv'
<1>1. attempts \in 1..AttemptBound /\ attempts # 0 /\ attempts \in Nat
  BY CallsAssumption DEF CallsInv, TypeOK, CallOK, Underway
<1>2. TypeOK'
  BY DEF CallsInv, TypeOK, Declared
<1>3. ContextOK'
  BY DEF ContextOK, Honest, Declared
<1>4. CallOK'
  <2>1. /\ attempts' = attempts /\ Declared' = Declared /\ text' = text
        /\ run'[attempts] = run[attempts] /\ provider' = provider /\ served' = served
    BY DEF Declared
  <2>2. run[attempts].status = "running" /\ run[attempts].source = call.source
        /\ run[attempts].digest = Declared
    BY DEF CallsInv, CallOK
  <2>3. call'.phase \in Underway
    BY DEF Underway
  <2>4. AllOwn(call'.calls, attempts) => AllOwn(call.calls, attempts)'
    BY <2>1 DEF AllOwn, Own, Honest
  <2>5. EndsFailed(call'.calls, attempts, call'.error) => EndsFailed(call.calls, attempts, call.error)'
    BY <2>1 DEF EndsFailed, Own, Honest
  <2>6. Broken(call'.calls, attempts, call'.error) => Broken(call.calls, attempts, call.error)'
    BY <2>4, <2>5 DEF Broken
  <2>7. call'.phase \notin {"idle", "preparing", "opening"}
    BY <2>3 DEF Underway
  <2>8. QED
    BY <1>1, <2>1, <2>2, <2>3, <2>4, <2>6, <2>7 DEF CallOK
<1> QED
  BY <1>1, <1>2, <1>3, <1>4, RowsKept DEF CallsInv

LEMMA AttestOK == ASSUME CallsInv, Attest PROVE CallsInv'
<1>1. PICK reply \in TagsReplies :
        /\ context' = Prepared(reply)
        /\ call' = IF reply.error = "none" THEN [call EXCEPT !.phase = "chatting", !.raced = FALSE]
                   ELSE Failed(Prepared(reply).generation, reply.error)
  BY DEF Attest
<1>2. /\ UNCHANGED <<text, provider, served, attempts, run, swaps, crashes>>
      /\ call.phase = "attesting" /\ provider = "ollama" /\ call \in Calls
      /\ AllOwn(call.calls, attempts) /\ Len(call.calls) + 1 = call.window
  BY DEF Attest, Working, CallsInv, TypeOK, CallOK
<1>3. /\ context' \in Contexts /\ context'.prepared = Declared
      /\ context'.generation = NoGeneration \/ context'.generation.outcome # "none"
      /\ context'.generation = NoGeneration
         \/ (context'.generation.digest = Declared /\ Honest(context'.generation))
      /\ reply.error \notin {"none", Escaped} =>
           context'.generation.error = reply.error /\ context'.generation.outcome = "failed"
  BY <1>1, <1>2, PreparedTyped DEF CallsInv
<1>4. /\ reply.error \in Errors /\ reply.error \notin {"internal_error", "provider_metadata_missing"}
      /\ reply.error = "none" => served = Configured
  BY TagsTyped DEF CallsInv
<1>5. CASE reply.error = "none"
  <2>1. call' = [call EXCEPT !.phase = "chatting", !.raced = FALSE]
    BY <1>1, <1>5
  <2>2. /\ call' \in Calls /\ call'.phase = "chatting" /\ call'.calls = call.calls
        /\ call'.source = call.source /\ call'.window = call.window
    BY <1>2, <2>1 DEF Calls
  <2> QED
    BY <1>2, <1>3, <1>4, <1>5, <2>2, GoesOnOK DEF Underway
<1>6. CASE reply.error # "none"
  <2>1. context'.generation \in Generations /\ call' = Failed(context'.generation, reply.error)
    BY <1>1, <1>3, <1>6 DEF Contexts
  <2>2. /\ call' \in Calls /\ call'.phase = "failing" /\ call'.source = call.source
        /\ Broken(call'.calls, attempts, call'.error)
    BY <1>2, <1>3, <1>4, <1>6, <2>1, FailedTyped DEF CallsInv
  <2> QED
    BY <1>2, <1>3, <2>2, GoesOnOK DEF Underway
<1> QED
  BY <1>5, <1>6

LEMMA ChatOK == ASSUME CallsInv, Chat PROVE CallsInv'
<1>1. PICK reply \in ChatReplies :
        /\ context' = Recorded(reply)
        /\ call' = IF reply.error = "none" THEN Answered(Recorded(reply).generation)
                   ELSE Failed(Recorded(reply).generation, reply.error)
  BY DEF Chat
<1>2. /\ UNCHANGED <<text, provider, served, attempts, run, swaps, crashes>>
      /\ call.phase = "chatting" /\ provider = "ollama" /\ (served = Configured \/ call.raced)
  BY DEF Chat, Working, CallsInv, CallOK
<1>3. /\ reply.error \in Errors /\ reply.response \in Evidence
      /\ reply.error \notin {"internal_error", "provider_metadata_missing"}
      /\ reply.error = "none" =>
           /\ reply.response.kind = "chat" /\ reply.response.attempt = attempts
           /\ reply.response.window = call.window
           /\ reply.response.digest = Configured \/ reply.response.raced
  BY <1>2, ChatTyped DEF CallsInv
<1>4. /\ context' \in Contexts /\ context'.prepared = Declared
      /\ context'.generation = NoGeneration \/ context'.generation.outcome # "none"
      /\ context'.generation = NoGeneration
         \/ (context'.generation.digest = Declared /\ Honest(context'.generation))
      /\ reply.error # Escaped =>
           /\ context'.generation # NoGeneration /\ context'.generation.error = reply.error
           /\ context'.generation.evidence = reply.response
           /\ context'.generation.outcome = IF reply.error = "none" THEN "succeeded" ELSE "failed"
  BY <1>1, <1>2, <1>3, RecordedTyped DEF CallsInv
<1>5. context'.generation \in Generations
  BY <1>4 DEF Contexts
<1>6. CASE reply.error = "none"
  <2>1. call' = Answered(context'.generation)
    BY <1>1, <1>6
  <2>2. /\ call' \in Calls /\ call'.source = call.source /\ AllOwn(call'.calls, attempts)
        /\ \/ call'.phase = "attesting" /\ Len(call'.calls) + 1 = call'.window
           \/ call'.phase = "saving" /\ Len(call'.calls) = Len(Windows(text[call.source]))
    BY <1>2, <1>3, <1>4, <1>5, <1>6, <2>1, AnsweredTyped DEF CallsInv, Escaped
  <2> QED
    BY <1>2, <1>4, <2>2, GoesOnOK DEF Underway
<1>7. CASE reply.error # "none"
  <2>1. call' = Failed(context'.generation, reply.error)
    BY <1>1, <1>7
  <2>2. /\ call' \in Calls /\ call'.phase = "failing" /\ call'.source = call.source
        /\ Broken(call'.calls, attempts, call'.error)
    BY <1>2, <1>3, <1>4, <1>5, <1>7, <2>1, FailedTyped DEF CallsInv
  <2> QED
    BY <1>2, <1>4, <2>2, GoesOnOK DEF Underway
<1> QED
  BY <1>6, <1>7

LEMMA GenerateUnavailableOK == ASSUME CallsInv, GenerateUnavailable PROVE CallsInv'
<1>1. /\ UNCHANGED <<text, provider, served, context, attempts, run, swaps, crashes>>
      /\ call.phase = "attesting" /\ provider = "unavailable"
      /\ call' = Failed(context.generation, "provider_unavailable")
      /\ context \in Contexts /\ context.prepared = Declared
  BY DEF GenerateUnavailable, Working, CallsInv, TypeOK
<1>2. context.generation = NoGeneration /\ context.generation \in Generations
  BY <1>1, Blanks DEF CallsInv, ContextOK
<1>3. /\ call' \in Calls /\ call'.phase = "failing" /\ call'.source = call.source
      /\ Broken(call'.calls, attempts, call'.error)
  BY <1>1, <1>2, FailedTyped DEF CallsInv, Errors, Retryable
<1> QED
  BY <1>1, <1>2, <1>3, GoesOnOK DEF Underway

-----------------------------------------------------------------------------
(* The invariant, and what follows from it.                                *)

LEMMA StutterOK == ASSUME CallsInv, UNCHANGED vars PROVE CallsInv'
<1>1. \A n \in 1..AttemptBound : RowOK(n)'
  BY CallsAssumption, RowKept DEF vars
<1>2. TypeOK' /\ ContextOK'
  BY DEF vars, CallsInv, TypeOK, Declared, ContextOK, Honest
<1>3. CallOK'
  BY DEF vars, CallsInv, CallOK, Underway, Declared, AllOwn, Broken, EndsFailed, Own, Honest
<1> QED
  BY <1>1, <1>2, <1>3 DEF CallsInv

LEMMA StepOK == CallsInv /\ [Next]_vars => CallsInv'
<1> SUFFICES ASSUME CallsInv, [Next]_vars PROVE CallsInv'
  OBVIOUS
<1>1. ASSUME NEW s \in Sources, Take(s) PROVE CallsInv'
  BY <1>1, TakeOK
<1>2. CASE Handle
  BY <1>2, PrepareOK, PrepareUnavailableOK, ReuseOK, OpenOK, AttestOK, ChatOK, GenerateUnavailableOK,
     RecordFailureOK, SaveOK, SaveFailsOK DEF Handle
<1>3. ASSUME NEW d \in Digests, Swap(d) PROVE CallsInv'
  BY <1>3, SwapOK
<1>4. CASE Crash
  BY <1>4, CrashOK
<1>5. CASE UNCHANGED vars
  BY <1>5, StutterOK
<1> QED
  BY <1>1, <1>2, <1>3, <1>4, <1>5 DEF Next

LEMMA Invariance == Spec => []CallsInv
  BY InitOK, StepOK, PTL DEF Spec

\* Every reachable state is well typed, and the provider of a process never
\* declares another identity than the one its settings give it.
THEOREM CallTypes == Spec => []TypeOK
<1>1. CallsInv => TypeOK
  BY DEF CallsInv
<1> QED
  BY <1>1, Invariance, PTL

\* What both kinds of history have in common.
LEMMA HistoryShape ==
  ASSUME CallsInv, NEW calls \in Histories
  PROVE  /\ calls \in Seq(Entries) /\ DOMAIN calls = 1..Len(calls) /\ Len(calls) \in Nat
         /\ \E n : AllOwn(calls, n) \/ \E error : EndsFailed(calls, n, error)
<1>1. CASE calls = call.calls
  <2>1. calls \in Seq(Entries)
    BY <1>1 DEF CallsInv, TypeOK, Calls
  <2>2. AllOwn(calls, attempts) \/ \E error : EndsFailed(calls, attempts, error)
    <3>1. CASE call.phase \in {"idle", "preparing", "opening"}
      BY <1>1, <3>1 DEF CallsInv, CallOK, AllOwn
    <3>2. CASE call.phase \in {"attesting", "chatting", "saving"}
      BY <1>1, <3>2 DEF CallsInv, CallOK
    <3>3. CASE call.phase = "failing"
      BY <1>1, <3>3 DEF CallsInv, CallOK, Broken
    <3> QED
      BY <3>1, <3>2, <3>3 DEF CallsInv, TypeOK, Calls
  <2> QED
    BY <2>1, <2>2
<1>2. ASSUME NEW n \in 1..AttemptBound, calls = run[n].calls PROVE
        calls \in Seq(Entries) /\ (AllOwn(calls, n) \/ \E error : EndsFailed(calls, n, error))
  <2>1. run[n] \in Rows /\ RowOK(n)
    BY DEF CallsInv, TypeOK
  <2>2. CASE run[n].calls = <<>>
    BY <1>2, <2>1, <2>2 DEF AllOwn, Rows
  <2>3. CASE run[n].calls # <<>>
    BY <1>2, <2>1, <2>3 DEF RowOK, Broken, Rows
  <2> QED
    BY <2>2, <2>3
<1>3. DOMAIN run = 1..AttemptBound
  BY DEF CallsInv, TypeOK
<1>4. CASE calls # call.calls
  <2>1. PICK n \in 1..AttemptBound : calls = run[n].calls
    BY <1>3, <1>4 DEF Histories
  <2>2. calls \in Seq(Entries)
    BY <2>1, <1>2
  <2>3. AllOwn(calls, n) \/ \E error : EndsFailed(calls, n, error)
    BY <2>1, <1>2
  <2>4. \E m : AllOwn(calls, m) \/ \E error : EndsFailed(calls, m, error)
    BY <2>3, Zenon
  <2>5. DOMAIN calls = 1..Len(calls) /\ Len(calls) \in Nat
    BY <2>2
  <2> QED
    BY <2>2, <2>4, <2>5, Zenon
<1> QED
  BY <1>1, <1>4

\* A history has the windows of its source in order and no failed call before
\* its last, whatever the server answers and wherever the process stops.
THEOREM HistoriesAreOrdered == Spec => []HistoryFollowsWindows
<1>1. CallsInv => HistoryFollowsWindows
  <2> SUFFICES ASSUME CallsInv, NEW calls \in Histories, NEW i \in DOMAIN calls
               PROVE  calls[i].window = i /\ (i < Len(calls) => calls[i].outcome = "succeeded")
    BY DEF HistoryFollowsWindows
  <2> QED
    BY HistoryShape DEF AllOwn, EndsFailed, Own
<1> QED
  BY <1>1, Invariance, PTL

\* Only a change between the attestation of a window and its answer can let an
\* answer of another model into a history.
THEOREM SwapsAreNoticed == Spec => []UnnoticedOnlyInARace
<1>1. CallsInv => UnnoticedOnlyInARace
  <2> SUFFICES ASSUME CallsInv, NEW calls \in Histories, NEW i \in DOMAIN calls
               PROVE  Honest(calls[i])
    BY DEF UnnoticedOnlyInARace, Honest
  <2> QED
    BY HistoryShape DEF AllOwn, EndsFailed, Own
<1> QED
  BY <1>1, Invariance, PTL

\* A succeeded run has one answer of its own for every window, under the
\* identity the run declares.
THEOREM SuccessIsAnswered == Spec => []SucceededIsAnswered
<1>1. CallsInv => SucceededIsAnswered
  <2> SUFFICES ASSUME CallsInv, NEW n \in 1..AttemptBound, run[n].status = "succeeded"
               PROVE  /\ Len(run[n].calls) = Len(Windows(text[run[n].source]))
                      /\ \A i \in DOMAIN run[n].calls :
                           /\ run[n].calls[i].outcome = "succeeded"
                           /\ run[n].calls[i].digest = run[n].digest
                           /\ run[n].calls[i].evidence.kind = "chat"
                           /\ run[n].calls[i].evidence.attempt = n
                           /\ run[n].calls[i].evidence.window = i
    BY DEF SucceededIsAnswered, CallsInv, TypeOK
  <2>1. RowOK(n) /\ DOMAIN run[n].calls = 1..Len(run[n].calls)
    BY DEF CallsInv, TypeOK, Rows
  <2> QED
    BY <2>1 DEF RowOK, AllOwn, Own
<1> QED
  BY <1>1, Invariance, PTL

\* A run that ended with an error of the provider ends with the call that
\* failed with it, and only a passing error is retried.
THEOREM FailureIsNamed == Spec => []FailureNamesItsCause
<1>1. CallsInv => FailureNamesItsCause
  <2> SUFFICES ASSUME CallsInv, NEW n \in 1..AttemptBound, run[n].status \in {"retry", "failed"},
                      run[n].error \notin {"internal_error", "provider_metadata_missing"}
               PROVE  /\ run[n].calls # <<>>
                      /\ run[n].calls[Len(run[n].calls)].outcome = "failed"
                      /\ run[n].calls[Len(run[n].calls)].error = run[n].error
                      /\ run[n].status = "retry" <=> run[n].error \in Retryable
    BY DEF FailureNamesItsCause, CallsInv, TypeOK
  <2>1. RowOK(n) /\ run[n].calls \in Seq(Entries)
    BY DEF CallsInv, TypeOK, Rows
  <2>2. EndsFailed(run[n].calls, n, run[n].error) /\ run[n].error # Escaped
        /\ (run[n].status = "retry" <=> run[n].error \in Retryable)
    BY <2>1 DEF RowOK, Broken
  <2> QED
    BY <2>1, <2>2 DEF EndsFailed
<1> QED
  BY <1>1, Invariance, PTL

\* Nothing rewrites a run that ended: neither its history nor its outcome.
THEOREM EvidenceIsFinal == Spec => EvidenceStands
<1> DEFINE Closed(n) == run[n].status \notin {"absent", "running"}
           Stands == \A n \in DOMAIN run : Closed(n) => run'[n] = run[n]
<1>1. ASSUME CallsInv, [Next]_vars PROVE Stands
  <2> SUFFICES ASSUME NEW n \in 1..AttemptBound, Closed(n) PROVE run'[n] = run[n]
    BY <1>1 DEF CallsInv, TypeOK
  <2>1. run \in [1..AttemptBound -> Rows]
    BY <1>1 DEF CallsInv, TypeOK
  <2>2. CASE UNCHANGED run
    BY <2>2
  <2>3. CASE Open
    <3>1. n # attempts
      BY <1>1, <2>3 DEF Open, Working, CallsInv, CallOK
    <3> QED
      BY <2>1, <2>3, <3>1 DEF Open
  <2>4. CASE RecordFailure \/ Save \/ SaveFails
    <3>1. n # attempts
      BY <1>1, <2>4 DEF RecordFailure, Save, SaveFails, Working, CallsInv, CallOK, Underway
    <3> QED
      BY <2>1, <2>4, <3>1 DEF RecordFailure, Save, SaveFails, Ends
  <2> QED
    BY <1>1, <2>2, <2>3, <2>4
    DEF Next, Handle, Take, Prepare, PrepareUnavailable, Reuse, Attest, Chat, GenerateUnavailable,
        Swap, Crash, vars
<1>2. CallsInv /\ [Next]_vars => [Stands]_vars
  BY <1>1
<1> HIDE DEF Stands
<1>3. Spec => [][Stands]_vars
  BY <1>2, Invariance, PTL DEF Spec
<1> USE DEF Stands
<1> QED
  BY <1>3 DEF EvidenceStands
=============================================================================
