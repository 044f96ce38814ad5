----------------------- MODULE ConversationStagingProofs -----------------------
(***************************************************************************)
(* Theorems about ConversationStaging, for any stages and requests, any    *)
(* time to live and any number of crashes, failed removals and heartbeats  *)
(* that die.                                                               *)
(***************************************************************************)
EXTENDS ConversationStaging, TLAPS

\* The directory of a stage is what its upload, as far as it has come, filled it
\* with, and is judged by the expiry that will be entered in memory.
Holding(s) ==
  /\ Exists(s) /\ (Busy(s) => left[s] > 0)
  /\ upload[s] # "made" => "export" \in dir[s].files
  /\ upload[s] = "opened" => "blank" \in dir[s].files
  /\ upload[s] \in {"written", "renamed"} => "manifest" \in dir[s].files
  /\ upload[s] \in {"opened", "written", "renamed"} => left[s] = term[s]
  /\ upload[s] = "renamed" => dir[s].place = "root"

On(w, s) == removal[w].stage = s
Listed(w, s) == On(w, s) /\ removal[w].phase = "listed"

\* The exception of AcknowledgedIsFinal.
TakenLive(s) == s \in mute /\ s \in torn

\* A stage the janitor finds expired, if it finds its manifest.
Stale(s) == OnDisk(s) => left[s] = 0

\* An upload keeps its directory to itself while its heartbeat lives.
UploadInv(s) ==
  /\ upload[s] = "new" => dir[s] = NoDir /\ s \notin mute /\ s \notin torn
                            /\ ~On("loop", s) /\ ~On("janitor", s)
  /\ dir[s].place = "root" => upload[s] \in {"renamed", "over"}
  /\ Live(s) => ~On("loop", s)
  /\ Live(s) /\ s \notin mute => s \notin torn /\ left[s] > 0 /\ ~On("janitor", s)
  /\ Live(s) /\ s \notin torn => Holding(s)

\* What is in the root and what is in memory, by what removals there were.
OfferInv(s) ==
  /\ dir[s].place = "root" /\ s \notin torn /\ ~Listed("loop", s) /\ ~Listed("janitor", s)
       => {"export", "manifest"} \subseteq dir[s].files
  /\ s \in offered => upload[s] = "over"
  /\ s \in offered /\ term[s] > 0 /\ s \notin torn /\ ~Listed("loop", s)
       => /\ dir[s].place = "root" /\ {"export", "manifest"} \subseteq dir[s].files
          /\ left[s] = term[s]

\* What the removal of the janitor and that of the event loop have found.
RemovalInv(s) ==
  /\ On("janitor", s) /\ removal["janitor"].place = "root"
       => TakenLive(s) \/ (upload[s] = "over" /\ Stale(s))
  /\ Listed("janitor", s) /\ removal["janitor"].place = "intake"
       => TakenLive(s) \/ (upload[s] = "over" /\ dir[s].place # "root")
  /\ On("loop", s) /\ removal["loop"].caller = None => s \notin offered
  /\ On("loop", s) /\ removal["loop"].caller # None => removal["loop"].place = "root"
  /\ On("loop", s) /\ ~(removal["loop"].listed \subseteq dir[s].files) => TakenLive(s) \/ Stale(s)

StageInv(s) == UploadInv(s) /\ OfferInv(s) /\ RemovalInv(s)

\* No promotion of the stage would start.
Final(s) ==
  /\ upload[s] = "over"
  /\ TakenLive(s) \/ ((s \in offered => term[s] = 0) /\ Stale(s))

RequestInv(r) ==
  LET s == request[r].stage IN
  /\ request[r].phase # "new" => s \in Stages /\ upload[s] = "over"
  /\ request[r].phase \in {"promoted", "cancelled"} => Final(s)

StagingInv ==
  /\ \A s \in Stages : StageInv(s)
  /\ \A r \in Requests : RequestInv(r)

\* What is not in a record's type: a request that was made is about a stage, and
\* so is a removal that was called.
RequestsStaged == \A r \in Requests : request[r].phase # "new" => request[r].stage \in Stages

RemovalsStaged == \A w \in Removers :
  /\ removal[w].phase = "idle" => removal[w] = Idle
  /\ removal[w].phase # "idle" => removal[w].stage \in Stages /\ removal[w].place # "nowhere"
  /\ removal[w].phase = "called" => removal[w].listed = {}

Staged == RequestsStaged /\ RemovalsStaged

Typed == TypeOK /\ Staged
-----------------------------------------------------------------------------
(* Types.                                                                  *)

LEMMA IdleTyped == Idle \in Removal /\ Idle.phase = "idle"
BY DEF Idle, Removal, Places

LEMMA UnlinksTyped ==
  ASSUME Typed, NEW s \in Stages, NEW f \in Files, Unlinks(s, f)
  PROVE  dir' \in [Stages -> Dir] /\ left' \in [Stages -> 0..Ttl]
BY DEF Typed, TypeOK, Unlinks, Holds, Dir

\* A removal that is called, and one that is over.
LEMMA CallTyped ==
  ASSUME Typed, NEW s \in Stages, NEW place \in {"intake", "root"}, NEW r \in Requests \cup {None},
         NEW w \in Removers, removal' = [removal EXCEPT ![w] = Called(s, place, r)]
  PROVE  /\ removal' \in [Removers -> Removal]
         /\ RemovalsStaged'
<1>1. Called(s, place, r) \in Removal /\ Called(s, place, r).phase = "called"
      /\ Called(s, place, r).stage = s /\ Called(s, place, r).place # "nowhere"
      /\ Called(s, place, r).listed = {}
  BY DEF Called, Removal, Places
<1>2. \A v \in Removers : removal'[v] = IF v = w THEN Called(s, place, r) ELSE removal[v]
  BY DEF Typed, TypeOK
<1>3. QED
  BY <1>1, <1>2 DEF Typed, TypeOK, Staged, RequestsStaged, RemovalsStaged

LEMMA IdleAgain ==
  ASSUME Typed, NEW w \in Removers, removal' = [removal EXCEPT ![w] = Idle]
  PROVE  /\ removal' \in [Removers -> Removal]
         /\ RemovalsStaged'
<1>1. \A v \in Removers : removal'[v] = IF v = w THEN Idle ELSE removal[v]
  BY DEF Typed, TypeOK
<1>2. QED
  BY <1>1, IdleTyped DEF Typed, TypeOK, Staged, RequestsStaged, RemovalsStaged

LEMMA ReachTyped ==
  ASSUME Typed, NEW r \in Requests, NEW s \in Stages, NEW phase, Reaches(r, s, phase),
         phase \in {"checked", "loaded", "committed", "failed", "cancelling", "emptied",
                    "promoted", "cancelled", "refused"}
  PROVE  /\ request' \in [Requests -> Request]
         /\ RequestsStaged'
         /\ request'[r] = [phase |-> phase, stage |-> s]
         /\ \A q \in Requests \ {r} : request'[q] = request[q]
<1>1. [phase |-> phase, stage |-> s] \in Request
  BY DEF Request
<1>2. QED
  BY <1>1 DEF Reaches, Typed, TypeOK, Staged, RequestsStaged, RemovalsStaged

\* The stage and the caller of a removal, and how rmtree ends.
LEMMA RemovalOf ==
  ASSUME Typed, NEW w \in Removers
  PROVE  /\ removal[w] \in Removal
         /\ removal[w].phase \in {"idle", "called", "listed"}
         /\ removal[w].phase # "idle" => removal[w].stage \in Stages /\ removal[w].place \in {"intake", "root"}
         /\ removal[w].phase = "called" => removal[w].listed = {}
         /\ removal[w].caller \in Requests \cup {None} /\ removal[w].listed \subseteq Files
         /\ removal[w].phase = "idle" => removal[w].stage = None
BY DEF Typed, TypeOK, Staged, RequestsStaged, RemovalsStaged, Removal, Places, Idle

LEMMA EndTyped ==
  ASSUME Typed, NEW w \in Removers, Emptied(w) \/ Missing(w) \/ Fails(w)
  PROVE  /\ dir' \in [Stages -> Dir] /\ left' \in [Stages -> 0..Ttl]
         /\ torn' \subseteq Stages /\ failures' \in 0..FailureBound
         /\ removal[w].phase # "idle"
<1> USE StagingAssumption
<1>1. NoDir \in Dir /\ 0 \in 0..Ttl
  BY DEF NoDir, Dir, Places
<1>2. dir' \in [Stages -> Dir] /\ left' \in [Stages -> 0..Ttl]
  BY <1>1 DEF Emptied, Missing, Fails, Typed, TypeOK
<1>3. torn' \subseteq Stages /\ removal[w].phase # "idle"
  BY RemovalOf DEF Emptied, Missing, Fails, Tears, Typed, TypeOK
<1>4. failures' \in 0..FailureBound
  BY DEF Emptied, Missing, Fails, OSError, Typed, TypeOK
<1>5. QED
  BY <1>2, <1>3, <1>4

\* What a request does on its own part.
RequestStep(r, s, phase) ==
  Cancels(r, s, phase) \/ Ignores(r, s, phase) \/ (Moves(r, phase) /\ s = request[r].stage)

Phases == {"checked", "loaded", "committed", "failed", "cancelling", "emptied",
           "promoted", "cancelled", "refused"}

LEMMA EntersTyped ==
  ASSUME Typed, NEW s \in Stages, Enters(s)
  PROVE  offered' \subseteq Stages /\ term' \in [Stages -> 0..Ttl]
BY DEF Typed, TypeOK, Enters

LEMMA RequestStepTyped ==
  ASSUME Typed, NEW r \in Requests, NEW s \in Stages, NEW phase \in Phases, RequestStep(r, s, phase)
  PROVE  Typed'
<1>0. Reaches(r, s, phase)
  BY DEF RequestStep, Cancels, Ignores, Moves
<1>1. request' \in [Requests -> Request]
      /\ RequestsStaged'
  BY <1>0, ReachTyped DEF Phases
<1>2. CASE Cancels(r, s, phase)
  <2>1. offered' \subseteq Stages /\ term' \in [Stages -> 0..Ttl]
    BY <1>2, EntersTyped DEF Cancels
  <2>2. /\ removal' = [removal EXCEPT !["loop"] = Called(s, "root", r)] /\ "loop" \in Removers
        /\ UNCHANGED <<dir, left, upload, mute, torn, crashes, failures>>
    BY <1>2 DEF Cancels, Calls, Removers
  <2>3. QED
    BY <1>1, <2>1, <2>2, CallTyped DEF Typed, TypeOK, Staged, RequestsStaged, RemovalsStaged
<1>3. CASE Ignores(r, s, phase) \/ Moves(r, phase)
  BY <1>1, <1>3 DEF Ignores, Moves, Typed, TypeOK, Staged, RequestsStaged, RemovalsStaged
<1>4. QED
  BY <1>2, <1>3 DEF RequestStep

\* All the actions of a request are such steps, but for the entry of a stage
\* that is then promoted.
LEMMA RequestSteps ==
  ASSUME Typed, NEW r \in Requests,
         \/ \E s \in Stages : Cancel(r, s) \/ PromoteRefused(r, s) \/ PromoteNothing(r, s)
         \/ Load(r) \/ LoadFails(r) \/ Commit(r) \/ CommitFails(r) \/ PromotionInterrupted(r)
         \/ Finish(r)
  PROVE  \E s \in Stages, phase \in Phases :
           /\ RequestStep(r, s, phase)
           /\ upload[s] = "over" \/ (request[r].phase # "new" /\ s = request[r].stage)
           /\ phase \in {"promoted", "cancelled"} => ~Known(s)
<1>0. request[r].phase # "new" => request[r].stage \in Stages
  BY DEF Typed, Staged, RequestsStaged, RemovalsStaged
<1>1. ASSUME NEW s \in Stages, NEW phase \in Phases, Cancels(r, s, phase),
             phase \notin {"promoted", "cancelled"},
             upload[s] = "over" \/ (request[r].phase # "new" /\ s = request[r].stage)
      PROVE  \E t \in Stages, p \in Phases :
               /\ RequestStep(r, t, p)
               /\ upload[t] = "over" \/ (request[r].phase # "new" /\ t = request[r].stage)
               /\ p \in {"promoted", "cancelled"} => ~Known(t)
  BY <1>1 DEF RequestStep
<1>2. ASSUME NEW s \in Stages, NEW phase \in Phases, Ignores(r, s, phase),
             upload[s] = "over" \/ (request[r].phase # "new" /\ s = request[r].stage)
      PROVE  \E t \in Stages, p \in Phases :
               /\ RequestStep(r, t, p)
               /\ upload[t] = "over" \/ (request[r].phase # "new" /\ t = request[r].stage)
               /\ p \in {"promoted", "cancelled"} => ~Known(t)
  BY <1>2 DEF RequestStep, Ignores
<1>3. ASSUME NEW phase \in Phases, Moves(r, phase), phase \notin {"promoted", "cancelled"},
             request[r].phase # "new"
      PROVE  \E t \in Stages, p \in Phases :
               /\ RequestStep(r, t, p)
               /\ upload[t] = "over" \/ (request[r].phase # "new" /\ t = request[r].stage)
               /\ p \in {"promoted", "cancelled"} => ~Known(t)
  BY <1>0, <1>3 DEF RequestStep
<1>4. ASSUME NEW s \in Stages, Cancel(r, s) \/ PromoteRefused(r, s) \/ PromoteNothing(r, s)
      PROVE  \E t \in Stages, p \in Phases :
               /\ RequestStep(r, t, p)
               /\ upload[t] = "over" \/ (request[r].phase # "new" /\ t = request[r].stage)
               /\ p \in {"promoted", "cancelled"} => ~Known(t)
  BY <1>1, <1>2, <1>4 DEF Cancel, PromoteRefused, PromoteNothing, Names, Phases
<1>5. CASE LoadFails(r) \/ CommitFails(r) \/ Finish(r)
  <2>1. PICK phase \in {"failed", "committed"} : Ends(r, phase) /\ request[r].phase # "new"
    BY <1>5 DEF LoadFails, CommitFails, Finish
  <2>2. AnswerOf(phase) \in Phases /\ phase \in Phases
    BY DEF AnswerOf, Phases
  <2>3. QED
    BY <1>0, <1>1, <1>2, <2>1, <2>2 DEF Ends
<1>6. CASE Load(r) \/ Commit(r) \/ PromotionInterrupted(r)
  BY <1>3, <1>6 DEF Load, Commit, PromotionInterrupted, Phases
<1>7. QED
  BY <1>4, <1>5, <1>6

LEMMA StagingTyped == Spec => []Typed
<1> USE StagingAssumption
<1>1. Init => Typed
  <2> SUFFICES ASSUME Init PROVE Typed
    OBVIOUS
  <2>1. NoDir \in Dir /\ [phase |-> "new", stage |-> None] \in Request
    BY DEF NoDir, Dir, Places, Request
  <2>2. TypeOK
    BY <2>1, IdleTyped DEF Init, TypeOK, Uploads
  <2>3. Staged
    BY IdleTyped DEF Init, Staged, RequestsStaged, RemovalsStaged
  <2>4. QED
    BY <2>2, <2>3 DEF Typed
<1>2. Typed /\ [Next]_vars => Typed'
  <2> SUFFICES ASSUME Typed, [Next]_vars PROVE Typed'
    OBVIOUS
  <2>0. TypeOK /\ Staged /\ "loop" \in Removers /\ "janitor" \in Removers
    BY DEF Typed, Removers
  <2>1. ASSUME NEW s \in Stages,
               \/ MakeDir(s) \/ WriteLease(s) \/ Renew(s) \/ HeartbeatDies(s) \/ OpenManifest(s)
               \/ WriteManifest(s) \/ Rename(s) \/ Publish(s)
        PROVE  Typed'
    <3>1. CASE Publish(s)
      <4>1. dir' \in [Stages -> Dir] /\ left' \in [Stages -> 0..Ttl]
        BY <2>0, <3>1, UnlinksTyped DEF Publish, Files, TypeOK
      <4>2. QED
        BY <2>0, <3>1, <4>1 DEF Publish, Goes, Typed, TypeOK, Staged, RequestsStaged, RemovalsStaged, Uploads
    <3>2. CASE \/ MakeDir(s) \/ WriteLease(s) \/ Renew(s) \/ HeartbeatDies(s) \/ OpenManifest(s)
               \/ WriteManifest(s) \/ Rename(s)
      <4>1. dir' \in [Stages -> Dir]
        <5>1. dir[s] \in Dir
          BY <2>0 DEF TypeOK
        <5>2. ASSUME NEW files \in SUBSET Files, Holds(s, files) PROVE dir' \in [Stages -> Dir]
          BY <2>0, <5>1, <5>2 DEF Holds, TypeOK, Dir
        <5>3. CASE MakeDir(s) \/ Rename(s) \/ HeartbeatDies(s)
          BY <2>0, <5>1, <5>3 DEF MakeDir, Rename, HeartbeatDies, TypeOK, Dir, Places
        <5>4. CASE WriteLease(s) \/ Renew(s) \/ OpenManifest(s) \/ WriteManifest(s)
          <6>1. \E files \in SUBSET Files : Holds(s, files)
            BY <5>1, <5>4 DEF WriteLease, Renew, OpenManifest, WriteManifest, Dir, Files
          <6>2. QED
            BY <5>2, <6>1
        <5>5. QED
          BY <3>2, <5>3, <5>4
      <4>2. /\ left' \in [Stages -> 0..Ttl] /\ term' \in [Stages -> 0..Ttl]
            /\ upload' \in [Stages -> Uploads] /\ mute' \subseteq Stages
            /\ failures' \in 0..FailureBound
        BY <2>0, <3>2 DEF MakeDir, WriteLease, Renew, HeartbeatDies, OpenManifest, WriteManifest,
           Rename, Goes, Fresh, OSError, TypeOK, Uploads
      <4>3. UNCHANGED <<offered, request, removal, torn, crashes>>
        BY <3>2 DEF MakeDir, WriteLease, Renew, HeartbeatDies, OpenManifest, WriteManifest, Rename
      <4>4. QED
        BY <2>0, <4>1, <4>2, <4>3 DEF Typed, TypeOK, Staged, RequestsStaged, RemovalsStaged
    <3>3. QED
      BY <2>1, <3>1, <3>2
  <2>2. ASSUME NEW s \in Stages, UploadFails(s) PROVE Typed'
    <3>1. /\ upload' \in [Stages -> Uploads] /\ term' \in [Stages -> 0..Ttl]
          /\ UNCHANGED <<dir, left, offered, request, mute, torn, crashes, failures>>
      BY <2>0, <2>2 DEF UploadFails, Goes, TypeOK, Uploads
    <3>2. CASE UNCHANGED removal
      BY <2>0, <3>1, <3>2 DEF Typed, TypeOK, Staged, RequestsStaged, RemovalsStaged
    <3>3. CASE Calls(s, "intake", None)
      BY <2>0, <3>1, <3>3, CallTyped DEF Calls, Typed, TypeOK, Staged, RequestsStaged, RemovalsStaged
    <3>4. QED
      BY <2>2, <3>2, <3>3 DEF UploadFails
  <2>3. ASSUME NEW s \in Stages, Judge(s) PROVE Typed'
    <3>1. dir[s].place \in {"intake", "root"}
      BY <2>0, <2>3 DEF Judge, Exists, TypeOK, Dir, Places
    <3>2. QED
      BY <2>0, <2>3, <3>1, CallTyped DEF Judge, Typed, TypeOK, Staged, RequestsStaged, RemovalsStaged
  <2>4. ASSUME NEW r \in Requests, NEW s \in Stages, PromoteChecked(r, s) PROVE Typed'
    BY <2>0, <2>4, EntersTyped, ReachTyped DEF PromoteChecked, Typed, TypeOK, Staged, RequestsStaged, RemovalsStaged
  <2>5. ASSUME NEW r \in Requests,
               \/ \E s \in Stages : Cancel(r, s) \/ PromoteRefused(r, s) \/ PromoteNothing(r, s)
               \/ Load(r) \/ LoadFails(r) \/ Commit(r) \/ CommitFails(r) \/ PromotionInterrupted(r)
               \/ Finish(r)
        PROVE  Typed'
    BY <2>5, RequestSteps, RequestStepTyped
  <2>6. ASSUME NEW w \in Removers, List(w) PROVE Typed'
    <3>1. removal[w].stage \in Stages /\ removal[w].place # "nowhere"
      BY <2>6, RemovalOf DEF List
    <3>2. removal' \in [Removers -> Removal]
      <4>1. /\ dir[removal[w].stage].files \subseteq Files /\ removal[w] \in Removal
            /\ removal' = [removal EXCEPT ![w] = [removal[w] EXCEPT !.phase = "listed",
                                                    !.listed = dir[removal[w].stage].files]]
        BY <2>0, <2>6, <3>1 DEF List, TypeOK, Dir, Removal
      <4>2. QED
        BY <2>0, <4>1 DEF TypeOK, Removal
    <3>3. RemovalsStaged'
      BY <2>0, <2>6, <3>1 DEF List, TypeOK, Removal, Staged, RequestsStaged, RemovalsStaged
    <3>4. QED
      BY <2>0, <2>6, <3>1, <3>2, <3>3 DEF List, Typed, TypeOK, Staged, RequestsStaged, RemovalsStaged
  <2>7. ASSUME NEW w \in Removers, Unlink(w) PROVE Typed'
    <3>0. removal[w].stage \in Stages /\ removal[w].listed \subseteq Files
      BY <2>7, RemovalOf DEF Unlink
    <3>1. dir' \in [Stages -> Dir] /\ left' \in [Stages -> 0..Ttl]
      BY <2>0, <2>7, <3>0, UnlinksTyped DEF Unlink, TypeOK
    <3>2. removal' \in [Removers -> Removal]
      BY <2>0, <2>7 DEF Unlink, TypeOK, Removal
    <3>3. RemovalsStaged'
      BY <2>0, <2>7 DEF Unlink, TypeOK, Removal, Staged, RequestsStaged, RemovalsStaged
    <3>4. QED
      BY <2>0, <2>7, <3>1, <3>2, <3>3 DEF Unlink, Typed, TypeOK, Staged, RequestsStaged, RemovalsStaged
  <2>8. CASE CancelReturns \/ CancelRaises
    <3> DEFINE r == removal["loop"].caller
               s == removal["loop"].stage
    <3>1. /\ dir' \in [Stages -> Dir] /\ left' \in [Stages -> 0..Ttl]
          /\ torn' \subseteq Stages /\ failures' \in 0..FailureBound
          /\ s \in Stages /\ r \in Requests \cup {None}
      BY <2>0, <2>8, EndTyped, RemovalOf DEF CancelReturns, CancelRaises
    <3>2. offered' \subseteq Stages /\ term' \in [Stages -> 0..Ttl]
      <4>1. offered \subseteq Stages /\ term \in [Stages -> 0..Ttl] /\ 0 \in 0..Ttl
        BY <2>0 DEF TypeOK
      <4>2. UNCHANGED <<offered, term>> \/ Forget(s)
        BY <2>8 DEF CancelReturns, CancelRaises
      <4>3. QED
        BY <3>1, <4>1, <4>2 DEF Forget
    <3>3. request' \in [Requests -> Request]
          /\ RequestsStaged'
      <4>1. CASE UNCHANGED request
        BY <2>0, <4>1 DEF TypeOK, Staged, RequestsStaged, RemovalsStaged
      <4>2. CASE r \in Requests /\ \E phase \in Phases : Reaches(r, s, phase)
        BY <3>1, <4>2, ReachTyped DEF Phases
      <4>3. AnswerOf(request[r].phase) \in Phases
        BY DEF AnswerOf, Phases
      <4>4. "failed" \in Phases /\ "refused" \in Phases
        BY DEF Phases
      <4>5. QED
        BY <2>8, <3>1, <4>1, <4>2, <4>3, <4>4 DEF CancelReturns, CancelRaises, Answered
    <3>4. \/ removal' = [removal EXCEPT !["loop"] = Idle]
          \/ removal' = [removal EXCEPT !["loop"] = Called(s, "root", r)]
      BY <2>8 DEF CancelReturns, CancelRaises
    <3>5. /\ removal' \in [Removers -> Removal]
          /\ RemovalsStaged'
      BY <2>0, <3>1, <3>4, CallTyped, IdleAgain
    <3>6. QED
      BY <2>0, <2>8, <3>1, <3>2, <3>3, <3>5 DEF CancelReturns, CancelRaises, Typed, TypeOK, Staged, RequestsStaged, RemovalsStaged
  <2>9. CASE Purged
    <3>1. /\ dir' \in [Stages -> Dir] /\ left' \in [Stages -> 0..Ttl]
          /\ torn' \subseteq Stages /\ failures' \in 0..FailureBound
      BY <2>0, <2>9, EndTyped DEF Purged
    <3>2. QED
      BY <2>0, <2>9, <3>1, IdleAgain DEF Purged, Typed, TypeOK, Staged, RequestsStaged, RemovalsStaged
  <2>10. CASE Crash
    <3>1. upload' \in [Stages -> Uploads] /\ offered' \subseteq Stages
          /\ term' \in [Stages -> 0..Ttl] /\ crashes' \in 0..CrashBound
      BY <2>0, <2>10 DEF Crash, TypeOK, Uploads
    <3>2. ASSUME NEW r \in Requests
          PROVE  /\ request'[r] \in Request
                 /\ request'[r].phase # "new" => request'[r].stage \in Stages
      <4>1. request[r] \in Request /\ (request[r].phase # "new" => request[r].stage \in Stages)
        BY <2>0 DEF TypeOK, Staged, RequestsStaged, RemovalsStaged
      <4>2. request'[r] = request[r] \/ (request[r].phase # "new" /\ request'[r] = [request[r] EXCEPT !.phase = "refused"])
        BY <2>10 DEF Crash
      <4>3. QED
        BY <4>1, <4>2 DEF Request
    <3>3. request' \in [Requests -> Request]
          /\ RequestsStaged'
      <4>1. request' = [q \in Requests |-> request'[q]]
        BY <2>10 DEF Crash
      <4>2. QED
        BY <3>2, <4>1 DEF RequestsStaged
    <3>4. torn' \subseteq Stages
      BY <2>0, <2>10, RemovalOf DEF Crash, TypeOK
    <3>5. removal' \in [Removers -> Removal] /\ \A v \in Removers : removal'[v] = Idle
      BY <2>10, IdleTyped DEF Crash
    <3>6. QED
      BY <2>0, <2>10, <3>1, <3>3, <3>4, <3>5, IdleTyped DEF Crash, Typed, TypeOK, Staged, RequestsStaged, RemovalsStaged
  <2>11. CASE Tick
    BY <2>0, <2>11 DEF Tick, Typed, TypeOK, Staged, RequestsStaged, RemovalsStaged
  <2>12. CASE UNCHANGED vars
    BY <2>0, <2>12 DEF vars, Typed, TypeOK, Staged, RequestsStaged, RemovalsStaged
  <2>13. QED
    BY <2>1, <2>2, <2>3, <2>4, <2>5, <2>6, <2>7, <2>8, <2>9, <2>10, <2>11, <2>12
       DEF Next, Stretch, Removes
<1>3. QED
  BY <1>1, <1>2, PTL DEF Spec

-----------------------------------------------------------------------------
(* The invariant.  Every step but a crash and a tick is about one stage.   *)

\* What a step leaves of a stage it is not about.
Same(t) ==
  /\ dir'[t] = dir[t] /\ left'[t] = left[t] /\ term'[t] = term[t] /\ upload'[t] = upload[t]
  /\ t \in offered' <=> t \in offered
  /\ t \in mute' <=> t \in mute
  /\ t \in torn' <=> t \in torn
  /\ \A w \in Removers : /\ removal'[w].stage = t <=> removal[w].stage = t
                         /\ removal[w].stage = t => removal'[w] = removal[w]

LEMMA Frame ==
  ASSUME NEW t \in Stages, StageInv(t), Same(t)
  PROVE  StageInv(t)' /\ (Final(t) => Final(t)')
<1>1. "loop" \in Removers /\ "janitor" \in Removers
  BY DEF Removers
<1>2. UploadInv(t)'
  BY <1>1 DEF StageInv, Same, UploadInv, Live, Busy, Exists, Holding, On
<1>3. OfferInv(t)'
  BY <1>1 DEF StageInv, Same, OfferInv, Listed, On
<1>4. RemovalInv(t)'
  BY <1>1 DEF StageInv, Same, RemovalInv, Listed, On, TakenLive, Stale, OnDisk
<1>5. Final(t) => Final(t)'
  BY DEF Same, Final, TakenLive, Stale, OnDisk
<1>6. QED
  BY <1>2, <1>3, <1>4, <1>5 DEF StageInv

\* What has to be shown of a step about one stage.
LEMMA Assemble ==
  ASSUME Typed, StagingInv, NEW s \in Stages,
         \A t \in Stages \ {s} : Same(t),
         StageInv(s)',
         upload[s] = "over" => upload'[s] = "over" /\ (Final(s) => Final(s)'),
         \A q \in Requests : request'[q] = request[q] \/ RequestInv(q)'
  PROVE  StagingInv'
<1>1. ASSUME NEW t \in Stages PROVE StageInv(t)'
  BY Frame DEF StagingInv
<1>2. ASSUME NEW q \in Requests, request'[q] = request[q] PROVE RequestInv(q)'
  <2> PICK t : t = request[q].stage
    OBVIOUS
  <2>1. RequestInv(q)
    BY DEF StagingInv
  <2>2. CASE request[q].phase = "new"
    BY <1>2, <2>2 DEF RequestInv
  <2>3. CASE request[q].phase # "new"
    <3>1. t \in Stages /\ upload[t] = "over" /\ (request[q].phase \in {"promoted", "cancelled"} => Final(t))
      BY <2>1, <2>3 DEF RequestInv
    <3>2. upload'[t] = "over" /\ (Final(t) => Final(t)')
      <4>1. CASE t = s
        BY <3>1, <4>1
      <4>2. CASE t # s
        BY <3>1, <4>2, Frame DEF StagingInv, Same
      <4>3. QED
        BY <4>1, <4>2
    <3>3. request'[q].stage = t
      BY <1>2
    <3>4. QED
      BY <1>2, <2>3, <3>1, <3>2, <3>3 DEF RequestInv
  <2>4. QED
    BY <2>2, <2>3
<1>3. QED
  BY <1>1, <1>2 DEF StagingInv

\* A removal of a stage concerns that stage only.
Apart(s) == \A t \in Stages \ {s}, v \in Removers :
  /\ removal'[v].stage = t <=> removal[v].stage = t
  /\ removal[v].stage = t => removal'[v] = removal[v]

LEMMA CallApart ==
  ASSUME Typed, NEW s \in Stages, NEW w \in Removers, NEW place, NEW r,
         removal' = [removal EXCEPT ![w] = Called(s, place, r)],
         removal[w].stage \in {s, None}
  PROVE  Apart(s)
<1>1. Called(s, place, r).stage = s
  BY DEF Called
<1>2. \A v \in Removers : removal'[v] = IF v = w THEN Called(s, place, r) ELSE removal[v]
  BY DEF Typed, TypeOK
<1>3. QED
  BY <1>1, <1>2, StagingAssumption DEF Apart

LEMMA IdleApart ==
  ASSUME Typed, NEW s \in Stages, NEW w \in Removers, removal' = [removal EXCEPT ![w] = Idle],
         removal[w].stage \in {s, None}
  PROVE  Apart(s)
<1>1. Idle.stage = None
  BY DEF Idle
<1>2. \A v \in Removers : removal'[v] = IF v = w THEN Idle ELSE removal[v]
  BY DEF Typed, TypeOK
<1>3. QED
  BY <1>1, <1>2, StagingAssumption DEF Apart

\* The directory loses a file: if it still has a manifest, its expiry stays.
LEMMA UnlinksStale ==
  ASSUME Typed, NEW s \in Stages, NEW f, Unlinks(s, f)
  PROVE  /\ dir'[s].place = dir[s].place /\ dir'[s].files = dir[s].files \ {f}
         /\ \A t \in Stages \ {s} : dir'[t] = dir[t] /\ left'[t] = left[t]
         /\ OnDisk(s)' => OnDisk(s) /\ left'[s] = left[s]
<1>1. dir \in [Stages -> Dir] /\ left \in [Stages -> 0..Ttl] /\ dir[s] \in Dir
  BY DEF Typed, TypeOK
<1>2. dir' = [dir EXCEPT ![s] = [dir[s] EXCEPT !.files = dir[s].files \ {f}]]
  BY <1>1 DEF Unlinks, Holds, Dir
<1>3. dir'[s].place = dir[s].place /\ dir'[s].files = dir[s].files \ {f}
  BY <1>1, <1>2 DEF Dir
<1>4. \A t \in Stages \ {s} : dir'[t] = dir[t] /\ left'[t] = left[t]
  BY <1>1, <1>2 DEF Unlinks
<1>5. ASSUME OnDisk(s)' PROVE OnDisk(s) /\ left'[s] = left[s]
  <2>1. "manifest" \in dir[s].files \ {f} /\ OnDisk(s)
    BY <1>3, <1>5 DEF OnDisk
  <2>2. Shown(dir[s].files \ {f}) = "manifest" /\ Shown(dir[s].files) = "manifest"
    BY <2>1 DEF Shown
  <2>3. QED
    BY <1>1, <2>1, <2>2 DEF Unlinks
<1>6. QED
  BY <1>3, <1>4, <1>5

LEMMA UploadStep ==
  ASSUME Typed, StagingInv, NEW s \in Stages,
         \/ MakeDir(s) \/ WriteLease(s) \/ Renew(s) \/ HeartbeatDies(s) \/ OpenManifest(s)
         \/ WriteManifest(s) \/ Rename(s) \/ Publish(s)
  PROVE  StagingInv'
<1> USE StagingAssumption
<1>0. /\ dir \in [Stages -> Dir] /\ left \in [Stages -> 0..Ttl] /\ upload \in [Stages -> Uploads]
      /\ term \in [Stages -> 0..Ttl] /\ StageInv(s) /\ dir[s] \in Dir
  BY DEF Typed, TypeOK, StagingInv
<1>1. /\ \A t \in Stages \ {s} : Same(t)
      /\ UNCHANGED <<request, removal, torn>> /\ upload[s] # "over"
  <2>1. CASE MakeDir(s) \/ WriteLease(s) \/ Renew(s) \/ HeartbeatDies(s)
    BY <1>0, <2>1 DEF MakeDir, WriteLease, Renew, HeartbeatDies, Goes, Holds, Fresh, Same
  <2>2. CASE OpenManifest(s) \/ WriteManifest(s) \/ Rename(s)
    BY <1>0, <2>2 DEF OpenManifest, WriteManifest, Rename, Goes, Holds, Fresh, Same
  <2>3. CASE Publish(s)
    BY <1>0, <2>3, UnlinksStale DEF Publish, Goes, Same
  <2>4. QED
    BY <2>1, <2>2, <2>3
<1>2. StageInv(s)'
  <2>1. CASE MakeDir(s)
    <3>1. /\ dir'[s] = [place |-> "intake", files |-> {}] /\ left'[s] = Ttl /\ upload'[s] = "made"
          /\ upload[s] = "new" /\ UNCHANGED <<offered, term, removal, mute, torn>>
      BY <1>0, <2>1 DEF MakeDir, Goes, Fresh
    <3>2. QED
      BY <1>0, <3>1 DEF StageInv, UploadInv, OfferInv, RemovalInv, Holding, Live, Busy, Exists, On, Listed
  <2>2. CASE WriteLease(s)
    <3>1. /\ dir'[s].place = dir[s].place /\ left'[s] = Ttl
          /\ dir'[s].files = dir[s].files \cup {"lease", "export"}
          /\ upload'[s] = "receiving" /\ upload[s] = "made"
          /\ UNCHANGED <<offered, term, removal, mute, torn>>
      BY <1>0, <2>2 DEF WriteLease, Goes, Fresh, Holds, Dir
    <3>2. QED
      BY <1>0, <3>1 DEF StageInv, UploadInv, OfferInv, RemovalInv, Holding, Live, Busy, Exists, On, Listed,
         TakenLive
  <2>3. CASE Renew(s)
    <3>1. /\ dir'[s].place = dir[s].place /\ dir'[s].files = dir[s].files \cup {"lease"} /\ left'[s] = Ttl
          /\ upload'[s] = "receiving" /\ upload[s] = "receiving"
          /\ UNCHANGED <<offered, term, removal, mute, torn>>
      BY <1>0, <2>3 DEF Renew, Goes, Fresh, Holds, Dir
    <3>2. QED
      BY <1>0, <3>1 DEF StageInv, UploadInv, OfferInv, RemovalInv, Holding, Live, Busy, Exists, On, Listed,
         TakenLive
  <2>4. CASE HeartbeatDies(s)
    <3>1. /\ upload[s] = "receiving" /\ mute' = mute \cup {s}
          /\ UNCHANGED <<dir, left, upload, offered, term, removal, torn>>
      BY <2>4 DEF HeartbeatDies
    <3>2. QED
      BY <1>0, <3>1 DEF StageInv, UploadInv, OfferInv, RemovalInv, Holding, Live, Busy, Exists, On, Listed,
         TakenLive, Stale, OnDisk
  <2>5. CASE OpenManifest(s)
    <3>1. /\ dir'[s].place = dir[s].place /\ dir'[s].files = dir[s].files \cup {"blank"} /\ left'[s] = Ttl
          /\ "export" \in dir[s].files /\ term'[s] = Ttl
          /\ upload'[s] = "opened" /\ upload[s] = "receiving"
          /\ UNCHANGED <<offered, removal, mute, torn>>
      BY <1>0, <2>5 DEF OpenManifest, Goes, Fresh, Holds, Dir
    <3>2. QED
      BY <1>0, <3>1 DEF StageInv, UploadInv, OfferInv, RemovalInv, Holding, Live, Busy, Exists, On, Listed,
         TakenLive
  <2>6. CASE WriteManifest(s)
    <3>1. /\ dir'[s].place = dir[s].place
          /\ dir'[s].files = IF "blank" \in dir[s].files
                             THEN (dir[s].files \ {"blank"}) \cup {"manifest"} ELSE dir[s].files
          /\ upload'[s] = "written" /\ upload[s] = "opened"
          /\ UNCHANGED <<left, offered, term, removal, mute, torn>>
      BY <1>0, <2>6 DEF WriteManifest, Goes, Holds, Dir
    <3>2. QED
      BY <1>0, <3>1 DEF StageInv, UploadInv, OfferInv, RemovalInv, Holding, Live, Busy, Exists, On, Listed,
         TakenLive
  <2>7. CASE Rename(s)
    <3>1. /\ dir'[s].place = "root" /\ dir'[s].files = dir[s].files
          /\ upload'[s] = "renamed" /\ upload[s] = "written"
          /\ UNCHANGED <<left, offered, term, removal, mute, torn>>
      BY <1>0, <2>7 DEF Rename, Goes, Dir
    <3>2. QED
      BY <1>0, <3>1 DEF StageInv, UploadInv, OfferInv, RemovalInv, Holding, Live, Busy, Exists, On, Listed,
         TakenLive
  <2>8. CASE Publish(s)
    <3>1. /\ dir'[s].place = dir[s].place /\ dir'[s].files = dir[s].files \ {"lease"}
          /\ OnDisk(s)' => left'[s] = left[s]
          /\ upload'[s] = "over" /\ upload[s] = "renamed" /\ offered' = offered \cup {s}
          /\ UNCHANGED <<term, removal, mute, torn>>
      <4>1. CASE "lease" \in dir[s].files
        BY <1>0, <2>8, <4>1, UnlinksStale DEF Publish, Goes
      <4>2. CASE "lease" \notin dir[s].files
        BY <1>0, <2>8, <4>2 DEF Publish, Goes
      <4>3. QED
        BY <4>1, <4>2
    <3>2. UploadInv(s)'
      BY <1>0, <3>1 DEF StageInv, UploadInv, Live, Busy, Exists, On
    <3>3. OfferInv(s)'
      BY <1>0, <3>1 DEF StageInv, UploadInv, OfferInv, RemovalInv, Holding, Live, Busy, Exists, On, Listed,
         TakenLive, OnDisk
    <3>4. RemovalInv(s)'
      BY <1>0, <3>1 DEF StageInv, UploadInv, RemovalInv, Live, On, Listed, TakenLive
    <3>5. QED
      BY <3>2, <3>3, <3>4 DEF StageInv
  <2>9. QED
    BY <2>1, <2>2, <2>3, <2>4, <2>5, <2>6, <2>7, <2>8
<1>3. QED
  BY <1>1, <1>2, Assemble

LEMMA UploadFailsStep ==
  ASSUME Typed, StagingInv, NEW s \in Stages, UploadFails(s)
  PROVE  StagingInv'
<1>0. /\ upload \in [Stages -> Uploads] /\ term \in [Stages -> 0..Ttl]
      /\ removal \in [Removers -> Removal] /\ StageInv(s)
      /\ "loop" \in Removers /\ "janitor" \in Removers
  BY DEF Typed, TypeOK, StagingInv, Removers
<1>1. /\ upload'[s] = "over" /\ Live(s) /\ upload[s] # "over"
      /\ UNCHANGED <<dir, left, offered, request, mute, torn>>
      /\ removal'["janitor"] = removal["janitor"]
      /\ \/ removal'["loop"] = removal["loop"]
         \/ removal'["loop"] = Called(s, "intake", None)
  BY <1>0 DEF UploadFails, Goes, Live, Calls
<1>2. \A t \in Stages \ {s} : Same(t)
  <2> TAKE t \in Stages \ {s}
  <2>1. dir'[t] = dir[t] /\ left'[t] = left[t] /\ term'[t] = term[t] /\ upload'[t] = upload[t]
    BY <1>0, <1>1 DEF UploadFails, Goes
  <2>2. Apart(s)
    <3>1. CASE UNCHANGED removal
      BY <3>1 DEF Apart
    <3>2. CASE Calls(s, "intake", None)
      <4>1. /\ removal["loop"].stage = None
            /\ removal' = [removal EXCEPT !["loop"] = Called(s, "intake", None)]
        BY <3>2 DEF Calls, Idle
      <4>2. QED
        BY <1>0, <4>1, CallApart
    <3>3. QED
      BY <3>1, <3>2 DEF UploadFails
  <2>3. QED
    BY <1>1, <2>1, <2>2 DEF Same, Apart
<1>3. StageInv(s)'
  <2>1. UploadInv(s)'
    BY <1>1 DEF UploadInv, Live
  <2>2. OfferInv(s)'
    <3>1. ~On("loop", s) /\ s \notin offered
      BY <1>0, <1>1 DEF StageInv, UploadInv, OfferInv
    <3>2. ~Listed("loop", s)' /\ (Listed("janitor", s)' <=> Listed("janitor", s))
      BY <1>1, <3>1 DEF Listed, On, Called
    <3>3. dir[s].place = "root" /\ s \notin torn => {"export", "manifest"} \subseteq dir[s].files
      BY <1>0, <1>1 DEF StageInv, UploadInv, Holding
    <3>4. QED
      BY <1>1, <3>1, <3>2, <3>3 DEF OfferInv
  <2>3. RemovalInv(s)'
    <3>1. s \notin offered
      BY <1>0, <1>1 DEF StageInv, OfferInv
    <3>2. QED
      BY <1>0, <1>1, <3>1 DEF StageInv, UploadInv, RemovalInv, On, Listed, Called, TakenLive
  <2>4. QED
    BY <2>1, <2>2, <2>3 DEF StageInv
<1>4. QED
  BY <1>1, <1>2, <1>3, Assemble

\* _stage enters what can be promoted with the expiry of its directory.
LEMMA EntersKeeps ==
  ASSUME Typed, StagingInv, NEW s \in Stages, upload[s] = "over", Enters(s),
         removal["loop"] = Idle, removal'["janitor"] = removal["janitor"],
         removal'["loop"].phase # "listed", UNCHANGED <<dir, left, upload, mute, torn>>
  PROVE  /\ UploadInv(s)' /\ OfferInv(s)'
         /\ Final(s) => Final(s)'
         /\ \A t \in Stages \ {s} : term'[t] = term[t] /\ (t \in offered' <=> t \in offered)
<1>0. /\ term \in [Stages -> 0..Ttl] /\ left \in [Stages -> 0..Ttl]
      /\ removal["janitor"].place \in {"intake", "root"} \/ removal["janitor"].stage = None
      /\ StageInv(s) /\ s # None /\ Idle.stage = None
  BY RemovalOf, StagingAssumption DEF Typed, TypeOK, StagingInv, Removers, Idle
<1>1. \A t \in Stages \ {s} : term'[t] = term[t] /\ (t \in offered' <=> t \in offered)
  BY <1>0 DEF Enters
<1>2. UploadInv(s)'
  BY <1>0 DEF StageInv, UploadInv, Live
<1>3. ~Listed("loop", s) /\ ~Listed("loop", s)' /\ (Listed("janitor", s)' <=> Listed("janitor", s))
  BY <1>0 DEF Listed, On
<1>4. OfferInv(s)'
  <2>1. ASSUME term'[s] > 0, s \notin torn
        PROVE  /\ dir[s].place = "root" /\ {"export", "manifest"} \subseteq dir[s].files
               /\ left[s] = term'[s]
    <3>1. CASE s \in offered
      BY <1>0, <1>3, <2>1, <3>1 DEF Enters, StageInv, OfferInv
    <3>2. CASE s \notin offered
      <4>1. OnDisk(s) /\ term'[s] = left[s]
        BY <1>0, <3>2 DEF Enters, Known
      <4>2. ~Listed("janitor", s)
        BY <1>0, <2>1, <4>1 DEF StageInv, RemovalInv, Listed, On, TakenLive, Stale, OnDisk
      <4>3. QED
        BY <1>0, <1>3, <2>1, <4>1, <4>2 DEF StageInv, OfferInv, OnDisk
    <3>3. QED
      BY <3>1, <3>2
  <2>2. QED
    BY <1>0, <1>3, <2>1 DEF OfferInv, StageInv
<1>5. Final(s) => Final(s)'
  BY <1>0 DEF Final, Enters, Known, TakenLive, Stale, OnDisk
<1>6. QED
  BY <1>1, <1>2, <1>4, <1>5

\* A step of a request about a stage whose upload is over.
LEMMA RequestStepKeeps ==
  ASSUME Typed, StagingInv, NEW r \in Requests, NEW s \in Stages, NEW phase \in Phases,
         RequestStep(r, s, phase), upload[s] = "over",
         phase \in {"promoted", "cancelled"} => ~Known(s)
  PROVE  StagingInv'
<1>0. /\ removal \in [Removers -> Removal] /\ "loop" \in Removers /\ "janitor" \in Removers
      /\ StageInv(s) /\ s # None /\ Idle.stage = None
  BY StagingAssumption DEF Typed, TypeOK, StagingInv, Removers, Idle
<1>1. /\ request'[r] = [phase |-> phase, stage |-> s]
      /\ \A q \in Requests \ {r} : request'[q] = request[q]
      /\ UNCHANGED <<dir, left, upload, mute, torn>>
  BY ReachTyped DEF RequestStep, Cancels, Ignores, Moves, Phases
<1>2. CASE Cancels(r, s, phase)
  <2>1. /\ removal["loop"] = Idle /\ removal' = [removal EXCEPT !["loop"] = Called(s, "root", r)]
        /\ Enters(s) /\ phase \notin {"promoted", "cancelled"}
    BY <1>2 DEF Cancels, Calls, Enters
  <2>2. /\ removal'["loop"] = Called(s, "root", r) /\ removal'["janitor"] = removal["janitor"]
        /\ removal'["loop"].phase # "listed" /\ removal'["loop"].stage = s
        /\ removal'["loop"].caller = r /\ removal'["loop"].listed = {}
        /\ removal'["loop"].place = "root"
    BY <1>0, <2>1 DEF Called
  <2>3. /\ UploadInv(s)' /\ OfferInv(s)' /\ (Final(s) => Final(s)')
        /\ \A t \in Stages \ {s} : term'[t] = term[t] /\ (t \in offered' <=> t \in offered)
    BY <1>1, <2>1, <2>2, EntersKeeps
  <2>4. RemovalInv(s)'
    BY <1>0, <1>1, <2>2, StagingAssumption DEF StageInv, RemovalInv, On, Listed, TakenLive, Stale, OnDisk
  <2>5. \A t \in Stages \ {s} : Same(t)
    <3>1. Apart(s)
      BY <1>0, <2>1, CallApart
    <3>2. QED
      BY <1>1, <2>3, <3>1 DEF Same, Apart
  <2>6. RequestInv(r)'
    BY <1>1, <2>1 DEF RequestInv
  <2>7. QED
    BY <1>1, <2>3, <2>4, <2>5, <2>6, Assemble DEF StageInv
<1>3. CASE Ignores(r, s, phase) \/ Moves(r, phase)
  <2>1. UNCHANGED <<dir, left, upload, offered, term, removal, mute, torn>>
    BY <1>3 DEF Ignores, Moves
  <2>2. \A t \in Stages : Same(t)
    BY <2>1 DEF Same
  <2>3. \A t \in Stages : StageInv(t)' /\ (Final(t) => Final(t)')
    BY <2>2, Frame DEF StagingInv
  <2>4. ~Known(s) => Final(s)
    BY <1>0 DEF Known, Final, Stale
  <2>5. RequestInv(r)'
    <3>1. phase \in {"promoted", "cancelled"} => Final(s)'
      BY <2>3, <2>4
    <3>2. QED
      BY <1>1, <3>1 DEF RequestInv
  <2>6. QED
    BY <1>1, <2>2, <2>3, <2>5, Assemble
<1>4. QED
  BY <1>2, <1>3 DEF RequestStep

LEMMA PromoteCheckedStep ==
  ASSUME Typed, StagingInv, NEW r \in Requests, NEW s \in Stages, PromoteChecked(r, s)
  PROVE  StagingInv'
<1>0. StageInv(s) /\ s # None /\ Idle.stage = None /\ Idle.phase = "idle"
  BY StagingAssumption DEF StagingInv, Idle
<1>1. /\ request'[r] = [phase |-> "checked", stage |-> s]
      /\ \A q \in Requests \ {r} : request'[q] = request[q]
      /\ UNCHANGED <<dir, left, upload, removal, mute, torn>>
      /\ upload[s] = "over" /\ Enters(s) /\ removal["loop"] = Idle
  BY ReachTyped DEF PromoteChecked, Names, Free
<1>2. /\ UploadInv(s)' /\ OfferInv(s)' /\ (Final(s) => Final(s)')
      /\ \A t \in Stages \ {s} : term'[t] = term[t] /\ (t \in offered' <=> t \in offered)
  BY <1>0, <1>1, EntersKeeps
<1>3. RemovalInv(s)'
  BY <1>0, <1>1 DEF StageInv, RemovalInv, On, Listed, TakenLive, Stale, OnDisk
<1>4. \A t \in Stages \ {s} : Same(t)
  BY <1>1, <1>2 DEF Same
<1>5. RequestInv(r)'
  BY <1>1 DEF RequestInv
<1>6. QED
  BY <1>1, <1>2, <1>3, <1>4, <1>5, Assemble DEF StageInv

\* The stage a removal is about: nobody uploads to it but, in the hands of the
\* janitor, an upload whose heartbeat has died.
LEMMA RemovedStage ==
  ASSUME Typed, StagingInv, NEW w \in Removers, removal[w].phase # "idle",
         NEW s, s = removal[w].stage
  PROVE  /\ s \in Stages /\ StageInv(s) /\ s # None /\ upload[s] # "new"
         /\ removal[w].place \in {"intake", "root"} /\ w \in {"loop", "janitor"}
         /\ w = "loop" => upload[s] = "over"
         /\ Live(s) => s \in mute
         /\ Live(s) /\ removal[w].phase = "listed" => TakenLive(s)
         /\ w = "janitor" /\ removal[w].phase = "listed" => TakenLive(s) \/ Stale(s)
<1>1. /\ s \in Stages /\ StageInv(s) /\ s # None /\ removal[w].place \in {"intake", "root"}
      /\ w \in {"loop", "janitor"} /\ On(w, s)
  BY RemovalOf, StagingAssumption DEF StagingInv, Removers, On
<1>2. upload[s] # "new" /\ (w = "loop" => upload[s] = "over") /\ (Live(s) => s \in mute)
  BY <1>1 DEF StageInv, UploadInv, Live
<1>3. removal[w].phase = "listed" /\ w = "janitor" =>
        TakenLive(s) \/ (upload[s] = "over" /\ Stale(s))
  BY <1>1 DEF StageInv, RemovalInv, Listed, Stale, OnDisk
<1>4. QED
  BY <1>1, <1>2, <1>3 DEF Live

LEMMA ListStep ==
  ASSUME Typed, StagingInv, NEW w \in Removers, List(w)
  PROVE  StagingInv'
<1> PICK s : s = removal[w].stage
  OBVIOUS
<1>0. /\ removal[w].phase = "called" /\ s \in Stages /\ StageInv(s) /\ upload[s] # "new"
      /\ removal[w].place \in {"intake", "root"} /\ w \in {"loop", "janitor"}
      /\ (w = "loop" => upload[s] = "over") /\ (Live(s) => s \in mute)
      /\ removal \in [Removers -> Removal] /\ "loop" \in Removers /\ "janitor" \in Removers
  BY RemovedStage DEF List, Typed, TypeOK, Removers
<1>1. /\ removal'[w].phase = "listed" /\ removal'[w].listed = dir[s].files
      /\ removal'[w].stage = s /\ removal'[w].place = removal[w].place
      /\ removal'[w].caller = removal[w].caller
      /\ \A v \in Removers \ {w} : removal'[v] = removal[v]
      /\ dir[s].place = removal[w].place
      /\ torn' = (IF Live(s) THEN torn \cup {s} ELSE torn)
      /\ UNCHANGED <<dir, left, upload, offered, term, request, mute>>
  BY <1>0 DEF List, AtPlace, Removal
<1>2. \A t \in Stages \ {s} : Same(t)
  BY <1>0, <1>1 DEF Same
<1>3. StageInv(s)'
  <2>1. UploadInv(s)'
    BY <1>0, <1>1 DEF StageInv, UploadInv, Live, Busy, Exists, Holding, On
  <2>2. OfferInv(s)'
    <3>1. CASE w = "loop"
      BY <1>0, <1>1, <3>1 DEF StageInv, OfferInv, Listed, On
    <3>2. CASE w = "janitor"
      BY <1>0, <1>1, <3>2 DEF StageInv, OfferInv, Listed, On
    <3>3. QED
      BY <1>0, <3>1, <3>2
  <2>3. RemovalInv(s)'
    <3>1. CASE w = "loop"
      BY <1>0, <1>1, <3>1 DEF StageInv, RemovalInv, Listed, On, TakenLive, Stale, OnDisk, Live
    <3>2. CASE w = "janitor"
      BY <1>0, <1>1, <3>2 DEF StageInv, RemovalInv, Listed, On, TakenLive, Stale, OnDisk, Live
    <3>3. QED
      BY <1>0, <3>1, <3>2
  <2>4. QED
    BY <2>1, <2>2, <2>3 DEF StageInv
<1>4. upload[s] = "over" => upload'[s] = "over" /\ (Final(s) => Final(s)')
  BY <1>1 DEF Final, TakenLive, Stale, OnDisk
<1>5. QED
  BY <1>0, <1>1, <1>2, <1>3, <1>4, Assemble

LEMMA UnlinkStep ==
  ASSUME Typed, StagingInv, NEW w \in Removers, Unlink(w)
  PROVE  StagingInv'
<1> PICK s : s = removal[w].stage
  OBVIOUS
<1>0. /\ removal[w].phase = "listed" /\ s \in Stages /\ StageInv(s) /\ upload[s] # "new"
      /\ removal[w].place \in {"intake", "root"} /\ w \in {"loop", "janitor"}
      /\ (w = "loop" => upload[s] = "over") /\ (Live(s) => TakenLive(s))
      /\ (w = "janitor" => TakenLive(s) \/ Stale(s))
      /\ removal \in [Removers -> Removal] /\ "loop" \in Removers /\ "janitor" \in Removers
  BY RemovedStage DEF Unlink, Typed, TypeOK, Removers
<1>1. PICK f \in removal[w].listed :
        /\ removal' = [removal EXCEPT ![w].listed = @ \ {f}]
        /\ IF f \in dir[s].files THEN Unlinks(s, f) ELSE UNCHANGED <<dir, left>>
  BY DEF Unlink
<1>2. /\ removal'[w].phase = "listed" /\ removal'[w].listed = removal[w].listed \ {f}
      /\ removal'[w].stage = s /\ removal'[w].place = removal[w].place
      /\ removal'[w].caller = removal[w].caller
      /\ \A v \in Removers \ {w} : removal'[v] = removal[v]
      /\ UNCHANGED <<upload, offered, term, request, mute, torn>>
  BY <1>0, <1>1 DEF Unlink, Removal
<1>3. /\ dir'[s].place = dir[s].place /\ dir'[s].files = dir[s].files \ {f}
      /\ \A t \in Stages \ {s} : dir'[t] = dir[t] /\ left'[t] = left[t]
      /\ OnDisk(s)' => OnDisk(s) /\ left'[s] = left[s]
  <2>1. CASE f \in dir[s].files
    BY <1>0, <1>1, <2>1, UnlinksStale
  <2>2. CASE f \notin dir[s].files
    BY <1>0, <1>1, <2>2 DEF OnDisk
  <2>3. QED
    BY <2>1, <2>2
<1>4. \A t \in Stages \ {s} : Same(t)
  BY <1>0, <1>2, <1>3 DEF Same
<1>5. Stale(s) => Stale(s)'
  BY <1>3 DEF Stale
<1>6. StageInv(s)'
  <2>1. UploadInv(s)'
    BY <1>0, <1>2, <1>3 DEF StageInv, UploadInv, Live, On, TakenLive
  <2>2. OfferInv(s)'
    <3>1. CASE w = "loop"
      BY <1>0, <1>2, <3>1 DEF StageInv, OfferInv, Listed, On
    <3>2. CASE w = "janitor"
      <4>1. Listed("janitor", s)' /\ (Listed("loop", s)' <=> Listed("loop", s))
        BY <1>0, <1>2, <3>2 DEF Listed, On
      <4>2. ASSUME s \in offered, term[s] > 0, s \notin torn, ~Listed("loop", s)
            PROVE  FALSE
        <5>1. OnDisk(s) /\ left[s] > 0
          BY <1>0, <4>2 DEF StageInv, OfferInv, OnDisk
        <5>2. QED
          BY <1>0, <3>2, <4>2, <5>1 DEF TakenLive, Stale
      <4>3. QED
        BY <1>0, <1>2, <4>1, <4>2 DEF StageInv, OfferInv
    <3>3. QED
      BY <1>0, <3>1, <3>2
  <2>3. RemovalInv(s)'
    <3>1. CASE w = "loop"
      BY <1>0, <1>2, <1>3, <1>5, <3>1 DEF StageInv, RemovalInv, Listed, On, TakenLive
    <3>2. CASE w = "janitor"
      BY <1>0, <1>2, <1>3, <1>5, <3>2 DEF StageInv, RemovalInv, Listed, On, TakenLive
    <3>3. QED
      BY <1>0, <3>1, <3>2
  <2>4. QED
    BY <2>1, <2>2, <2>3 DEF StageInv
<1>7. upload[s] = "over" => upload'[s] = "over" /\ (Final(s) => Final(s)')
  BY <1>2, <1>5 DEF Final, TakenLive
<1>8. QED
  BY <1>0, <1>2, <1>4, <1>6, <1>7, Assemble

\* What an rmtree that ends leaves: no directory, or a directory as it is, which
\* is a torn one if its removal had begun.
Left(w, s) ==
  \/ /\ dir' = [dir EXCEPT ![s] = NoDir] /\ left' = [left EXCEPT ![s] = 0] /\ UNCHANGED torn
     /\ removal[w].phase = "listed" /\ dir[s].place = removal[w].place /\ dir[s].files = {}
  \/ /\ UNCHANGED <<dir, left>>
     /\ torn' = IF removal[w].phase = "listed" THEN torn \cup {s} ELSE torn

LEMMA EndLeft ==
  ASSUME NEW w, NEW s, s = removal[w].stage, Emptied(w) \/ Missing(w) \/ Fails(w)
  PROVE  Left(w, s)
BY DEF Emptied, Missing, Fails, Tears, AtPlace, Left

\* The stage after such an end, whatever becomes of its removal and its entry.
LEMMA LeftKeeps ==
  ASSUME Typed, StagingInv, NEW w \in Removers, removal[w].phase # "idle",
         NEW s, s = removal[w].stage, Left(w, s), UNCHANGED <<upload, mute>>,
         \A v \in Removers \ {w} : removal'[v] = removal[v],
         removal'[w] = Idle \/ (w = "loop" /\ \E r \in Requests : removal'[w] = Called(s, "root", r)),
         UNCHANGED <<offered, term>> \/ (w = "loop" /\ Forget(s))
  PROVE  /\ UploadInv(s)' /\ RemovalInv(s)'
         /\ s \in offered' => UNCHANGED <<offered, term>>
         /\ w = "janitor" \/ s \notin offered' \/ UNCHANGED dir => OfferInv(s)'
         /\ Final(s) => Final(s)'
         /\ Stale(s) => Stale(s)'
<1>0. /\ s \in Stages /\ StageInv(s) /\ s # None /\ upload[s] # "new"
      /\ removal[w].place \in {"intake", "root"} /\ w \in {"loop", "janitor"}
      /\ (w = "loop" => upload[s] = "over") /\ (Live(s) => s \in mute)
      /\ (Live(s) /\ removal[w].phase = "listed" => TakenLive(s))
      /\ On(w, s) /\ Idle.stage = None /\ "loop" \in Removers /\ "janitor" \in Removers
      /\ dir \in [Stages -> Dir] /\ left \in [Stages -> 0..Ttl]
  BY RemovedStage DEF Typed, TypeOK, On, Idle, Removers
<1>1. /\ \/ /\ dir'[s] = NoDir /\ left'[s] = 0 /\ torn' = torn
            /\ removal[w].phase = "listed" /\ dir[s].place = removal[w].place /\ dir[s].files = {}
         \/ /\ dir' = dir /\ left' = left
            /\ torn' = IF removal[w].phase = "listed" THEN torn \cup {s} ELSE torn
  BY <1>0 DEF Left
<1>2. Stale(s) => Stale(s)'
  BY <1>1 DEF Stale, OnDisk, NoDir
<1>3. s \in offered' => UNCHANGED <<offered, term>>
  BY DEF Forget
<1>4. Final(s) => Final(s)'
  BY <1>1, <1>2, <1>3 DEF Final, TakenLive
<1>5. /\ ~Listed(w, s)'
      /\ On(w, s)' => w = "loop" /\ removal'[w].place = "root" /\ removal'[w].listed = {}
                      /\ removal'[w].caller # None
  <2>1. CASE removal'[w] = Idle
    BY <1>0, <2>1 DEF Listed, On
  <2>2. CASE w = "loop" /\ \E r \in Requests : removal'[w] = Called(s, "root", r)
    <3>1. PICK r \in Requests : removal'[w] = Called(s, "root", r)
      BY <2>2
    <3>2. /\ removal'[w].phase = "called" /\ removal'[w].place = "root" /\ removal'[w].listed = {}
          /\ removal'[w].caller = r /\ r # None
      BY <3>1, StagingAssumption DEF Called
    <3>3. QED
      BY <2>2, <3>2 DEF Listed
  <2>3. QED
    BY <2>1, <2>2
<1>6. UploadInv(s)'
  <2>1. Live(s)' => ~On("loop", s)'
    BY <1>0, <1>1 DEF StageInv, UploadInv, Live, On
  <2>2. CASE dir' = dir /\ left' = left
    <3>1. Live(s) => w = "janitor" /\ term' = term
      BY <1>0 DEF Live
    <3>2. (s \in torn => s \in torn') /\ upload' = upload /\ mute' = mute
      BY <1>1
    <3>3. QED
      BY <1>0, <2>1, <2>2, <3>1, <3>2 DEF StageInv, UploadInv, Live, Holding, Exists, Busy
  <2>3. CASE dir'[s] = NoDir /\ removal[w].phase = "listed" /\ torn' = torn
    BY <1>0, <2>1, <2>3 DEF StageInv, UploadInv, Live, TakenLive, NoDir
  <2>4. QED
    BY <1>1, <2>2, <2>3
<1>7. RemovalInv(s)'
  <2>1. CASE w = "loop"
    BY <1>0, <1>1, <1>2, <1>5, <2>1 DEF StageInv, RemovalInv, Listed, On, TakenLive, NoDir
  <2>2. CASE w = "janitor"
    <3>1. ~On("janitor", s)' /\ removal'["loop"] = removal["loop"]
      BY <1>0, <1>5, <2>2
    <3>2. /\ On("loop", s) /\ removal["loop"].caller = None => s \notin offered'
          /\ On("loop", s) /\ removal["loop"].caller # None => removal["loop"].place = "root"
      BY <1>0, <1>3 DEF StageInv, RemovalInv
    <3>3. On("loop", s) /\ ~(removal["loop"].listed \subseteq dir'[s].files) => TakenLive(s)' \/ Stale(s)'
      <4>1. CASE dir'[s] = NoDir
        BY <4>1 DEF Stale, OnDisk, NoDir
      <4>2. CASE dir' = dir /\ left' = left
        BY <1>0, <1>1, <1>2, <4>2 DEF StageInv, RemovalInv, TakenLive
      <4>3. QED
        BY <1>1, <4>1, <4>2
    <3>4. QED
      BY <3>1, <3>2, <3>3 DEF RemovalInv, Listed, On
  <2>3. QED
    BY <1>0, <2>1, <2>2
<1>8. ASSUME w = "janitor" \/ s \notin offered' \/ UNCHANGED dir PROVE OfferInv(s)'
  <2>1. \A v \in {"loop", "janitor"} \ {w} : Listed(v, s)' <=> Listed(v, s)
    BY <1>0 DEF Listed, On
  <2>2. CASE s \in torn'
    BY <1>0, <1>3, <2>2 DEF StageInv, OfferInv
  <2>3. CASE removal[w].phase # "listed"
    <3>1. ~Listed(w, s) /\ dir' = dir /\ left' = left /\ torn' = torn
      BY <1>1, <2>3 DEF Listed
    <3>2. (Listed("loop", s)' <=> Listed("loop", s)) /\ (Listed("janitor", s)' <=> Listed("janitor", s))
      BY <1>0, <1>5, <2>1, <3>1
    <3>3. QED
      BY <1>0, <1>3, <3>1, <3>2 DEF StageInv, OfferInv
  <2>4. CASE dir'[s] = NoDir /\ dir[s].place = removal[w].place /\ dir[s].files = {} /\ torn' = torn
    <3>1. w = "janitor" /\ s \in offered' /\ term'[s] > 0 /\ s \notin torn /\ ~Listed("loop", s)' => FALSE
      BY <1>0, <1>3, <2>1, <2>4 DEF StageInv, OfferInv
    <3>2. CASE w = "janitor"
      BY <1>0, <1>3, <2>4, <3>1, <3>2 DEF StageInv, OfferInv, NoDir
    <3>3. CASE w = "loop" /\ s \notin offered'
      BY <1>0, <1>3, <2>4, <3>3 DEF StageInv, OfferInv, NoDir
    <3>4. dir' # dir
      BY <1>0, <1>1, <2>4 DEF StageInv, NoDir
    <3>5. QED
      BY <1>0, <1>8, <2>4, <3>2, <3>3, <3>4
  <2>5. QED
    BY <1>1, <2>2, <2>3, <2>4
<1>9. QED
  BY <1>2, <1>3, <1>4, <1>6, <1>7, <1>8

LEMMA EndOthers ==
  ASSUME Typed, NEW w \in Removers, NEW s \in Stages, s = removal[w].stage, Left(w, s), Apart(s),
         UNCHANGED <<upload, mute>>, UNCHANGED <<offered, term>> \/ Forget(s)
  PROVE  \A t \in Stages \ {s} : Same(t)
<1>1. dir \in [Stages -> Dir] /\ left \in [Stages -> 0..Ttl] /\ term \in [Stages -> 0..Ttl]
  BY DEF Typed, TypeOK
<1>2. QED
  BY <1>1 DEF Left, Same, Apart, Forget

LEMMA PurgedStep ==
  ASSUME Typed, StagingInv, Purged
  PROVE  StagingInv'
<1> DEFINE w == "janitor"
<1> PICK s : s = removal[w].stage
  OBVIOUS
<1>1. /\ Emptied(w) \/ Missing(w) \/ Fails(w)
      /\ removal' = [removal EXCEPT ![w] = Idle] /\ w \in Removers
      /\ UNCHANGED <<upload, offered, term, request, mute>>
  BY DEF Purged, Removers
<1>2. removal[w].phase # "idle" /\ Left(w, s)
  BY <1>1, EndTyped, EndLeft
<1>3. s \in Stages
  BY <1>1, <1>2, RemovedStage
<1>4. \A v \in Removers : removal'[v] = IF v = w THEN Idle ELSE removal[v]
  BY <1>1 DEF Typed, TypeOK
<1>5. /\ UploadInv(s)' /\ RemovalInv(s)' /\ OfferInv(s)' /\ (Final(s) => Final(s)')
  BY <1>1, <1>2, <1>4, LeftKeeps
<1>6. Apart(s)
  BY <1>1, <1>3, IdleApart
<1>7. \A t \in Stages \ {s} : Same(t)
  BY <1>1, <1>2, <1>3, <1>6, EndOthers
<1>8. QED
  BY <1>1, <1>3, <1>5, <1>7, Assemble DEF StageInv

LEMMA CancelEndStep ==
  ASSUME Typed, StagingInv, CancelReturns \/ CancelRaises
  PROVE  StagingInv'
<1> DEFINE w == "loop"
<1> PICK s : s = removal[w].stage
  OBVIOUS
<1> PICK r : r = removal[w].caller
  OBVIOUS
<1>1. /\ Emptied(w) \/ Missing(w) \/ Fails(w)
      /\ w \in Removers
      /\ UNCHANGED <<upload, mute>>
      /\ UNCHANGED <<offered, term>> \/ Forget(s)
      /\ \/ removal' = [removal EXCEPT ![w] = Idle]
         \/ r # None /\ removal' = [removal EXCEPT ![w] = Called(s, "root", r)]
      /\ \/ UNCHANGED request
         \/ r # None /\ Reaches(r, s, AnswerOf(request[r].phase)) /\ CancelReturns
         \/ r # None /\ \E phase \in {"failed", "refused"} : Reaches(r, s, phase)
  BY DEF CancelReturns, CancelRaises, Removers, Answered
<1>2. removal[w].phase # "idle" /\ Left(w, s) /\ r \in Requests \cup {None} /\ w \in Removers
  BY <1>1, EndTyped, EndLeft, RemovalOf DEF Removers
<1>3. s \in Stages /\ StageInv(s) /\ upload[s] = "over" /\ On(w, s)
  BY <1>2, RemovedStage DEF On
<1>4. /\ \A v \in Removers \ {w} : removal'[v] = removal[v]
      /\ removal'[w] = Idle \/ (\E q \in Requests : removal'[w] = Called(s, "root", q))
  BY <1>1, <1>2 DEF Typed, TypeOK
<1>5. Apart(s)
  <2>1. removal[w].stage \in {s, None}
    OBVIOUS
  <2>2. QED
    BY <1>1, <1>2, <1>3, <2>1, CallApart, IdleApart
<1>6. /\ UploadInv(s)' /\ RemovalInv(s)' /\ (Final(s) => Final(s)') /\ (Stale(s) => Stale(s)')
      /\ s \notin offered' \/ UNCHANGED dir => OfferInv(s)'
  BY <1>1, <1>2, <1>4, LeftKeeps
<1>7. s \notin offered' \/ UNCHANGED dir
  <2>1. CASE CancelReturns /\ r # None
    BY <2>1 DEF CancelReturns, Forget
  <2>2. CASE CancelReturns /\ r = None
    BY <1>3, <2>2 DEF CancelReturns, StageInv, RemovalInv
  <2>3. CASE CancelRaises
    BY <2>3 DEF CancelRaises, Fails
  <2>4. QED
    BY <2>1, <2>2, <2>3
<1>8. \A t \in Stages \ {s} : Same(t)
  BY <1>1, <1>2, <1>3, <1>5, EndOthers
<1>9. ASSUME CancelReturns, r # None PROVE Final(s)'
  <2>1. s \notin offered' /\ upload'[s] = "over" /\ (Emptied(w) \/ Missing(w))
    BY <1>1, <1>3, <1>9 DEF CancelReturns, Forget
  <2>2. TakenLive(s)' \/ Stale(s)'
    <3>1. CASE Emptied(w)
      BY <1>3, <3>1 DEF Emptied, Typed, TypeOK, Stale, OnDisk, NoDir
    <3>2. CASE Missing(w)
      <4>1. TakenLive(s) \/ Stale(s)
        <5>1. removal[w].place = "root"
          BY <1>3, <1>9 DEF StageInv, RemovalInv
        <5>2. CASE ~AtPlace(w)
          BY <5>1, <5>2 DEF AtPlace, Stale, OnDisk
        <5>3. CASE removal[w].listed \ dir[s].files # {}
          BY <1>3, <5>3 DEF StageInv, RemovalInv
        <5>4. QED
          BY <3>2, <5>2, <5>3 DEF Missing
      <4>2. TakenLive(s) => TakenLive(s)'
        BY <1>1, <3>2 DEF Missing, Tears, TakenLive
      <4>3. QED
        BY <1>6, <4>1, <4>2
    <3>3. QED
      BY <2>1, <3>1, <3>2
  <2>3. QED
    BY <2>1, <2>2 DEF Final
<1>10. \A q \in Requests : request'[q] = request[q] \/ RequestInv(q)'
  <2>1. CASE UNCHANGED request
    BY <2>1
  <2>2. ASSUME NEW phase \in Phases, r # None, Reaches(r, s, phase),
               phase \in {"promoted", "cancelled"} => Final(s)'
        PROVE  \A q \in Requests : request'[q] = request[q] \/ RequestInv(q)'
    <3>1. /\ r \in Requests /\ request'[r] = [phase |-> phase, stage |-> s]
          /\ \A q \in Requests \ {r} : request'[q] = request[q]
      BY <1>2, <1>3, <2>2, ReachTyped DEF Phases
    <3>2. upload'[s] = "over"
      BY <1>1, <1>3
    <3>3. RequestInv(r)'
      BY <1>3, <2>2, <3>1, <3>2 DEF RequestInv
    <3>4. QED
      BY <3>1, <3>3
  <2>3. AnswerOf(request[r].phase) \in Phases
    BY DEF AnswerOf, Phases
  <2>4. {"failed", "refused"} \subseteq Phases
    BY DEF Phases
  <2>5. QED
    BY <1>1, <1>9, <2>1, <2>2, <2>3, <2>4
<1>11. QED
  BY <1>1, <1>3, <1>6, <1>7, <1>8, <1>10, Assemble DEF StageInv

LEMMA JudgeStep ==
  ASSUME Typed, StagingInv, NEW s \in Stages, Judge(s)
  PROVE  StagingInv'
<1> DEFINE w == "janitor"
<1>0. /\ removal[w] = Idle /\ Exists(s) /\ left[s] = 0 /\ StageInv(s)
      /\ removal' = [removal EXCEPT ![w] = Called(s, dir[s].place, None)]
      /\ UNCHANGED <<dir, left, upload, offered, term, request, mute, torn>>
      /\ w \in Removers /\ "loop" \in Removers /\ removal[w].stage = None
  BY DEF Judge, StagingInv, Removers, Idle
<1>1. removal'["loop"] = removal["loop"] /\ removal'[w] = Called(s, dir[s].place, None)
  BY <1>0 DEF Typed, TypeOK
<1>2. Apart(s)
  BY <1>0, CallApart
<1>3. \A t \in Stages \ {s} : Same(t)
  BY <1>0, <1>2 DEF Same, Apart
<1>4. upload[s] # "new" /\ (Live(s) => s \in mute)
  BY <1>0 DEF StageInv, UploadInv, Exists, NoDir, Live
<1>5. UploadInv(s)'
  BY <1>0, <1>1, <1>4 DEF StageInv, UploadInv, Live, Busy, Exists, Holding, On
<1>6. OfferInv(s)'
  <2>1. ~Listed(w, s) /\ ~Listed(w, s)' /\ (Listed("loop", s)' <=> Listed("loop", s))
    BY <1>0, <1>1 DEF Listed, On, Idle, Called
  <2>2. QED
    BY <1>0, <2>1 DEF StageInv, OfferInv
<1>7. RemovalInv(s)'
  <2>1. dir[s].place = "root" => TakenLive(s) \/ (upload[s] = "over" /\ Stale(s))
    BY <1>0, <1>4 DEF StageInv, UploadInv, Live, Busy, Holding, TakenLive, Stale
  <2>2. removal'[w].phase = "called" /\ removal'[w].place = dir[s].place
    BY <1>1 DEF Called
  <2>3. QED
    BY <1>0, <1>1, <2>1, <2>2 DEF StageInv, RemovalInv, Listed, On, TakenLive, Stale, OnDisk
<1>8. Final(s) => Final(s)'
  BY <1>0 DEF Final, TakenLive, Stale, OnDisk
<1>9. QED
  BY <1>0, <1>3, <1>5, <1>6, <1>7, <1>8, Assemble DEF StageInv

LEMMA CrashStep ==
  ASSUME Typed, StagingInv, Crash
  PROVE  StagingInv'
<1>0. /\ \A w \in Removers : removal'[w] = Idle
      /\ "loop" \in Removers /\ "janitor" \in Removers
      /\ UNCHANGED <<dir, left, mute>> /\ offered' = {}
      /\ \A s \in Stages : upload'[s] = IF Live(s) THEN "over" ELSE upload[s]
      /\ torn' = torn \cup {removal[w].stage : w \in {v \in Removers : removal[v].phase = "listed"}}
  BY DEF Crash, Removers
<1>1. ASSUME NEW s \in Stages PROVE StageInv(s)' /\ (Final(s) => Final(s)')
  <2>1. StageInv(s) /\ s # None /\ Idle.stage = None
    BY StagingAssumption DEF StagingInv, Idle
  <2>2. ~On("loop", s)' /\ ~On("janitor", s)'
    BY <1>0, <2>1 DEF On
  <2>3. /\ s \in torn => s \in torn'
        /\ Listed("loop", s) \/ Listed("janitor", s) => s \in torn'
        /\ s \in torn' => s \in torn \/ On("loop", s) \/ On("janitor", s)
    BY <1>0 DEF Listed, On, Removers
  <2>4. UploadInv(s)'
    BY <1>0, <2>1, <2>2, <2>3 DEF StageInv, UploadInv, Live
  <2>5. OfferInv(s)'
    BY <1>0, <2>1, <2>3 DEF StageInv, OfferInv
  <2>6. RemovalInv(s)'
    BY <2>2 DEF RemovalInv, Listed
  <2>7. Final(s) => Final(s)'
    BY <1>0, <2>3 DEF Final, Live, TakenLive, Stale, OnDisk
  <2>8. QED
    BY <2>4, <2>5, <2>6, <2>7 DEF StageInv
<1>2. ASSUME NEW r \in Requests PROVE RequestInv(r)'
  <2>1. RequestInv(r) /\ request[r] \in Request
    BY DEF StagingInv, Typed, TypeOK
  <2>2. CASE request'[r] = request[r]
    BY <1>0, <1>1, <2>1, <2>2 DEF RequestInv, Live
  <2>3. CASE request[r].phase # "new" /\ request'[r] = [request[r] EXCEPT !.phase = "refused"]
    <3>1. request'[r].phase = "refused" /\ request'[r].stage = request[r].stage
      BY <2>1, <2>3 DEF Request
    <3>2. QED
      BY <1>0, <2>1, <2>3, <3>1 DEF RequestInv, Live
  <2>4. QED
    BY <2>2, <2>3 DEF Crash
<1>3. QED
  BY <1>1, <1>2 DEF StagingInv

LEMMA TickStep ==
  ASSUME Typed, StagingInv, Tick
  PROVE  StagingInv'
<1> USE StagingAssumption
<1>0. UNCHANGED <<dir, upload, offered, request, removal, mute, torn>>
  BY DEF Tick
<1>1. ASSUME NEW s \in Stages PROVE StageInv(s)' /\ (Final(s) => Final(s)')
  <2>1. /\ left[s] \in 0..Ttl /\ term[s] \in 0..Ttl /\ StageInv(s)
        /\ left'[s] = (IF left[s] > 0 THEN left[s] - 1 ELSE 0)
        /\ term'[s] = (IF term[s] > 0 THEN term[s] - 1 ELSE 0)
        /\ upload[s] = "receiving" /\ s \notin mute => Ttl - left[s] < Period
        /\ Busy(s) /\ Exists(s) => left[s] > 1
    BY DEF Tick, Typed, TypeOK, StagingInv
  <2>2. Live(s) => upload[s] = "receiving" \/ Busy(s)
    BY DEF Live, Busy, Typed, TypeOK, Uploads
  <2>3. Holding(s) => Holding(s)'
    BY <1>0, <2>1 DEF Holding, Exists, Busy
  <2>4. Live(s) /\ s \notin mute => left'[s] > 0
    <3>1. CASE upload[s] = "receiving"
      BY <2>1, <3>1
    <3>2. CASE Busy(s)
      BY <2>1, <3>2 DEF StageInv, UploadInv, Holding, Live
    <3>3. QED
      BY <2>2, <3>1, <3>2
  <2>5. UploadInv(s)'
    BY <1>0, <2>1, <2>3, <2>4 DEF StageInv, UploadInv, Live, On
  <2>6. OfferInv(s)'
    BY <1>0, <2>1 DEF StageInv, OfferInv, Listed, On
  <2>7. Stale(s) => Stale(s)'
    BY <1>0, <2>1 DEF Stale, OnDisk
  <2>8. RemovalInv(s)'
    BY <1>0, <2>1, <2>7 DEF StageInv, RemovalInv, Listed, On, TakenLive
  <2>9. Final(s) => Final(s)'
    BY <1>0, <2>1, <2>7 DEF Final, TakenLive
  <2>10. QED
    BY <2>5, <2>6, <2>8, <2>9 DEF StageInv
<1>2. \A r \in Requests : RequestInv(r)'
  BY <1>0, <1>1 DEF StagingInv, RequestInv
<1>3. QED
  BY <1>1, <1>2 DEF StagingInv

LEMMA StagingSafe == Spec => []StagingInv
<1>1. Init => StagingInv
  <2> SUFFICES ASSUME Init PROVE StagingInv
    OBVIOUS
  <2>1. \A w \in Removers : removal[w].stage = None /\ removal[w].phase = "idle"
    BY DEF Init, Idle
  <2>2. "loop" \in Removers /\ "janitor" \in Removers
    BY DEF Removers
  <2>3. ASSUME NEW s \in Stages PROVE StageInv(s)
    <3>1. /\ dir[s] = NoDir /\ upload[s] = "new" /\ s \notin offered /\ s \notin mute /\ s \notin torn
          /\ s # None /\ dir[s].place = "nowhere"
      BY <2>3, StagingAssumption DEF Init, NoDir
    <3>2. ~On("loop", s) /\ ~On("janitor", s)
      BY <2>1, <2>2, <3>1 DEF On
    <3>3. QED
      BY <3>1, <3>2 DEF StageInv, UploadInv, OfferInv, RemovalInv, Live, Listed
  <2>4. \A r \in Requests : RequestInv(r)
    BY DEF Init, RequestInv
  <2>5. QED
    BY <2>3, <2>4 DEF StagingInv
<1>2. Typed /\ StagingInv /\ [Next]_vars => StagingInv'
  <2> SUFFICES ASSUME Typed, StagingInv, [Next]_vars PROVE StagingInv'
    OBVIOUS
  <2>1. CASE UNCHANGED vars
    <3>1. UNCHANGED <<dir, left, upload, offered, term, request, removal, mute, torn>>
      BY <2>1 DEF vars
    <3>2. \A t \in Stages : StageInv(t)' /\ (Final(t) => Final(t)')
      BY <3>1, Frame DEF StagingInv, Same
    <3>3. \A r \in Requests : RequestInv(r)'
      BY <3>1, <3>2 DEF StagingInv, RequestInv
    <3>4. QED
      BY <3>2, <3>3 DEF StagingInv
  <2>2. ASSUME NEW r \in Requests,
               \/ \E s \in Stages : Cancel(r, s) \/ PromoteRefused(r, s) \/ PromoteNothing(r, s)
               \/ Load(r) \/ LoadFails(r) \/ Commit(r) \/ CommitFails(r) \/ PromotionInterrupted(r)
               \/ Finish(r)
        PROVE  StagingInv'
    <3>1. PICK s \in Stages, phase \in Phases :
            /\ RequestStep(r, s, phase)
            /\ upload[s] = "over" \/ (request[r].phase # "new" /\ s = request[r].stage)
            /\ phase \in {"promoted", "cancelled"} => ~Known(s)
      BY <2>2, RequestSteps
    <3>2. upload[s] = "over"
      BY <3>1 DEF StagingInv, RequestInv
    <3>3. QED
      BY <3>1, <3>2, RequestStepKeeps
  <2>3. QED
    BY <2>1, <2>2, UploadStep, UploadFailsStep, JudgeStep, PromoteCheckedStep, ListStep, UnlinkStep,
       CancelEndStep, PurgedStep, CrashStep, TickStep DEF Next, Stretch, Removes
<1>3. QED
  BY <1>1, <1>2, StagingTyped, PTL DEF Spec

-----------------------------------------------------------------------------
(* What follows from it.                                                   *)

\* Every variable keeps its type (ConversationService and its requests).
THEOREM StagingTypeCorrect == Spec => []TypeOK
<1>1. Typed => TypeOK
  BY DEF Typed
<1>2. QED
  BY <1>1, StagingTyped, PTL

\* However promotions, cancellations, the janitor and restarts run into each
\* other, a stage that _stages offers and that has not expired has its export
\* and its manifest in the staging root, unless a removal left it half removed.
THEOREM OfferedStagesHaveFiles == Spec => []OfferedHasFiles
<1>1. Typed /\ StagingInv => OfferedHasFiles
  BY DEF StagingInv, StageInv, OfferInv, OfferedHasFiles, Listed, On, Typed, TypeOK
<1>2. QED
  BY <1>1, StagingTyped, StagingSafe, PTL

\* os.replace is the moment of publication: also after crashes, a directory in
\* the staging root holds its export and its manifest until a removal begins.
THEOREM PublishedStagesAreWhole == Spec => []PublishedIsWhole
<1>1. StagingInv => PublishedIsWhole
  BY DEF StagingInv, StageInv, OfferInv, PublishedIsWhole, Listed, On, Removers
<1>2. QED
  BY <1>1, StagingSafe, PTL

\* No promotion starts on a stage whose promotion or cancellation was
\* acknowledged, whatever removal failed or crash came before or after, unless the
\* janitor had taken its upload apart.
THEOREM AcknowledgedStagesAreFinal == Spec => []AcknowledgedIsFinal
<1>1. Typed /\ StagingInv => AcknowledgedIsFinal
  <2> SUFFICES ASSUME Typed, StagingInv, NEW r \in Requests,
                      request[r].phase \in {"promoted", "cancelled"},
                      request[r].stage \notin mute \cap torn
               PROVE  ~Promotable(request[r].stage)
    BY DEF AcknowledgedIsFinal
  <2> PICK s : s = request[r].stage
    OBVIOUS
  <2>1. s \in Stages /\ Final(s)
    BY DEF StagingInv, RequestInv
  <2>2. QED
    BY <2>1 DEF Final, TakenLive, Stale, Promotable, Known
<1>2. QED
  BY <1>1, StagingTyped, StagingSafe, PTL

\* While the heartbeat of an upload lives, neither the janitor nor a cleanup on
\* the event loop takes its directory or a file of it.
THEOREM LiveUploadsAreKept == Spec => LiveUploadKept
<1> DEFINE Kept(s) == /\ Exists(s) => Exists(s)'
                      /\ dir[s].files \ {"blank"} \subseteq dir'[s].files
<1>1. ASSUME Typed, StagingInv, [Next]_vars, NEW s \in Stages, Live(s), s \notin mute, Live(s)'
      PROVE  Kept(s)
  <2>0. /\ dir \in [Stages -> Dir] /\ dir[s] \in Dir /\ removal["loop"].stage # s
        /\ removal["janitor"].stage # s
    BY <1>1 DEF Typed, TypeOK, StagingInv, StageInv, UploadInv, On
  <2>1. CASE UNCHANGED dir
    BY <2>1 DEF Exists
  <2>2. ASSUME NEW t \in Stages,
               \/ MakeDir(t) \/ WriteLease(t) \/ Renew(t) \/ OpenManifest(t) \/ WriteManifest(t)
               \/ Rename(t)
        PROVE  Kept(s)
    <3>1. CASE s # t
      BY <2>0, <2>2, <3>1 DEF MakeDir, WriteLease, Renew, OpenManifest, WriteManifest, Rename, Holds, Exists
    <3>2. CASE s = t
      <4>1. CASE MakeDir(t)
        BY <1>1, <3>2, <4>1 DEF MakeDir, Live
      <4>2. CASE WriteLease(t) \/ Renew(t) \/ OpenManifest(t) \/ WriteManifest(t)
        BY <2>0, <3>2, <4>2 DEF WriteLease, Renew, OpenManifest, WriteManifest, Holds, Exists, Dir
      <4>3. CASE Rename(t)
        BY <2>0, <3>2, <4>3 DEF Rename, Exists, Dir
      <4>4. QED
        BY <2>2, <4>1, <4>2, <4>3
    <3>3. QED
      BY <3>1, <3>2
  <2>3. ASSUME NEW t \in Stages, Publish(t) PROVE Kept(s)
    <3>1. s # t
      BY <1>1, <2>3 DEF Publish, Goes, Live, Typed, TypeOK
    <3>2. QED
      BY <1>1, <2>1, <2>3, <3>1, UnlinksStale DEF Publish, Exists
  <2>4. ASSUME NEW w \in Removers, Unlink(w) PROVE Kept(s)
    <3>1. removal[w].stage \in Stages \ {s}
      BY <1>1, <2>0, <2>4, RemovalOf DEF Unlink, Removers
    <3>2. QED
      BY <1>1, <2>1, <2>4, <3>1, UnlinksStale DEF Unlink, Exists
  <2>5. ASSUME NEW w \in Removers, Emptied(w) \/ Missing(w) \/ Fails(w) PROVE Kept(s)
    <3>1. removal[w].stage # s
      BY <2>0, <2>5 DEF Removers
    <3>2. QED
      BY <2>0, <2>1, <2>5, <3>1 DEF Emptied, Missing, Fails, Exists
  <2>6. QED
    <3>1. "loop" \in Removers /\ "janitor" \in Removers
      BY DEF Removers
    <3>2. \/ UNCHANGED dir
          \/ \E t \in Stages : \/ MakeDir(t) \/ WriteLease(t) \/ Renew(t) \/ OpenManifest(t)
                               \/ WriteManifest(t) \/ Rename(t) \/ Publish(t)
          \/ \E w \in Removers : Unlink(w) \/ Emptied(w) \/ Missing(w) \/ Fails(w)
      <4>1. CASE UNCHANGED vars
        BY <4>1 DEF vars
      <4>2. ASSUME NEW r \in Requests,
                   \/ \E t \in Stages : Cancel(r, t) \/ PromoteRefused(r, t) \/ PromoteNothing(r, t)
                   \/ Load(r) \/ LoadFails(r) \/ Commit(r) \/ CommitFails(r)
                   \/ PromotionInterrupted(r) \/ Finish(r)
            PROVE  UNCHANGED dir
        BY <1>1, <4>2, RequestSteps DEF RequestStep, Cancels, Ignores, Moves
      <4>3. CASE Next
        BY <3>1, <4>2, <4>3 DEF Next, Stretch, Removes, HeartbeatDies, UploadFails, Judge, PromoteChecked,
           List, CancelReturns, CancelRaises, Purged, Crash, Tick
      <4>4. QED
        BY <1>1, <4>1, <4>3
    <3>3. QED
      BY <2>1, <2>2, <2>3, <2>4, <2>5, <3>2
<1>2. Typed /\ StagingInv /\ [Next]_vars =>
        [\A s \in Stages : Live(s) /\ s \notin mute /\ Live(s)' =>
           (Exists(s) => Exists(s)') /\ dir[s].files \ {"blank"} \subseteq dir'[s].files]_vars
  BY <1>1
<1>3. QED
  BY <1>2, StagingTyped, StagingSafe, PTL DEF Spec, LiveUploadKept
================================================================================
