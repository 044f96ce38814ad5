-------------------------- MODULE ConversationStaging --------------------------
(***************************************************************************)
(* The staging area for conversation exports                               *)
(* (ingestion/adapters/conversations.py, its routes in sources/router.py   *)
(* and the janitor task of api.py).  An upload fills a directory under     *)
(* .intake, writes a manifest and renames the directory into the staging   *)
(* root; a promotion or a cancellation removes it, and so does the         *)
(* janitor once it has expired.                                            *)
(*                                                                         *)
(* Requests run on one event loop: between two awaits they interleave only *)
(* with the janitor's thread and with a crash (Free).  So an action is a   *)
(* stretch of code up to the next await, or up to the next file operation  *)
(* whose effect the janitor or a restart could see.  An rmtree lists a     *)
(* directory, unlinks what it listed and removes the directory: each of    *)
(* them is a step, and it may end after any of them.                       *)
(*                                                                         *)
(* Time is relative: left[s] is what the janitor can read to be left to a  *)
(* directory, in ticks, and term[s] is the expiry _stages keeps.  Leases,  *)
(* stages and the grace of a directory with neither are all 15 minutes,    *)
(* here Ttl; a heartbeat comes every 30 seconds, here Period.              *)
(***************************************************************************)
EXTENDS Naturals

CONSTANTS
  Stages,        \* stage identifiers, one per upload
  Requests,      \* bound: requests that promote or cancel a stage
  None,          \* no stage, no request
  Ttl,           \* 15 minutes, in ticks
  Period,        \* the time between two heartbeats, in ticks
  CrashBound,    \* bound: crashes of the API process
  FailureBound   \* bound: OSErrors of a removal or a heartbeat

ASSUME StagingAssumption ==
  /\ None \notin Stages \cup Requests
  /\ Ttl \in Nat /\ Period \in Nat \ {0} /\ Period < Ttl
  /\ CrashBound \in Nat /\ FailureBound \in Nat

VARIABLES
  dir,       \* each stage's directory: where it is and the files in it
  left,      \* ticks until the janitor finds it expired
  upload,    \* the upload request of each stage
  offered,   \* ConversationService._stages
  term,      \* ticks left to the stage in memory
  request,   \* the requests that promote or cancel a stage
  removal,   \* the rmtree of the event loop and that of the janitor
  mute,      \* history: uploads whose heartbeat task died
  torn,      \* history: stages that a removal left half removed, or that the
             \* janitor began to remove under a running upload
  crashes, failures

vars == <<dir, left, upload, offered, term, request, removal, mute, torn, crashes, failures>>

\* stage.json is "blank" while it is being written.
Files    == {"lease", "export", "blank", "manifest"}
Places   == {"nowhere", "intake", "root"}
Dir      == [place: Places, files: SUBSET Files]
NoDir    == [place |-> "nowhere", files |-> {}]
Uploads  == {"new", "made", "receiving", "opened", "written", "renamed", "over"}
Request  == [phase: {"new", "checked", "loaded", "committed", "failed", "cancelling", "emptied",
                     "promoted", "cancelled", "refused"},
             stage: Stages \cup {None}]
Removers == {"loop", "janitor"}
Removal  == [phase: {"idle", "called", "listed"}, stage: Stages \cup {None}, place: Places,
             listed: SUBSET Files, caller: Requests \cup {None}]
Idle     == [phase |-> "idle", stage |-> None, place |-> "nowhere", listed |-> {}, caller |-> None]

\* An upload whose coroutine is running, and one that is between two awaits.
Live(s) == upload[s] \notin {"new", "over"}
Busy(s) == upload[s] \in {"made", "opened", "written", "renamed"}

Exists(s) == dir[s].place # "nowhere"

\* _stage finds the stage in memory or by its manifest on disk.
OnDisk(s) == dir[s].place = "root" /\ "manifest" \in dir[s].files
Known(s)  == s \in offered \/ OnDisk(s)

\* A promotion of the stage would go ahead.
Promotable(s) == Known(s) /\ (IF s \in offered THEN term[s] ELSE left[s]) > 0

\* No coroutine is between two awaits, so that another one may run.
Free ==
  /\ \A s \in Stages : ~Busy(s)
  /\ \A r \in Requests : request[r].phase # "checked"
  /\ removal["loop"] = Idle

Init ==
  /\ dir = [s \in Stages |-> NoDir]
  /\ left = [s \in Stages |-> 0]
  /\ upload = [s \in Stages |-> "new"]
  /\ offered = {}
  /\ term = [s \in Stages |-> 0]
  /\ request = [r \in Requests |-> [phase |-> "new", stage |-> None]]
  /\ removal = [w \in Removers |-> Idle]
  /\ mute = {} /\ torn = {}
  /\ crashes = 0 /\ failures = 0

-----------------------------------------------------------------------------
(* inventory_async.                                                        *)

Goes(s, to) == upload' = [upload EXCEPT ![s] = to]
Holds(s, files) == dir' = [dir EXCEPT ![s].files = files]
Fresh(s) == left' = [left EXCEPT ![s] = Ttl]

OSError == failures < FailureBound /\ failures' = failures + 1

\* mkdir of the intake directory; its age is all the janitor has to judge by.
MakeDir(s) ==
  /\ Free /\ upload[s] = "new"
  /\ Goes(s, "made")
  /\ dir' = [dir EXCEPT ![s] = [place |-> "intake", files |-> {}]]
  /\ Fresh(s)
  /\ UNCHANGED <<offered, term, request, removal, mute, torn, crashes, failures>>

\* The first lease, the heartbeat task and the empty export.json.
WriteLease(s) ==
  /\ upload[s] = "made" /\ Exists(s)
  /\ Goes(s, "receiving") /\ Holds(s, dir[s].files \cup {"lease", "export"}) /\ Fresh(s)
  /\ UNCHANGED <<offered, term, request, removal, mute, torn, crashes, failures>>

\* One round of _upload_heartbeat.
Renew(s) ==
  /\ Free /\ upload[s] = "receiving" /\ s \notin mute /\ Exists(s)
  /\ Holds(s, dir[s].files \cup {"lease"}) /\ Fresh(s)
  /\ UNCHANGED <<upload, offered, term, request, removal, mute, torn, crashes, failures>>

\* The renewal raises and ends the task; the upload does not look at it.
HeartbeatDies(s) ==
  /\ Free /\ upload[s] = "receiving" /\ s \notin mute
  /\ OSError
  /\ mute' = mute \cup {s}
  /\ UNCHANGED <<dir, left, upload, offered, term, request, removal, torn, crashes>>

\* The export is complete and parsed; stage.json is created, still empty, and
\* takes the place of the lease.
OpenManifest(s) ==
  /\ Free /\ upload[s] = "receiving" /\ "export" \in dir[s].files
  /\ Goes(s, "opened") /\ Holds(s, dir[s].files \cup {"blank"}) /\ Fresh(s)
  /\ term' = [term EXCEPT ![s] = Ttl]
  /\ UNCHANGED <<offered, request, removal, mute, torn, crashes, failures>>

\* Its text is written; the file may have been unlinked meanwhile.
WriteManifest(s) ==
  /\ upload[s] = "opened"
  /\ Goes(s, "written")
  /\ Holds(s, IF "blank" \in dir[s].files THEN (dir[s].files \ {"blank"}) \cup {"manifest"}
                                          ELSE dir[s].files)
  /\ UNCHANGED <<left, offered, term, request, removal, mute, torn, crashes, failures>>

Rename(s) ==
  /\ upload[s] = "written" /\ Exists(s)
  /\ Goes(s, "renamed")
  /\ dir' = [dir EXCEPT ![s].place = "root"]
  /\ UNCHANGED <<left, offered, term, request, removal, mute, torn, crashes, failures>>

-----------------------------------------------------------------------------
(* Removing a directory: shutil.rmtree, called by cancel() or _purge_path  *)
(* on the event loop and by the janitor on its thread.                     *)

\* What the janitor reads a directory's expiry from.
Shown(files) == IF "manifest" \in files THEN "manifest"
                ELSE IF "lease" \in files /\ "blank" \notin files THEN "lease" ELSE "age"

\* A directory loses a file, which makes it younger.  A lease that comes to
\* light was written before what hid it.
Unlinks(s, f) ==
  LET rest == dir[s].files \ {f} IN
  /\ Holds(s, rest)
  /\ \E t \in 0..Ttl :
       /\ left' = [left EXCEPT ![s] = t]
       /\ IF Shown(rest) = "age" THEN t = Ttl
          ELSE IF Shown(rest) = Shown(dir[s].files) THEN t = left[s] ELSE t <= left[s]

\* The lease goes and the stage is entered in memory.
Publish(s) ==
  /\ upload[s] = "renamed"
  /\ Goes(s, "over")
  /\ IF "lease" \in dir[s].files THEN Unlinks(s, "lease") ELSE UNCHANGED <<dir, left>>
  /\ offered' = offered \cup {s}
  /\ UNCHANGED <<term, request, removal, mute, torn, crashes, failures>>

AtPlace(w) == dir[removal[w].stage].place = removal[w].place

Called(s, place, r) ==
  [phase |-> "called", stage |-> s, place |-> place, listed |-> {}, caller |-> r]
Calls(s, place, r) ==
  removal["loop"] = Idle /\ removal' = [removal EXCEPT !["loop"] = Called(s, place, r)]

\* The directory is opened and read.
List(w) ==
  LET s == removal[w].stage IN
  /\ removal[w].phase = "called" /\ AtPlace(w)
  /\ removal' = [removal EXCEPT ![w].phase = "listed", ![w].listed = dir[s].files]
  /\ torn' = IF Live(s) THEN torn \cup {s} ELSE torn
  /\ UNCHANGED <<dir, left, upload, offered, term, request, mute, crashes, failures>>

\* A file is unlinked, in whatever place the open directory is by now.  That
\* another removal took it first stops the rmtree up to Python 3.12 (Missing).
Unlink(w) ==
  /\ removal[w].phase = "listed"
  /\ \E f \in removal[w].listed :
       /\ removal' = [removal EXCEPT ![w].listed = @ \ {f}]
       /\ IF f \in dir[removal[w].stage].files THEN Unlinks(removal[w].stage, f)
                                               ELSE UNCHANGED <<dir, left>>
  /\ UNCHANGED <<upload, offered, term, request, mute, torn, crashes, failures>>

\* What the removal of w left behind when it did not come to its end.
Tears(w) ==
  torn' = IF removal[w].phase = "listed" THEN torn \cup {removal[w].stage} ELSE torn

\* The ways an rmtree ends: it has removed the directory; FileNotFoundError, on
\* the path or a file; another OSError, of any call or since the directory has
\* got a new file.
Emptied(w) ==
  LET s == removal[w].stage IN
  /\ removal[w].phase = "listed" /\ removal[w].listed = {} /\ AtPlace(w) /\ dir[s].files = {}
  /\ dir' = [dir EXCEPT ![s] = NoDir] /\ left' = [left EXCEPT ![s] = 0]
  /\ UNCHANGED <<torn, failures>>

Missing(w) ==
  /\ removal[w].phase # "idle"
  /\ \/ removal[w].listed = {} /\ ~AtPlace(w)
     \/ removal[w].listed \ dir[removal[w].stage].files # {}
  /\ Tears(w)
  /\ UNCHANGED <<dir, left, failures>>

Fails(w) ==
  /\ removal[w].phase # "idle"
  /\ \/ OSError
     \/ /\ removal[w].phase = "listed" /\ removal[w].listed = {} /\ AtPlace(w)
        /\ dir[removal[w].stage].files # {}
        /\ UNCHANGED failures
  /\ Tears(w)
  /\ UNCHANGED <<dir, left>>

\* A rejected export, a lost connection, a shutdown, or a directory that is not
\* there any more.  After a failure of the very first write nothing cleans up.
UploadFails(s) ==
  /\ Live(s) /\ (upload[s] = "receiving" => Free)
  /\ Goes(s, "over") /\ term' = [term EXCEPT ![s] = 0]
  /\ IF upload[s] = "made" THEN UNCHANGED removal ELSE Calls(s, "intake", None)
  /\ UNCHANGED <<dir, left, offered, request, mute, torn, crashes, failures>>

-----------------------------------------------------------------------------
(* cancel().                                                               *)

\* A client can name a stage once its upload has answered.
Names(r, s) == Free /\ request[r].phase = "new" /\ upload[s] = "over"

Reaches(r, s, phase) == request' = [request EXCEPT ![r] = [phase |-> phase, stage |-> s]]

\* _stage enters a stage it finds on disk.
Enters(s) ==
  /\ Known(s)
  /\ offered' = offered \cup {s}
  /\ term' = IF s \in offered THEN term ELSE [term EXCEPT ![s] = left[s]]

\* cancel() of a known stage, called with the request in the given phase.
Cancels(r, s, phase) ==
  /\ Enters(s) /\ Calls(s, "root", r) /\ Reaches(r, s, phase)
  /\ UNCHANGED <<dir, left, upload, mute, torn, crashes, failures>>

\* cancel() does nothing when the stage is unknown, and the request ends.
Ignores(r, s, phase) ==
  /\ ~Known(s) /\ Reaches(r, s, phase)
  /\ UNCHANGED <<dir, left, upload, offered, term, removal, mute, torn, crashes, failures>>

\* How a request ends when cancel() returns, by why it was called.
AnswerOf(phase) == CASE phase \in {"committed", "emptied"} -> "promoted"
                     [] phase = "cancelling" -> "cancelled"
                     [] OTHER -> "refused"

\* Mutant: the entry stays in memory.
ForgetNothing(s) == UNCHANGED <<offered, term>>

Forget(s) == offered' = offered \ {s} /\ term' = [term EXCEPT ![s] = 0]

Answered(r) == Reaches(r, removal["loop"].stage, AnswerOf(request[r].phase))

\* The removal is over, or the directory was gone: cancel() pops the entry.
CancelReturns ==
  LET r == removal["loop"].caller IN
  /\ Emptied("loop") \/ Missing("loop")
  /\ removal' = [removal EXCEPT !["loop"] = Idle]
  /\ IF r = None THEN UNCHANGED <<offered, term, request>>
                 ELSE Forget(removal["loop"].stage) /\ Answered(r)
  /\ UNCHANGED <<upload, mute, crashes>>

\* Mutant: a removal that failed passes for one that is done.
RaiseNothing ==
  LET r == removal["loop"].caller IN
  /\ Fails("loop")
  /\ removal' = [removal EXCEPT !["loop"] = Idle]
  /\ IF r = None THEN UNCHANGED <<offered, term, request>>
                 ELSE Forget(removal["loop"].stage) /\ Answered(r)
  /\ UNCHANGED <<upload, mute, crashes>>

\* cancel() raises and keeps the entry.  A promotion that was committed calls
\* it once more, and is then refused although its versions are stored.
CancelRaises ==
  LET r == removal["loop"].caller
      s == removal["loop"].stage IN
  /\ Fails("loop")
  /\ IF r # None /\ request[r].phase = "committed"
     THEN removal' = [removal EXCEPT !["loop"] = Called(s, "root", r)] /\ Reaches(r, s, "failed")
     ELSE /\ removal' = [removal EXCEPT !["loop"] = Idle]
          /\ IF r = None THEN UNCHANGED request ELSE Reaches(r, s, "refused")
  /\ UNCHANGED <<upload, offered, term, mute, crashes>>

\* DELETE of a stage.
Cancel(r, s) == Names(r, s) /\ (Cancels(r, s, "cancelling") \/ Ignores(r, s, "cancelled"))

-----------------------------------------------------------------------------
(* promote.                                                                *)

\* The stage is unknown, has expired or does not hold what was selected.
PromoteRefused(r, s) == Names(r, s) /\ (Cancels(r, s, "failed") \/ Ignores(r, s, "refused"))

\* Nothing was selected.
PromoteNothing(r, s) == Names(r, s) /\ Promotable(s) /\ Cancels(r, s, "emptied")

PromoteChecked(r, s) ==
  /\ Names(r, s) /\ Promotable(s)
  /\ Enters(s) /\ Reaches(r, s, "checked")
  /\ UNCHANGED <<dir, left, upload, removal, mute, torn, crashes, failures>>

Moves(r, phase) ==
  /\ Reaches(r, request[r].stage, phase)
  /\ UNCHANGED <<dir, left, upload, offered, term, removal, mute, torn, crashes, failures>>

Readable(s) == dir[s].place = "root" /\ "export" \in dir[s].files

\* The export is read into memory.
Load(r) == request[r].phase = "checked" /\ Readable(request[r].stage) /\ Moves(r, "loaded")

\* The selected conversations and the audit event are committed.
Commit(r) == Free /\ request[r].phase = "loaded" /\ Moves(r, "committed")

\* The except branch and the way out after the commit: cancel() of a stage that
\* another request or the janitor may have removed.
Ends(r, phase) ==
  \/ Cancels(r, request[r].stage, phase)
  \/ Ignores(r, request[r].stage, AnswerOf(phase))

\* The export is not there any more.
LoadFails(r) == request[r].phase = "checked" /\ ~Readable(request[r].stage) /\ Ends(r, "failed")

\* The database refuses the versions.
CommitFails(r) == Free /\ request[r].phase = "loaded" /\ Ends(r, "failed")

\* A cancelled coroutine raises no Exception: the stage stays.
PromotionInterrupted(r) == Free /\ request[r].phase = "loaded" /\ Moves(r, "refused")

Finish(r) == Free /\ request[r].phase = "committed" /\ Ends(r, "committed")

-----------------------------------------------------------------------------
(* purge_expired_conversation_stages, on a thread of its own.              *)

\* Mutants: a directory without a lease counts as expired; the janitor does
\* not look into .intake.
JudgeWithoutGrace(s) ==
  /\ removal["janitor"] = Idle /\ Exists(s) /\ (left[s] = 0 \/ Shown(dir[s].files) = "age")
  /\ removal' = [removal EXCEPT !["janitor"] = Called(s, dir[s].place, None)]
  /\ UNCHANGED <<dir, left, upload, offered, term, request, mute, torn, crashes, failures>>
JudgeRootOnly(s) ==
  /\ removal["janitor"] = Idle /\ dir[s].place = "root" /\ left[s] = 0
  /\ removal' = [removal EXCEPT !["janitor"] = Called(s, dir[s].place, None)]
  /\ UNCHANGED <<dir, left, upload, offered, term, request, mute, torn, crashes, failures>>

\* The janitor reads a path's expiry and finds it past.
Judge(s) ==
  /\ removal["janitor"] = Idle /\ Exists(s) /\ left[s] = 0
  /\ removal' = [removal EXCEPT !["janitor"] = Called(s, dir[s].place, None)]
  /\ UNCHANGED <<dir, left, upload, offered, term, request, mute, torn, crashes, failures>>

\* Its rmtree of the path ends; what remains is for a later round.
Purged ==
  /\ Emptied("janitor") \/ Missing("janitor") \/ Fails("janitor")
  /\ removal' = [removal EXCEPT !["janitor"] = Idle]
  /\ UNCHANGED <<upload, offered, term, request, mute, crashes>>

-----------------------------------------------------------------------------
Ended == {"promoted", "cancelled", "refused"}

\* The API process dies and is started again: directories stay as they are,
\* coroutines, memory and the janitor's thread are gone.
Crash ==
  /\ crashes < CrashBound
  /\ crashes' = crashes + 1
  /\ upload' = [s \in Stages |-> IF Live(s) THEN "over" ELSE upload[s]]
  /\ offered' = {} /\ term' = [s \in Stages |-> 0]
  /\ request' = [r \in Requests |-> IF request[r].phase \in {"new"} \cup Ended THEN request[r]
                                    ELSE [request[r] EXCEPT !.phase = "refused"]]
  /\ removal' = [w \in Removers |-> Idle]
  /\ torn' = torn \cup {removal[w].stage : w \in {v \in Removers : removal[v].phase = "listed"}}
  /\ UNCHANGED <<dir, left, mute, failures>>

\* Time passes.  The timer of a living heartbeat fires every Period, and an
\* upload gets through its stretches without one in less than 15 minutes.
Tick ==
  /\ \E s \in Stages : left[s] > 0
  /\ \A s \in Stages :
       /\ upload[s] = "receiving" /\ s \notin mute => Ttl - left[s] < Period
       /\ Busy(s) /\ Exists(s) => left[s] > 1
  /\ left' = [s \in Stages |-> IF left[s] > 0 THEN left[s] - 1 ELSE 0]
  /\ term' = [s \in Stages |-> IF term[s] > 0 THEN term[s] - 1 ELSE 0]
  /\ UNCHANGED <<dir, upload, offered, request, removal, mute, torn, crashes, failures>>

\* What a coroutine does before its next await.
Stretch(s) ==
  WriteLease(s) \/ WriteManifest(s) \/ Rename(s) \/ Publish(s) \/ (Busy(s) /\ UploadFails(s))

Removes(w) == List(w) \/ Unlink(w)

Next ==
  \/ \E s \in Stages : \/ MakeDir(s) \/ Renew(s) \/ HeartbeatDies(s) \/ OpenManifest(s)
                       \/ Stretch(s) \/ UploadFails(s) \/ Judge(s)
  \/ \E r \in Requests :
       \/ \E s \in Stages : \/ Cancel(r, s) \/ PromoteRefused(r, s) \/ PromoteNothing(r, s)
                            \/ PromoteChecked(r, s)
       \/ Load(r) \/ LoadFails(r) \/ Commit(r) \/ CommitFails(r) \/ PromotionInterrupted(r)
       \/ Finish(r)
  \/ \E w \in Removers : Removes(w)
  \/ CancelReturns \/ CancelRaises \/ Purged \/ Crash \/ Tick

Spec == Init /\ [][Next]_vars

\* The janitor's rounds never stop, a coroutine that runs goes on, time passes.
FairSpec ==
  /\ Spec
  /\ WF_vars(Removes("janitor") \/ Purged) /\ WF_vars(Tick)
  /\ WF_vars(Removes("loop") \/ CancelReturns \/ CancelRaises)
  /\ \A s \in Stages : WF_vars(Judge(s)) /\ WF_vars(Renew(s)) /\ WF_vars(Stretch(s))
  /\ \A r \in Requests : WF_vars(Load(r) \/ LoadFails(r))

-----------------------------------------------------------------------------
TypeOK ==
  /\ dir \in [Stages -> Dir]
  /\ left \in [Stages -> 0..Ttl] /\ term \in [Stages -> 0..Ttl]
  /\ upload \in [Stages -> Uploads]
  /\ offered \subseteq Stages
  /\ request \in [Requests -> Request]
  /\ removal \in [Removers -> Removal]
  /\ mute \subseteq Stages /\ torn \subseteq Stages
  /\ crashes \in 0..CrashBound /\ failures \in 0..FailureBound

\* Nothing takes the directory or a file of a running upload, also in the
\* windows without a readable lease, unless its heartbeat has died.
LiveUploadKept ==
  [][\A s \in Stages : Live(s) /\ s \notin mute /\ Live(s)' =>
       (Exists(s) => Exists(s)') /\ dir[s].files \ {"blank"} \subseteq dir'[s].files]_vars

\* Whatever a crash interrupts, a directory in the staging root is complete,
\* unless a removal was begun.
PublishedIsWhole == \A s \in Stages :
  dir[s].place = "root" /\ s \notin torn
    /\ (\A w \in Removers : removal[w].stage = s => removal[w].phase # "listed")
  => {"export", "manifest"} \subseteq dir[s].files

\* A stage that is offered from memory has its files until it expires, also
\* after promotions and cancellations that ran into each other; what a removal
\* left half removed is all that is excepted.
OfferedHasFiles == \A s \in offered :
  term[s] > 0 /\ s \notin torn /\ removal["loop"].stage # s
  => dir[s].place = "root" /\ {"export", "manifest"} \subseteq dir[s].files

\* No promotion can start on a stage whose promotion or cancellation was
\* acknowledged, whatever failed or crashed before and after (one that has read
\* the export by then goes on); excepted are uploads that the janitor took apart
\* while they ran.
AcknowledgedIsFinal == \A r \in Requests :
  request[r].phase \in {"promoted", "cancelled"} /\ request[r].stage \notin mute \cap torn
  => ~Promotable(request[r].stage)

\* Every export is removed in the end, unless its upload goes on for ever.
ExportsEnd == \A s \in Stages : Exists(s) ~> Live(s) \/ ~Exists(s)
=============================================================================
