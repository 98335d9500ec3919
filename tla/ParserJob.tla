----------------------------- MODULE ParserJob -----------------------------
(***************************************************************************)
(* The parser service's handling of one demo job: HandleParseDemo, the     *)
(* processDemo goroutine it starts, BatchSender's retries and the HTTP     *)
(* calls to the web application's callbacks (module JobCallbacks).         *)
(*                                                                         *)
(* A run is one upload.  Its goroutine is sequential and blocks on every   *)
(* call, so pc[r] names the call it is in or has just come back from, and  *)
(* call[r] says how far that call is.  A call that fails may have lost the *)
(* request, lost the answer, or have been given up by the client while the *)
(* web application still works on it (strays).                             *)
(***************************************************************************)
EXTENDS JobCallbacks, FiniteSets, Sequences

CONSTANTS
  RoundMarks,   \* rounds whose RoundStart update the instance keeps
  MaxStrays,    \* bound on requests given up and still being handled
  MaxCrashes    \* bound on restarts of the parser service

ASSUME RoundMarksAssumption == RoundMarks \in Seq(Nat)
ASSUME MaxStraysAssumption == MaxStrays \in Nat
ASSUME MaxCrashesAssumption == MaxCrashes \in Nat

VARIABLES
  pc,           \* pc[r]: where run r is
  job,          \* job[r]: the ProcessingJob of run r
  marks,        \* marks[r]: progress updates of the parse already passed
  batch,        \* batch[r], attempt[r]: the event request being sent
  attempt,
  call,         \* call[r]: "none", "sent", "ok" or "failed"
  temp,         \* temp[r]: run r's temporary demo file exists
  registered,   \* the job id is a key of h.jobs
  strays,       \* requests given up by their sender, not handled yet
  crashes       \* restarts so far

runVars == <<pc, job, marks, batch, attempt, call, temp>>
vars == <<webVars, runVars, registered, strays, crashes>>

\* Stages of a run; from "Queued" to "Cleaning" the goroutine is alive.
Ended   == {"Idle", "Refused", "Ended", "Dead"}
Running == {"Queued", "Validating", "Uploading", "Initializing", "Parsing",
            "ParseError", "Panic", "Parsed", "Metadata", "Announced", "Events",
            "Finalizing", "Completing", "Erring", "Cleaning"}
Stages  == Ended \cup {"Saving"} \cup Running

\* The UpdateProgress calls ParseDemoFromFile makes before ReportCompletion.
ParseUpdates ==
  <<15>> \o [i \in DOMAIN RoundMarks |-> 20 + 2 * RoundMarks[i]] \o <<85>>

\* The status the progress callback derives from the percentage.
StatusFor(p) == IF p < 20 THEN "Parsing"
                ELSE IF p < 85 THEN "ProcessingEvents" ELSE "Finalizing"

NewJob == [status |-> "Queued", progress |-> 0, numbered |-> FALSE]

\* The request a blocked goroutine has sent.
RequestOf(r) ==
  IF pc[r] = "Events" THEN EventRequest(r, batch[r], attempt[r])
  ELSE IF pc[r] = "Metadata" THEN MetadataRequest(r, job[r])
  ELSE IF pc[r] = "Completing" THEN CompletionRequest(r, "Completed")
  ELSE IF pc[r] = "Erring" THEN CompletionRequest(r, "Failed")
  ELSE ProgressRequest(r, job[r])

Returned(r) == call[r] \in {"ok", "failed"}

-----------------------------------------------------------------------------
(* HandleParseDemo.                                                          *)

\* The job id is looked up; a known one is answered 409.
BeginUpload(r) ==
  /\ pc[r] = "Idle"
  /\ pc' = [pc EXCEPT ![r] = IF registered THEN "Refused" ELSE "Saving"]
  /\ UNCHANGED <<webVars, job, marks, batch, attempt, call, temp, registered,
                 strays, crashes>>

\* The file is saved, the job registered and processDemo started.
AcceptUpload(r) ==
  /\ pc[r] = "Saving"
  /\ pc' = [pc EXCEPT ![r] = "Queued"]
  /\ temp' = [temp EXCEPT ![r] = TRUE]
  /\ job' = [job EXCEPT ![r] = NewJob]
  /\ registered' = TRUE
  /\ UNCHANGED <<webVars, marks, batch, attempt, call, strays, crashes>>

\* saveUploadedFile fails, perhaps after it created the file; answered 500.
FailSave(r) ==
  /\ pc[r] = "Saving"
  /\ pc' = [pc EXCEPT ![r] = "Refused"]
  /\ \E left \in BOOLEAN : temp' = [temp EXCEPT ![r] = left]
  /\ UNCHANGED <<webVars, job, marks, batch, attempt, call, registered, strays,
                 crashes>>

-----------------------------------------------------------------------------
(* The goroutine.  Enter: set the job's fields and send the stage's request. *)

Enter(r, stage, newJob) ==
  /\ pc' = [pc EXCEPT ![r] = stage]
  /\ job' = [job EXCEPT ![r] = newJob]
  /\ call' = [call EXCEPT ![r] = "sent"]
  /\ UNCHANGED <<webVars, registered, strays, crashes>>

At(status, progress, numbered) ==
  [status |-> status, progress |-> progress, numbered |-> numbered]

Fields == <<marks, batch, attempt, temp>>

Validate(r) ==
  /\ pc[r] = "Queued"
  /\ Enter(r, "Validating", At("Validating", 5, FALSE))
  /\ UNCHANGED Fields

\* A progress update is sent once and its failure only logged, so the next
\* stage starts whatever the answer was.
Upload(r) ==
  /\ pc[r] = "Validating" /\ Returned(r)
  /\ Enter(r, "Uploading", At("Uploading", 8, FALSE))
  /\ UNCHANGED Fields

Initialize(r) ==
  /\ pc[r] = "Uploading" /\ Returned(r)
  /\ Enter(r, "Initializing", At("Initializing", 10, FALSE))
  /\ UNCHANGED Fields

\* NewStepManager(0) numbers the steps from here on.
StartParsing(r) ==
  /\ pc[r] = "Initializing" /\ Returned(r)
  /\ Enter(r, "Parsing", At("Parsing", 10, TRUE))
  /\ UNCHANGED Fields

\* UpdateProgress passes the update on to the goroutine's callback ...
ReportProgress(r) ==
  /\ pc[r] = "Parsing" /\ Returned(r)
  /\ marks[r] < Len(ParseUpdates)
  /\ LET p == ParseUpdates[marks[r] + 1]
     IN  Enter(r, "Parsing", At(StatusFor(p), p, TRUE))
  /\ marks' = [marks EXCEPT ![r] = @ + 1]
  /\ UNCHANGED <<batch, attempt, temp>>

\* ... or drops it, 100 ms not having passed since the last one.
Throttle(r) ==
  /\ pc[r] = "Parsing" /\ Returned(r)
  /\ marks[r] < Len(ParseUpdates)
  /\ marks' = [marks EXCEPT ![r] = @ + 1]
  /\ UNCHANGED <<webVars, pc, job, batch, attempt, call, temp, registered,
                 strays, crashes>>

\* ReportError: its update has progress 0 and no step numbers.  An error ends
\* the parse up to the HasError test before the last update, a panic later too.
FailParse(r) ==
  /\ pc[r] = "Parsing" /\ Returned(r)
  /\ \E stage \in {"ParseError", "Panic"} :
       /\ stage = "ParseError" => marks[r] < Len(ParseUpdates)
       /\ Enter(r, stage, At(StatusFor(0), 0, FALSE))
  /\ UNCHANGED Fields

\* The game mode could not be detected: ReportError sends its update and drops
\* ReportCompletion, but the parse returns its data all the same and the job
\* goes on, its step numbers gone.
FailDetection(r) ==
  /\ pc[r] = "Parsing" /\ Returned(r)
  /\ marks[r] = Len(ParseUpdates)
  /\ Enter(r, "Parsed", At(StatusFor(0), 0, FALSE))
  /\ UNCHANGED Fields

\* ParseDemo returned an error: SendError, with the file still there.
ReportParseError(r) ==
  /\ pc[r] = "ParseError" /\ Returned(r)
  /\ Enter(r, "Erring", [job[r] EXCEPT !.status = "ParseFailed"])
  /\ UNCHANGED Fields

\* cleanupTempFile: a failing os.Remove is reported and nothing else.
RemoveFile(r) ==
  \E left \in BOOLEAN : temp' = [temp EXCEPT ![r] = @ /\ left]

\* ParseDemo recovered from a panic and returned nil data without an error;
\* processDemo panics on it, cleans up, recovers and calls SendError.
ReportPanic(r) ==
  /\ pc[r] = "Panic" /\ Returned(r)
  /\ Enter(r, "Erring", [job[r] EXCEPT !.status = "Failed"])
  /\ RemoveFile(r)
  /\ UNCHANGED <<marks, batch, attempt>>

\* ReportCompletion, which is never throttled.
FinishParse(r) ==
  /\ pc[r] = "Parsing" /\ Returned(r)
  /\ marks[r] = Len(ParseUpdates)
  /\ Enter(r, "Parsed", At("Finalizing", 100, TRUE))
  /\ UNCHANGED Fields

\* A wrong SendMetadata: the metadata is retried.
SendMetadataAgain(r) ==
  /\ \/ pc[r] = "Parsed" /\ Returned(r)
     \/ pc[r] = "Metadata" /\ call[r] = "failed"
  /\ Enter(r, "Metadata", At("SendingMetadata", 90, job[r].numbered))
  /\ UNCHANGED Fields

SendMetadata(r) ==
  /\ pc[r] = "Parsed" /\ Returned(r)
  /\ Enter(r, "Metadata", At("SendingMetadata", 90, job[r].numbered))
  /\ UNCHANGED Fields

AnnounceEvents(r) ==
  /\ pc[r] = "Metadata" /\ Returned(r)
  /\ Enter(r, "Announced", At("SendingEvents", 95, job[r].numbered))
  /\ UNCHANGED Fields

-----------------------------------------------------------------------------
(* sendAllEvents over sendRequestWithRetry.                                  *)

SendBatch(r, b, a) ==
  /\ Enter(r, "Events", job[r])
  /\ batch' = [batch EXCEPT ![r] = b]
  /\ attempt' = [attempt EXCEPT ![r] = a]
  /\ UNCHANGED <<marks, temp>>

FirstBatch(r) ==
  /\ pc[r] = "Announced" /\ Returned(r)
  /\ SendBatch(r, 1, 1)

\* A wrong NextBatch: the error of the last batch is dropped.
NextBatchAnyway(r) ==
  /\ pc[r] = "Events" /\ Returned(r)
  /\ batch[r] < NumBatches
  /\ SendBatch(r, batch[r] + 1, 1)

NextBatch(r) ==
  /\ pc[r] = "Events" /\ call[r] = "ok"
  /\ batch[r] < NumBatches
  /\ SendBatch(r, batch[r] + 1, 1)

\* Wrong retries: one attempt too many, and attempts that are not counted.
RetryOnceMore(r) ==
  /\ pc[r] = "Events" /\ call[r] = "failed"
  /\ attempt[r] <= MaxAttempts
  /\ SendBatch(r, batch[r], attempt[r] + 1)
RetryUncounted(r) ==
  /\ pc[r] = "Events" /\ call[r] = "failed"
  /\ attempt[r] < MaxAttempts
  /\ SendBatch(r, batch[r], attempt[r])

RetryBatch(r) ==
  /\ pc[r] = "Events" /\ call[r] = "failed"
  /\ attempt[r] < MaxAttempts
  /\ SendBatch(r, batch[r], attempt[r] + 1)

\* The first batch that fails every attempt ends sendAllEvents and the job.
GiveUp(r) ==
  /\ pc[r] = "Events" /\ call[r] = "failed"
  /\ attempt[r] = MaxAttempts
  /\ Enter(r, "Erring", [job[r] EXCEPT !.status = "CallbackFailed"])
  /\ UNCHANGED Fields

-----------------------------------------------------------------------------
\* A wrong Finalize: the error of the last batch is dropped.
FinalizeAnyway(r) ==
  /\ pc[r] = "Events" /\ Returned(r)
  /\ batch[r] = NumBatches
  /\ Enter(r, "Finalizing", At("Finalizing", 98, job[r].numbered))
  /\ UNCHANGED Fields

Finalize(r) ==
  /\ pc[r] = "Events" /\ call[r] = "ok"
  /\ batch[r] = NumBatches
  /\ Enter(r, "Finalizing", At("Finalizing", 98, job[r].numbered))
  /\ UNCHANGED Fields

\* SendCompletion and SendError are sent once, to the same URL.
SendCompletion(r) ==
  /\ pc[r] = "Finalizing" /\ Returned(r)
  /\ Enter(r, "Completing", job[r])
  /\ UNCHANGED Fields

\* A wrong FailCompletion: start finalizing again.
FinalizeAgain(r) ==
  /\ pc[r] = "Completing" /\ call[r] = "failed"
  /\ Enter(r, "Finalizing", At("Finalizing", 98, job[r].numbered))
  /\ UNCHANGED Fields

FailCompletion(r) ==
  /\ pc[r] = "Completing" /\ call[r] = "failed"
  /\ Enter(r, "Erring", [job[r] EXCEPT !.status = "CallbackFailed"])
  /\ UNCHANGED Fields

\* processDemo returns, a completed job marked so; after a panic its deferred
\* function has cleaned up already.
Finish(r) ==
  /\ \/ pc[r] = "Completing" /\ call[r] = "ok"
     \/ pc[r] = "Erring" /\ Returned(r)
  /\ pc' = [pc EXCEPT ![r] =
               IF job[r].status = "Failed" THEN "Ended" ELSE "Cleaning"]
  /\ job' = [job EXCEPT ![r] = IF pc[r] = "Completing"
                                THEN At("Completed", 100, @.numbered) ELSE @]
  /\ call' = [call EXCEPT ![r] = "none"]
  /\ UNCHANGED <<webVars, marks, batch, attempt, temp, registered, strays, crashes>>

\* The deferred function.
CleanUp(r) ==
  /\ pc[r] = "Cleaning"
  /\ pc' = [pc EXCEPT ![r] = "Ended"]
  /\ RemoveFile(r)
  /\ UNCHANGED <<webVars, job, marks, batch, attempt, call, registered, strays,
                 crashes>>

-----------------------------------------------------------------------------
(* The calls.                                                                *)

SetCall(r, outcome) ==
  /\ call' = [call EXCEPT ![r] = outcome]
  /\ UNCHANGED <<pc, job, marks, batch, attempt, temp, registered, crashes>>

\* The web application handles the request and answers.
Answer(r) ==
  /\ call[r] = "sent"
  /\ \/ Handle(RequestOf(r)) /\ SetCall(r, "ok")
     \/ HandlePartly(RequestOf(r)) /\ SetCall(r, "failed")
     \/ ~Valid(RequestOf(r)) /\ SetCall(r, "failed") /\ UNCHANGED webVars
  /\ UNCHANGED strays

\* The request does not arrive, or the transaction behind it is rolled back.
Lose(r) ==
  /\ call[r] = "sent"
  /\ SetCall(r, "failed")
  /\ UNCHANGED <<webVars, strays>>

\* The answer does not arrive.
LoseAnswer(r) ==
  /\ call[r] = "ok"
  /\ SetCall(r, "failed")
  /\ UNCHANGED <<webVars, strays>>

\* The client's timeout expires while the web application has the request.
GiveUpWaiting(r) ==
  /\ call[r] = "sent"
  /\ Cardinality(strays) < MaxStrays
  /\ SetCall(r, "failed")
  /\ strays' = strays \cup {RequestOf(r)}
  /\ UNCHANGED webVars

\* A stray request is handled at last, or dropped.
HandleStray ==
  \E m \in strays :
    /\ Handle(m) \/ HandlePartly(m) \/ UNCHANGED webVars
    /\ strays' = strays \ {m}
    /\ UNCHANGED <<runVars, registered, crashes>>

\* The parser service is restarted: its goroutines and h.jobs are gone, the
\* temporary files and some of the requests already sent are not.
Crash ==
  /\ crashes < MaxCrashes
  /\ crashes' = crashes + 1
  /\ pc' = [r \in Runs |-> IF pc[r] \in Ended THEN pc[r] ELSE "Dead"]
  /\ call' = [r \in Runs |-> "none"]
  /\ registered' = FALSE
  /\ \E onTheWay \in SUBSET {r \in Runs : call[r] = "sent"} :
       /\ Cardinality(strays) + Cardinality(onTheWay) <= MaxStrays
       /\ strays' = strays \cup {RequestOf(r) : r \in onTheWay}
  /\ UNCHANGED <<webVars, job, marks, batch, attempt, temp>>

-----------------------------------------------------------------------------
Init ==
  /\ WebInit
  /\ pc = [r \in Runs |-> "Idle"]
  /\ job = [r \in Runs |-> NewJob]
  /\ marks = [r \in Runs |-> 0]
  /\ batch = [r \in Runs |-> 1]
  /\ attempt = [r \in Runs |-> 1]
  /\ call = [r \in Runs |-> "none"]
  /\ temp = [r \in Runs |-> FALSE]
  /\ registered = FALSE
  /\ strays = {}
  /\ crashes = 0

\* The steps of run r's own request handler and goroutine.
Step(r) ==
  \/ AcceptUpload(r) \/ FailSave(r)
  \/ Validate(r) \/ Upload(r) \/ Initialize(r) \/ StartParsing(r)
  \/ ReportProgress(r) \/ Throttle(r) \/ FinishParse(r)
  \/ FailParse(r) \/ FailDetection(r) \/ ReportParseError(r) \/ ReportPanic(r)
  \/ SendMetadata(r) \/ AnnounceEvents(r)
  \/ FirstBatch(r) \/ NextBatch(r) \/ RetryBatch(r) \/ GiveUp(r)
  \/ Finalize(r) \/ SendCompletion(r) \/ FailCompletion(r)
  \/ Finish(r) \/ CleanUp(r)

\* What becomes of the call run r waits for.
Outcome(r) == Answer(r) \/ Lose(r) \/ GiveUpWaiting(r)

Next ==
  \/ \E r \in Runs : BeginUpload(r) \/ Step(r) \/ Outcome(r) \/ LoseAnswer(r)
  \/ HandleStray
  \/ Crash

Spec == Init /\ [][Next]_vars

\* Goroutines are scheduled, and http.Client.Timeout ends every call.
Fairness == \A r \in Runs : WF_vars(Step(r)) /\ WF_vars(Outcome(r))

FairSpec == Spec /\ Fairness

-----------------------------------------------------------------------------
(* Type invariant.                                                           *)
TypeOK ==
  /\ WebTypeOK
  /\ pc \in [Runs -> Stages]
  /\ job \in [Runs -> [status : Statuses, progress : Nat, numbered : BOOLEAN]]
  /\ marks \in [Runs -> Nat]
  /\ batch \in [Runs -> Batches]
  /\ attempt \in [Runs -> Attempts]
  /\ call \in [Runs -> {"none", "sent", "ok", "failed"}]
  /\ temp \in [Runs -> BOOLEAN]
  /\ registered \in BOOLEAN
  /\ strays \subseteq Request
  /\ crashes \in Nat

-----------------------------------------------------------------------------
(* Safety.                                                                   *)

Stored(r, b) == \E a \in Attempts : <<r, b, a>> \in rows

\* The web application holds a batch of a run only if it holds every earlier
\* batch of that run (the match data before the rounds, the rounds before the
\* damage, ...), however calls were lost, repeated or handled late:
\* sendAllEvents leaves at the first batch that stays unacknowledged.
DeliveredInOrder ==
  \A r \in Runs, b \in Batches :
    Stored(r, b) => \A c \in 1..(b - 1) : Stored(r, c)

\* A run the parser service itself marks Completed has every batch stored, and
\* the web application completed its row on one of the run's own calls: a lost
\* answer, an error report or the completion of another run does not do.
CompletedRunIsWhole ==
  \A r \in Runs : job[r].status = "Completed" =>
    r \in completedBy /\ \A b \in Batches : Stored(r, b)

\* No run adds itself twice to the players' total_matches, which the callback
\* raises without looking: the metadata is the one call that is not repeated.
CountedOnce == \A r \in Runs : counted[r] <= 1

\* A completed row is opened again only by a request its sender had given up,
\* or by another run: the run that completed it sends no progress afterwards.
ReopenedByOthers ==
  [][record.completedAt /\ ~record'.completedAt =>
       \/ strays' # strays
       \/ \E r \in Runs : call'[r] # call[r] /\ r \notin completedBy]_vars

-----------------------------------------------------------------------------
(* What each run promises (module DeliveryPromise), and that it keeps it.    *)

Verdict(r) ==
  IF job[r].status = "Completed" THEN "completed"
  ELSE IF pc[r] \in {"Erring", "Cleaning", "Ended", "Dead", "Refused"}
  THEN "failed"
  ELSE "pending"

Promise(r) == INSTANCE DeliveryPromise WITH
  delivered <- {b \in Batches : Stored(r, b)},
  outcome <- Verdict(r)

\* Every run delivers its batches one after the other, at least once each, and
\* reports success only with all of them delivered.
PromiseKept ==
  /\ \A r \in Runs : Promise(r)!Init
  /\ [][\A r \in Runs : [Promise(r)!Next]_(Promise(r)!vars)]_vars

-----------------------------------------------------------------------------
(* Liveness.                                                                 *)

\* An accepted upload ends: every call times out, attempts are bounded and the
\* parse is finite, so no goroutine stays for ever.
EveryRunEnds == \A r \in Runs : pc[r] = "Queued" ~> pc[r] \in Ended

-----------------------------------------------------------------------------
(* What comments and neighbouring code say and the code does not do.         *)

\* MatchHistoryService.php:88 tells a Failed job from a Completed one, and
\* parse_demo.go:252 says errors are sent to the callback URLs; a job the web
\* application shows as Completed would then have all its batches.
CompletedMeansDelivered ==
  record.status = "Completed" => \E r \in Runs, b \in Batches :
    b = NumBatches /\ Stored(r, b)

\* parse_demo.go:253, "Ensures temporary files are cleaned up in all scenarios":
\* also when os.Remove fails.
TempFilesRemoved == \A r \in Runs : pc[r] = "Ended" => ~temp[r]

\* A completed job has its clan processing dispatched.
ClanJobDispatched ==
  \A r \in Runs : job[r].status = "Completed" => r \in clanJobs

\* A completed job has its players.
CompletedHasRoster ==
  \A r \in Runs : job[r].status = "Completed" => roster # "none"

\* parse_demo.go:305, "we can indicate this step": the web application accepts
\* the progress updates the goroutine sends.
UpdatesAccepted ==
  \A r \in Runs : call[r] = "sent" => Valid(RequestOf(r))

\* parse_demo.go:54, "Creates a job with unique ID": at most one goroutine
\* works on the job.
OneGoroutine == \A r, s \in Runs : {pc[r], pc[s]} \subseteq Running => r = s
=============================================================================
