-------------------------- MODULE ParserJob_proofs --------------------------
(***************************************************************************)
(* Theorems about ParserJob for every number of uploads, batches, attempts,*)
(* given-up calls and restarts.  The safety of the delivery rests on the   *)
(* inductive invariant DeliveryInv: what has been sent so far (by the      *)
(* goroutine or by a request given up) was sent with every earlier batch   *)
(* stored, and stored rows are never removed.                              *)
(***************************************************************************)
EXTENDS ParserJob, TLAPS

\* Every batch before b, and every batch, of run r is stored.
Ready(r, b) == \A c \in 1..(b - 1) : Stored(r, c)
Whole(r) == \A b \in Batches : Stored(r, b)

\* A request that was given up was sent once the earlier batches were stored.
StraysInOrder == \A m \in strays : m.kind = "event" => Ready(m.run, m.batch)

\* Where a run is once its job may be marked Completed.
Over == {"Cleaning", "Ended", "Dead"}

\* So is the goroutine's; an acknowledged batch is stored, the goroutine is
\* past the events only with all of them acknowledged, and the job is marked
\* Completed by its last step, after the completion was acknowledged.
RunInOrder(r) ==
  /\ pc[r] = "Events" => Ready(r, batch[r])
  /\ pc[r] = "Events" /\ call[r] = "ok" => Stored(r, batch[r])
  /\ pc[r] \in {"Finalizing", "Completing"} => Whole(r)
  /\ pc[r] = "Completing" /\ call[r] = "ok" => r \in completedBy
  /\ job[r].status = "Completed" =>
       pc[r] \in Over /\ Whole(r) /\ r \in completedBy

DeliveryInv ==
  /\ TypeOK
  /\ DeliveredInOrder
  /\ StraysInOrder
  /\ \A r \in Runs : RunInOrder(r)

JobRecord == [status : Statuses, progress : Nat, numbered : BOOLEAN]

-----------------------------------------------------------------------------
(* Type correctness.                                                         *)

\* The percentages the parse reports are natural numbers.
LEMMA UpdatesAreNat == ParseUpdates \in Seq(Nat)
<1> DEFINE rounds == [i \in DOMAIN RoundMarks |-> 20 + 2 * RoundMarks[i]]
<1>1. RoundMarks \in Seq(Nat)
  BY RoundMarksAssumption
<1>2. rounds \in Seq(Nat)
  <2>1. DOMAIN RoundMarks = 1..Len(RoundMarks) /\ Len(RoundMarks) \in Nat
    BY <1>1
  <2>2. \A i \in 1..Len(RoundMarks) : 20 + 2 * RoundMarks[i] \in Nat
    BY <1>1
  <2> QED
    BY <2>1, <2>2
<1>3. <<15>> \in Seq(Nat) /\ <<85>> \in Seq(Nat)
  OBVIOUS
<1> QED
  BY <1>2, <1>3 DEF ParseUpdates

\* What a run sends is a request of the callback interface.
LEMMA RequestOfType ==
  ASSUME TypeOK, NEW r \in Runs
  PROVE  RequestOf(r) \in Request
<1>1. job[r] \in JobRecord /\ batch[r] \in Batches /\ attempt[r] \in Attempts
  BY DEF TypeOK, JobRecord
<1>2. ProgressRequest(r, job[r]) \in Request
  BY <1>1 DEF ProgressRequest, UpdateRequest, Request, JobRecord
<1>3. MetadataRequest(r, job[r]) \in Request
  BY <1>1 DEF MetadataRequest, UpdateRequest, Request, JobRecord
<1>4. EventRequest(r, batch[r], attempt[r]) \in Request
  BY <1>1 DEF EventRequest, Request
<1>5. \A s \in {"Completed", "Failed"} : CompletionRequest(r, s) \in Request
  BY DEF CompletionRequest, Request
<1> QED
  BY <1>2, <1>3, <1>4, <1>5 DEF RequestOf

\* Handling a request, wholly or partly, keeps the web application's types.
LEMMA HandleType ==
  ASSUME WebTypeOK, NEW m \in Request, Handle(m) \/ HandlePartly(m)
  PROVE  WebTypeOK'
<1>1. m.run \in Runs
  BY DEF Request
<1>2. CompletedRow \in [status : Statuses, progress : Nat, completedAt : BOOLEAN]
  BY DEF CompletedRow, Statuses
<1>3. m.kind \in {"progress", "metadata"} =>
        Progressed(m) \in [status : Statuses, progress : Nat, completedAt : BOOLEAN]
  BY DEF Progressed, Request
<1>4. CASE ProgressCallback(m)
  BY <1>3, <1>4 DEF ProgressCallback, WebTypeOK
<1>5. CASE MetadataCallback(m)
  BY <1>1, <1>3, <1>5 DEF MetadataCallback, WebTypeOK
<1>6. CASE HandleEvent(m)
  <2>1. m.batch \in Batches /\ m.attempt \in Attempts
    BY <1>6 DEF HandleEvent, Request
  <2> QED
    BY <1>1, <1>6, <2>1 DEF HandleEvent, WebTypeOK
<1>7. CASE CompletionCallback(m)
  BY <1>1, <1>2, <1>7 DEF CompletionCallback, WebTypeOK
<1>8. CASE HandlePartly(m)
  <2>1. record' \in [status : Statuses, progress : Nat, completedAt : BOOLEAN]
    BY <1>2, <1>3, <1>8 DEF HandlePartly
  <2>2. roster' \in {"none", "partial", "full"} /\ counted' \in [Runs -> Nat]
    BY <1>1, <1>8 DEF HandlePartly, WebTypeOK
  <2> QED
    BY <1>1, <2>1, <2>2, <1>8 DEF HandlePartly, WebTypeOK
<1> QED
  BY <1>4, <1>5, <1>6, <1>7, <1>8 DEF Handle

\* Entering a stage keeps the types.
LEMMA EnterType ==
  ASSUME TypeOK, NEW r \in Runs, NEW s \in Stages, NEW j \in JobRecord,
         Enter(r, s, j),
         marks' \in [Runs -> Nat], batch' \in [Runs -> Batches],
         attempt' \in [Runs -> Attempts], temp' \in [Runs -> BOOLEAN]
  PROVE  TypeOK'
BY DEF Enter, TypeOK, WebTypeOK, webVars, JobRecord

\* The records the stages assign are job records.
LEMMA AtType ==
  ASSUME NEW s \in Statuses, NEW p \in Nat, NEW n \in BOOLEAN
  PROVE  At(s, p, n) \in JobRecord
BY DEF At, JobRecord

LEMMA InitType == Init => TypeOK
<1> SUFFICES ASSUME Init
             PROVE  TypeOK
  OBVIOUS
<1>1. NewJob \in JobRecord
  BY DEF NewJob, JobRecord, Statuses
<1>2. 1 \in Batches /\ 1 \in Attempts
  BY NumBatchesAssumption, MaxAttemptsAssumption DEF Batches, Attempts
<1>3. "Idle" \in Stages
  BY DEF Stages, Ended
<1>4. WebTypeOK
  BY DEF Init, WebInit, WebTypeOK, Statuses
<1> QED
  BY <1>1, <1>2, <1>3, <1>4 DEF Init, TypeOK, JobRecord

\* The steps of the upload handler.
LEMMA UploadType ==
  ASSUME TypeOK, NEW r \in Runs,
         BeginUpload(r) \/ AcceptUpload(r) \/ FailSave(r)
  PROVE  TypeOK'
<1>1. NewJob \in [status : Statuses, progress : Nat, numbered : BOOLEAN]
  BY DEF NewJob, Statuses
<1>2. {"Refused", "Saving", "Queued"} \subseteq Stages
  BY DEF Stages, Ended, Running
<1>3. CASE BeginUpload(r)
  BY <1>2, <1>3 DEF BeginUpload, TypeOK, WebTypeOK, webVars
<1>4. CASE AcceptUpload(r)
  BY <1>1, <1>2, <1>4 DEF AcceptUpload, TypeOK, WebTypeOK, webVars
<1>5. CASE FailSave(r)
  BY <1>2, <1>5 DEF FailSave, TypeOK, WebTypeOK, webVars
<1> QED
  BY <1>3, <1>4, <1>5

\* The steps of the goroutine.
LEMMA StepType ==
  ASSUME TypeOK, NEW r \in Runs, Step(r)
  PROVE  TypeOK'
<1> USE DEF JobRecord
<1>1. /\ job[r] \in JobRecord /\ batch[r] \in Batches /\ attempt[r] \in Attempts
      /\ marks \in [Runs -> Nat] /\ batch \in [Runs -> Batches]
      /\ attempt \in [Runs -> Attempts] /\ temp \in [Runs -> BOOLEAN]
  BY DEF TypeOK
<1>2. {"Validating", "Uploading", "Initializing", "Parsing", "ParseError",
       "Panic", "Parsed", "Metadata", "Announced", "Events", "Finalizing",
       "Completing", "Erring", "Cleaning", "Ended"} \subseteq Stages
  BY DEF Stages, Ended, Running
<1>3. \A s \in Statuses : [job[r] EXCEPT !.status = s] \in JobRecord
  BY <1>1
<1>4. {"Validating", "Uploading", "Initializing", "Parsing",
       "ProcessingEvents", "SendingMetadata", "SendingEvents", "Finalizing",
       "Completed", "Failed", "ParseFailed", "CallbackFailed"} \subseteq Statuses
  BY DEF Statuses
<1>5. \A p \in Nat : StatusFor(p) \in Statuses
  BY <1>4 DEF StatusFor
<1>6. ASSUME UNCHANGED Fields
      PROVE  /\ marks' \in [Runs -> Nat] /\ batch' \in [Runs -> Batches]
             /\ attempt' \in [Runs -> Attempts] /\ temp' \in [Runs -> BOOLEAN]
  BY <1>1, <1>6 DEF Fields
<1>7. ASSUME NEW b \in Batches, NEW a \in Attempts, SendBatch(r, b, a)
      PROVE  TypeOK'
  <2>1. /\ batch' \in [Runs -> Batches] /\ attempt' \in [Runs -> Attempts]
        /\ marks' \in [Runs -> Nat] /\ temp' \in [Runs -> BOOLEAN]
    BY <1>1, <1>7 DEF SendBatch
  <2> QED
    BY <1>1, <1>2, <1>7, <2>1, EnterType DEF SendBatch
<1>8. CASE AcceptUpload(r) \/ FailSave(r)
  BY <1>8, UploadType
<1>9. CASE Validate(r)
  BY <1>2, <1>4, <1>6, <1>9, AtType, EnterType DEF Validate
<1>10. CASE Upload(r)
  BY <1>2, <1>4, <1>6, <1>10, AtType, EnterType DEF Upload
<1>11. CASE Initialize(r)
  BY <1>2, <1>4, <1>6, <1>11, AtType, EnterType DEF Initialize
<1>12. CASE StartParsing(r)
  BY <1>2, <1>4, <1>6, <1>12, AtType, EnterType DEF StartParsing
<1>13. CASE FinishParse(r)
  BY <1>2, <1>4, <1>6, <1>13, AtType, EnterType DEF FinishParse
<1>14. CASE SendMetadata(r)
  BY <1>1, <1>2, <1>4, <1>6, <1>14, AtType, EnterType DEF SendMetadata
<1>15. CASE AnnounceEvents(r)
  BY <1>1, <1>2, <1>4, <1>6, <1>15, AtType, EnterType DEF AnnounceEvents
<1>16. CASE Finalize(r)
  BY <1>1, <1>2, <1>4, <1>6, <1>16, AtType, EnterType DEF Finalize
<1>17. CASE ReportParseError(r)
  BY <1>2, <1>3, <1>4, <1>6, <1>17, EnterType DEF ReportParseError
<1>18. CASE GiveUp(r)
  BY <1>2, <1>3, <1>4, <1>6, <1>18, EnterType DEF GiveUp
<1>19. CASE FailCompletion(r)
  BY <1>2, <1>3, <1>4, <1>6, <1>19, EnterType DEF FailCompletion
<1>20. CASE SendCompletion(r)
  BY <1>1, <1>2, <1>6, <1>20, EnterType DEF SendCompletion
<1>21. CASE ReportPanic(r)
  <2>1. /\ temp' \in [Runs -> BOOLEAN] /\ marks' \in [Runs -> Nat]
        /\ batch' \in [Runs -> Batches] /\ attempt' \in [Runs -> Attempts]
    BY <1>1, <1>21 DEF ReportPanic, RemoveFile
  <2> QED
    BY <1>2, <1>3, <1>4, <1>21, <2>1, EnterType DEF ReportPanic
<1>22. CASE ReportProgress(r)
  <2> DEFINE p == ParseUpdates[marks[r] + 1]
  <2>1. p \in Nat
    BY <1>1, <1>22, UpdatesAreNat DEF ReportProgress
  <2>2. /\ marks' \in [Runs -> Nat] /\ temp' \in [Runs -> BOOLEAN]
        /\ batch' \in [Runs -> Batches] /\ attempt' \in [Runs -> Attempts]
    BY <1>1, <1>22 DEF ReportProgress
  <2>3. At(StatusFor(p), p, TRUE) \in JobRecord
    BY <1>5, <2>1, AtType
  <2> QED
    BY <1>2, <1>22, <2>2, <2>3, EnterType DEF ReportProgress
<1>23. CASE Throttle(r)
  BY <1>23 DEF Throttle, TypeOK, WebTypeOK, webVars
<1>24. CASE FailParse(r)
  <2>1. At(StatusFor(0), 0, FALSE) \in JobRecord
    BY <1>5, AtType
  <2> QED
    BY <1>2, <1>6, <1>24, <2>1, EnterType DEF FailParse
<1>25. CASE FirstBatch(r)
  BY <1>7, <1>25, NumBatchesAssumption, MaxAttemptsAssumption
     DEF FirstBatch, Batches, Attempts
<1>26. CASE NextBatch(r)
  BY <1>1, <1>7, <1>26, NumBatchesAssumption, MaxAttemptsAssumption
     DEF NextBatch, Batches, Attempts
<1>27. CASE RetryBatch(r)
  BY <1>1, <1>7, <1>27, MaxAttemptsAssumption DEF RetryBatch, Attempts
<1>28. CASE Finish(r)
  <2>1. At("Completed", 100, job[r].numbered) \in JobRecord
    BY <1>1, <1>4, AtType
  <2> QED
    BY <1>1, <1>2, <1>28, <2>1 DEF Finish, TypeOK, WebTypeOK, webVars
<1>29. CASE CleanUp(r)
  BY <1>2, <1>29 DEF CleanUp, RemoveFile, TypeOK, WebTypeOK, webVars
<1>30. CASE FailDetection(r)
  <2>1. At(StatusFor(0), 0, FALSE) \in JobRecord
    BY <1>5, AtType
  <2> QED
    BY <1>2, <1>6, <1>30, <2>1, EnterType DEF FailDetection
<1> QED
  BY <1>8, <1>9, <1>10, <1>11, <1>12, <1>13, <1>14, <1>15, <1>16, <1>17, <1>18,
     <1>19, <1>20, <1>21, <1>22, <1>23, <1>24, <1>25, <1>26, <1>27, <1>28,
     <1>29, <1>30 DEF Step

\* The outcomes of calls, the handling of strays and a restart.
LEMMA CallType ==
  ASSUME TypeOK,
         \/ \E r \in Runs : Outcome(r) \/ LoseAnswer(r)
         \/ HandleStray \/ Crash
  PROVE  TypeOK'
<1>1. \A r \in Runs : RequestOf(r) \in Request
  BY RequestOfType
<1>2. ASSUME NEW r \in Runs, Answer(r)
      PROVE  TypeOK'
  <2>1. WebTypeOK'
    BY <1>1, <1>2, HandleType DEF Answer, TypeOK, WebTypeOK, webVars
  <2> QED
    BY <1>2, <2>1 DEF Answer, SetCall, TypeOK
<1>3. ASSUME NEW r \in Runs, Lose(r) \/ LoseAnswer(r)
      PROVE  TypeOK'
  BY <1>3 DEF Lose, LoseAnswer, SetCall, TypeOK, WebTypeOK, webVars
<1>4. ASSUME NEW r \in Runs, GiveUpWaiting(r)
      PROVE  TypeOK'
  BY <1>1, <1>4 DEF GiveUpWaiting, SetCall, TypeOK, WebTypeOK, webVars
<1>5. CASE HandleStray
  <2>1. PICK m \in strays :
          /\ Handle(m) \/ HandlePartly(m) \/ UNCHANGED webVars
          /\ strays' = strays \ {m}
          /\ UNCHANGED <<runVars, registered, crashes>>
    BY <1>5 DEF HandleStray
  <2>2. m \in Request /\ WebTypeOK
    BY DEF TypeOK
  <2>3. WebTypeOK'
    BY <2>1, <2>2, HandleType DEF WebTypeOK, webVars
  <2> QED
    BY <2>1, <2>3 DEF TypeOK, runVars
<1>6. CASE Crash
  <2>1. pc' \in [Runs -> Stages] /\ call' \in [Runs -> {"none", "sent", "ok", "failed"}]
    BY <1>6 DEF Crash, TypeOK, Stages, Ended
  <2>2. strays' \subseteq Request
    BY <1>1, <1>6 DEF Crash, TypeOK
  <2>3. crashes' \in Nat
    BY <1>6 DEF Crash, TypeOK
  <2>4. registered' = FALSE
    BY <1>6 DEF Crash
  <2> QED
    BY <1>6, <2>1, <2>2, <2>3, <2>4 DEF Crash, TypeOK, WebTypeOK, webVars
<1> QED
  BY <1>2, <1>3, <1>4, <1>5, <1>6 DEF Outcome

LEMMA NextType ==
  ASSUME TypeOK, [Next]_vars
  PROVE  TypeOK'
<1>1. CASE UNCHANGED vars
  BY <1>1 DEF vars, runVars, webVars, TypeOK, WebTypeOK
<1>2. CASE Next
  BY <1>2, UploadType, StepType, CallType DEF Next
<1> QED
  BY <1>1, <1>2

\* Every variable of both services keeps its type, for every number of
\* uploads, batches, attempts and restarts.
THEOREM TypeCorrect == Spec => []TypeOK
<1>1. Init => TypeOK
  BY InitType
<1>2. TypeOK /\ [Next]_vars => TypeOK'
  BY NextType
<1> QED
  BY <1>1, <1>2, PTL DEF Spec

-----------------------------------------------------------------------------
(* Delivery.                                                                 *)

\* The web application never removes a row and never forgets a completion.
Grown ==
  /\ rows \subseteq rows'
  /\ completedBy \subseteq completedBy'

LEMMA HandleGrows ==
  ASSUME WebTypeOK, NEW m \in Request, Handle(m) \/ HandlePartly(m)
  PROVE  Grown
<1>1. m.run \in Runs
  BY DEF Request
<1>2. CASE ProgressCallback(m) \/ MetadataCallback(m) \/ HandleEvent(m) \/ HandlePartly(m)
  <2>1. rows \subseteq rows' /\ completedBy \subseteq completedBy'
    BY <1>2 DEF ProgressCallback, MetadataCallback, HandleEvent, HandlePartly
  <2> QED
    BY <2>1 DEF Grown
<1>3. CASE CompletionCallback(m)
  BY <1>1, <1>3 DEF CompletionCallback, WebTypeOK, Grown
<1> QED
  BY <1>2, <1>3 DEF Handle

\* What is stored stays stored.
LEMMA StoredGrows ==
  ASSUME Grown, NEW r \in Runs
  PROVE  /\ \A b : Stored(r, b) => Stored(r, b)'
         /\ \A b : Ready(r, b) => Ready(r, b)'
         /\ Whole(r) => Whole(r)'
         /\ r \in completedBy => r \in completedBy'
<1>1. \A b : Stored(r, b) => Stored(r, b)'
  BY DEF Grown, Stored
<1> QED
  BY <1>1 DEF Grown, Ready, Whole

\* A run that does not move, or whose call fails, stays in order.
LEMMA RunFrame ==
  ASSUME Grown, NEW r \in Runs, RunInOrder(r),
         pc'[r] = pc[r], job'[r] = job[r], batch'[r] = batch[r],
         call'[r] = call[r] \/ call'[r] # "ok"
  PROVE  RunInOrder(r)'
BY StoredGrows DEF RunInOrder

\* A stage other than the events and the two after them asks for nothing.
LEMMA EnterFrame ==
  ASSUME TypeOK, NEW r \in Runs, NEW j \in JobRecord, j.status # "Completed",
         NEW s \in Stages \ {"Events", "Finalizing", "Completing"},
         Enter(r, s, j)
  PROVE  RunInOrder(r)'
<1>1. pc'[r] = s /\ job'[r] = j
  BY DEF Enter, TypeOK
<1> QED
  BY <1>1 DEF RunInOrder

\* Steps of a run leave the web application, the strays and other runs alone.
LEMMA StepLocal ==
  ASSUME TypeOK, NEW r \in Runs, BeginUpload(r) \/ Step(r)
  PROVE  /\ UNCHANGED <<webVars, strays>>
         /\ \A q \in Runs \ {r} :
              /\ pc'[q] = pc[q] /\ job'[q] = job[q]
              /\ batch'[q] = batch[q] /\ call'[q] = call[q]
<1>1. CASE BeginUpload(r) \/ AcceptUpload(r) \/ FailSave(r) \/ Throttle(r) \/ Finish(r)
          \/ CleanUp(r)
  BY <1>1 DEF BeginUpload, AcceptUpload, FailSave, Throttle, Finish, CleanUp, TypeOK
<1>2. ASSUME NEW s, NEW j, Enter(r, s, j)
      PROVE  /\ UNCHANGED <<webVars, strays>>
             /\ \A q \in Runs \ {r} :
                  pc'[q] = pc[q] /\ job'[q] = job[q] /\ call'[q] = call[q]
  BY <1>2 DEF Enter, TypeOK
<1>3. CASE FirstBatch(r) \/ NextBatch(r) \/ RetryBatch(r)
  <2>1. PICK b, a : SendBatch(r, b, a)
    BY <1>3 DEF FirstBatch, NextBatch, RetryBatch
  <2>2. \A q \in Runs \ {r} : batch'[q] = batch[q]
    BY <2>1 DEF SendBatch, TypeOK
  <2> QED
    BY <1>2, <2>1, <2>2 DEF SendBatch
<1>4. CASE \/ Validate(r) \/ Upload(r) \/ Initialize(r) \/ StartParsing(r)
           \/ ReportProgress(r) \/ FinishParse(r) \/ FailParse(r) \/ FailDetection(r)
           \/ ReportParseError(r) \/ ReportPanic(r) \/ SendMetadata(r)
           \/ AnnounceEvents(r) \/ GiveUp(r) \/ Finalize(r)
           \/ SendCompletion(r) \/ FailCompletion(r)
  <2>1. PICK s, j : Enter(r, s, j)
    BY <1>4 DEF Validate, Upload, Initialize, StartParsing, ReportProgress,
         FinishParse, FailParse, FailDetection, ReportParseError, ReportPanic, SendMetadata,
         AnnounceEvents, GiveUp, Finalize, SendCompletion, FailCompletion
  <2>2. UNCHANGED batch
    BY <1>4 DEF Validate, Upload, Initialize, StartParsing, ReportProgress,
         FinishParse, FailParse, FailDetection, ReportParseError, ReportPanic, SendMetadata,
         AnnounceEvents, GiveUp, Finalize, SendCompletion, FailCompletion, Fields
  <2> QED
    BY <1>2, <2>1, <2>2
<1> QED
  BY <1>1, <1>3, <1>4 DEF Step

\* The goroutine moves on only with what the next stage needs delivered.
LEMMA StepInOrder ==
  ASSUME TypeOK, NEW r \in Runs, RunInOrder(r), BeginUpload(r) \/ Step(r)
  PROVE  RunInOrder(r)'
<1>1. /\ rows' = rows /\ completedBy' = completedBy /\ Grown
  <2>1. UNCHANGED webVars
    BY StepLocal
  <2> QED
    BY <2>1 DEF webVars, Grown
<1>2. /\ job[r] \in JobRecord /\ batch[r] \in Batches /\ NumBatches \in Nat
      /\ pc[r] \notin Over => job[r].status # "Completed"
  BY NumBatchesAssumption DEF TypeOK, JobRecord, RunInOrder
<1>3. \A s \in Statuses \ {"Completed"} :
        /\ [job[r] EXCEPT !.status = s] \in JobRecord
        /\ [job[r] EXCEPT !.status = s].status # "Completed"
  BY <1>2 DEF JobRecord
<1>4. \A s \in Statuses \ {"Completed"}, p \in Nat, n \in BOOLEAN :
        At(s, p, n) \in JobRecord /\ At(s, p, n).status # "Completed"
  BY AtType DEF At
<1>5. {"Validating", "Uploading", "Initializing", "Parsing",
       "ProcessingEvents", "SendingMetadata", "SendingEvents", "Finalizing",
       "Failed", "ParseFailed", "CallbackFailed"} \subseteq Statuses \ {"Completed"}
  BY DEF Statuses
<1>6. {"Validating", "Uploading", "Initializing", "Parsing", "ParseError",
       "Panic", "Parsed", "Metadata", "Announced", "Erring"}
        \subseteq Stages \ {"Events", "Finalizing", "Completing"}
  BY DEF Stages, Ended, Running
<1>7. \A p \in Nat : StatusFor(p) \in Statuses \ {"Completed"}
  BY <1>5 DEF StatusFor
<1>8. CASE BeginUpload(r) \/ AcceptUpload(r) \/ FailSave(r)
  <2>1. pc'[r] \in {"Refused", "Saving", "Queued"} /\ job'[r].status # "Completed"
    BY <1>2, <1>8 DEF BeginUpload, AcceptUpload, FailSave, NewJob, TypeOK, Over
  <2> QED
    BY <2>1 DEF RunInOrder
<1>9. CASE Validate(r) \/ Upload(r) \/ Initialize(r) \/ StartParsing(r)
  BY <1>4, <1>5, <1>6, <1>9, EnterFrame
     DEF Validate, Upload, Initialize, StartParsing
<1>10. CASE FinishParse(r) \/ SendMetadata(r) \/ AnnounceEvents(r)
  <2>1. job[r].numbered \in BOOLEAN
    BY <1>2 DEF JobRecord
  <2> QED
    BY <1>4, <1>5, <1>6, <1>10, <2>1, EnterFrame
       DEF FinishParse, SendMetadata, AnnounceEvents
<1>11. CASE ReportParseError(r) \/ ReportPanic(r) \/ GiveUp(r) \/ FailCompletion(r)
  BY <1>3, <1>5, <1>6, <1>11, EnterFrame
     DEF ReportParseError, ReportPanic, GiveUp, FailCompletion
<1>12. CASE ReportProgress(r)
  <2> DEFINE p == ParseUpdates[marks[r] + 1]
  <2>1. p \in Nat
    BY <1>12, UpdatesAreNat DEF ReportProgress, TypeOK
  <2>2. At(StatusFor(p), p, TRUE) \in JobRecord /\ At(StatusFor(p), p, TRUE).status # "Completed"
    BY <1>4, <1>7, <2>1
  <2> QED
    BY <1>6, <1>12, <2>2, EnterFrame DEF ReportProgress
<1>13. CASE FailParse(r) \/ FailDetection(r)
  <2>1. At(StatusFor(0), 0, FALSE) \in JobRecord /\ At(StatusFor(0), 0, FALSE).status # "Completed"
    BY <1>4, <1>7
  <2> QED
    BY <1>6, <1>13, <2>1, EnterFrame DEF FailParse, FailDetection
<1>14. CASE Throttle(r)
  BY <1>1, <1>14, RunFrame DEF Throttle
<1>15. ASSUME NEW b \in Batches, NEW a, SendBatch(r, b, a), Ready(r, b),
              pc[r] \notin Over
       PROVE  RunInOrder(r)'
  <2>1. pc'[r] = "Events" /\ batch'[r] = b /\ job'[r] = job[r] /\ call'[r] = "sent"
    BY <1>15 DEF SendBatch, Enter, TypeOK
  <2>2. Ready(r, b)'
    BY <1>1, <1>15, StoredGrows
  <2> QED
    BY <1>2, <1>15, <2>1, <2>2 DEF RunInOrder
<1>16. CASE FirstBatch(r)
  <2>1. Ready(r, 1) /\ 1 \in Batches
    BY NumBatchesAssumption DEF Ready, Batches
  <2> QED
    BY <1>15, <1>16, <2>1 DEF FirstBatch, Over
<1>17. CASE NextBatch(r)
  <2>1. Ready(r, batch[r] + 1) /\ batch[r] + 1 \in Batches
    BY <1>2, <1>17 DEF NextBatch, Ready, Batches, RunInOrder
  <2> QED
    BY <1>15, <1>17, <2>1 DEF NextBatch, Over
<1>18. CASE RetryBatch(r)
  <2>1. Ready(r, batch[r])
    BY <1>18 DEF RetryBatch, RunInOrder
  <2> QED
    BY <1>2, <1>15, <1>18, <2>1 DEF RetryBatch, Over
<1>19. CASE Finalize(r)
  <2>1. Whole(r)
    BY <1>2, <1>19 DEF Finalize, RunInOrder, Ready, Whole, Batches
  <2>2. pc'[r] = "Finalizing" /\ job'[r] = At("Finalizing", 98, job[r].numbered)
    BY <1>19 DEF Finalize, Enter, TypeOK
  <2>3. job'[r].status # "Completed"
    BY <2>2 DEF At
  <2> QED
    BY <1>1, <2>1, <2>2, <2>3, StoredGrows DEF RunInOrder
<1>20. CASE SendCompletion(r)
  <2>1. pc'[r] = "Completing" /\ job'[r] = job[r] /\ call'[r] = "sent"
    BY <1>20 DEF SendCompletion, Enter, TypeOK
  <2>2. Whole(r)'
    BY <1>1, <1>20, StoredGrows DEF SendCompletion, RunInOrder
  <2> QED
    BY <1>2, <1>20, <2>1, <2>2 DEF SendCompletion, RunInOrder, Over
<1>21. CASE Finish(r)
  <2>1. pc'[r] \in {"Cleaning", "Ended"} /\ pc[r] \in {"Completing", "Erring"}
    BY <1>21 DEF Finish, TypeOK
  <2>2. pc[r] = "Erring" => job'[r] = job[r]
    BY <1>21 DEF Finish, TypeOK
  <2>3. pc[r] = "Completing" => Whole(r)' /\ r \in completedBy'
    BY <1>1, <1>21, StoredGrows DEF Finish, RunInOrder
  <2> QED
    BY <1>2, <2>1, <2>2, <2>3 DEF RunInOrder, Over
<1>22. CASE CleanUp(r)
  <2>1. pc'[r] = "Ended" /\ pc[r] = "Cleaning" /\ job' = job
    BY <1>22 DEF CleanUp, TypeOK
  <2> QED
    BY <1>1, <2>1, StoredGrows DEF RunInOrder, Over
<1> QED
  BY <1>8, <1>9, <1>10, <1>11, <1>12, <1>13, <1>14, <1>16, <1>17, <1>18,
     <1>19, <1>20, <1>21, <1>22 DEF Step

\* A request sent in order is handled in order.
LEMMA HandleInOrder ==
  ASSUME WebTypeOK, DeliveredInOrder, NEW m \in Request,
         Handle(m) \/ HandlePartly(m),
         m.kind = "event" => Ready(m.run, m.batch)
  PROVE  DeliveredInOrder'
<1>1. Grown
  BY HandleGrows
<1>2. CASE rows' = rows
  BY <1>2 DEF DeliveredInOrder, Stored
<1>3. CASE HandleEvent(m)
  <2>1. /\ rows' = rows \cup {<<m.run, m.batch, m.attempt>>}
        /\ m.kind = "event" /\ m.run \in Runs
    BY <1>3 DEF HandleEvent, Request
  <2> SUFFICES ASSUME NEW r \in Runs, NEW b \in Batches, Stored(r, b)'
               PROVE  \A c \in 1..(b - 1) : Stored(r, c)'
    BY DEF DeliveredInOrder
  <2>2. Stored(r, b) \/ (r = m.run /\ b = m.batch)
    BY <2>1 DEF Stored
  <2>3. Ready(r, b)
    BY <2>1, <2>2 DEF DeliveredInOrder, Ready
  <2> QED
    BY <1>1, <2>3, StoredGrows DEF Ready
<1> QED
  BY <1>2, <1>3 DEF Handle, HandlePartly, ProgressCallback, MetadataCallback,
       CompletionCallback

\* What the request of a run that is in order says of the stored batches.
LEMMA RequestReady ==
  ASSUME NEW r \in Runs, RunInOrder(r), RequestOf(r).kind = "event"
  PROVE  /\ pc[r] = "Events" /\ RequestOf(r) = EventRequest(r, batch[r], attempt[r])
         /\ Ready(RequestOf(r).run, RequestOf(r).batch)
<1>1. pc[r] = "Events"
  BY DEF RequestOf, MetadataRequest, ProgressRequest, UpdateRequest,
       CompletionRequest
<1> QED
  BY <1>1 DEF RequestOf, EventRequest, RunInOrder

\* The outcome of a call: the answered request has had its effect.
LEMMA AnswerInOrder ==
  ASSUME DeliveryInv, NEW r \in Runs, Answer(r)
  PROVE  DeliveryInv'
<1> USE DEF DeliveryInv
<1>1. TypeOK'
  BY CallType DEF Outcome
<1>2. RequestOf(r) \in Request /\ WebTypeOK
  BY RequestOfType DEF TypeOK
<1>3. Handle(RequestOf(r)) \/ HandlePartly(RequestOf(r)) \/ UNCHANGED webVars
  BY DEF Answer
<1>4. Grown
  BY <1>2, <1>3, HandleGrows DEF webVars, Grown
<1>5. DeliveredInOrder'
  <2>1. CASE UNCHANGED webVars
    BY <2>1 DEF webVars, DeliveredInOrder, Stored
  <2> QED
    BY <1>2, <1>3, <2>1, RequestReady, HandleInOrder
<1>6. StraysInOrder'
  <2>1. strays' = strays /\ \A m \in strays : m.kind = "event" => m.run \in Runs
    BY DEF Answer, TypeOK, Request
  <2> QED
    BY <1>4, <2>1, StoredGrows DEF StraysInOrder
<1>7. ASSUME NEW q \in Runs
      PROVE  RunInOrder(q)'
  <2>1. /\ pc' = pc /\ job' = job /\ batch' = batch
        /\ q # r => call'[q] = call[q]
    BY <1>7 DEF Answer, SetCall, TypeOK
  <2>2. CASE q # r \/ call'[q] # "ok"
    BY <1>4, <2>1, <2>2, RunFrame
  <2>3. CASE q = r /\ call'[q] = "ok"
    <3>1. Handle(RequestOf(r))
      BY <2>3 DEF Answer, SetCall, TypeOK
    <3>2. pc[r] = "Events" => Stored(r, batch[r])'
      <4> SUFFICES ASSUME pc[r] = "Events"
                   PROVE  Stored(r, batch[r])'
        OBVIOUS
      <4>1. RequestOf(r) = EventRequest(r, batch[r], attempt[r])
        BY DEF RequestOf
      <4>2. rows' = rows \cup {<<r, batch[r], attempt[r]>>}
        BY <3>1, <4>1 DEF EventRequest, Handle, ProgressCallback,
             MetadataCallback, HandleEvent, CompletionCallback
      <4> QED
        BY <2>1, <4>2 DEF Stored, TypeOK
    <3>3. pc[r] = "Completing" => r \in completedBy'
      <4> SUFFICES ASSUME pc[r] = "Completing"
                   PROVE  r \in completedBy'
        OBVIOUS
      <4>1. RequestOf(r) = CompletionRequest(r, "Completed")
        BY DEF RequestOf
      <4>2. completedBy' = completedBy \cup {r}
        BY <3>1, <4>1 DEF CompletionRequest, Handle, ProgressCallback,
             MetadataCallback, HandleEvent, CompletionCallback
      <4> QED
        BY <4>2 DEF TypeOK, WebTypeOK
    <3> QED
      BY <1>4, <2>1, <2>3, <3>2, <3>3, StoredGrows DEF RunInOrder
  <2> QED
    BY <2>2, <2>3
<1> QED
  BY <1>1, <1>5, <1>6, <1>7

\* Lost calls, late handling and restarts keep the delivery in order.
LEMMA CallInOrder ==
  ASSUME DeliveryInv,
         \/ \E r \in Runs : Outcome(r) \/ LoseAnswer(r)
         \/ HandleStray \/ Crash
  PROVE  DeliveryInv'
<1> USE DEF DeliveryInv
<1>1. TypeOK'
  BY CallType
<1>2. \A m \in strays : m \in Request /\ m.run \in Runs
  BY DEF TypeOK, Request
<1>3. ASSUME UNCHANGED webVars
      PROVE  Grown /\ DeliveredInOrder'
  BY <1>3 DEF webVars, Grown, DeliveredInOrder, Stored
<1>4. ASSUME NEW r \in Runs, Lose(r) \/ LoseAnswer(r) \/ GiveUpWaiting(r)
      PROVE  DeliveryInv'
  <2>1. /\ UNCHANGED <<webVars, pc, job, batch>>
        /\ \A q \in Runs : call'[q] = call[q] \/ call'[q] # "ok"
        /\ strays' \subseteq strays \cup {RequestOf(r)}
    BY <1>4 DEF Lose, LoseAnswer, GiveUpWaiting, SetCall, TypeOK
  <2>2. \A q \in Runs : RunInOrder(q)'
    BY <1>3, <2>1, RunFrame
  <2>3. StraysInOrder'
    <3> SUFFICES ASSUME NEW m \in strays', m.kind = "event"
                 PROVE  Ready(m.run, m.batch)'
      BY DEF StraysInOrder
    <3>1. Ready(m.run, m.batch)
      BY <2>1, RequestReady DEF StraysInOrder
    <3>2. m.run \in Runs
      BY <1>2, <2>1, RequestOfType DEF Request
    <3> QED
      BY <1>3, <2>1, <3>1, <3>2, StoredGrows
  <2> QED
    BY <1>1, <1>3, <2>1, <2>2, <2>3
<1>5. CASE HandleStray
  <2>1. PICK m \in strays :
          /\ Handle(m) \/ HandlePartly(m) \/ UNCHANGED webVars
          /\ strays' = strays \ {m}
          /\ UNCHANGED <<runVars, registered, crashes>>
    BY <1>5 DEF HandleStray
  <2>2. Grown
    BY <1>2, <1>3, <2>1, HandleGrows DEF TypeOK
  <2>3. DeliveredInOrder'
    BY <1>2, <1>3, <2>1, HandleInOrder DEF TypeOK, StraysInOrder
  <2>4. StraysInOrder'
    BY <1>2, <2>1, <2>2, StoredGrows DEF StraysInOrder
  <2>5. \A q \in Runs : RunInOrder(q)'
    BY <2>1, <2>2, RunFrame DEF runVars
  <2> QED
    BY <1>1, <2>3, <2>4, <2>5
<1>6. CASE Crash
  <2>1. /\ UNCHANGED <<webVars, job, batch>>
        /\ \A q \in Runs : /\ pc'[q] = pc[q] \/ pc'[q] = "Dead"
                           /\ pc[q] = "Ended" => pc'[q] = pc[q]
                           /\ call'[q] # "ok"
        /\ \A m \in strays' : m \in strays \/ \E q \in Runs : m = RequestOf(q)
    BY <1>6 DEF Crash, Ended
  <2>2. ASSUME NEW q \in Runs
        PROVE  RunInOrder(q)'
    <3>1. CASE pc'[q] = pc[q]
      BY <1>3, <2>1, <3>1, RunFrame
    <3>2. CASE pc'[q] = "Dead" /\ pc[q] # "Ended"
      BY <1>3, <2>1, <3>2, StoredGrows DEF RunInOrder, Over
    <3> QED
      BY <2>1, <3>1, <3>2
  <2>3. StraysInOrder'
    <3> SUFFICES ASSUME NEW m \in strays', m.kind = "event"
                 PROVE  Ready(m.run, m.batch)'
      BY DEF StraysInOrder
    <3>1. Ready(m.run, m.batch)
      BY <2>1, RequestReady DEF StraysInOrder
    <3>2. m.run \in Runs
      BY <1>2, <2>1, RequestOfType DEF Request
    <3> QED
      BY <1>3, <2>1, <3>1, <3>2, StoredGrows
  <2> QED
    BY <1>1, <1>3, <2>1, <2>2, <2>3
<1> QED
  BY <1>4, <1>5, <1>6, AnswerInOrder DEF Outcome

\* DeliveryInv is inductive.
LEMMA DeliveryInit == Init => DeliveryInv
<1> SUFFICES ASSUME Init
             PROVE  DeliveryInv
  OBVIOUS
<1>1. rows = {} /\ strays = {}
  BY DEF Init, WebInit
<1>2. \A r \in Runs : pc[r] = "Idle" /\ job[r].status # "Completed"
  BY DEF Init, NewJob
<1> QED
  BY <1>1, <1>2, InitType
     DEF DeliveryInv, DeliveredInOrder, StraysInOrder, RunInOrder, Stored

LEMMA DeliveryStep ==
  ASSUME DeliveryInv, [Next]_vars
  PROVE  DeliveryInv'
<1>1. CASE UNCHANGED vars
  BY <1>1, NextType DEF vars, runVars, webVars, DeliveryInv, DeliveredInOrder,
       StraysInOrder, RunInOrder, Ready, Whole, Stored
<1>2. ASSUME NEW r \in Runs, BeginUpload(r) \/ Step(r)
      PROVE  DeliveryInv'
  <2>1. TypeOK'
    BY <1>2, UploadType, StepType DEF DeliveryInv
  <2>2. /\ rows' = rows /\ strays' = strays /\ Grown
        /\ \A q \in Runs \ {r} :
             /\ pc'[q] = pc[q] /\ job'[q] = job[q]
             /\ batch'[q] = batch[q] /\ call'[q] = call[q]
    BY <1>2, StepLocal DEF DeliveryInv, webVars, Grown
  <2>3. \A q \in Runs : RunInOrder(q)'
    BY <1>2, <2>2, StepInOrder, RunFrame DEF DeliveryInv
  <2>4. DeliveredInOrder' /\ StraysInOrder'
    BY <2>2 DEF DeliveryInv, DeliveredInOrder, StraysInOrder, Ready, Stored
  <2> QED
    BY <2>1, <2>3, <2>4 DEF DeliveryInv
<1> QED
  BY <1>1, <1>2, CallInOrder DEF Next

LEMMA DeliveryInvariant == Spec => []DeliveryInv
BY DeliveryInit, DeliveryStep, PTL DEF Spec

\* However calls are lost, repeated, given up or handled late and however
\* often the parser service restarts, the stored batches of every run are a
\* prefix of what sendAllEvents sends.
THEOREM BatchesArriveInOrder == Spec => []DeliveredInOrder
<1>1. DeliveryInv => DeliveredInOrder
  BY DEF DeliveryInv
<1> QED
  BY <1>1, DeliveryInvariant, PTL

\* A job the parser service marks Completed was delivered wholly, and its row
\* was completed on its own account.
THEOREM CompletedIsWhole == Spec => []CompletedRunIsWhole
<1>1. DeliveryInv => CompletedRunIsWhole
  BY DEF DeliveryInv, RunInOrder, Whole, CompletedRunIsWhole
<1> QED
  BY <1>1, DeliveryInvariant, PTL

-----------------------------------------------------------------------------
(* Refinement of DeliveryPromise.                                            *)

Delivered(r) == {b \in Batches : Stored(r, b)}

\* A step that stores nothing new for a run and changes its verdict as the
\* promise allows is a step of the promise.
LEMMA VerdictStep ==
  ASSUME NEW r \in Runs, Delivered(r)' = Delivered(r),
         \/ Verdict(r)' = Verdict(r)
         \/ Verdict(r) = "pending" /\ Verdict(r)' = "failed"
         \/ /\ Verdict(r) = "pending" /\ Verdict(r)' = "completed"
            /\ Delivered(r) = Batches
  PROVE  [Promise(r)!Next]_(Promise(r)!vars)
BY DEF Promise!Next, Promise!vars, Promise!Complete, Promise!Fail, Delivered,
     Batches

\* A step that stores at most one batch, sent in order, and keeps the verdict
\* is a step of the promise.
LEMMA DeliverStep ==
  ASSUME DeliveryInv, DeliveryInv', NEW r \in Runs, Verdict(r)' = Verdict(r),
         NEW b \in Batches, Ready(r, b),
         Delivered(r)' = Delivered(r) \/ Delivered(r)' = Delivered(r) \cup {b}
  PROVE  [Promise(r)!Next]_(Promise(r)!vars)
<1>1. CASE b \in Delivered(r) \/ Delivered(r)' = Delivered(r)
  BY <1>1, VerdictStep
<1>2. CASE b \notin Delivered(r) /\ Delivered(r)' = Delivered(r) \cup {b}
  <2>1. Delivered(r) = 1..(b - 1)
    <3>1. \A c \in Batches : c \in Delivered(r) => c < b
      BY <1>2, NumBatchesAssumption
         DEF DeliveryInv, DeliveredInOrder, Delivered, Batches
    <3>2. \A c \in 1..(b - 1) : c \in Delivered(r)
      BY NumBatchesAssumption DEF Ready, Delivered, Batches
    <3> QED
      BY <3>1, <3>2, NumBatchesAssumption DEF Delivered, Batches
  <2>2. Delivered(r)' = 1..b
    BY <1>2, <2>1, NumBatchesAssumption DEF Batches
  <2>3. Verdict(r) # "completed"
    BY <1>2 DEF Verdict, DeliveryInv, RunInOrder, Whole, Delivered
  <2> QED
    BY <2>1, <2>2, <2>3, NumBatchesAssumption
       DEF Promise!Next, Promise!Deliver, Delivered, Batches
<1> QED
  BY <1>1, <1>2

\* The steps of a run change its verdict as the promise allows.
LEMMA StepPromise ==
  ASSUME DeliveryInv, DeliveryInv', NEW r \in Runs, NEW q \in Runs,
         BeginUpload(q) \/ Step(q)
  PROVE  [Promise(r)!Next]_(Promise(r)!vars)
<1>1. Delivered(r)' = Delivered(r)
  BY StepLocal DEF DeliveryInv, webVars, Delivered, Stored
<1>2. CASE q # r
  <2>1. Verdict(r)' = Verdict(r)
    BY <1>2, StepLocal DEF DeliveryInv, Verdict
  <2> QED
    BY <1>1, <2>1, VerdictStep
<1>3. CASE q = r /\ Finish(r)
  <2>1. pc'[r] \in {"Cleaning", "Ended"} /\ pc[r] \in {"Completing", "Erring"}
    BY <1>3 DEF Finish, DeliveryInv, TypeOK
  <2>2. pc[r] = "Completing" =>
          Verdict(r) = "pending" /\ Verdict(r)' = "completed" /\ Delivered(r) = Batches
    <3>1. pc[r] = "Completing" => job'[r].status = "Completed"
      BY <1>3 DEF Finish, At, DeliveryInv, TypeOK
    <3> QED
      BY <2>1, <3>1 DEF DeliveryInv, RunInOrder, Whole, Delivered, Verdict, Over
  <2>3. pc[r] = "Erring" => Verdict(r)' = Verdict(r)
    <3>1. pc[r] = "Erring" => job'[r] = job[r]
      BY <1>3 DEF Finish, DeliveryInv, TypeOK
    <3> QED
      BY <2>1, <3>1 DEF Verdict
  <2> QED
    BY <1>1, <2>1, <2>2, <2>3, VerdictStep
<1>4. CASE q = r /\ CleanUp(r)
  <2>1. Verdict(r)' = Verdict(r)
    BY <1>4 DEF CleanUp, Verdict, DeliveryInv, TypeOK
  <2> QED
    BY <1>1, <2>1, VerdictStep
<1>5. CASE q = r /\ ~Finish(r) /\ ~CleanUp(r)
  <2>1. /\ pc[r] \notin {"Erring", "Cleaning", "Ended", "Dead", "Refused"}
        /\ pc'[r] \notin {"Cleaning", "Ended", "Dead"}
    <3>1. CASE BeginUpload(r) \/ AcceptUpload(r) \/ FailSave(r) \/ Throttle(r)
      BY <3>1 DEF BeginUpload, AcceptUpload, FailSave, Throttle, DeliveryInv, TypeOK
    <3>2. ASSUME NEW s, NEW j, Enter(r, s, j)
          PROVE  pc'[r] = s
      BY <3>2 DEF Enter, DeliveryInv, TypeOK
    <3>3. CASE FirstBatch(r) \/ NextBatch(r) \/ RetryBatch(r)
      BY <3>2, <3>3 DEF FirstBatch, NextBatch, RetryBatch, SendBatch
    <3>4. CASE Validate(r) \/ Upload(r) \/ Initialize(r) \/ StartParsing(r)
      BY <3>2, <3>4 DEF Validate, Upload, Initialize, StartParsing
    <3>5. CASE ReportProgress(r) \/ FinishParse(r) \/ FailParse(r) \/ FailDetection(r)
      BY <3>2, <3>5 DEF ReportProgress, FinishParse, FailParse, FailDetection
    <3>6. CASE ReportParseError(r) \/ ReportPanic(r) \/ GiveUp(r) \/ FailCompletion(r)
      BY <3>2, <3>6 DEF ReportParseError, ReportPanic, GiveUp, FailCompletion
    <3>7. CASE \/ SendMetadata(r) \/ AnnounceEvents(r)
               \/ Finalize(r) \/ SendCompletion(r)
      BY <3>2, <3>7 DEF SendMetadata, AnnounceEvents, Finalize, SendCompletion
    <3> QED
      BY <1>5, <3>1, <3>3, <3>4, <3>5, <3>6, <3>7 DEF Step
  <2>2. Verdict(r) = "pending" /\ Verdict(r)' \in {"pending", "failed"}
    BY <2>1 DEF DeliveryInv, RunInOrder, Verdict, Over
  <2> QED
    BY <1>1, <2>2, VerdictStep
<1> QED
  BY <1>2, <1>3, <1>4, <1>5

\* Handling a request that was sent in order delivers as the promise says.
LEMMA HandlePromise ==
  ASSUME DeliveryInv, DeliveryInv', NEW r \in Runs, NEW m \in Request,
         Handle(m) \/ HandlePartly(m) \/ UNCHANGED webVars,
         m.kind = "event" => Ready(m.run, m.batch),
         UNCHANGED <<pc, job>>
  PROVE  [Promise(r)!Next]_(Promise(r)!vars)
<1>1. Verdict(r)' = Verdict(r)
  BY DEF Verdict
<1>2. CASE rows' = rows
  <2>1. Delivered(r)' = Delivered(r)
    BY <1>2 DEF Delivered, Stored
  <2> QED
    BY <1>1, <2>1, VerdictStep
<1>3. CASE HandleEvent(m)
  <2>1. /\ m.batch \in Batches /\ m.attempt \in Attempts
        /\ rows' = rows \cup {<<m.run, m.batch, m.attempt>>}
        /\ Ready(m.run, m.batch)
    BY <1>3 DEF HandleEvent, Request
  <2>2. r # m.run => Delivered(r)' = Delivered(r)
    BY <2>1 DEF Delivered, Stored
  <2>3. r = m.run => Delivered(r)' = Delivered(r) \cup {m.batch}
    BY <2>1 DEF Delivered, Stored
  <2> QED
    BY <1>1, <2>1, <2>2, <2>3, VerdictStep, DeliverStep
<1> QED
  BY <1>2, <1>3 DEF Handle, HandlePartly, ProgressCallback, MetadataCallback,
       CompletionCallback, webVars

LEMMA NextPromise ==
  ASSUME DeliveryInv, DeliveryInv', [Next]_vars, NEW r \in Runs
  PROVE  [Promise(r)!Next]_(Promise(r)!vars)
<1>1. CASE UNCHANGED vars
  <2>1. Delivered(r)' = Delivered(r) /\ Verdict(r)' = Verdict(r)
    BY <1>1 DEF vars, webVars, runVars, Delivered, Stored, Verdict
  <2> QED
    BY <2>1, VerdictStep
<1>2. CASE \E q \in Runs : BeginUpload(q) \/ Step(q)
  BY <1>2, StepPromise
<1>3. ASSUME NEW q \in Runs, Answer(q)
      PROVE  [Promise(r)!Next]_(Promise(r)!vars)
  <2>1. /\ Handle(RequestOf(q)) \/ HandlePartly(RequestOf(q)) \/ UNCHANGED webVars
        /\ UNCHANGED <<pc, job>>
    BY <1>3 DEF Answer, SetCall
  <2> QED
    BY <2>1, RequestOfType, RequestReady, HandlePromise DEF DeliveryInv
<1>4. CASE HandleStray
  BY <1>4, HandlePromise DEF HandleStray, runVars, DeliveryInv, StraysInOrder, TypeOK
<1>5. ASSUME NEW q \in Runs, Lose(q) \/ LoseAnswer(q) \/ GiveUpWaiting(q)
      PROVE  [Promise(r)!Next]_(Promise(r)!vars)
  <2>1. Delivered(r)' = Delivered(r) /\ Verdict(r)' = Verdict(r)
    BY <1>5 DEF Lose, LoseAnswer, GiveUpWaiting, SetCall, webVars, Delivered,
         Stored, Verdict
  <2> QED
    BY <2>1, VerdictStep
<1>6. CASE Crash
  <2>1. Delivered(r)' = Delivered(r) /\ job' = job
    BY <1>6 DEF Crash, webVars, Delivered, Stored
  <2>2. pc'[r] = pc[r] \/ pc'[r] = "Dead"
    BY <1>6 DEF Crash
  <2>3. Verdict(r)' = Verdict(r) \/ (Verdict(r) = "pending" /\ Verdict(r)' = "failed")
    BY <2>1, <2>2 DEF Verdict
  <2> QED
    BY <2>1, <2>3, VerdictStep
<1> QED
  BY <1>1, <1>2, <1>3, <1>4, <1>5, <1>6 DEF Next, Outcome

\* Every run keeps the promise of DeliveryPromise: its batches reach the web
\* application one after the other and it reports success only with all of
\* them delivered.
THEOREM EveryRunKeepsPromise == Spec => PromiseKept
<1>1. Init => \A r \in Runs : Promise(r)!Init
  <2> SUFFICES ASSUME Init, NEW r \in Runs
               PROVE  Promise(r)!Init
    OBVIOUS
  <2>1. rows = {} /\ pc[r] = "Idle" /\ job[r].status = "Queued"
    BY DEF Init, WebInit, NewJob
  <2> QED
    BY <2>1 DEF Promise!Init, Stored, Verdict
<1>2. DeliveryInv /\ DeliveryInv' /\ [Next]_vars =>
        [\A r \in Runs : [Promise(r)!Next]_(Promise(r)!vars)]_vars
  BY NextPromise
<1> QED
  BY <1>1, <1>2, DeliveryInvariant, PTL DEF Spec, PromiseKept

-----------------------------------------------------------------------------
(* What a run does once.                                                     *)

\* Before the metadata is sent, and after the completion is.
Early == {"Idle", "Saving", "Queued", "Validating", "Uploading", "Initializing",
          "Parsing", "Parsed"}
Late  == {"Completing", "Erring", "Cleaning", "Ended", "Dead"}

Uncounted(r) == counted[r] = 0 /\ \A m \in strays : m.kind = "metadata" => m.run # r

\* The metadata of a run is still to come, on its way, given up or counted, and
\* one of these only.
CountInv(r) ==
  /\ pc[r] \in Early \/ (pc[r] = "Metadata" /\ call[r] = "sent") => Uncounted(r)
  /\ counted[r] \in {0, 1}
  /\ counted[r] = 1 => \A m \in strays : m.kind = "metadata" => m.run # r
  /\ \A m, n \in strays :
       m.kind = "metadata" /\ n.kind = "metadata" /\ m.run = r /\ n.run = r => m = n

\* A run that is not there waits for nothing.
NotWaiting(r) == pc[r] \in Ended \cup {"Saving", "Cleaning"} => call[r] = "none"

\* A completion is of a run past its last progress update.
LateInv(r) ==
  /\ r \in completedBy => pc[r] \in Late
  /\ \A m \in strays : m.kind = "completion" /\ m.run = r => pc[r] \in Late

OnceInv ==
  /\ TypeOK
  /\ \A r \in Runs : CountInv(r) /\ LateInv(r) /\ NotWaiting(r)

\* Where a step of a run may lead from and to.
LEMMA StepMoves ==
  ASSUME TypeOK, NEW r \in Runs, BeginUpload(r) \/ Step(r)
  PROVE  /\ pc[r] \notin {"Refused", "Ended", "Dead"}
         /\ pc[r] \in Late => pc'[r] \in Late
         /\ pc'[r] \in Early \cup {"Metadata"} => pc[r] \in Early
         /\ NotWaiting(r) => NotWaiting(r)'
<1> USE DEF Early, Late, Ended, NotWaiting
<1>1. CASE BeginUpload(r)
  BY <1>1 DEF BeginUpload, TypeOK
<1>2. CASE AcceptUpload(r) \/ FailSave(r)
  BY <1>2 DEF AcceptUpload, FailSave, TypeOK
<1>3. CASE Throttle(r)
  BY <1>3 DEF Throttle, TypeOK
<1>4. CASE Finish(r) \/ CleanUp(r)
  BY <1>4 DEF Finish, CleanUp, TypeOK
<1>5. ASSUME NEW s, NEW j, Enter(r, s, j)
      PROVE  pc'[r] = s
  BY <1>5 DEF Enter, TypeOK
<1>6. CASE Validate(r) \/ Upload(r) \/ Initialize(r) \/ StartParsing(r) \/ FinishParse(r) \/ FailParse(r) \/ FailDetection(r)
  BY <1>5, <1>6 DEF Validate, Upload, Initialize, StartParsing, FinishParse, FailParse, FailDetection, Fields
<1>7. CASE ReportProgress(r) \/ ReportParseError(r) \/ SendMetadata(r) \/ AnnounceEvents(r)
  BY <1>5, <1>7 DEF ReportProgress, ReportParseError, SendMetadata, AnnounceEvents, Fields
<1>8. CASE ReportPanic(r)
  BY <1>5, <1>8 DEF ReportPanic, TypeOK
<1>9. CASE FirstBatch(r) \/ NextBatch(r) \/ RetryBatch(r)
  BY <1>5, <1>9 DEF FirstBatch, NextBatch, RetryBatch, SendBatch
<1>10. CASE GiveUp(r) \/ Finalize(r) \/ SendCompletion(r) \/ FailCompletion(r)
  BY <1>5, <1>10 DEF GiveUp, Finalize, SendCompletion, FailCompletion, Fields
<1> QED
  BY <1>1, <1>2, <1>3, <1>4, <1>6, <1>7, <1>8, <1>9, <1>10 DEF Step

\* A step of a run counts nothing.
LEMMA StepOnce ==
  ASSUME OnceInv, NEW r \in Runs, BeginUpload(r) \/ Step(r)
  PROVE  OnceInv'
<1> USE DEF OnceInv
<1>1. TypeOK'
  BY UploadType, StepType
<1>2. /\ UNCHANGED <<counted, completedBy, strays>>
      /\ \A q \in Runs \ {r} : pc'[q] = pc[q] /\ call'[q] = call[q]
  BY StepLocal DEF webVars
<1>4. ASSUME NEW q \in Runs PROVE CountInv(q)' /\ LateInv(q)' /\ NotWaiting(q)'
  <2>1. CASE q # r
    BY <1>2, <2>1 DEF CountInv, LateInv, Uncounted, NotWaiting
  <2>2. CASE q = r
    BY <1>2, <2>2, StepMoves DEF CountInv, LateInv, Uncounted, NotWaiting
  <2> QED
    BY <2>1, <2>2
<1> QED
  BY <1>1, <1>4

\* The kind of a request follows from the stage that sends it.
LEMMA KindOf ==
  ASSUME TypeOK, NEW r \in Runs
  PROVE  /\ RequestOf(r) \in Request /\ RequestOf(r).run = r
         /\ RequestOf(r).kind = "metadata" <=> pc[r] = "Metadata"
         /\ RequestOf(r).kind = "completion" <=> pc[r] \in {"Completing", "Erring"}
  BY RequestOfType DEF RequestOf, EventRequest, MetadataRequest, ProgressRequest, UpdateRequest,
     CompletionRequest

\* The callbacks count and complete for the run whose request it is.
LEMMA HandleCounts ==
  ASSUME WebTypeOK, NEW m \in Request, Handle(m) \/ HandlePartly(m) \/ UNCHANGED webVars
  PROVE  /\ counted' \in {counted, [counted EXCEPT ![m.run] = @ + 1]}
         /\ m.kind # "metadata" => counted' = counted
         /\ completedBy' \in {completedBy, completedBy \cup {m.run}}
         /\ m.kind # "completion" => completedBy' = completedBy
<1>1. CASE UNCHANGED webVars
  BY <1>1 DEF webVars
<1>2. CASE Handle(m)
  BY <1>2 DEF Handle, ProgressCallback, MetadataCallback, HandleEvent, CompletionCallback
<1>3. CASE HandlePartly(m)
  BY <1>3 DEF HandlePartly
<1> QED
  BY <1>1, <1>2, <1>3

LEMMA AnswerOnce ==
  ASSUME OnceInv, NEW r \in Runs, Answer(r)
  PROVE  OnceInv'
<1> USE DEF OnceInv
<1>1. TypeOK'
  BY CallType DEF Outcome
<1>2. /\ UNCHANGED <<pc, strays>> /\ call[r] = "sent" /\ call'[r] # "sent"
      /\ \A q \in Runs \ {r} : call'[q] = call[q]
  BY DEF Answer, SetCall, TypeOK
<1>3. /\ counted' \in {counted, [counted EXCEPT ![r] = @ + 1]}
      /\ pc[r] # "Metadata" => counted' = counted
      /\ completedBy' \in {completedBy, completedBy \cup {r}}
      /\ pc[r] \notin {"Completing", "Erring"} => completedBy' = completedBy
  BY KindOf, HandleCounts DEF Answer, TypeOK
<1>4. ASSUME NEW q \in Runs PROVE CountInv(q)' /\ LateInv(q)' /\ NotWaiting(q)'
  <2>0. counted \in [Runs -> Nat]
    BY DEF TypeOK, WebTypeOK
  <2>1. CASE q # r
    <3>1. counted'[q] = counted[q] /\ (q \in completedBy' <=> q \in completedBy)
      BY <1>3, <2>0, <2>1
    <3> QED
      BY <1>2, <2>1, <3>1 DEF CountInv, LateInv, Uncounted, NotWaiting
  <2>2. CASE q = r
    <3>1. counted'[r] \in {counted[r], counted[r] + 1} /\ (pc[r] # "Metadata" => counted'[r] = counted[r])
      BY <1>3, <2>0
    <3>2. (r \in completedBy' <=> r \in completedBy) \/ pc[r] \in {"Completing", "Erring"}
      BY <1>3, <2>0
    <3> QED
      BY <1>2, <2>2, <3>1, <3>2 DEF CountInv, LateInv, Uncounted, NotWaiting, Early, Late
  <2> QED
    BY <2>1, <2>2
<1> QED
  BY <1>1, <1>2, <1>4

LEMMA StrayOnce ==
  ASSUME OnceInv, HandleStray
  PROVE  OnceInv'
<1> USE DEF OnceInv
<1>1. TypeOK'
  BY CallType
<1>2. PICK m \in strays :
        /\ Handle(m) \/ HandlePartly(m) \/ UNCHANGED webVars
        /\ strays' = strays \ {m}
        /\ UNCHANGED <<pc, call>>
  BY DEF HandleStray, runVars
<1>3. m \in Request /\ counted \in [Runs -> Nat] /\ WebTypeOK
  BY DEF TypeOK, WebTypeOK
<1>4. /\ counted' \in {counted, [counted EXCEPT ![m.run] = @ + 1]}
      /\ m.kind # "metadata" => counted' = counted
      /\ completedBy' \in {completedBy, completedBy \cup {m.run}}
      /\ m.kind # "completion" => completedBy' = completedBy
  BY <1>2, <1>3, HandleCounts
<1>5. ASSUME NEW q \in Runs PROVE CountInv(q)' /\ LateInv(q)' /\ NotWaiting(q)'
  <2>1. CountInv(q)'
    <3>1. CASE counted'[q] = counted[q]
      BY <1>2, <3>1 DEF CountInv, Uncounted
    <3>2. CASE counted'[q] # counted[q]
      <4>1. m.run = q /\ m.kind = "metadata" /\ counted'[q] = counted[q] + 1
        BY <1>3, <1>4, <3>2
      <4>2. counted[q] = 0 /\ ~Uncounted(q)
        BY <4>1 DEF CountInv, Uncounted
      <4>3. \A n \in strays' : n.kind = "metadata" => n.run # q
        BY <1>2, <4>1 DEF CountInv
      <4> QED
        BY <1>2, <4>1, <4>2, <4>3 DEF CountInv
    <3> QED
      BY <3>1, <3>2
  <2>2. LateInv(q)'
    BY <1>2, <1>3, <1>4 DEF LateInv
  <2> QED
    BY <1>2, <2>1, <2>2 DEF NotWaiting
<1> QED
  BY <1>1, <1>2, <1>5

\* Requests that are given up, by the client or with the service, are no longer
\* waited for.
LEMMA GivenUpOnce ==
  ASSUME OnceInv, TypeOK', UNCHANGED <<counted, completedBy>>, NEW away \in SUBSET Runs,
         \A r \in away : call[r] = "sent" /\ call'[r] # "sent",
         strays' = strays \cup {RequestOf(r) : r \in away},
         \A r \in Runs :
           \/ pc'[r] = pc[r] /\ call'[r] = call[r]
           \/ pc'[r] = pc[r] /\ call[r] # "none" /\ call'[r] = "failed"
           \/ call'[r] = "none" /\ (pc'[r] = pc[r] \/ (pc[r] \notin Ended /\ pc'[r] = "Dead"))
  PROVE  OnceInv'
<1> USE DEF OnceInv
<1>1. ASSUME NEW q \in Runs, NEW m \in strays', m.run = q, m \notin strays
      PROVE  m = RequestOf(q) /\ q \in away
  BY <1>1, KindOf
<1>2. ASSUME NEW q \in Runs PROVE CountInv(q)' /\ LateInv(q)' /\ NotWaiting(q)'
  <2>1. \A m \in strays' : m.run = q /\ m.kind = "metadata" /\ m \notin strays =>
          m = RequestOf(q) /\ Uncounted(q) /\ pc[q] = "Metadata" /\ call'[q] # "sent"
    BY <1>1, KindOf DEF CountInv
  <2>2. \A m \in strays' : m.run = q /\ m.kind = "completion" /\ m \notin strays => pc[q] \in Late
    BY <1>1, KindOf DEF Late
  <2>3. pc[q] \in Late => pc'[q] \in Late
    BY DEF Late
  <2>4. (pc'[q] \in Early \/ (pc'[q] = "Metadata" /\ call'[q] = "sent")) =>
           pc'[q] = pc[q] /\ Uncounted(q)
    BY DEF Early, CountInv
  <2>5. CountInv(q)'
    BY <2>1, <2>4 DEF CountInv, Uncounted, Early
  <2>6. LateInv(q)'
    BY <2>2, <2>3 DEF LateInv
  <2>7. NotWaiting(q)'
    BY DEF NotWaiting
  <2> QED
    BY <2>5, <2>6, <2>7
<1> QED
  BY <1>2

LEMMA OnceInit == Init => OnceInv
<1> SUFFICES ASSUME Init PROVE OnceInv
  OBVIOUS
<1>1. ASSUME NEW r \in Runs PROVE CountInv(r) /\ LateInv(r) /\ NotWaiting(r)
  <2>1. pc[r] = "Idle" /\ call[r] = "none" /\ strays = {} /\ counted[r] = 0 /\ completedBy = {}
    BY DEF Init, WebInit
  <2> QED
    BY <2>1 DEF CountInv, LateInv, Uncounted, NotWaiting
<1> QED
  BY <1>1, InitType DEF OnceInv

LEMMA OnceStep == OnceInv /\ [Next]_vars => OnceInv'
<1> SUFFICES ASSUME OnceInv, [Next]_vars PROVE OnceInv'
  OBVIOUS
<1>0. TypeOK /\ TypeOK'
  BY NextType DEF OnceInv
<1>1. ASSUME NEW r \in Runs, BeginUpload(r) \/ Step(r) PROVE OnceInv'
  BY <1>1, StepOnce
<1>2. ASSUME NEW r \in Runs, Answer(r) PROVE OnceInv'
  BY <1>2, AnswerOnce
<1>3. ASSUME NEW r \in Runs, Lose(r) \/ LoseAnswer(r) PROVE OnceInv'
  <2>1. UNCHANGED <<counted, completedBy, pc, strays>>
    BY <1>3 DEF Lose, LoseAnswer, SetCall, webVars
  <2>2. \A q \in Runs : call'[q] = call[q] \/ (call[q] # "none" /\ call'[q] = "failed")
    BY <1>0, <1>3 DEF Lose, LoseAnswer, SetCall, TypeOK
  <2> QED
    <3> DEFINE away == Runs \ Runs
    <3>1. strays' = strays \cup {RequestOf(q) : q \in away} /\ away \in SUBSET Runs
      BY <2>1
    <3>2. \A q \in away : FALSE
      OBVIOUS
    <3> HIDE DEF away
    <3> QED
      BY <1>0, <2>1, <2>2, <3>1, <3>2, GivenUpOnce
<1>4. ASSUME NEW r \in Runs, GiveUpWaiting(r) PROVE OnceInv'
  <2>1. UNCHANGED <<counted, completedBy, pc>> /\ call[r] = "sent"
        /\ strays' = strays \cup {RequestOf(q) : q \in {r}}
    BY <1>4 DEF GiveUpWaiting, SetCall, webVars
  <2>2. call'[r] = "failed" /\ \A q \in Runs \ {r} : call'[q] = call[q]
    BY <1>0, <1>4 DEF GiveUpWaiting, SetCall, TypeOK
  <2> QED
    BY <1>0, <2>1, <2>2, GivenUpOnce
<1>5. CASE HandleStray
  BY <1>5, StrayOnce
<1>6. CASE Crash
  <2>1. UNCHANGED <<counted, completedBy>> /\ \A r \in Runs : call'[r] = "none"
    BY <1>6 DEF Crash, webVars
  <2>2. \A r \in Runs : pc'[r] = pc[r] \/ (pc[r] \notin Ended /\ pc'[r] = "Dead")
    BY <1>6 DEF Crash
  <2>3. PICK away \in SUBSET {r \in Runs : call[r] = "sent"} :
          strays' = strays \cup {RequestOf(r) : r \in away}
    BY <1>6 DEF Crash
  <2> QED
    BY <1>0, <2>1, <2>2, <2>3, GivenUpOnce
<1>7. CASE UNCHANGED vars
  BY <1>0, <1>7 DEF vars, webVars, runVars, OnceInv, CountInv, LateInv, Uncounted,
     NotWaiting
<1> QED
  BY <1>1, <1>2, <1>3, <1>4, <1>5, <1>6, <1>7 DEF Next, Outcome

LEMMA OnceInvariant == Spec => []OnceInv
  BY OnceInit, OnceStep, PTL DEF Spec

\* However calls are lost, given up or handled late, each run raises the
\* players' total_matches once at most (createMatchWithPlayers).
THEOREM RunsCountOnce == Spec => []CountedOnce
<1>1. ASSUME OnceInv, NEW r \in Runs PROVE counted[r] <= 1
  <2>1. CountInv(r)
    BY <1>1 DEF OnceInv
  <2> QED
    BY <2>1 DEF CountInv
<1>2. OnceInv => CountedOnce
  BY <1>1 DEF CountedOnce
<1> QED
  BY <1>2, OnceInvariant, PTL

\* A completed row is opened again only by a request given up, or by a run that
\* has not completed it: a run past its completion sends completions only.
THEOREM OthersReopen == Spec => ReopenedByOthers
<1> DEFINE Reopened == record.completedAt /\ ~record'.completedAt =>
             strays' # strays \/ \E r \in Runs : call'[r] # call[r] /\ r \notin completedBy
<1>1. ASSUME OnceInv, Next, record.completedAt, ~record'.completedAt
      PROVE  strays' # strays \/ \E r \in Runs : call'[r] # call[r] /\ r \notin completedBy
  <2> USE <1>1 DEF OnceInv
  <2>1. ASSUME NEW r \in Runs, Answer(r)
        PROVE  call'[r] # call[r] /\ r \notin completedBy
    <3>1. call'[r] # call[r]
      BY <2>1 DEF Answer, SetCall, TypeOK
    <3>2. RequestOf(r).kind # "completion"
      BY <2>1 DEF Answer, Handle, ProgressCallback, MetadataCallback, HandleEvent,
         CompletionCallback, HandlePartly, CompletedRow, webVars
    <3>3. RequestOf(r).kind # "event"
      BY <2>1 DEF Answer, Handle, ProgressCallback, MetadataCallback, HandleEvent,
         CompletionCallback, HandlePartly, webVars
    <3>4. call[r] = "sent" /\ pc[r] \notin {"Completing", "Erring"}
      BY <2>1, <3>2, KindOf DEF Answer
    <3>5. pc[r] \notin Late
      BY <3>4 DEF OnceInv, NotWaiting, Late, Ended
    <3> QED
      BY <3>1, <3>5 DEF LateInv
  <2>2. CASE HandleStray
    BY <2>2 DEF HandleStray
  <2>3. CASE Crash \/ \E r \in Runs : Lose(r) \/ LoseAnswer(r) \/ GiveUpWaiting(r)
    BY <2>3 DEF Crash, Lose, LoseAnswer, GiveUpWaiting, webVars
  <2>4. CASE \E r \in Runs : BeginUpload(r) \/ Step(r)
    BY <2>4, StepLocal DEF webVars
  <2> QED
    BY <2>1, <2>2, <2>3, <2>4 DEF Next, Outcome
<1>2. OnceInv /\ [Next]_vars => [Reopened]_vars
  BY <1>1
<1> QED
  BY <1>2, OnceInvariant, PTL DEF Spec, ReopenedByOthers

=============================================================================
