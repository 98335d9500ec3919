---------------------------- MODULE JobCallbacks ----------------------------
(***************************************************************************)
(* The web application's side of a demo job: the four callback routes the  *)
(* parser service posts to (DemoParserController, DemoParserService).      *)
(* One DemoProcessingJob, already linked to its GameMatch by the ParseDemo *)
(* queue job, so match_id is never null here.                              *)
(*                                                                         *)
(* A request carries the run that sent it: one upload of the demo that the *)
(* parser service may turn into a processDemo goroutine.  The web          *)
(* application does not look at it; the properties do.                     *)
(***************************************************************************)
EXTENDS Integers

CONSTANTS
  Runs,         \* uploads of this job's demo to the parser service
  NumBatches,   \* event requests sendAllEvents issues, in order
  MaxAttempts   \* attempts of one event request (maxRetries + 1)

ASSUME NumBatchesAssumption == NumBatches \in Nat \ {0}
ASSUME MaxAttemptsAssumption == MaxAttempts \in Nat \ {0}

VARIABLES
  record,       \* the demo_processing_jobs row: status, progress, completed_at
  rows,         \* event batches inserted: <<run, batch, attempt>>
  roster,       \* the match_players rows: "none", "partial" or "full"
  counted,      \* counted[r]: how often r's metadata raised total_matches
  completedBy,  \* runs one of whose completion calls completed the row
  clanJobs      \* runs one of whose completion calls dispatched ProcessClanMatch

webVars == <<record, rows, roster, counted, completedBy, clanJobs>>

Batches  == 1..NumBatches
Attempts == 1..MaxAttempts

\* The statuses of types.go that processDemo assigns, and the initial Pending
\* of the web application's row.
Statuses == {"Pending", "Queued", "Validating", "Uploading", "Initializing",
             "Parsing", "ProcessingEvents", "SendingMetadata", "SendingEvents",
             "Finalizing", "Completed", "Failed", "ParseFailed",
             "CallbackFailed"}

-----------------------------------------------------------------------------
(* The requests.  numbered: total_steps and current_step_num are at least 1. *)

UpdateRequest(kind, r, job) ==
  [kind |-> kind, run |-> r, status |-> job.status,
   progress |-> job.progress, numbered |-> job.numbered]

ProgressRequest(r, job) == UpdateRequest("progress", r, job)
MetadataRequest(r, job) == UpdateRequest("metadata", r, job)

EventRequest(r, b, a) ==
  [kind |-> "event", run |-> r, batch |-> b, attempt |-> a]

CompletionRequest(r, status) ==
  [kind |-> "completion", run |-> r, status |-> status]

Request ==
  [kind : {"progress", "metadata"}, run : Runs, status : Statuses,
   progress : Nat, numbered : BOOLEAN]
    \cup [kind : {"event"}, run : Runs, batch : Batches, attempt : Attempts]
    \cup [kind : {"completion"}, run : Runs, status : {"Completed", "Failed"}]

-----------------------------------------------------------------------------
(* ProgressCallbackRequest::rules(): progress at most 100, total_steps and   *)
(* current_step_num at least 1.  A request that fails them is answered 422   *)
(* before the controller runs.                                               *)
Valid(m) ==
  m.kind \in {"progress", "metadata"} => m.numbered /\ m.progress <= 100

\* updateProcessingJob: the row after a progress callback, and after a
\* completion callback whatever status that carried.
Progressed(m) ==
  [status |-> m.status, progress |-> m.progress, completedAt |-> FALSE]
CompletedRow ==
  [status |-> "Completed", progress |-> 100, completedAt |-> TRUE]

ProgressCallback(m) ==
  /\ m.kind = "progress"
  /\ Valid(m)
  /\ record' = Progressed(m)
  /\ UNCHANGED <<rows, roster, counted, completedBy, clanJobs>>

\* updateProcessingJob, then createMatchWithPlayers: for every player of the
\* payload, total_matches is raised and a match_players row inserted, which
\* the table's unique key lets happen once per match.
MetadataCallback(m) ==
  /\ m.kind = "metadata"
  /\ Valid(m)
  /\ roster = "none"
  /\ record' = Progressed(m)
  /\ roster' = "full"
  /\ counted' = [counted EXCEPT ![m.run] = @ + 1]
  /\ UNCHANGED <<rows, completedBy, clanJobs>>

\* createMatchEvent: one database transaction that inserts the batch.
HandleEvent(m) ==
  /\ m.kind = "event"
  /\ rows' = rows \cup {<<m.run, m.batch, m.attempt>>}
  /\ UNCHANGED <<record, roster, counted, completedBy, clanJobs>>

\* updateProcessingJob(..., true): the row, the warmed cache and the clan job,
\* whose dispatch may fail: the exception is caught and the answer still 2xx.
CompletionCallback(m) ==
  /\ m.kind = "completion"
  /\ record' = CompletedRow
  /\ completedBy' = completedBy \cup {m.run}
  /\ clanJobs' \in {clanJobs, clanJobs \cup {m.run}}
  /\ UNCHANGED <<rows, roster, counted>>

\* The callback runs to its end and is answered 2xx.
Handle(m) ==
  \/ ProgressCallback(m)
  \/ MetadataCallback(m)
  \/ HandleEvent(m)
  \/ CompletionCallback(m)

\* An exception after the row was saved, answered 500.  For the metadata, in
\* createMatchWithPlayers before the players or among them (a second roster
\* always ends at the unique key); for the completion, in warmCacheForMatch.
HandlePartly(m) ==
  /\ Valid(m)
  /\ \/ /\ m.kind = "metadata"
        /\ record' = Progressed(m)
        /\ \/ UNCHANGED <<roster, counted>>
           \/ /\ counted' = [counted EXCEPT ![m.run] = @ + 1]
              /\ IF roster = "none" THEN roster' \in {"none", "partial"}
                                    ELSE UNCHANGED roster
        /\ UNCHANGED completedBy
     \/ /\ m.kind = "completion"
        /\ record' = CompletedRow
        /\ completedBy' = completedBy \cup {m.run}
        /\ UNCHANGED <<roster, counted>>
  /\ UNCHANGED <<rows, clanJobs>>

WebInit ==
  /\ record = [status |-> "Pending", progress |-> 0, completedAt |-> FALSE]
  /\ rows = {}
  /\ roster = "none"
  /\ counted = [r \in Runs |-> 0]
  /\ completedBy = {}
  /\ clanJobs = {}

WebTypeOK ==
  /\ record \in [status : Statuses, progress : Nat, completedAt : BOOLEAN]
  /\ rows \subseteq Runs \X Batches \X Attempts
  /\ roster \in {"none", "partial", "full"}
  /\ counted \in [Runs -> Nat]
  /\ completedBy \subseteq Runs
  /\ clanJobs \subseteq Runs
=============================================================================
