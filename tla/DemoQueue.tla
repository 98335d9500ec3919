----------------------------- MODULE DemoQueue -----------------------------
(***************************************************************************)
(* From an uploaded demo file to a job of the parser service: the ParseDemo *)
(* queue job, the workers that run it, and the usage counter in Redis that  *)
(* RateLimiterService keeps for them.                                       *)
(*                                                                          *)
(* The queue is Laravel's database queue: a popped job stays reserved until *)
(* its worker deletes or releases it; retry_after (90 s) later another      *)
(* worker may pop it although the first is still uploading, which takes up  *)
(* to 300 s.  A worker is killed at --timeout (300 s) without running the   *)
(* job's finally block.                                                     *)
(***************************************************************************)
EXTENDS Integers, FiniteSets

CONSTANTS
  Jobs,           \* ParseDemo queue jobs, one per file
  NoTask,         \* of a worker that runs none
  Known,          \* those of DownloadDemoJob, which made match and record
  Workers,        \* processes running queue:work --queue=high
  MaxConcurrent,  \* services.parser.max_concurrent_jobs
  Tries,          \* queue:work --tries
  MaxKills        \* bound on workers killed or restarted

ASSUME KnownAssumption == Known \subseteq Jobs
ASSUME WorkersAssumption == IsFiniteSet(Workers)
ASSUME NoTaskAssumption == NoTask \notin Jobs
ASSUME LimitAssumption == MaxConcurrent \in Nat \ {0}
ASSUME TriesAssumption == Tries \in Nat \ {0}
ASSUME KillsAssumption == MaxKills \in Nat

VARIABLES
  queue,        \* queue[q]: see QueueStates
  attempts,     \* attempts[q]: times job q was popped
  at,           \* at[w]: where in ParseDemo::handle worker w is
  task,         \* task[w]: the job it runs
  match,        \* match[w]: the match it works for
  next,         \* next[w]: what follows the decrement: "delete" or "release" of the
                \* row it popped, "nothing" once that is gone for good
  usage,        \* the counter rate_limit:parser_service
  matches,      \* game_matches rows <<job, n>>
  records,      \* demo_processing_jobs rows, by match
  taken,        \* records whose id the parser service has registered
  parses,       \* processDemo goroutines started: <<match, k>>
  stored,       \* matches whose metadata the callback has stored
  kills         \* kills so far

queueVars  == <<queue, attempts>>
workerVars == <<at, task, match, next>>
dbVars     == <<matches, records, stored>>
parserVars == <<taken, parses>>
vars == <<queueVars, workerVars, dbVars, parserVars, usage, kills>>

QueueStates == {"absent", "ready", "reserved", "overdue", "deleted", "failed"}
Places == {"idle", "counting", "checking", "matching", "recording", "health",
           "uploading", "decrementing", "writing", "leaving"}
Matches == Jobs \X (0..Tries)

\* Workers whose increment has not been taken back.
Holding == {"checking", "matching", "recording", "health", "uploading",
            "decrementing", "writing"}
Holders == {w \in Workers : at[w] \in Holding}

Goto(w, place) == at' = [at EXCEPT ![w] = place]

NoMatch == <<NoTask, 0>>

\* The worker's process, or its handle(), has ended.
Free(w) ==
  /\ Goto(w, "idle")
  /\ task' = [task EXCEPT ![w] = NoTask]
  /\ match' = [match EXCEPT ![w] = NoMatch]

\* The row of job q is deleted for a failed job or for a new row: whoever has
\* reserved it still, and is uploading, finds no row by its id.
Orphaned(q) == [v \in Workers |-> IF task[v] = q THEN "nothing" ELSE next[v]]

\* The parser service registers the id and starts a goroutine.
Accept(m) ==
  /\ taken' = taken \cup {m}
  /\ parses' = parses \cup {<<m, Cardinality({p \in parses : p[1] = m}) + 1>>}

-----------------------------------------------------------------------------
(* The queue.                                                                *)

\* UploadController::userDemo or DownloadDemoJob has stored the file.
userDemo(q) ==
  /\ queue[q] = "absent"
  /\ queue' = [queue EXCEPT ![q] = "ready"]
  /\ UNCHANGED <<attempts, workerVars, dbVars, parserVars, usage, kills>>

\* A job popped once too often is failed, otherwise handle() starts.
Pop(w, q) ==
  /\ at[w] = "idle"
  /\ queue[q] \in {"ready", "overdue"}
  /\ IF attempts[q] >= Tries
       THEN /\ queue' = [queue EXCEPT ![q] = "failed"]
            /\ next' = Orphaned(q)
            /\ UNCHANGED <<attempts, at, task, match>>
       ELSE /\ queue' = [queue EXCEPT ![q] = "reserved"]
            /\ attempts' = [attempts EXCEPT ![q] = @ + 1]
            /\ task' = [task EXCEPT ![w] = q]
            /\ Goto(w, "counting")
            /\ UNCHANGED <<match, next>>
  /\ UNCHANGED <<dbVars, parserVars, usage, kills>>

\* retry_after has passed; every other step of handle() takes no such time.
Overdue(q) ==
  /\ queue[q] = "reserved"
  /\ \A w \in Workers : task[w] = q => at[w] \in {"health", "uploading"}
  /\ queue' = [queue EXCEPT ![q] = "overdue"]
  /\ UNCHANGED <<attempts, workerVars, dbVars, parserVars, usage, kills>>

\* The worker is killed and started again by docker; the parser service may
\* have got the whole file already.
Kill(w) ==
  /\ at[w] # "idle" /\ kills < MaxKills
  /\ kills' = kills + 1
  /\ Free(w) /\ next' = [next EXCEPT ![w] = "delete"]
  /\ \/ UNCHANGED parserVars
     \/ at[w] = "uploading" /\ Accept(match[w])
  /\ UNCHANGED <<queueVars, dbVars, usage>>

-----------------------------------------------------------------------------
(* RateLimiterService.                                                       *)

incrementParserServiceUsage(w) ==
  /\ at[w] = "counting"
  /\ usage' = usage + 1
  /\ Goto(w, "checking")
  /\ UNCHANGED <<queueVars, task, match, next, dbVars, parserVars, kills>>

Leave(w, how) ==
  /\ Goto(w, "decrementing")
  /\ next' = [next EXCEPT ![w] = IF @ = "nothing" THEN @ ELSE how]

\* A wrong check: the limit itself is let through.
checkParserServiceLimitAt(w) ==
  /\ at[w] = "checking"
  /\ IF usage <= MaxConcurrent
       THEN Goto(w, "matching") /\ UNCHANGED next
       ELSE Leave(w, "release")
  /\ UNCHANGED <<queueVars, task, match, dbVars, parserVars, usage, kills>>

\* A wrong check: handle() waits for a place instead of releasing the job.
checkParserServiceLimitWaiting(w) ==
  /\ at[w] = "checking"
  /\ usage < MaxConcurrent
  /\ Goto(w, "matching")
  /\ UNCHANGED <<queueVars, task, match, next, dbVars, parserVars, usage, kills>>

\* The usage checked includes the worker's own increment.
checkParserServiceLimit(w) ==
  /\ at[w] = "checking"
  /\ IF usage < MaxConcurrent
       THEN Goto(w, "matching") /\ UNCHANGED next
       ELSE Leave(w, "release")
  /\ UNCHANGED <<queueVars, task, match, dbVars, parserVars, usage, kills>>

\* decrementParserServiceUsage: reads, and decrements if what it read was
\* positive.
readUsage(w) ==
  /\ at[w] = "decrementing"
  /\ Goto(w, IF usage > 0 THEN "writing" ELSE "leaving")
  /\ UNCHANGED <<queueVars, task, match, next, dbVars, parserVars, usage, kills>>

\* A wrong order: a job released for the limit is decremented again.
decrementTwice(w) ==
  /\ at[w] = "writing"
  /\ usage' = usage - (IF next[w] = "release" THEN 2 ELSE 1)
  /\ Goto(w, "leaving")
  /\ UNCHANGED <<queueVars, task, match, next, dbVars, parserVars, kills>>

decrementParserServiceUsage(w) ==
  /\ at[w] = "writing"
  /\ usage' = usage - 1
  /\ Goto(w, "leaving")
  /\ UNCHANGED <<queueVars, task, match, next, dbVars, parserVars, kills>>

\* The key expires 300 s after the last increment: by then the job of that
\* increment, and every earlier one, is over or was killed.
Expire ==
  /\ usage # 0 /\ Holders = {}
  /\ usage' = 0
  /\ UNCHANGED <<queueVars, workerVars, dbVars, parserVars, kills>>

-----------------------------------------------------------------------------
(* The rest of ParseDemo::handle.                                            *)

\* With a match id the match is looked up, without one it is created: once per
\* attempt, for the job does not keep the id.
findMatch(w) ==
  LET q == task[w]
      m == IF q \in Known THEN <<q, 0>> ELSE <<q, attempts[q]>>
  IN  /\ at[w] = "matching"
      /\ matches' = matches \cup {m}
      /\ match' = [match EXCEPT ![w] = m]
      /\ Goto(w, "recording")
      /\ UNCHANGED <<queueVars, task, next, records, stored, parserVars, usage, kills>>

\* A wrong findRecord: none is created.
findRecordOnly(w) ==
  /\ at[w] = "recording"
  /\ Goto(w, "health")
  /\ UNCHANGED <<queueVars, task, match, next, dbVars, parserVars, usage, kills>>

\* The match's DemoProcessingJob is found or created.
findRecord(w) ==
  /\ at[w] = "recording"
  /\ records' = records \cup {match[w]}
  /\ Goto(w, "health")
  /\ UNCHANGED <<queueVars, task, match, next, matches, stored, parserVars, usage, kills>>

\* The database throws, which rethrows after the finally block: the worker
\* releases the job, or fails it after the last attempt.
Throw(w) ==
  /\ at[w] \in {"matching", "recording"}
  /\ Leave(w, "release")
  /\ UNCHANGED <<queueVars, task, match, dbVars, parserVars, usage, kills>>

\* checkServiceHealth succeeds and the file is posted; the parser service looks
\* the id up before it has read the file.  A known id is answered 409.
startUpload(w) ==
  /\ at[w] = "health"
  /\ IF match[w] \in taken
       THEN Leave(w, "delete")
       ELSE Goto(w, "uploading") /\ UNCHANGED next
  /\ UNCHANGED <<queueVars, task, match, dbVars, parserVars, usage, kills>>

\* ParserServiceConnectorException, from the health check or the upload, is
\* reported and swallowed.
Swallow(w) ==
  /\ at[w] \in {"health", "uploading"}
  /\ Leave(w, "delete")
  /\ UNCHANGED <<queueVars, task, match, dbVars, parserVars, usage, kills>>

\* The parser service has saved the file and started a goroutine; whether the
\* answer arrives or not, the job is over.
endUpload(w) ==
  /\ at[w] = "uploading"
  /\ Accept(match[w])
  /\ Leave(w, "delete")
  /\ UNCHANGED <<queueVars, task, match, dbVars, usage, kills>>

\* handle() is left: the row the worker popped is deleted, or deleted and pushed
\* again as another with its attempts, whoever has reserved it meanwhile.
leave(w) ==
  /\ at[w] = "leaving"
  /\ Free(w)
  /\ \/ /\ next[w] = "delete" /\ queue' = [queue EXCEPT ![task[w]] = "deleted"]
        /\ UNCHANGED next
     \/ /\ next[w] = "release" /\ queue' = [queue EXCEPT ![task[w]] = "ready"]
        /\ next' = [Orphaned(task[w]) EXCEPT ![w] = "delete"]
     \/ /\ next[w] = "nothing" /\ UNCHANGED queue
        /\ next' = [next EXCEPT ![w] = "delete"]
  /\ UNCHANGED <<attempts, dbVars, parserVars, usage, kills>>

-----------------------------------------------------------------------------
(* The parser service and the metadata callback.                             *)

\* createMatchWithPlayers: handleDuplicateIfExists returns at once for a job
\* with a match, and ParseDemo gives every job one.
createMatchWithPlayers(p) ==
  /\ p \in parses
  /\ stored' = stored \cup {p[1]}
  /\ UNCHANGED <<queueVars, workerVars, matches, records, parserVars, usage, kills>>

-----------------------------------------------------------------------------
Init ==
  /\ queue = [q \in Jobs |-> "absent"]
  /\ attempts = [q \in Jobs |-> 0]
  /\ at = [w \in Workers |-> "idle"]
  /\ task = [w \in Workers |-> NoTask]
  /\ match = [w \in Workers |-> NoMatch]
  /\ next = [w \in Workers |-> "delete"]
  /\ usage = 0
  /\ matches = Known \X {0}
  /\ records = Known \X {0}
  /\ taken = {}
  /\ parses = {}
  /\ stored = {}
  /\ kills = 0

Step(w) ==
  \/ incrementParserServiceUsage(w) \/ checkParserServiceLimit(w)
  \/ readUsage(w) \/ decrementParserServiceUsage(w) \/ leave(w)
  \/ findMatch(w) \/ findRecord(w) \/ Throw(w)
  \/ startUpload(w) \/ endUpload(w) \/ Swallow(w)

Next ==
  \/ \E q \in Jobs : userDemo(q) \/ Overdue(q)
  \/ \E w \in Workers : \/ \E q \in Jobs : Pop(w, q)
                        \/ Step(w) \/ Kill(w)
  \/ \E p \in parses : createMatchWithPlayers(p)
  \/ Expire

Spec == Init /\ [][Next]_vars

\* Workers run, a free worker pops the jobs it can, retry_after passes.
Fairness ==
  /\ \A w \in Workers : WF_vars(Step(w))
  /\ \A q \in Jobs : SF_vars(\E w \in Workers : Pop(w, q)) /\ WF_vars(Overdue(q))

FairSpec == Spec /\ Fairness

-----------------------------------------------------------------------------
TypeOK ==
  /\ queue \in [Jobs -> QueueStates]
  /\ attempts \in [Jobs -> 0..Tries]
  /\ at \in [Workers -> Places]
  /\ task \in [Workers -> Jobs \cup {NoTask}]
  /\ match \in [Workers -> Matches \cup {NoMatch}]
  /\ next \in [Workers -> {"delete", "release", "nothing"}]
  /\ usage \in Int
  /\ records \subseteq matches /\ matches \subseteq Matches
  /\ taken \subseteq Matches
  /\ stored \subseteq Matches
  /\ kills \in 0..MaxKills

-----------------------------------------------------------------------------
(* Safety.                                                                   *)

\* The counter never falls below the workers that hold a place, whatever is
\* killed, expires or decrements from a value read earlier: a place is only
\* ever lost, never given away twice.
UsageCoversHolders == usage >= Cardinality(Holders)

\* The limit is kept, and is one less than its name says: MaxConcurrent - 1
\* workers at most are past the check.
PastCheck == {w \in Workers : at[w] \in {"matching", "recording", "health", "uploading"}}
UploadsBounded == Cardinality(PastCheck) <= MaxConcurrent - 1

\* Whoever the parser service works for has a row the callbacks will find, and
\* a match to hold its events.
ParsesAreRecorded ==
  /\ taken \subseteq records
  /\ {p[1] : p \in parses} \subseteq records
  /\ stored \subseteq taken

\* A queue job is attempted at most Tries times, so it is deleted or failed in
\* the end, also when workers die, the limit is reached or the database throws.
EveryJobSettles == \A q \in Jobs : queue[q] = "ready" ~> queue[q] \in {"deleted", "failed"}

-----------------------------------------------------------------------------
(* What documents and comments say and the code does not do.                 *)

\* services.php:79, "'max_concurrent' => 3": a job is put back for the limit
\* only when that many others hold a place.
RefusedWhenFull ==
  [][\A w \in Workers : at[w] = "checking" /\ at'[w] = "decrementing" =>
       Cardinality(Holders \ {w}) >= MaxConcurrent]_vars

\* DemoParserService.php:268: "Check for duplicate matches and cancel the job
\* if a duplicate is found": no two matches of one file end up stored.
DuplicatesCancelled == \A m, n \in stored : m[1] = n[1] => m = n

\* parse_demo.go:93, "Job already exists": a job that is uploaded again is not
\* parsed again.  The id is only registered once its file has arrived.
OneParsePerMatch == \A p \in parses : p[2] = 1
=============================================================================
