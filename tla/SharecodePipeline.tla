------------------------- MODULE SharecodePipeline -------------------------
(***************************************************************************)
(* The automatic import of matchmaking demos: ValveDemoRetrieval dispatches *)
(* one ProcessUserSharecodesJob per eligible user, which walks the user's   *)
(* chain of sharecodes at the Steam API and dispatches a DownloadDemoJob    *)
(* for each new one; that job stores the demo in a file named after the     *)
(* sharecode, makes the match and its record, and dispatches ParseDemo.     *)
(*                                                                          *)
(* One worker runs the steam-processing queue and one demo-download, as in  *)
(* docker-compose.yml.  Users edit their sharecode at any time.             *)
(***************************************************************************)
EXTENDS Integers, Sequences, FiniteSets

CONSTANTS
  Users,
  Codes,        \* sharecodes; players of one match share its code
  Chain,        \* Chain[u]: the matches Steam knows of u, oldest first
  Editors,      \* users who touch their sharecode after the first time
  MaxPerJob,    \* services.steam.max_sharecodes_per_job
  Tries,        \* queue:work --tries
  MaxQueued,    \* bound on ProcessUserSharecodesJobs of one user
  MaxEdits,     \* bound on what users do to their sharecode
  MaxKills      \* bound on workers killed or restarted

ASSUME ChainAssumption == Chain \in [Users -> Seq(Codes)]
ASSUME EditorsAssumption == Editors \subseteq Users
ASSUME PerJobAssumption == MaxPerJob \in Nat \ {0}
ASSUME TriesAssumption == Tries \in Nat \ {0}
ASSUME BoundsAssumption == {MaxQueued, MaxEdits, MaxKills} \subseteq Nat

Null == -1

VARIABLES
  code,         \* code[u]: users.steam_sharecode, a position in Chain[u]
  auth,         \* auth[u]: users.steam_game_auth_code is set
  enabled,      \* enabled[u]: users.steam_match_processing_enabled
  due,          \* due[u]: steam_last_processed_at is over 15 minutes ago
  queued,       \* queued[u]: ProcessUserSharecodesJobs of u not yet over
  walker,       \* the steam-processing worker: user, current, count, stage
  downloads,    \* the demo-download queue: code and tries of each job
  loader,       \* the demo-download worker: code, tries and stage
  requested,    \* codes a DownloadDemoJob was ever dispatched for
  file,         \* file[c]: "none", "partial" or "whole"
  matches,      \* sharecodes of game_matches rows, a unique column
  records,      \* those with a demo_processing_jobs row
  parse,        \* parse[c]: ParseDemo jobs: dispatched; good, bad: file read
  edits, kills

userVars == <<code, auth, enabled>>
jobVars  == <<queued, due, walker>>
loadVars == <<loader, file, matches, records, parse>>
vars == <<userVars, jobVars, downloads, requested, loadVars, edits, kills>>

Idle == [user |-> "none", current |-> 0, count |-> 0, stage |-> "idle"]
NoLoad == [code |-> "none", tries |-> 0, stage |-> "idle"]

NextCode == Chain[walker.user][walker.current + 1]

-----------------------------------------------------------------------------
(* SteamSharecodeController.                                                 *)

Edit == edits < MaxEdits /\ edits' = edits + 1

store(u) ==
  /\ Edit
  /\ \E i \in 0..Len(Chain[u]) : code' = [code EXCEPT ![u] = i]
  /\ auth' = [auth EXCEPT ![u] = TRUE]
  /\ UNCHANGED <<enabled, jobVars, downloads, requested, loadVars, kills>>

destroy(u) ==
  /\ Edit
  /\ code[u] # Null
  /\ code' = [code EXCEPT ![u] = Null]
  /\ auth' = [auth EXCEPT ![u] = FALSE]
  /\ enabled' = [enabled EXCEPT ![u] = FALSE]
  /\ UNCHANGED <<jobVars, downloads, requested, loadVars, kills>>

toggleProcessing(u) ==
  /\ Edit
  /\ code[u] # Null /\ auth[u]
  /\ enabled' = [enabled EXCEPT ![u] = ~@]
  /\ UNCHANGED <<code, auth, jobVars, downloads, requested, loadVars, kills>>

-----------------------------------------------------------------------------
(* ValveDemoRetrieval.                                                       *)

Eligible(u) == code[u] # Null /\ auth[u] /\ enabled[u] /\ due[u]

Retrieve ==
  /\ \E u \in Users : Eligible(u)
  /\ \A u \in Users : Eligible(u) => queued[u] < MaxQueued
  /\ queued' = [u \in Users |-> queued[u] + (IF Eligible(u) THEN 1 ELSE 0)]
  /\ UNCHANGED <<userVars, due, walker, downloads, requested, loadVars, edits, kills>>

QuarterHour(u) ==
  /\ ~due[u]
  /\ due' = [due EXCEPT ![u] = TRUE]
  /\ UNCHANGED <<userVars, queued, walker, downloads, requested, loadVars, edits, kills>>

-----------------------------------------------------------------------------
(* ProcessUserSharecodesJob::handle.                                         *)

\* The user is loaded once; without a sharecode or auth code the call to the
\* Steam API throws, and so do the retries.
StartProcess(u) ==
  /\ walker = Idle /\ queued[u] > 0
  /\ IF code[u] # Null /\ auth[u]
       THEN /\ walker' = [user |-> u, current |-> code[u], count |-> 0, stage |-> "ask"]
            /\ UNCHANGED queued
       ELSE queued' = [queued EXCEPT ![u] = @ - 1] /\ UNCHANGED walker
  /\ UNCHANGED <<userVars, due, downloads, requested, loadVars, edits, kills>>

\* A wrong loop: the code of an existing match is not stepped over.
getNextMatchSharingCodeAgain ==
  /\ walker.stage = "ask" /\ walker.count < MaxPerJob
  /\ walker.current < Len(Chain[walker.user])
  /\ walker' = [walker EXCEPT !.stage = IF NextCode \in matches THEN "ask" ELSE "dispatch"]
  /\ UNCHANGED <<userVars, queued, due, downloads, requested, loadVars, edits, kills>>

\* getNextMatchSharingCode, and whether its match is there already.
getNextMatchSharingCode ==
  /\ walker.stage = "ask" /\ walker.count < MaxPerJob
  /\ walker.current < Len(Chain[walker.user])
  /\ walker' = [walker EXCEPT !.stage = IF NextCode \in matches THEN "skip" ELSE "dispatch"]
  /\ UNCHANGED <<userVars, queued, due, downloads, requested, loadVars, edits, kills>>

\* A wrong order: the user's sharecode is saved before the dispatch.
DispatchSaving ==
  /\ walker.stage = "dispatch"
  /\ \/ /\ code' = [code EXCEPT ![walker.user] = walker.current + 1]
        /\ UNCHANGED <<walker, downloads, requested>>
     \/ /\ code[walker.user] = walker.current + 1
        /\ walker' = [walker EXCEPT !.stage = "save", !.count = @ + 1]
        /\ downloads' = Append(downloads, [code |-> NextCode, tries |-> 1])
        /\ requested' = requested \cup {NextCode}
        /\ UNCHANGED code
  /\ UNCHANGED <<auth, enabled, queued, due, loadVars, edits, kills>>

DispatchDownload ==
  /\ walker.stage = "dispatch"
  /\ walker' = [walker EXCEPT !.stage = "save", !.count = @ + 1]
  /\ downloads' = Append(downloads, [code |-> NextCode, tries |-> 1])
  /\ requested' = requested \cup {NextCode}
  /\ UNCHANGED <<userVars, queued, due, loadVars, edits, kills>>

\* The row's sharecode is overwritten, whatever it is by now.
updateUserSharecode ==
  /\ walker.stage \in {"save", "skip"}
  /\ walker' = [walker EXCEPT !.stage = "ask", !.current = @ + 1]
  /\ code' = [code EXCEPT ![walker.user] = walker.current + 1]
  /\ UNCHANGED <<auth, enabled, queued, due, downloads, requested, loadVars, edits, kills>>

\* The limit is reached, there is no next code, or Steam does not answer.
EndProcess ==
  /\ walker.stage = "ask"
  /\ queued' = [queued EXCEPT ![walker.user] = @ - 1]
  /\ due' = [due EXCEPT ![walker.user] = FALSE]
  /\ walker' = Idle
  /\ UNCHANGED <<userVars, downloads, requested, loadVars, edits, kills>>

\* The worker is killed; the job is still in the queue and starts again (kills
\* are too few to use its tries up).
KillWalker ==
  /\ walker # Idle /\ kills < MaxKills
  /\ kills' = kills + 1
  /\ walker' = Idle
  /\ UNCHANGED <<userVars, queued, due, downloads, requested, loadVars, edits>>

-----------------------------------------------------------------------------
(* DownloadDemoJob::handle.                                                  *)

LoaderTo(stage) == loader' = [loader EXCEPT !.stage = stage]
NothingElse == UNCHANGED <<userVars, jobVars, requested, edits, kills>>

StartDownload ==
  /\ loader = NoLoad /\ downloads # <<>>
  /\ LET job == Head(downloads)
     IN  loader' = [code |-> job.code, tries |-> job.tries, stage |-> "fetch"]
  /\ downloads' = Tail(downloads)
  /\ UNCHANGED <<file, matches, records, parse>> /\ NothingElse

\* fetchDemoUrl, twice, with retries of its own; without a URL handle returns.
fetchDemoUrl ==
  /\ loader.stage = "fetch"
  /\ LoaderTo("download") \/ loader' = NoLoad
  /\ UNCHANGED <<downloads, file, matches, records, parse>> /\ NothingElse

\* downloadDemo writes to the sharecode's file ...
OpenFile ==
  /\ loader.stage = "download"
  /\ file' = [file EXCEPT ![loader.code] = "partial"]
  /\ LoaderTo("writing")
  /\ UNCHANGED <<downloads, matches, records, parse>> /\ NothingElse

\* ... and removes it when anything fails.
downloadDemo ==
  /\ loader.stage = "writing"
  /\ \/ file' = [file EXCEPT ![loader.code] = "whole"] /\ LoaderTo("match")
     \/ file' = [file EXCEPT ![loader.code] = "none"] /\ loader' = NoLoad
  /\ UNCHANGED <<downloads, matches, records, parse>> /\ NothingElse

\* An exception: the job goes back to the queue, or fails.
Again ==
  /\ loader' = NoLoad
  /\ downloads' = IF loader.tries < Tries
                    THEN Append(downloads, [code |-> loader.code, tries |-> loader.tries + 1])
                    ELSE downloads

\* A wrong createMatch: an existing match is taken.
createMatchOrTake ==
  /\ loader.stage = "match"
  /\ matches' = matches \cup {loader.code} /\ LoaderTo("record")
  /\ UNCHANGED <<downloads, file, records, parse>> /\ NothingElse

\* GameMatch::create; a second match with the sharecode is refused.
createMatch ==
  /\ loader.stage = "match"
  /\ IF loader.code \in matches
       THEN Again /\ UNCHANGED matches
       ELSE /\ matches' = matches \cup {loader.code}
            /\ LoaderTo("record")
            /\ UNCHANGED downloads
  /\ UNCHANGED <<file, records, parse>> /\ NothingElse

createRecord ==
  /\ loader.stage = "record"
  /\ records' = records \cup {loader.code}
  /\ LoaderTo("parse")
  /\ UNCHANGED <<downloads, file, matches, parse>> /\ NothingElse

DispatchParse ==
  /\ loader.stage = "parse"
  /\ parse' = [parse EXCEPT ![loader.code].dispatched = @ + 1]
  /\ loader' = NoLoad
  /\ UNCHANGED <<downloads, file, matches, records>> /\ NothingElse

KillLoader ==
  /\ loader # NoLoad /\ kills < MaxKills
  /\ kills' = kills + 1
  /\ Again
  /\ UNCHANGED <<userVars, jobVars, requested, file, matches, records, parse, edits>>

\* ParseDemo reads the file; the rest is in module DemoQueue.
ReadFile(c) ==
  /\ parse[c].good + parse[c].bad < parse[c].dispatched
  /\ parse' = IF file[c] = "whole" THEN [parse EXCEPT ![c].good = @ + 1]
                                   ELSE [parse EXCEPT ![c].bad = @ + 1]
  /\ UNCHANGED <<downloads, loader, file, matches, records>> /\ NothingElse

-----------------------------------------------------------------------------
Init ==
  /\ code = [u \in Users |-> 0]
  /\ auth = [u \in Users |-> TRUE]
  /\ enabled = [u \in Users |-> TRUE]
  /\ due = [u \in Users |-> TRUE]
  /\ queued = [u \in Users |-> 0]
  /\ walker = Idle
  /\ downloads = <<>>
  /\ loader = NoLoad
  /\ requested = {}
  /\ file = [c \in Codes |-> "none"]
  /\ matches = {}
  /\ records = {}
  /\ parse = [c \in Codes |-> [dispatched |-> 0, good |-> 0, bad |-> 0]]
  /\ edits = 0
  /\ kills = 0

Walk == getNextMatchSharingCode \/ DispatchDownload \/ updateUserSharecode
Load == StartDownload \/ fetchDemoUrl \/ OpenFile \/ downloadDemo
          \/ createMatch \/ createRecord \/ DispatchParse

Next ==
  \/ \E u \in Editors : store(u) \/ destroy(u) \/ toggleProcessing(u)
  \/ \E u \in Users : QuarterHour(u) \/ StartProcess(u)
  \/ Retrieve \/ Walk \/ EndProcess \/ KillWalker
  \/ Load \/ KillLoader
  \/ \E c \in Codes : ReadFile(c)

Spec == Init /\ [][Next]_vars

\* The schedule and the workers run, and Steam answers now and then.
Fairness ==
  /\ WF_vars(Retrieve)
  /\ \A u \in Users : WF_vars(QuarterHour(u)) /\ SF_vars(StartProcess(u))
  /\ SF_vars(getNextMatchSharingCode)
  /\ WF_vars(DispatchDownload) /\ WF_vars(updateUserSharecode) /\ WF_vars(EndProcess)

FairSpec == Spec /\ Fairness

-----------------------------------------------------------------------------
Stages == {"idle", "ask", "skip", "dispatch", "save"}
LoadStages == {"idle", "fetch", "download", "writing", "match", "record", "parse"}

TypeOK ==
  /\ code \in [Users -> Nat \cup {Null}]
  /\ \A u \in Users : code[u] <= Len(Chain[u])
  /\ {auth, enabled, due} \subseteq [Users -> BOOLEAN]
  /\ queued \in [Users -> 0..MaxQueued]
  /\ walker.stage \in Stages /\ walker.count \in 0..MaxPerJob
  /\ \A i \in DOMAIN downloads : downloads[i].code \in Codes /\ downloads[i].tries \in 1..Tries
  /\ loader.stage \in LoadStages
  /\ file \in [Codes -> {"none", "partial", "whole"}]
  /\ requested \cup matches \cup records \subseteq Codes

-----------------------------------------------------------------------------
(* Safety.                                                                   *)

\* No gap: whatever the limit per job, kills and codes shared with others, each
\* code a user's sharecode has passed was requested, or its match was there.
\* (Of users who do not set their sharecode themselves.)
NoCodeSkipped ==
  \A u \in Users \ Editors : \A i \in 1..code[u] :
    Chain[u][i] \in requested \cup matches

\* However often a code is requested, by several users or after a kill, its
\* demo is parsed at most once, and for a match with a record.
ParsedOnce ==
  \A c \in Codes : parse[c].dispatched <= 1
    /\ (parse[c].dispatched = 1 => c \in matches \cap records)

\* As long as the user leaves it alone and Steam answers, the sharecode reaches
\* the user's latest match, also past matches others brought in.
CatchesUp == \A u \in Users \ Editors : <>(code[u] = Len(Chain[u]))

-----------------------------------------------------------------------------
(* What messages and documents say and the code does not do.                 *)

\* SteamSharecodeController.php:86, "Steam sharecode removed successfully": a
\* removed sharecode is not set again by a job.
RemovedStaysRemoved ==
  [][\A u \in Users : code[u] = Null /\ code'[u] # Null => edits' # edits]_vars

\* DemoDownloadService.php:38, "Demo not available yet": a requested code has
\* its match in the end, so its job is there until it has.
RequestedIsImported ==
  \A c \in requested : c \in matches
    \/ loader.code = c
    \/ \E i \in DOMAIN downloads : downloads[i].code = c

\* DownloadDemoJob.php:62, "Demo download completed and queued for parsing":
\* the demo queued is the one that was downloaded, whole.
ReadWhole == \A c \in Codes : parse[c].bad = 0
=============================================================================
