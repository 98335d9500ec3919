---------------------- MODULE SharecodePipeline_proofs ----------------------
(***************************************************************************)
(* Proofs about SharecodePipeline, for any users, chains and limits and    *)
(* any number of kills and edits.                                          *)
(*                                                                         *)
(* The walk along a chain and the import of a code share only the set of   *)
(* matches, which grows, so each has an invariant of its own.              *)
(***************************************************************************)
EXTENDS SharecodePipeline, TLAPS

-----------------------------------------------------------------------------
(* ProcessUserSharecodesJob.                                               *)

\* The first n codes of u's chain were requested, or their matches were there.
Covered(u, n) == \A i \in 1..n : Chain[u][i] \in requested \cup matches

\* What is true of the user's sharecode is true of the job's position too, and
\* of the code after it before the job steps over that one.
Walking ==
  /\ walker.user \in Users
  /\ walker.user \notin Editors => Covered(walker.user, walker.current)
  /\ walker.stage = "dispatch" => NextCode \in Codes
  /\ walker.stage \in {"skip", "save"} => NextCode \in requested \cup matches

WalkTypes ==
  /\ code \in [Users -> Nat \cup {Null}]
  /\ walker \in [user : Users \cup {"none"}, current : Nat, count : Int, stage : Stages]
WalkInv ==
  /\ WalkTypes
  /\ \A u \in Users \ Editors : Covered(u, code[u])
  /\ walker.stage = "idle" \/ Walking

LEMMA InitWalk == Init => WalkInv
BY DEF Init, Idle, Stages, WalkInv, WalkTypes, Covered, Null

\* Whatever the download jobs do, what is covered stays so.
LEMMA WalkStays ==
  ASSUME WalkInv, UNCHANGED <<code, walker>>, requested \subseteq requested',
         matches \subseteq matches'
  PROVE  WalkInv'
BY DEF WalkInv, WalkTypes, Walking, Covered, NextCode

LEMMA NextWalk == WalkInv /\ [Next]_vars => WalkInv'
<1> SUFFICES ASSUME WalkInv, [Next]_vars PROVE WalkInv'
  OBVIOUS
<1> USE DEF userVars, jobVars, loadVars
<1>1. CASE UNCHANGED vars
  BY <1>1, WalkStays DEF vars
<1>2. ASSUME NEW u \in Editors, store(u) \/ destroy(u) \/ toggleProcessing(u)
      PROVE  WalkInv'
  <2>1. code' \in [Users -> Nat \cup {Null}] /\ \A v \in Users \ Editors : code'[v] = code[v]
    BY <1>2 DEF WalkInv, WalkTypes, store, destroy, toggleProcessing, Null
  <2>2. UNCHANGED <<walker, requested, matches>>
    BY <1>2 DEF store, destroy, toggleProcessing
  <2> QED
    BY <2>1, <2>2 DEF WalkInv, WalkTypes, Walking, Covered, NextCode
<1>3. ASSUME NEW u \in Users, StartProcess(u) PROVE WalkInv'
  <2>1. UNCHANGED <<code, requested, matches>>
    BY <1>3 DEF StartProcess
  <2>2. CASE UNCHANGED walker
    BY <2>1, <2>2, WalkStays
  <2>3. CASE walker' = [user |-> u, current |-> code[u], count |-> 0, stage |-> "ask"]
    BY <1>3, <2>1, <2>3 DEF StartProcess, WalkInv, WalkTypes, Walking, Covered, NextCode, Stages
  <2> QED
    BY <1>3, <2>2, <2>3 DEF StartProcess
<1>4. CASE getNextMatchSharingCode
  <2>1. UNCHANGED <<code, requested, matches>> /\ walker.stage = "ask"
    BY <1>4 DEF getNextMatchSharingCode
  <2>2. walker' = [walker EXCEPT !.stage = IF NextCode \in matches THEN "skip" ELSE "dispatch"]
    BY <1>4 DEF getNextMatchSharingCode
  <2>3. NextCode \in Codes
    <3>1. walker.user \in Users /\ walker.current \in Nat
      BY <2>1 DEF WalkInv, WalkTypes, Walking
    <3>2. Chain[walker.user] \in Seq(Codes) /\ walker.current < Len(Chain[walker.user])
      BY <1>4, <3>1, ChainAssumption DEF getNextMatchSharingCode
    <3> QED
      BY <3>1, <3>2 DEF NextCode
  <2> QED
    BY <2>1, <2>2, <2>3 DEF WalkInv, WalkTypes, Walking, Covered, NextCode, Stages
<1>5. CASE DispatchDownload
  <2>1. /\ walker.stage = "dispatch"
        /\ walker' = [walker EXCEPT !.stage = "save", !.count = @ + 1]
        /\ requested' = requested \cup {NextCode}
        /\ UNCHANGED <<code, matches>>
    BY <1>5 DEF DispatchDownload
  <2>2. WalkTypes
    BY DEF WalkInv
  <2>3. /\ walker' \in [user : Users \cup {"none"}, current : Nat, count : Int, stage : Stages]
        /\ walker'.user = walker.user /\ walker'.current = walker.current
    <3>1. walker.count + 1 \in Int /\ "save" \in Stages
      BY <2>2 DEF WalkTypes, Stages
    <3> QED
      BY <2>1, <2>2, <3>1 DEF WalkTypes
  <2>4. WalkTypes'
    BY <2>1, <2>2, <2>3 DEF WalkTypes
  <2>5. Walking
    BY <2>1 DEF WalkInv
  <2>6. NextCode' = NextCode /\ NextCode \in requested'
    BY <2>1, <2>3 DEF NextCode
  <2>7. Walking'
    BY <2>1, <2>3, <2>5, <2>6 DEF Walking, Covered
  <2>8. \A u \in Users \ Editors : Covered(u, code[u])'
    BY <2>1 DEF WalkInv, Covered
  <2> QED
    BY <2>4, <2>7, <2>8 DEF WalkInv
<1>6. CASE updateUserSharecode
  <2>1. /\ walker.stage \in {"save", "skip"}
        /\ walker' = [walker EXCEPT !.stage = "ask", !.current = @ + 1]
        /\ code' = [code EXCEPT ![walker.user] = walker.current + 1]
        /\ UNCHANGED <<requested, matches>>
    BY <1>6 DEF updateUserSharecode
  <2>2. WalkTypes' /\ walker'.user = walker.user /\ walker'.current = walker.current + 1
    <3>1. walker.current + 1 \in Nat /\ "ask" \in Stages
      BY DEF WalkInv, WalkTypes, Stages
    <3>2. code' \in [Users -> Nat \cup {Null}]
      BY <2>1, <3>1 DEF WalkInv, WalkTypes
    <3>3. /\ walker' \in [user : Users \cup {"none"}, current : Nat, count : Int, stage : Stages]
          /\ walker'.user = walker.user /\ walker'.current = walker.current + 1
      BY <2>1, <3>1 DEF WalkInv, WalkTypes
    <3> QED
      BY <3>2, <3>3 DEF WalkTypes
  <2>3. Walking
    BY <2>1 DEF WalkInv
  <2>4. walker.user \notin Editors => Covered(walker.user, walker.current + 1)
    <3> SUFFICES ASSUME walker.user \notin Editors, NEW i \in 1..(walker.current + 1)
                 PROVE  Chain[walker.user][i] \in requested \cup matches
      BY DEF Covered
    <3>1. walker.current \in Int
      BY DEF WalkInv, WalkTypes
    <3>2. CASE i \in 1..walker.current
      BY <2>3, <3>2 DEF Walking, Covered
    <3>3. CASE i = walker.current + 1
      BY <2>1, <2>3, <3>3 DEF Walking, NextCode
    <3> QED
      BY <3>1, <3>2, <3>3
  <2>5. \A u \in Users \ Editors : Covered(u, code[u])'
    <3> SUFFICES ASSUME NEW u \in Users \ Editors PROVE Covered(u, code[u])'
      OBVIOUS
    <3>1. CASE u = walker.user
      BY <2>1, <2>4, <3>1 DEF WalkInv, WalkTypes, Covered
    <3>2. CASE u # walker.user
      BY <2>1, <3>2 DEF WalkInv, WalkTypes, Covered
    <3> QED
      BY <3>1, <3>2
  <2>6. Walking'
    BY <2>1, <2>2, <2>3, <2>4 DEF Walking, Covered, WalkTypes
  <2> QED
    BY <2>2, <2>5, <2>6 DEF WalkInv
<1>7. CASE EndProcess \/ KillWalker
  <2>1. UNCHANGED <<code, requested, matches>> /\ walker' = Idle
    BY <1>7 DEF EndProcess, KillWalker
  <2> QED
    BY <2>1 DEF WalkInv, WalkTypes, Covered, Idle, Stages
<1>8. CASE Retrieve \/ \E u \in Users : QuarterHour(u)
  BY <1>8, WalkStays DEF Retrieve, QuarterHour
<1>9. CASE Load \/ KillLoader \/ \E c \in Codes : ReadFile(c)
  BY <1>9, WalkStays DEF Load, StartDownload, fetchDemoUrl, OpenFile, downloadDemo,
     createMatch, createRecord, DispatchParse, KillLoader, ReadFile, NothingElse
<1> QED
  BY <1>1, <1>2, <1>3, <1>4, <1>5, <1>6, <1>7, <1>8, <1>9 DEF Next, Walk

\* The order in ProcessUserSharecodesJob, dispatch first and the user's row
\* after: whatever the limit per job and whenever a worker is killed, no code of
\* a chain is stepped over.
THEOREM ChainWithoutGaps == Spec => []NoCodeSkipped
<1>1. WalkInv => NoCodeSkipped
  BY DEF WalkInv, NoCodeSkipped, Covered
<1> QED
  BY <1>1, InitWalk, NextWalk, PTL DEF Spec

-----------------------------------------------------------------------------
(* DownloadDemoJob.                                                        *)

Counts == [dispatched : Nat, good : Nat, bad : Nat]
LoadTypes ==
  /\ downloads \in Seq([code : Codes, tries : Int])
  /\ loader \in [code : Codes \cup {"none"}, tries : Int, stage : LoadStages]
  /\ loader = NoLoad \/ loader.code \in Codes
  /\ parse \in [Codes -> Counts]

\* A match is made before its demo is parsed; a job past making it is the one
\* that made it, so nobody has dispatched the parse yet.
LoadInv ==
  /\ LoadTypes
  /\ \A c \in Codes : parse[c].dispatched <= 1
       /\ (parse[c].dispatched # 0 => c \in matches \cap records)
  /\ loader.stage \in {"record", "parse"} =>
       loader.code \in matches /\ parse[loader.code].dispatched = 0
  /\ loader.stage = "parse" => loader.code \in records

LEMMA InitLoad == Init => LoadInv
<1> SUFFICES ASSUME Init PROVE LoadInv
  OBVIOUS
<1>1. parse \in [Codes -> Counts] /\ \A c \in Codes : parse[c].dispatched = 0
  BY DEF Init, Counts
<1>2. downloads \in Seq([code : Codes, tries : Int])
  BY DEF Init
<1> QED
  BY <1>1, <1>2 DEF Init, NoLoad, LoadStages, LoadInv, LoadTypes

\* Nothing but the download jobs and the reading of files touches these; the
\* queue gets codes.
LEMMA LoadStays ==
  ASSUME LoadInv, UNCHANGED loadVars, downloads' \in Seq([code : Codes, tries : Int])
  PROVE  LoadInv'
BY DEF loadVars, LoadInv, LoadTypes

\* A job that is over, or goes back to the queue.
LEMMA LoadEnds ==
  ASSUME LoadInv, loader' = NoLoad, UNCHANGED <<matches, records, parse>>,
         downloads' \in Seq([code : Codes, tries : Int])
  PROVE  LoadInv'
BY DEF NoLoad, LoadInv, LoadTypes, LoadStages

LEMMA AgainTypes ==
  ASSUME LoadInv, loader # NoLoad, Again
  PROVE  loader' = NoLoad /\ downloads' \in Seq([code : Codes, tries : Int])
<1>1. [code |-> loader.code, tries |-> loader.tries + 1] \in [code : Codes, tries : Int]
  BY DEF LoadInv, LoadTypes
<1>2. downloads \in Seq([code : Codes, tries : Int])
  BY DEF LoadInv, LoadTypes
<1>3. \A Job, job : job \in Job /\ downloads \in Seq(Job) => Append(downloads, job) \in Seq(Job)
  OBVIOUS
<1> QED
  BY <1>1, <1>2, <1>3, Zenon DEF Again

LEMMA NextLoad == WalkInv /\ LoadInv /\ [Next]_vars => LoadInv'
<1> SUFFICES ASSUME WalkInv, LoadInv, [Next]_vars PROVE LoadInv'
  OBVIOUS
<1> USE DEF userVars, jobVars
<1> DEFINE Queue == Seq([code : Codes, tries : Int])
<1>q. downloads \in Queue /\ loader.code \in Codes \cup {"none"}
  BY DEF LoadInv, LoadTypes
<1>1. CASE UNCHANGED vars
  BY <1>1, <1>q, LoadStays DEF vars
<1>2. CASE \/ \E u \in Editors : store(u) \/ destroy(u) \/ toggleProcessing(u)
           \/ \E u \in Users : QuarterHour(u) \/ StartProcess(u)
           \/ Retrieve \/ getNextMatchSharingCode \/ updateUserSharecode
           \/ EndProcess \/ KillWalker
  <2>1. UNCHANGED loadVars /\ UNCHANGED downloads
    BY <1>2 DEF store, destroy, toggleProcessing, QuarterHour, StartProcess, Retrieve,
       getNextMatchSharingCode, updateUserSharecode, EndProcess, KillWalker
  <2> QED
    BY <1>q, <2>1, LoadStays
<1>3. CASE DispatchDownload
  <2>1. /\ UNCHANGED loadVars
        /\ downloads' = Append(downloads, [code |-> NextCode, tries |-> 1])
    BY <1>3 DEF DispatchDownload
  <2>2. [code |-> NextCode, tries |-> 1] \in [code : Codes, tries : Int]
    BY <1>3 DEF DispatchDownload, WalkInv, Walking
  <2>3. downloads' \in Queue
    BY <1>q, <2>1, <2>2
  <2> QED
    BY <2>1, <2>3, LoadStays
<1>4. CASE StartDownload
  <2>1. /\ downloads # <<>> /\ downloads' = Tail(downloads)
        /\ loader' = [code |-> Head(downloads).code, tries |-> Head(downloads).tries,
                      stage |-> "fetch"]
        /\ UNCHANGED <<matches, records, parse>>
    BY <1>4 DEF StartDownload
  <2>2. downloads' \in Queue /\ Head(downloads) \in [code : Codes, tries : Int]
    <3>1. \A Job, jobs : jobs \in Seq(Job) /\ jobs # <<>> =>
            Tail(jobs) \in Seq(Job) /\ Head(jobs) \in Job
      OBVIOUS
    <3>2. /\ Tail(downloads) \in Seq([code : Codes, tries : Int])
          /\ Head(downloads) \in [code : Codes, tries : Int]
      BY <1>q, <2>1, <3>1
    <3> QED
      BY <2>1, <3>2
  <2>3. /\ loader' \in [code : Codes \cup {"none"}, tries : Int, stage : LoadStages]
        /\ loader'.code \in Codes /\ loader'.stage = "fetch"
    BY <2>1, <2>2 DEF LoadStages
  <2> QED
    BY <2>1, <2>2, <2>3 DEF LoadInv, LoadTypes
<1>5. CASE fetchDemoUrl \/ OpenFile \/ downloadDemo
  <2>1. /\ UNCHANGED <<downloads, matches, records, parse>> /\ loader # NoLoad
        /\ \/ loader' = NoLoad
           \/ \E s \in {"download", "writing", "match"} : loader' = [loader EXCEPT !.stage = s]
    BY <1>5 DEF fetchDemoUrl, OpenFile, downloadDemo, LoaderTo, NoLoad
  <2>2. CASE loader' = NoLoad
    BY <1>q, <2>1, <2>2, LoadEnds
  <2>3. ASSUME NEW s \in {"download", "writing", "match"},
               loader' = [loader EXCEPT !.stage = s]
        PROVE  LoadInv'
    <3>1. /\ loader' \in [code : Codes \cup {"none"}, tries : Int, stage : LoadStages]
          /\ loader'.code \in Codes /\ loader'.stage = s
      BY <2>1, <2>3 DEF LoadInv, LoadTypes, LoadStages
    <3> QED
      BY <2>1, <3>1 DEF LoadInv, LoadTypes
  <2> QED
    BY <2>1, <2>2, <2>3
<1>6. CASE createMatch
  <2>1. loader.stage = "match" /\ loader.code \in Codes /\ UNCHANGED <<records, parse>>
    BY <1>6 DEF createMatch, LoadInv, LoadTypes, NoLoad
  <2>2. CASE loader.code \in matches
    <3>1. loader' = NoLoad /\ downloads' \in Queue
      BY <1>6, <2>1, <2>2, AgainTypes DEF createMatch, NoLoad
    <3> QED
      BY <1>6, <2>1, <2>2, <3>1, LoadEnds DEF createMatch
  <2>3. CASE loader.code \notin matches
    <3>1. /\ matches' = matches \cup {loader.code} /\ UNCHANGED downloads
          /\ loader' = [loader EXCEPT !.stage = "record"]
      BY <1>6, <2>3 DEF createMatch, LoaderTo
    <3>2. /\ loader' \in [code : Codes \cup {"none"}, tries : Int, stage : LoadStages]
          /\ loader'.code = loader.code /\ loader'.stage = "record"
      BY <3>1 DEF LoadInv, LoadTypes, LoadStages
    <3>3. parse[loader.code].dispatched = 0
      BY <2>1, <2>3 DEF LoadInv
    <3> QED
      BY <2>1, <3>1, <3>2, <3>3 DEF LoadInv, LoadTypes
  <2> QED
    BY <2>2, <2>3
<1>7. CASE createRecord
  <2>1. /\ loader.stage = "record" /\ UNCHANGED <<downloads, matches, parse>>
        /\ records' = records \cup {loader.code}
        /\ loader' = [loader EXCEPT !.stage = "parse"]
    BY <1>7 DEF createRecord, LoaderTo
  <2>2. /\ loader' \in [code : Codes \cup {"none"}, tries : Int, stage : LoadStages]
        /\ loader'.code = loader.code /\ loader'.stage = "parse"
    BY <2>1 DEF LoadInv, LoadTypes, LoadStages
  <2>3. loader.code \in Codes /\ loader.code \in matches
        /\ parse[loader.code].dispatched = 0
    BY <2>1 DEF LoadInv, LoadTypes, NoLoad
  <2>4. LoadTypes'
    BY <2>1, <2>2, <2>3 DEF LoadInv, LoadTypes
  <2> QED
    BY <2>1, <2>2, <2>3, <2>4 DEF LoadInv
<1>8. CASE DispatchParse
  <2>1. /\ loader.stage = "parse" /\ UNCHANGED <<downloads, matches, records>>
        /\ parse' = [parse EXCEPT ![loader.code].dispatched = @ + 1]
        /\ loader' = NoLoad
    BY <1>8 DEF DispatchParse
  <2>2. /\ loader.code \in Codes /\ loader.code \in matches \cap records
        /\ parse[loader.code].dispatched = 0
    BY <2>1 DEF LoadInv, LoadTypes, NoLoad
  <2>3. parse \in [Codes -> Counts]
    BY DEF LoadInv, LoadTypes
  <2>4. /\ parse' \in [Codes -> Counts] /\ parse'[loader.code].dispatched = 1
        /\ \A c \in Codes \ {loader.code} : parse'[c] = parse[c]
    BY <2>1, <2>2, <2>3 DEF Counts
  <2>5. \A c \in Codes : parse'[c].dispatched <= 1
          /\ (parse'[c].dispatched # 0 => c \in matches \cap records)
    BY <2>2, <2>4 DEF LoadInv
  <2>6. LoadTypes' /\ loader'.stage = "idle"
    BY <1>q, <2>1, <2>4 DEF LoadTypes, NoLoad, LoadStages
  <2> QED
    BY <2>1, <2>5, <2>6 DEF LoadInv
<1>9. CASE KillLoader
  <2>1. Again /\ loader # NoLoad /\ UNCHANGED <<matches, records, parse>>
    BY <1>9 DEF KillLoader
  <2>2. downloads' \in Queue
    BY <2>1, AgainTypes
  <2> QED
    BY <2>1, <2>2, LoadEnds DEF Again
<1>10. ASSUME NEW c \in Codes, ReadFile(c) PROVE LoadInv'
  <2>1. /\ UNCHANGED <<downloads, loader, matches, records>>
        /\ \/ parse' = [parse EXCEPT ![c].good = @ + 1]
           \/ parse' = [parse EXCEPT ![c].bad = @ + 1]
    BY <1>10 DEF ReadFile
  <2>2. parse \in [Codes -> Counts]
    BY DEF LoadInv, LoadTypes
  <2>3. /\ parse' \in [Codes -> Counts]
        /\ \A d \in Codes : parse'[d].dispatched = parse[d].dispatched
    BY <2>1, <2>2 DEF Counts
  <2>4. loader.stage = "parse" \/ loader.stage = "record" => loader.code \in Codes
    BY DEF LoadInv, LoadTypes, NoLoad
  <2> QED
    BY <2>1, <2>3, <2>4 DEF LoadInv, LoadTypes
<1> QED
  BY <1>1, <1>2, <1>3, <1>4, <1>5, <1>6, <1>7, <1>8, <1>9, <1>10 DEF Next, Walk, Load

\* The unique sharecode column of game_matches: of the jobs that download one
\* code, repeated or by several users, only the one that made the match goes on
\* to have its demo parsed.
THEOREM OneParsePerCode == Spec => []ParsedOnce
<1>1. LoadInv => ParsedOnce
  BY DEF LoadInv, ParsedOnce
<1> QED
  BY <1>1, InitWalk, NextWalk, InitLoad, NextLoad, PTL DEF Spec
=============================================================================
