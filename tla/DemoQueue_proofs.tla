-------------------------- MODULE DemoQueue_proofs --------------------------
(***************************************************************************)
(* Proofs about DemoQueue, for any number of jobs, workers, attempts and    *)
(* kills and any limit.                                                     *)
(*                                                                          *)
(* UsageCoversHolders is inductive.  UploadsBounded follows at the check,   *)
(* where the worker that passes counts itself among the holders.            *)
(* ParsesAreRecorded needs to know that a worker that may upload has found  *)
(* or made the record of the match it works for (WorkersRecorded), and *)
(* that a match with a running parse has been taken (ParsesTaken).          *)
(***************************************************************************)
EXTENDS DemoQueue, FiniteSetTheorems, TLAPS

\* A worker that is not idle has a job, and what it works for has its rows.
WorkersRecorded ==
  \A w \in Workers :
    /\ at[w] # "idle" => task[w] \in Jobs
    /\ at[w] \in {"recording", "health", "uploading"} => match[w] \in matches
    /\ at[w] \in {"health", "uploading"} => match[w] \in records

\* A parse that runs was taken under its match's id.
ParsesTaken == \A p \in parses : p[1] \in taken

QueueInv ==
  /\ TypeOK
  /\ WorkersRecorded
  /\ ParsesTaken
  /\ ParsesAreRecorded
  /\ UsageCoversHolders
  /\ UploadsBounded

-----------------------------------------------------------------------------
(* Sets of workers.                                                          *)

\* A set of workers is finite.
LEMMA WorkerSubset ==
  ASSUME NEW S, S \subseteq Workers
  PROVE  IsFiniteSet(S) /\ Cardinality(S) \in Nat
  BY WorkersAssumption, FS_Subset, FS_CardinalityType

\* So are the holders and the workers past the check, before and after a step.
LEMMA PlacesCounted ==
  /\ Cardinality(Holders) \in Nat /\ Cardinality(PastCheck) \in Nat
  /\ Cardinality(Holders') \in Nat /\ Cardinality(PastCheck') \in Nat
<1>1. /\ Holders \subseteq Workers /\ PastCheck \subseteq Workers
      /\ Holders' \subseteq Workers /\ PastCheck' \subseteq Workers
  BY DEF Holders, PastCheck
<1> QED
  BY <1>1, WorkerSubset

\* Whoever is past the check is a holder.
LEMMA PastCheckHolds == PastCheck \subseteq Holders
  BY DEF PastCheck, Holders, Holding

Passed == {"matching", "recording", "health", "uploading"}

\* A worker that goes somewhere: what it does to the sets and their sizes.
LEMMA Moves ==
  ASSUME at \in [Workers -> Places], NEW w \in Workers, NEW place \in Places,
         Goto(w, place)
  PROVE  /\ at' \in [Workers -> Places]
         /\ at'[w] = place /\ \A v \in Workers \ {w} : at'[v] = at[v]
         /\ Holders' = IF place \in Holding THEN Holders \cup {w} ELSE Holders \ {w}
         /\ PastCheck' = IF place \in Passed THEN PastCheck \cup {w} ELSE PastCheck \ {w}
<1>1. at' \in [Workers -> Places]
  BY DEF Goto
<1>2. at'[w] = place /\ \A v \in Workers \ {w} : at'[v] = at[v]
  BY DEF Goto
<1>3. Holders' = IF place \in Holding THEN Holders \cup {w} ELSE Holders \ {w}
  BY <1>2 DEF Holders
<1>4. PastCheck' = IF place \in Passed THEN PastCheck \cup {w} ELSE PastCheck \ {w}
  BY <1>2 DEF PastCheck, Passed
<1> QED
  BY <1>1, <1>2, <1>3, <1>4

LEMMA Sizes ==
  ASSUME at \in [Workers -> Places], NEW w \in Workers, NEW place \in Places,
         Goto(w, place)
  PROVE  /\ Cardinality(Holders') =
              Cardinality(Holders) + (IF place \in Holding THEN 1 ELSE 0)
                                   - (IF at[w] \in Holding THEN 1 ELSE 0)
         /\ Cardinality(PastCheck') =
              Cardinality(PastCheck) + (IF place \in Passed THEN 1 ELSE 0)
                                     - (IF at[w] \in Passed THEN 1 ELSE 0)
<1>1. /\ w \in Holders <=> at[w] \in Holding
      /\ w \in PastCheck <=> at[w] \in Passed
  BY DEF Holders, PastCheck, Passed
<1>2. IsFiniteSet(Holders) /\ IsFiniteSet(PastCheck)
  <2>1. Holders \subseteq Workers /\ PastCheck \subseteq Workers
    BY DEF Holders, PastCheck
  <2> QED
    BY <2>1, WorkerSubset
<1>3. /\ Cardinality(Holders \cup {w}) =
           IF w \in Holders THEN Cardinality(Holders) ELSE Cardinality(Holders) + 1
      /\ Cardinality(Holders \ {w}) =
           IF w \in Holders THEN Cardinality(Holders) - 1 ELSE Cardinality(Holders)
  BY <1>2, FS_AddElement, FS_RemoveElement
<1>4. /\ Cardinality(PastCheck \cup {w}) =
           IF w \in PastCheck THEN Cardinality(PastCheck) ELSE Cardinality(PastCheck) + 1
      /\ Cardinality(PastCheck \ {w}) =
           IF w \in PastCheck THEN Cardinality(PastCheck) - 1 ELSE Cardinality(PastCheck)
  BY <1>2, FS_AddElement, FS_RemoveElement
<1>5. Cardinality(Holders') =
        Cardinality(Holders) + (IF place \in Holding THEN 1 ELSE 0)
                             - (IF at[w] \in Holding THEN 1 ELSE 0)
  <2>1. CASE place \in Holding
    <3>1. Holders' = Holders \cup {w}
      BY <2>1, Moves
    <3> QED
      BY <2>1, <3>1, <1>1, <1>3, PlacesCounted
  <2>2. CASE place \notin Holding
    <3>1. Holders' = Holders \ {w}
      BY <2>2, Moves
    <3> QED
      BY <2>2, <3>1, <1>1, <1>3, PlacesCounted
  <2> QED
    BY <2>1, <2>2
<1>6. Cardinality(PastCheck') =
        Cardinality(PastCheck) + (IF place \in Passed THEN 1 ELSE 0)
                               - (IF at[w] \in Passed THEN 1 ELSE 0)
  <2>1. CASE place \in Passed
    <3>1. PastCheck' = PastCheck \cup {w}
      BY <2>1, Moves
    <3> QED
      BY <2>1, <3>1, <1>1, <1>4, PlacesCounted
  <2>2. CASE place \notin Passed
    <3>1. PastCheck' = PastCheck \ {w}
      BY <2>2, Moves
    <3> QED
      BY <2>2, <3>1, <1>1, <1>4, PlacesCounted
  <2> QED
    BY <2>1, <2>2
<1> QED
  BY <1>5, <1>6

-----------------------------------------------------------------------------
LEMMA InitQueue == Init => QueueInv
<1> SUFFICES ASSUME Init PROVE QueueInv
  OBVIOUS
<1>1. TypeOK
  <2>1. queue \in [Jobs -> QueueStates] /\ attempts \in [Jobs -> 0..Tries]
    BY TriesAssumption DEF Init, QueueStates
  <2>2. /\ at \in [Workers -> Places] /\ task \in [Workers -> Jobs \cup {NoTask}]
        /\ match \in [Workers -> Matches \cup {NoMatch}]
        /\ next \in [Workers -> {"delete", "release", "nothing"}]
    BY DEF Init, Places
  <2>3. records \subseteq matches /\ matches \subseteq Matches
    BY KnownAssumption, TriesAssumption DEF Init, Matches
  <2>4. usage \in Int /\ kills \in 0..MaxKills
    BY KillsAssumption DEF Init
  <2> QED
    BY <2>1, <2>2, <2>3, <2>4 DEF Init, TypeOK
<1>2. WorkersRecorded /\ ParsesTaken /\ ParsesAreRecorded
  BY DEF Init, WorkersRecorded, ParsesTaken, ParsesAreRecorded
<1>3. Holders = {} /\ PastCheck = {}
  BY DEF Init, Holders, Holding, PastCheck
<1>4. UsageCoversHolders /\ UploadsBounded
  BY <1>3, FS_EmptySet, LimitAssumption DEF Init, UsageCoversHolders, UploadsBounded
<1> QED
  BY <1>1, <1>2, <1>4 DEF QueueInv

-----------------------------------------------------------------------------
(* Every step keeps the types.                                               *)

LEMMA StepTypes ==
  ASSUME TypeOK, WorkersRecorded, ParsesAreRecorded, [Next]_vars
  PROVE  TypeOK'
<1> USE TriesAssumption, KillsAssumption
    DEF TypeOK, Goto, Leave, Free, Orphaned, queueVars, workerVars, dbVars, parserVars
<1>1. ASSUME NEW q \in Jobs, userDemo(q) PROVE TypeOK'
  BY <1>1 DEF userDemo, QueueStates
<1>2. ASSUME NEW q \in Jobs, Overdue(q) PROVE TypeOK'
  BY <1>2 DEF Overdue, QueueStates
<1>3. ASSUME NEW w \in Workers, NEW q \in Jobs, Pop(w, q) PROVE TypeOK'
  <2>1. CASE attempts[q] >= Tries
    BY <1>3, <2>1 DEF Pop, QueueStates
  <2>2. CASE ~(attempts[q] >= Tries)
    BY <1>3, <2>2 DEF Pop, QueueStates, Places
  <2> QED
    BY <2>1, <2>2
<1>4. ASSUME NEW w \in Workers, incrementParserServiceUsage(w) PROVE TypeOK'
  BY <1>4 DEF incrementParserServiceUsage, Places
<1>5. ASSUME NEW w \in Workers, checkParserServiceLimit(w) PROVE TypeOK'
  BY <1>5 DEF checkParserServiceLimit, Places
<1>6. ASSUME NEW w \in Workers, readUsage(w) PROVE TypeOK'
  BY <1>6 DEF readUsage, Places
<1>7. ASSUME NEW w \in Workers, decrementParserServiceUsage(w) PROVE TypeOK'
  BY <1>7 DEF decrementParserServiceUsage, Places
<1>8. ASSUME NEW w \in Workers, leave(w) PROVE TypeOK'
  BY <1>8 DEF leave, Places, QueueStates
<1>9. ASSUME NEW w \in Workers, findMatch(w) PROVE TypeOK'
  <2> DEFINE m == IF task[w] \in Known THEN <<task[w], 0>>
                                       ELSE <<task[w], attempts[task[w]]>>
  <2>1. task[w] \in Jobs
    BY <1>9 DEF findMatch, WorkersRecorded
  <2>2. m \in Matches
    BY <2>1 DEF Matches
  <2>3. /\ matches' = matches \cup {m} /\ match' = [match EXCEPT ![w] = m]
        /\ at' = [at EXCEPT ![w] = "recording"]
        /\ UNCHANGED <<queue, attempts, task, next, records, stored, taken, usage, kills>>
    BY <1>9 DEF findMatch
  <2> HIDE DEF m
  <2>4. at' \in [Workers -> Places] /\ match' \in [Workers -> Matches \cup {NoMatch}]
    BY <2>2, <2>3 DEF Places
  <2> QED
    BY <2>2, <2>3, <2>4
<1>10. ASSUME NEW w \in Workers, findRecord(w) PROVE TypeOK'
  <2>1. match[w] \in matches
    BY <1>10 DEF findRecord, WorkersRecorded
  <2> QED
    BY <1>10, <2>1 DEF findRecord, Places
<1>11. ASSUME NEW w \in Workers, Throw(w) PROVE TypeOK'
  BY <1>11 DEF Throw, Places
<1>12. ASSUME NEW w \in Workers, startUpload(w) PROVE TypeOK'
  BY <1>12 DEF startUpload, Places
<1>13. ASSUME NEW w \in Workers, endUpload(w) PROVE TypeOK'
  <2>1. match[w] \in Matches
    BY <1>13 DEF endUpload, WorkersRecorded
  <2> QED
    BY <1>13, <2>1 DEF endUpload, Accept, Places
<1>14. ASSUME NEW w \in Workers, Swallow(w) PROVE TypeOK'
  BY <1>14 DEF Swallow, Places
<1>15. ASSUME NEW w \in Workers, Kill(w) PROVE TypeOK'
  <2>1. at[w] = "uploading" => match[w] \in Matches
    BY DEF WorkersRecorded
  <2>2. taken' \subseteq Matches
    BY <1>15, <2>1 DEF Kill, Accept
  <2> QED
    BY <1>15, <2>2 DEF Kill, Places
<1>16. ASSUME NEW p \in parses, createMatchWithPlayers(p) PROVE TypeOK'
  <2>1. p[1] \in Matches
    BY DEF ParsesAreRecorded
  <2> QED
    BY <1>16, <2>1 DEF createMatchWithPlayers
<1>17. CASE Expire
  BY <1>17 DEF Expire
<1>18. CASE UNCHANGED vars
  BY <1>18 DEF vars
<1> QED
  BY <1>1, <1>2, <1>3, <1>4, <1>5, <1>6, <1>7, <1>8, <1>9, <1>10, <1>11, <1>12,
     <1>13, <1>14, <1>15, <1>16, <1>17, <1>18 DEF Next, Step

-----------------------------------------------------------------------------
(* Every step keeps the counter above the holders.                           *)

\* A worker that moves without touching the counter, and takes no place.
LEMMA MovesKeepUsage ==
  ASSUME at \in [Workers -> Places], usage \in Int, UsageCoversHolders, UploadsBounded,
         NEW w \in Workers, NEW place \in Places, Goto(w, place), usage' = usage,
         place \in Holding => at[w] \in Holding,
         place \in Passed => at[w] \in Passed
  PROVE  UsageCoversHolders' /\ UploadsBounded'
<1>1. Cardinality(Holders') <= Cardinality(Holders)
  BY Sizes, PlacesCounted
<1>2. Cardinality(PastCheck') <= Cardinality(PastCheck)
  BY Sizes, PlacesCounted
<1> QED
  BY <1>1, <1>2, PlacesCounted, LimitAssumption DEF UsageCoversHolders, UploadsBounded

LEMMA StepUsage ==
  ASSUME TypeOK, UsageCoversHolders, UploadsBounded, [Next]_vars
  PROVE  UsageCoversHolders' /\ UploadsBounded'
<1> DEFINE Goal == UsageCoversHolders' /\ UploadsBounded'
<1>0. at \in [Workers -> Places] /\ usage \in Int
  BY DEF TypeOK
<1>a. ASSUME UNCHANGED <<at, usage>> PROVE Goal
  <2>1. Holders' = Holders /\ PastCheck' = PastCheck
    BY <1>a DEF Holders, PastCheck
  <2> QED
    BY <1>a, <2>1 DEF UsageCoversHolders, UploadsBounded
<1>1. ASSUME NEW w \in Workers, NEW q \in Jobs, Pop(w, q) PROVE Goal
  <2>1. CASE attempts[q] >= Tries
    BY <1>a, <1>1, <2>1 DEF Pop, workerVars
  <2>2. CASE ~(attempts[q] >= Tries)
    <3>1. Goto(w, "counting") /\ usage' = usage
      BY <1>1, <2>2 DEF Pop
    <3> QED
      BY <1>0, <3>1, MovesKeepUsage DEF Places, Holding, Passed
  <2> QED
    BY <2>1, <2>2
<1>2. ASSUME NEW w \in Workers, incrementParserServiceUsage(w) PROVE Goal
  <2>1. at[w] = "counting" /\ Goto(w, "checking") /\ usage' = usage + 1
    BY <1>2 DEF incrementParserServiceUsage
  <2>2. /\ Cardinality(Holders') = Cardinality(Holders) + 1
        /\ Cardinality(PastCheck') = Cardinality(PastCheck)
    BY <1>0, <2>1, Sizes, PlacesCounted DEF Places, Holding, Passed
  <2> QED
    BY <1>0, <2>1, <2>2, PlacesCounted DEF UsageCoversHolders, UploadsBounded
<1>3. ASSUME NEW w \in Workers, checkParserServiceLimit(w) PROVE Goal
  <2>1. at[w] = "checking" /\ usage' = usage
    BY <1>3 DEF checkParserServiceLimit
  <2>2. CASE usage < MaxConcurrent
    <3>1. Goto(w, "matching")
      BY <1>3, <2>2 DEF checkParserServiceLimit
    <3>2. Cardinality(Holders') = Cardinality(Holders)
      BY <1>0, <2>1, <3>1, Sizes, PlacesCounted DEF Places, Holding, Passed
    <3>3. PastCheck' \subseteq Holders
      <4>1. PastCheck' = PastCheck \cup {w}
        BY <1>0, <3>1, Moves DEF Places, Passed
      <4> QED
        BY <2>1, <4>1, PastCheckHolds DEF Holders, Holding
    <3>4. Cardinality(PastCheck') <= Cardinality(Holders)
      <4>1. IsFiniteSet(Holders)
        BY WorkerSubset DEF Holders
      <4> QED
        BY <3>3, <4>1, FS_Subset
    <3> QED
      BY <1>0, <2>1, <2>2, <3>2, <3>4, PlacesCounted, LimitAssumption
      DEF UsageCoversHolders, UploadsBounded
  <2>3. CASE ~(usage < MaxConcurrent)
    <3>1. Goto(w, "decrementing")
      BY <1>3, <2>3 DEF checkParserServiceLimit, Leave
    <3> QED
      BY <1>0, <2>1, <3>1, MovesKeepUsage DEF Places, Holding, Passed
  <2> QED
    BY <2>2, <2>3
<1>4. ASSUME NEW w \in Workers, readUsage(w) PROVE Goal
  <2>1. /\ at[w] = "decrementing" /\ usage' = usage
        /\ Goto(w, "writing") \/ Goto(w, "leaving")
    BY <1>4 DEF readUsage
  <2> QED
    BY <1>0, <2>1, MovesKeepUsage DEF Places, Holding, Passed
<1>5. ASSUME NEW w \in Workers, decrementParserServiceUsage(w) PROVE Goal
  <2>1. at[w] = "writing" /\ Goto(w, "leaving") /\ usage' = usage - 1
    BY <1>5 DEF decrementParserServiceUsage
  <2>2. /\ Cardinality(Holders') = Cardinality(Holders) - 1
        /\ Cardinality(PastCheck') = Cardinality(PastCheck)
    BY <1>0, <2>1, Sizes, PlacesCounted DEF Places, Holding, Passed
  <2> QED
    BY <1>0, <2>1, <2>2, PlacesCounted DEF UsageCoversHolders, UploadsBounded
<1>6. ASSUME NEW w \in Workers, leave(w) \/ Kill(w) PROVE Goal
  <2>1. Goto(w, "idle") /\ usage' = usage
    BY <1>6 DEF leave, Kill, Free
  <2> QED
    BY <1>0, <2>1, MovesKeepUsage DEF Places, Holding, Passed
<1>7. ASSUME NEW w \in Workers, findMatch(w) \/ findRecord(w) PROVE Goal
  <2>1. /\ at[w] \in {"matching", "recording"} /\ usage' = usage
        /\ Goto(w, "recording") \/ Goto(w, "health")
    BY <1>7 DEF findMatch, findRecord
  <2> QED
    BY <1>0, <2>1, MovesKeepUsage DEF Places, Holding, Passed
<1>8. ASSUME NEW w \in Workers, Throw(w) \/ endUpload(w) \/ Swallow(w) PROVE Goal
  <2>1. /\ at[w] \in {"matching", "recording", "health", "uploading"}
        /\ Goto(w, "decrementing") /\ usage' = usage
    BY <1>8 DEF Throw, endUpload, Swallow, Leave
  <2> QED
    BY <1>0, <2>1, MovesKeepUsage DEF Places, Holding, Passed
<1>9. ASSUME NEW w \in Workers, startUpload(w) PROVE Goal
  <2>1. /\ at[w] = "health" /\ usage' = usage
        /\ Goto(w, "decrementing") \/ Goto(w, "uploading")
    BY <1>9 DEF startUpload, Leave
  <2> QED
    BY <1>0, <2>1, MovesKeepUsage DEF Places, Holding, Passed
<1>10. CASE Expire
  <2>1. Holders' = Holders /\ PastCheck' = PastCheck /\ Holders = {} /\ usage' = 0
    BY <1>10 DEF Expire, workerVars, Holders, PastCheck
  <2> QED
    BY <2>1, FS_EmptySet DEF UsageCoversHolders, UploadsBounded
<1>11. ASSUME NEW q \in Jobs, userDemo(q) \/ Overdue(q) PROVE Goal
  BY <1>a, <1>11 DEF userDemo, Overdue, workerVars
<1>12. ASSUME NEW p \in parses, createMatchWithPlayers(p) PROVE Goal
  BY <1>a, <1>12 DEF createMatchWithPlayers, workerVars
<1>13. CASE UNCHANGED vars
  BY <1>a, <1>13 DEF vars, workerVars
<1> QED
  BY <1>1, <1>2, <1>3, <1>4, <1>5, <1>6, <1>7, <1>8, <1>9, <1>10, <1>11, <1>12,
     <1>13 DEF Next, Step

-----------------------------------------------------------------------------
(* Every step keeps what is parsed recorded.                                 *)

\* A worker that moves without coming to have a match; rows are only added.
LEMMA MovesKeepRecords ==
  ASSUME TypeOK, WorkersRecorded, NEW w \in Workers, NEW place \in Places,
         Goto(w, place),
         \A v \in Workers \ {w} : task'[v] = task[v] /\ match'[v] = match[v],
         matches \subseteq matches', records \subseteq records',
         place # "idle" => task'[w] \in Jobs,
         place \in {"recording", "health", "uploading"} => match'[w] \in matches',
         place \in {"health", "uploading"} => match'[w] \in records'
  PROVE  WorkersRecorded'
<1>1. at'[w] = place /\ \A v \in Workers \ {w} : at'[v] = at[v]
  BY Moves DEF TypeOK
<1> SUFFICES ASSUME NEW v \in Workers
             PROVE  /\ at'[v] # "idle" => task'[v] \in Jobs
                    /\ at'[v] \in {"recording", "health", "uploading"} => match'[v] \in matches'
                    /\ at'[v] \in {"health", "uploading"} => match'[v] \in records'
  BY DEF WorkersRecorded
<1>2. CASE v = w
  BY <1>1, <1>2
<1>3. CASE v # w
  BY <1>1, <1>3 DEF WorkersRecorded
<1> QED
  BY <1>2, <1>3

LEMMA AcceptRecorded ==
  ASSUME ParsesAreRecorded, ParsesTaken, NEW m \in records, Accept(m),
         UNCHANGED <<records, stored>>
  PROVE  ParsesAreRecorded' /\ ParsesTaken'
<1>1. /\ taken \subseteq records /\ stored \subseteq taken
      /\ \A p \in parses : p[1] \in records /\ p[1] \in taken
  BY DEF ParsesAreRecorded, ParsesTaken
<1>2. PICK k : parses' = parses \cup {<<m, k>>} /\ taken' = taken \cup {m}
  BY DEF Accept
<1>3. \A p \in parses' : p[1] \in records /\ p[1] \in taken'
  BY <1>1, <1>2
<1>4. taken' \subseteq records' /\ stored' \subseteq taken'
  BY <1>1, <1>2
<1> QED
  BY <1>3, <1>4 DEF ParsesAreRecorded, ParsesTaken

LEMMA StepRecords ==
  ASSUME TypeOK, WorkersRecorded, ParsesTaken, ParsesAreRecorded, [Next]_vars
  PROVE  WorkersRecorded' /\ ParsesTaken' /\ ParsesAreRecorded'
<1> DEFINE Goal == WorkersRecorded' /\ ParsesTaken' /\ ParsesAreRecorded'
<1>a. ASSUME UNCHANGED <<records, parserVars, stored>>
      PROVE  ParsesTaken' /\ ParsesAreRecorded'
  BY <1>a DEF ParsesTaken, ParsesAreRecorded, parserVars
<1>b. ASSUME UNCHANGED <<at, task, match, matches, records>> PROVE WorkersRecorded'
  BY <1>b DEF WorkersRecorded
<1>c. \A w \in Workers : at[w] # "idle" => task[w] \in Jobs
  BY DEF WorkersRecorded
\* Moves that leave the worker's job and match and all rows alone.
<1>d. ASSUME NEW w \in Workers, NEW place \in Places, Goto(w, place), at[w] # "idle",
             UNCHANGED <<task, match, matches, records>>,
             place \in {"recording", "health", "uploading"} => match[w] \in matches,
             place \in {"health", "uploading"} => match[w] \in records
      PROVE  WorkersRecorded'
  BY <1>c, <1>d, MovesKeepRecords
<1>1. ASSUME NEW w \in Workers, NEW q \in Jobs, Pop(w, q) PROVE Goal
  <2>1. CASE attempts[q] >= Tries
    BY <1>a, <1>b, <1>1, <2>1 DEF Pop, workerVars, dbVars
  <2>2. CASE ~(attempts[q] >= Tries)
    <3>1. /\ Goto(w, "counting") /\ task' = [task EXCEPT ![w] = q]
          /\ UNCHANGED <<match, matches, records, stored, parserVars>>
      BY <1>1, <2>2 DEF Pop, dbVars
    <3>2. task'[w] = q /\ \A v \in Workers \ {w} : task'[v] = task[v]
      BY <3>1 DEF TypeOK
    <3> QED
      BY <1>a, <3>1, <3>2, MovesKeepRecords DEF Places
  <2> QED
    BY <2>1, <2>2
<1>2. ASSUME NEW w \in Workers,
             incrementParserServiceUsage(w) \/ checkParserServiceLimit(w)
               \/ readUsage(w) \/ decrementParserServiceUsage(w) \/ Throw(w) \/ Swallow(w)
      PROVE  Goal
  <2>1. /\ at[w] # "idle"
        /\ \E place \in {"checking", "matching", "decrementing", "writing", "leaving"} :
             Goto(w, place)
        /\ UNCHANGED <<task, match, matches, records, stored, parserVars>>
    BY <1>2 DEF incrementParserServiceUsage, checkParserServiceLimit, readUsage,
                decrementParserServiceUsage, Throw, Swallow, Leave, dbVars
  <2> QED
    BY <1>a, <1>d, <2>1 DEF Places
<1>3. ASSUME NEW w \in Workers, leave(w) PROVE Goal
  <2>1. /\ Free(w) /\ UNCHANGED <<matches, records, stored, parserVars>>
    BY <1>3 DEF leave, dbVars
  <2>2. /\ Goto(w, "idle")
        /\ \A v \in Workers \ {w} : task'[v] = task[v] /\ match'[v] = match[v]
    BY <2>1 DEF Free, TypeOK
  <2> QED
    BY <1>a, <2>1, <2>2, MovesKeepRecords DEF Places
<1>4. ASSUME NEW w \in Workers, findMatch(w) PROVE Goal
  <2>1. /\ Goto(w, "recording") /\ at[w] = "matching"
        /\ UNCHANGED <<task, records, stored, parserVars>>
        /\ \E m : matches' = matches \cup {m} /\ match' = [match EXCEPT ![w] = m]
    BY <1>4 DEF findMatch
  <2>2. match'[w] \in matches' /\ \A v \in Workers \ {w} : match'[v] = match[v]
    BY <2>1 DEF TypeOK
  <2> QED
    BY <1>a, <1>c, <2>1, <2>2, MovesKeepRecords DEF Places
<1>5. ASSUME NEW w \in Workers, findRecord(w) PROVE Goal
  <2>1. /\ Goto(w, "health") /\ at[w] = "recording" /\ records' = records \cup {match[w]}
        /\ UNCHANGED <<task, match, matches, stored, parserVars>>
    BY <1>5 DEF findRecord
  <2>2. match[w] \in matches
    BY <2>1 DEF WorkersRecorded
  <2>3. WorkersRecorded'
    BY <1>c, <2>1, <2>2, MovesKeepRecords DEF Places
  <2>4. ParsesTaken' /\ ParsesAreRecorded'
    BY <2>1 DEF ParsesTaken, ParsesAreRecorded, parserVars
  <2> QED
    BY <2>3, <2>4
<1>6. ASSUME NEW w \in Workers, startUpload(w) PROVE Goal
  <2>1. /\ at[w] = "health"
        /\ Goto(w, "decrementing") \/ Goto(w, "uploading")
        /\ UNCHANGED <<task, match, matches, records, stored, parserVars>>
    BY <1>6 DEF startUpload, Leave, dbVars
  <2>2. match[w] \in matches /\ match[w] \in records
    BY <2>1 DEF WorkersRecorded
  <2> QED
    BY <1>a, <1>d, <2>1, <2>2 DEF Places
<1>7. ASSUME NEW w \in Workers, endUpload(w) PROVE Goal
  <2>1. /\ at[w] = "uploading" /\ Goto(w, "decrementing") /\ Accept(match[w])
        /\ UNCHANGED <<task, match, matches, records, stored>>
    BY <1>7 DEF endUpload, Leave, dbVars
  <2>2. match[w] \in records
    BY <2>1 DEF WorkersRecorded
  <2> QED
    BY <1>d, <2>1, <2>2, AcceptRecorded DEF Places
<1>8. ASSUME NEW w \in Workers, Kill(w) PROVE Goal
  <2>1. Free(w) /\ UNCHANGED <<matches, records, stored>>
    BY <1>8 DEF Kill, dbVars
  <2>2. UNCHANGED parserVars \/ (at[w] = "uploading" /\ Accept(match[w]))
    BY <1>8 DEF Kill
  <2>3. /\ Goto(w, "idle")
        /\ \A v \in Workers \ {w} : task'[v] = task[v] /\ match'[v] = match[v]
    BY <2>1 DEF Free, TypeOK
  <2>4. WorkersRecorded'
    BY <2>1, <2>3, MovesKeepRecords DEF Places
  <2>5. ParsesTaken' /\ ParsesAreRecorded'
    <3>1. CASE UNCHANGED parserVars
      BY <1>a, <2>1, <3>1
    <3>2. CASE at[w] = "uploading" /\ Accept(match[w])
      BY <2>1, <3>2, AcceptRecorded DEF WorkersRecorded
    <3> QED
      BY <2>2, <3>1, <3>2
  <2> QED
    BY <2>4, <2>5
<1>9. ASSUME NEW p \in parses, createMatchWithPlayers(p) PROVE Goal
  <2>1. WorkersRecorded'
    BY <1>b, <1>9 DEF createMatchWithPlayers, workerVars
  <2>2. ParsesTaken' /\ ParsesAreRecorded'
    BY <1>9 DEF createMatchWithPlayers, ParsesTaken, ParsesAreRecorded, parserVars
  <2> QED
    BY <2>1, <2>2
<1>10. ASSUME NEW q \in Jobs, userDemo(q) \/ Overdue(q) PROVE Goal
  BY <1>a, <1>b, <1>10 DEF userDemo, Overdue, workerVars, dbVars
<1>11. CASE Expire \/ UNCHANGED vars
  BY <1>a, <1>b, <1>11 DEF Expire, vars, workerVars, dbVars
<1> QED
  BY <1>1, <1>2, <1>3, <1>4, <1>5, <1>6, <1>7, <1>8, <1>9, <1>10, <1>11 DEF Next, Step

-----------------------------------------------------------------------------
LEMMA QueueInvariant == Spec => []QueueInv
<1>1. QueueInv /\ [Next]_vars => QueueInv'
  BY StepTypes, StepUsage, StepRecords DEF QueueInv
<1> QED
  BY <1>1, InitQueue, PTL DEF Spec

\* Every variable keeps its type.
THEOREM QueueTypes == Spec => []TypeOK
<1>1. QueueInv => TypeOK
  BY DEF QueueInv
<1> QED
  BY <1>1, QueueInvariant, PTL

\* The usage counter never falls below the workers that hold a place, however
\* increments, reads and decrements interleave and whoever is killed.
THEOREM UsageCovers == Spec => []UsageCoversHolders
<1>1. QueueInv => UsageCoversHolders
  BY DEF QueueInv
<1> QED
  BY <1>1, QueueInvariant, PTL

\* At most one demo less than the limit is uploaded at a time.
THEOREM LimitKept == Spec => []UploadsBounded
<1>1. QueueInv => UploadsBounded
  BY DEF QueueInv
<1> QED
  BY <1>1, QueueInvariant, PTL

\* Whatever the parser service works for has a record its callbacks find.
THEOREM ParsesRecorded == Spec => []ParsesAreRecorded
<1>1. QueueInv => ParsesAreRecorded
  BY DEF QueueInv
<1> QED
  BY <1>1, QueueInvariant, PTL
=============================================================================
