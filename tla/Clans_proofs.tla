----------------------------- MODULE Clans_proofs -----------------------------
(***************************************************************************)
(* Proofs about Clans, for any users, matches, teams, slots and bounds.    *)
(*                                                                         *)
(* A match looked for from both ends is found because, from the completion *)
(* of its demo to the row of the clan, somebody is always still looking    *)
(* for every two members that share it, with the two among those he has    *)
(* read (Sought).  That a clan's matches are earned, and that its owner    *)
(* stays, rest on what the stages of a request remember: whom it read, and *)
(* what it checked that no other request may have undone.                  *)
(***************************************************************************)
EXTENDS Clans, FiniteSetTheorems, TLAPS

-----------------------------------------------------------------------------
(* The invariants.                                                           *)

\* The worker has one match or none, and that job is not over yet.
InHand(m) == IF worker.match = {m} THEN 1 ELSE 0
WorkerInv ==
  /\ worker.stage = "idle" => worker = NoJob
  /\ worker.stage # "idle" => \E m \in Matches : worker.match = {m}
  /\ \A m \in Matches : InHand(m) <= left[m] /\ left[m] <= jobs[m]

\* A request that is there is of users.
RequestInv ==
  \A r \in Requests : req[r].op # "none" => req[r].user \in Users /\ req[r].other \in Users

Played(u, v, m) == {<<m, u>>, <<m, v>>} \subseteq rows /\ TeamOf[m][u] = TeamOf[m][v]

\* Somebody is still looking for match m, of u and v.
ByWorker(u, v, m) ==
  /\ worker.match = {m}
  /\ worker.stage \in {"exists", "members", "insert"} \/ {u, v} \subseteq worker.ids
ByRequest(r, u, v, m) ==
  /\ req[r].op = "join"
  /\ \/ req[r].stage = "members"
     \/ req[r].stage \in {"ids", "rows"} /\ {u, v} \subseteq req[r].ids
     \/ req[r].stage = "adding" /\ m \in req[r].found
Sought(u, v, m) ==
  \/ m \in clanMatches
  \/ left[m] > InHand(m)
  \/ ByWorker(u, v, m)
  \/ \E r \in Requests : ByRequest(r, u, v, m)

SoughtInv ==
  \A m \in Matches : \A u, v \in Steady :
    u # v /\ jobs[m] > 0 /\ Played(u, v, m) => Sought(u, v, m)

\* Who is read or found was a member, or a match of two, at one time.
Earned(m) == \E p \in pairs : \E u, v \in p :
  u # v /\ {u, v} \subseteq DOMAIN TeamOf[m] /\ TeamOf[m][u] = TeamOf[m][v]
AtOnce(us) == \A u, v \in us : {u, v} \in pairs
EarnedInv ==
  /\ \A m \in Matches, u \in Users : <<m, u>> \in rows => u \in DOMAIN TeamOf[m]
  /\ AtOnce(members) /\ AtOnce(worker.ids)
  /\ \A r \in Requests : AtOnce(req[r].ids) /\ \A m \in req[r].found : Earned(m)
  /\ worker.stage = "insert" => \A m \in worker.match : Earned(m)
  /\ \A m \in clanMatches : Earned(m)

\* What a request that may remove a member, or change the owner, has checked
\* still holds.
OwnerInv ==
  ~clashed =>
    /\ \A r, s \in Requests : {req[r].op, req[s].op} \subseteq Removing => r = s
    /\ owner = NoOne \/ owner \in members
    /\ \A r \in Requests :
         /\ req[r].op \in {"leave", "remove"} /\ req[r].stage = "delete" => req[r].other # owner
         /\ req[r].op = "leave" => req[r].other = req[r].user
         /\ req[r].op = "transfer" /\ req[r].stage = "save" =>
              owner = NoOne \/ req[r].other \in members

TypeInv == TypeOK /\ WorkerInv /\ RequestInv

-----------------------------------------------------------------------------
(* Types.                                                                    *)

LEMMA InitTypes == Init => TypeInv
<1> SUFFICES ASSUME Init PROVE TypeInv
  OBVIOUS
<1> USE UsersAssumption, BoundsAssumption DEF Init
<1>1. clashed \in BOOLEAN
  BY Zenon
<1>2. NoRequest \in RequestSlot /\ NoJob \in Job
  BY DEF NoRequest, ReqStages, RequestSlot, NoJob, Job, JobStages
<1>3. req \in [Requests -> RequestSlot] /\ worker \in Job
  BY <1>2
<1>4. TypeOK
  BY <1>1, <1>3 DEF TypeOK
<1>5. WorkerInv /\ RequestInv
  BY DEF WorkerInv, RequestInv, InHand, NoJob, NoRequest
<1> QED
  BY <1>4, <1>5 DEF TypeInv

\* What a request that is there, or none, puts into its slot.
LEMMA SlotTypes ==
  ASSUME TypeInv, NEW r \in Requests, NEW x \in RequestSlot,
         x.op # "none" => x.user \in Users /\ x.other \in Users,
         req' = [req EXCEPT ![r] = x]
  PROVE  req' \in [Requests -> RequestSlot] /\ RequestInv'
  BY DEF TypeInv, TypeOK, RequestInv

LEMMA EndTypes ==
  ASSUME TypeInv, NEW r \in Requests, End(r)
  PROVE  req' \in [Requests -> RequestSlot] /\ RequestInv'
<1>1. NoRequest \in RequestSlot /\ NoRequest.op = "none"
  BY DEF NoRequest, RequestSlot, ReqStages
<1> QED
  BY <1>1, SlotTypes DEF End

\* A step to another stage, with what it has read.
LEMMA StageTypes ==
  ASSUME TypeInv, NEW r \in Requests, NEW s \in ReqStages, NEW us \in SUBSET Users,
         NEW ms \in SUBSET Matches,
         \/ Goto(r, s)
         \/ req' = [req EXCEPT ![r].stage = s, ![r].ids = us]
         \/ req' = [req EXCEPT ![r].stage = s, ![r].found = ms]
         \/ req' = [req EXCEPT ![r].found = ms]
  PROVE  req' \in [Requests -> RequestSlot] /\ RequestInv'
<1> DEFINE Is(x) == req' = [req EXCEPT ![r] = x]
           a == [req[r] EXCEPT !.stage = s]
           b == [req[r] EXCEPT !.stage = s, !.ids = us]
           c == [req[r] EXCEPT !.stage = s, !.found = ms]
           d == [req[r] EXCEPT !.found = ms]
<1>1. req[r] \in RequestSlot
  BY DEF TypeInv, TypeOK
<1>2. \A x \in {a, b, c, d} :
        x \in RequestSlot /\ x.op = req[r].op /\ x.user = req[r].user /\ x.other = req[r].other
  BY <1>1 DEF RequestSlot
<1>3. \A x \in {a, b, c, d} : x.op # "none" => x.user \in Users /\ x.other \in Users
  BY <1>2 DEF TypeInv, RequestInv
<1>4. Is(a) \/ Is(b) \/ Is(c) \/ Is(d)
  BY DEF Goto
<1>5. PICK x \in {a, b, c, d} : Is(x)
  BY <1>4
<1> HIDE DEF a, b, c, d
<1> QED
  BY <1>2, <1>3, <1>5, SlotTypes

LEMMA HandleSlots ==
  ASSUME TypeInv, NEW r \in Requests, Handle(r)
  PROVE  req' \in [Requests -> RequestSlot] /\ RequestInv'
<1>1. {"create", "members", "ids", "rows", "adding", "delete", "verify", "save", "drop"}
         \subseteq ReqStages
  BY DEF ReqStages
<1>2. /\ members \subseteq Users /\ PlayersOf(req[r].ids) \subseteq Users
      /\ req[r].found \subseteq Matches
  BY DEF TypeInv, TypeOK, PlayersOf, RequestSlot
<1>3. CASE joinCheck(r) \/ joinCreate(r) \/ leaveCheck(r) \/ removeCheck(r)
           \/ transferCheck(r) \/ transferVerify(r) \/ destroyCheck(r)
  <2>1. End(r) \/ \E s \in ReqStages : Goto(r, s)
    BY <1>1, <1>3, Zenon DEF joinCheck, joinCreate, leaveCheck, removeCheck, transferCheck,
       transferVerify, destroyCheck
  <2> QED
    BY <2>1, EndTypes, StageTypes
<1>4. CASE readMembers(r)
  BY <1>1, <1>2, <1>4, EndTypes, StageTypes DEF readMembers
<1>5. CASE readPlayers(r)
  BY <1>1, <1>2, <1>5, StageTypes DEF readPlayers
<1>6. CASE readRows(r)
  BY <1>1, <1>6, StageTypes, {m \in Matches : Together(m, req[r].ids)} \subseteq Matches
  DEF readRows
<1>7. CASE addMatchToClan(r)
  <2>1. CASE End(r)
    BY <2>1, EndTypes
  <2>2. ASSUME NEW m \in req[r].found, req' = [req EXCEPT ![r].found = @ \ {m}]
        PROVE  req' \in [Requests -> RequestSlot] /\ RequestInv'
    <3>1. req[r].found \ {m} \in SUBSET Matches
      BY <1>2
    <3> QED
      BY <1>1, <2>2, <3>1, StageTypes
  <2> QED
    BY <1>7, <2>1, <2>2 DEF addMatchToClan
<1>8. CASE deleteMember(r) \/ transferSave(r) \/ destroy(r)
  BY <1>8, EndTypes DEF deleteMember, transferSave, destroy
<1> QED
  BY <1>3, <1>4, <1>5, <1>6, <1>7, <1>8 DEF Handle

LEMMA HandleTypes ==
  ASSUME TypeInv, NEW r \in Requests, Handle(r)
  PROVE  TypeInv'
<1>1. req' \in [Requests -> RequestSlot] /\ RequestInv'
  BY HandleSlots
<1>6. UNCHANGED <<linked, links>> /\ late' \subseteq late
  BY DEF Handle, joinCheck, joinCreate, readMembers, readPlayers, readRows, addMatchToClan,
     leaveCheck, removeCheck, deleteMember, transferCheck, transferVerify,
     transferSave, destroyCheck, destroy, linkVars
<1>2. UNCHANGED <<rows, jobs, left, worker, asked, clashed>>
  BY DEF Handle, joinCheck, joinCreate, readMembers, readPlayers, readRows, addMatchToClan,
     leaveCheck, removeCheck, deleteMember, transferCheck, transferVerify,
     transferSave, destroyCheck, destroy, clanVars, jobVars
<1>3. WorkerInv'
  BY <1>2 DEF TypeInv, WorkerInv, InHand, NoJob
<1>4. \/ UNCHANGED <<owner, members, clanMatches>>
      \/ joinCreate(r) \/ addMatchToClan(r) \/ deleteMember(r) \/ transferSave(r) \/ destroy(r)
  BY DEF Handle, joinCheck, readMembers, readPlayers, readRows,
     leaveCheck, removeCheck, transferCheck, transferVerify, destroyCheck, clanVars
<1>5. /\ owner' \in Users \cup {NoOne}
      /\ members' \subseteq Users /\ clanMatches' \subseteq Matches
      /\ owner' = NoOne => members' = {} /\ clanMatches' = {}
  <2> USE UsersAssumption DEF TypeInv, TypeOK, RequestInv
  <2>1. CASE UNCHANGED <<owner, members, clanMatches>>
    BY <2>1
  <2>2. CASE joinCreate(r)
    BY <2>2 DEF joinCreate, Stage
  <2>3. CASE addMatchToClan(r)
    <3>1. req[r].found \subseteq Matches
      BY DEF RequestSlot
    <3> QED
      BY <2>3, <3>1 DEF addMatchToClan
  <2>4. CASE deleteMember(r) \/ destroy(r)
    BY <2>4 DEF deleteMember, destroy
  <2>5. CASE transferSave(r)
    BY <2>5 DEF transferSave, Stage
  <2> QED
    BY <1>4, <2>1, <2>2, <2>3, <2>4, <2>5
<1> QED
  BY <1>1, <1>2, <1>3, <1>5, <1>6 DEF TypeInv, TypeOK

\* The match in hand, and what ends its job.
LEMMA JobOverTypes ==
  ASSUME TypeInv, worker.stage # "idle", JobOver, UNCHANGED jobs
  PROVE  /\ left' \in [Matches -> 0..MaxJobs] /\ worker' \in Job /\ WorkerInv'
         /\ \A m \in Matches : left'[m] = left[m] - InHand(m)
<1> USE DEF TypeInv, TypeOK, WorkerInv
<1>1. \A m \in Matches : left'[m] = left[m] - InHand(m)
  BY DEF InHand, JobOver
<1>2. \A m \in Matches : InHand(m) \in 0..1
  BY DEF InHand
<1>3. \A m \in Matches : left'[m] \in 0..MaxJobs /\ left'[m] <= jobs'[m]
  <2> TAKE m \in Matches
  <2>1. left[m] \in 0..MaxJobs /\ jobs[m] \in 0..MaxJobs /\ MaxJobs \in Nat
    BY BoundsAssumption
  <2> QED
    BY <1>1, <1>2, <2>1
<1>4. left' = [m \in Matches |-> left'[m]]
  BY DEF JobOver
<1>5. worker' = NoJob /\ worker' \in Job
  BY DEF JobOver, NoJob, Job, JobStages
<1>6. \A m \in Matches : InHand(m)' = 0
  BY <1>5 DEF InHand, NoJob
<1>7. WorkerInv'
  BY <1>3, <1>5, <1>6 DEF NoJob
<1> QED
  BY <1>1, <1>3, <1>4, <1>5, <1>7

\* A step of the worker ends the job or is a step to the next stage of it.
LEMMA JobSteps ==
  ASSUME TypeInv, ProcessClanMatch
  PROVE  /\ worker.stage # "idle"
         /\ UNCHANGED <<owner, members, pairs, rows, jobs, linkVars, req, asked, clashed>>
         /\ \/ JobOver
            \/ /\ left' = left /\ worker'.match = worker.match /\ worker'.stage # "idle"
               /\ worker' \in Job
<1> USE DEF TypeInv, TypeOK, Job, JobStages, clanVars
<1>1. CASE jobExists
  BY <1>1 DEF jobExists, WorkerTo
<1>2. CASE jobMembers
  BY <1>2 DEF jobMembers
<1>3. CASE jobPlayers
  BY <1>3 DEF jobPlayers, PlayersOf
<1>4. CASE jobRows
  BY <1>4 DEF jobRows, WorkerTo
<1>5. CASE jobInsert
  BY <1>5 DEF jobInsert
<1> QED
  BY <1>1, <1>2, <1>3, <1>4, <1>5 DEF ProcessClanMatch

LEMMA WorkerTypes ==
  ASSUME TypeInv, ProcessClanMatch
  PROVE  TypeInv'
<1>1. clanMatches' \subseteq Matches /\ (owner = NoOne => clanMatches' = {})
  BY DEF ProcessClanMatch, jobExists, jobMembers, jobPlayers, jobRows, jobInsert, clanVars,
     TypeInv, TypeOK, Job
<1>2. left' \in [Matches -> 0..MaxJobs] /\ worker' \in Job /\ WorkerInv'
  <2>1. CASE JobOver
    BY <2>1, JobSteps, JobOverTypes
  <2>2. CASE /\ left' = left /\ worker'.match = worker.match /\ worker'.stage # "idle"
             /\ worker' \in Job
    BY <2>2, JobSteps DEF TypeInv, TypeOK, WorkerInv, InHand
  <2> QED
    BY <2>1, <2>2, JobSteps
<1> QED
  BY <1>1, <1>2, JobSteps DEF TypeInv, TypeOK, RequestInv, linkVars

\* A request that arrives: its slot, and whom it clashes with.
LEMMA AskSlot ==
  ASSUME TypeInv, NEW r \in Requests, Ask(r)
  PROVE  /\ UNCHANGED <<clanVars, rows, jobVars, linkVars>> /\ req[r].op = "none"
         /\ \A s \in Requests \ {r} : req'[s] = req[s]
         /\ \E x \in RequestSlot :
              /\ req' = [req EXCEPT ![r] = x] /\ req'[r] = x
              /\ x.user \in Users /\ x.other \in Users /\ x.ids = {} /\ x.found = {}
              /\ x.op \in Ops /\ x.stage = "check" /\ (x.op = "leave" => x.other = x.user)
              /\ ~clashed' => ~clashed /\ (x.op \in Removing =>
                                             \A s \in Requests : req[s].op \notin Removing)
<1>1. PICK op \in Ops, user \in Users, other \in Users :
        /\ op \in {"join", "leave", "destroy"} => other = user
        /\ req' = [req EXCEPT ![r] = [NoRequest EXCEPT
             !.op = op, !.user = user, !.other = other, !.stage = "check"]]
        /\ clashed' = (clashed \/ (op \in Removing /\ \E s \in Requests : req[s].op \in Removing))
  BY Zenon DEF Ask
<1> DEFINE x == [NoRequest EXCEPT !.op = op, !.user = user, !.other = other, !.stage = "check"]
<1>2. /\ x \in RequestSlot /\ x.user \in Users /\ x.other \in Users /\ x.ids = {} /\ x.found = {}
      /\ x.op = op /\ x.stage = "check" /\ (x.op = "leave" => x.other = x.user)
  BY <1>1 DEF NoRequest, RequestSlot, ReqStages
<1>3. req' = [req EXCEPT ![r] = x]
  BY <1>1
<1>4. ~clashed' => ~clashed /\ (op \in Removing => \A s \in Requests : req[s].op \notin Removing)
  <2>1. CASE clashed \/ (op \in Removing /\ \E s \in Requests : req[s].op \in Removing)
    <3>1. clashed' = TRUE
      BY <1>1, <2>1, Zenon
    <3> QED
      BY <3>1
  <2>2. CASE ~(clashed \/ (op \in Removing /\ \E s \in Requests : req[s].op \in Removing))
    BY <2>2, Zenon
  <2> QED
    BY <2>1, <2>2, Zenon
<1>5. UNCHANGED <<clanVars, rows, jobVars, linkVars>> /\ req[r].op = "none"
  BY DEF Ask
<1> HIDE DEF x
<1>6. req'[r] = x /\ \A s \in Requests \ {r} : req'[s] = req[s]
  BY <1>3 DEF TypeInv, TypeOK
<1>7. x.op \in Removing => \A s \in Requests : clashed' \/ req[s].op \notin Removing
  BY <1>2, <1>4, Zenon
<1>8. ~clashed' => ~clashed /\ (x.op \in Removing => \A s \in Requests : req[s].op \notin Removing)
  BY <1>4, <1>7, Zenon
<1> QED
  BY <1>2, <1>3, <1>5, <1>6, <1>8, Zenon

LEMMA NextTypes == TypeInv /\ [Next]_vars => TypeInv'
<1> SUFFICES ASSUME TypeInv, [Next]_vars PROVE TypeInv'
  OBVIOUS
<1> USE DEF TypeInv, clanVars, jobVars, linkVars
<1>1. ASSUME NEW r \in Requests, Ask(r) PROVE TypeInv'
  <2>1. UNCHANGED <<owner, members, clanMatches, pairs, rows, jobs, left, worker, linked, late, links>>
    BY <1>1 DEF Ask
  <2>5. req' \in [Requests -> RequestSlot] /\ RequestInv'
    BY <1>1, AskSlot, SlotTypes
  <2>6. clashed' \in BOOLEAN
    BY <1>1, Zenon DEF Ask
  <2>7. asked' \in 0..MaxRequests
    BY <1>1, BoundsAssumption DEF Ask, TypeOK
  <2>8. WorkerInv'
    BY <2>1 DEF WorkerInv, InHand, NoJob
  <2> QED
    BY <2>1, <2>5, <2>6, <2>7, <2>8 DEF TypeOK
<1>2. ASSUME NEW r \in Requests, Handle(r) PROVE TypeInv'
  BY <1>2, HandleTypes
<1>3. ASSUME NEW m \in Matches, NEW u \in Users, createOrUpdatePlayer(m, u) PROVE TypeInv'
  BY <1>3 DEF createOrUpdatePlayer, TypeOK, RequestInv, WorkerInv, InHand, NoJob
<1>4. ASSUME NEW m \in Matches, complete(m) PROVE TypeInv'
  <2>1. jobs' \in [Matches -> 0..MaxJobs] /\ left' \in [Matches -> 0..MaxJobs] /\ WorkerInv'
    BY <1>4, BoundsAssumption DEF complete, TypeOK, WorkerInv, InHand, NoJob
  <2> QED
    BY <1>4, <2>1 DEF complete, TypeOK, RequestInv
<1>5. ASSUME NEW m \in Matches, StartJob(m) PROVE TypeInv'
  <2>1. worker' = [match |-> {m}, stage |-> "exists", ids |-> {}]
    BY <1>5 DEF StartJob, NoJob
  <2>2. \A n \in Matches : InHand(n)' = IF n = m THEN 1 ELSE 0
    BY <2>1 DEF InHand
  <2>3. WorkerInv'
    BY <1>5, <2>1, <2>2 DEF StartJob, WorkerInv, TypeOK
  <2>4. worker' \in Job
    BY <2>1 DEF Job, JobStages
  <2> QED
    BY <1>5, <2>3, <2>4 DEF StartJob, TypeOK, RequestInv
<1>6. CASE ProcessClanMatch
  BY <1>6, WorkerTypes
<1>7. CASE UNCHANGED vars
  BY <1>7 DEF vars, TypeOK, RequestInv, WorkerInv, InHand, NoJob
<1>8. ASSUME NEW u \in Users, linkSteam(u) \/ unlinkSteam(u) PROVE TypeInv'
  <2>1. /\ linked' \subseteq Users /\ late' \subseteq Users /\ links' \in 0..MaxLinks
        /\ UNCHANGED <<owner, members, clanMatches, rows, jobs, left, worker, req, asked, clashed>>
    BY <1>8, BoundsAssumption DEF linkSteam, unlinkSteam, TypeOK
  <2> QED
    BY <2>1 DEF TypeOK, RequestInv, WorkerInv, InHand, NoJob
<1> QED
  BY <1>1, <1>2, <1>3, <1>4, <1>5, <1>6, <1>7, <1>8 DEF Next

LEMMA TypeInvariant == Spec => []TypeInv
  BY InitTypes, NextTypes, PTL DEF Spec

\* The clan, the requests and the worker have their types: a deleted clan has
\* neither members nor matches (the foreign keys of its tables).
THEOREM ClanTypes == Spec => []TypeOK
  BY TypeInvariant, PTL DEF TypeInv

-----------------------------------------------------------------------------
(* Somebody is still looking.                                                *)

LEMMA TwoMembers ==
  ASSUME TypeOK, NEW u \in members, NEW v \in members, u # v
  PROVE  ~(Cardinality(members) < 2)
<1>1. IsFiniteSet(members)
  BY UsersAssumption, FS_Subset DEF TypeOK
<1>2. IsFiniteSet({u}) /\ Cardinality({u}) = 1
  BY FS_Singleton
<1>3. IsFiniteSet({u} \cup {v}) /\ Cardinality({u} \cup {v}) = 2
  BY <1>2, FS_AddElement, v \notin {u}
<1>4. {u} \cup {v} \subseteq members
  OBVIOUS
<1>5. Cardinality({u} \cup {v}) <= Cardinality(members)
  BY <1>1, <1>4, FS_Subset
<1>6. Cardinality(members) \in Nat
  BY <1>1, FS_CardinalityType
<1> QED
  BY <1>3, <1>5, <1>6

\* The steps of a request.  Two that were members and are still sought are so
\* after it, unless it is the request that looked for them; then it still does,
\* or the clan has the match.
LEMMA HandleSought ==
  ASSUME TypeInv, SoughtInv, NEW r \in Requests, Handle(r)
  PROVE  SoughtInv'
<1> SUFFICES ASSUME NEW m \in Matches, NEW u \in Steady', NEW v \in Steady',
                    u # v, jobs'[m] > 0, Played(u, v, m)'
             PROVE  Sought(u, v, m)'
  BY DEF SoughtInv
<1>0. /\ UNCHANGED <<rows, jobs, left, worker, linked>> /\ Played(u, v, m) /\ jobs[m] > 0
      /\ \A s \in Requests \ {r} : req'[s] = req[s]
      /\ InHand(m)' = InHand(m) /\ ByWorker(u, v, m)' = ByWorker(u, v, m)
  <2>1. UNCHANGED <<rows, jobs, left, worker, linked>>
    BY DEF Handle, joinCheck, joinCreate, readMembers, readPlayers, readRows, addMatchToClan,
       leaveCheck, removeCheck, deleteMember, transferCheck, transferVerify,
       transferSave, destroyCheck, destroy, jobVars, linkVars
  <2>2. \A s \in Requests \ {r} : req'[s] = req[s]
    BY DEF Handle, joinCheck, joinCreate, readMembers, readPlayers, readRows, addMatchToClan,
       leaveCheck, removeCheck, deleteMember, transferCheck, transferVerify,
       transferSave, destroyCheck, destroy, Goto, End, TypeInv, TypeOK
  <2> QED
    BY <2>1, <2>2 DEF Played, InHand, ByWorker
<1>1. CASE joinCreate(r) /\ Goto(r, "members")
  <2>1. ByRequest(r, u, v, m)'
    BY <1>1 DEF joinCreate, Goto, Stage, ByRequest, TypeInv, TypeOK, RequestSlot
  <2> QED
    BY <2>1 DEF Sought
\* Otherwise nobody has joined, and the two were sought.
<1>2. CASE ~(joinCreate(r) /\ Goto(r, "members"))
  <2>1. members' \subseteq members /\ late' = late
    BY <1>2 DEF Handle, joinCheck, joinCreate, readMembers, readPlayers, readRows, addMatchToClan,
       leaveCheck, removeCheck, deleteMember, transferCheck, transferVerify,
       transferSave, destroyCheck, destroy, clanVars, linkVars
  <2>2. /\ u \in members /\ v \in members /\ owner # NoOne
        /\ u \in Steady /\ v \in Steady /\ {u, v} \subseteq linked
    <3>1. {u, v} \subseteq Steady
      BY <1>0, <2>1 DEF Steady
    <3> QED
      BY <3>1 DEF TypeInv, TypeOK, Steady
  <2>3. Sought(u, v, m)
    BY <1>0, <2>2 DEF SoughtInv
  <2>4. clanMatches \subseteq clanMatches'
    BY <2>2 DEF Steady, Handle, joinCheck, joinCreate, readMembers, readPlayers, readRows, addMatchToClan,
       leaveCheck, removeCheck, deleteMember, transferCheck, transferVerify,
       transferSave, destroyCheck, destroy, clanVars
  <2>5. CASE ~ByRequest(r, u, v, m)
    BY <1>0, <2>3, <2>4, <2>5 DEF Sought, ByRequest
  <2>6. CASE ByRequest(r, u, v, m)
    <3>1. readMembers(r) \/ readPlayers(r) \/ readRows(r) \/ addMatchToClan(r)
      BY <2>6, Zenon DEF Handle, joinCheck, joinCreate, leaveCheck, removeCheck, deleteMember,
         transferCheck, transferVerify, transferSave, destroyCheck, destroy, Stage, ByRequest
    <3>2. r \in DOMAIN req /\ req[r] \in RequestSlot
      BY DEF TypeInv, TypeOK
    <3>3. CASE readMembers(r)
      <4>1. req' = [req EXCEPT ![r].stage = "ids", ![r].ids = members]
        BY <2>2, <3>3, TwoMembers DEF readMembers, TypeInv
      <4> QED
        BY <2>2, <2>6, <3>2, <4>1 DEF ByRequest, Sought, RequestSlot
    <3>4. CASE readPlayers(r)
      <4>1. req' = [req EXCEPT ![r].stage = "rows", ![r].ids = PlayersOf(req[r].ids)]
        BY <3>4 DEF readPlayers
      <4>2. {u, v} \subseteq req[r].ids
        BY <2>6, <3>4 DEF ByRequest, readPlayers, Stage
      <4>3. {u, v} \subseteq PlayersOf(req[r].ids)
        BY <1>0, <2>2, <4>2 DEF PlayersOf, Played
      <4> QED
        BY <2>6, <3>2, <4>1, <4>3 DEF ByRequest, Sought, RequestSlot
    <3>5. CASE readRows(r)
      <4>1. {u, v} \subseteq req[r].ids
        BY <2>6, <3>5 DEF ByRequest, readRows, Stage
      <4>2. m \in {n \in Matches : Together(n, req[r].ids)}
        BY <1>0, <4>1 DEF Together, Played
      <4>3. req' = [req EXCEPT ![r].stage = "adding",
                              ![r].found = {n \in Matches : Together(n, req[r].ids)}]
        BY <3>5 DEF readRows
      <4> HIDE DEF Together
      <4> QED
        BY <2>6, <3>2, <4>2, <4>3 DEF ByRequest, Sought, RequestSlot
    <3>6. CASE addMatchToClan(r)
      <4>1. m \in req[r].found
        BY <2>6, <3>6 DEF ByRequest, addMatchToClan, Stage
      <4>2. PICK n \in req[r].found : /\ clanMatches' = clanMatches \cup {n}
                                      /\ req' = [req EXCEPT ![r].found = @ \ {n}]
        BY <2>2, <3>6, <4>1 DEF addMatchToClan
      <4>3. CASE m = n
        BY <4>2, <4>3 DEF Sought
      <4>4. CASE m # n
        BY <2>6, <3>2, <3>6, <4>1, <4>2, <4>4 DEF ByRequest, Sought, RequestSlot, addMatchToClan, Stage
      <4> QED
        BY <4>3, <4>4
    <3> QED
      BY <3>1, <3>3, <3>4, <3>5, <3>6
  <2> QED
    BY <2>5, <2>6
<1> QED
  BY <1>1, <1>2

\* The steps of the worker, which may end the job for want of members or of a
\* match, but not if they were among those it had read.
LEMMA WorkerSought ==
  ASSUME TypeInv, SoughtInv, ProcessClanMatch
  PROVE  SoughtInv'
<1> SUFFICES ASSUME NEW m \in Matches, NEW u \in Steady, NEW v \in Steady,
                    u # v, jobs[m] > 0, Played(u, v, m), Sought(u, v, m)
             PROVE  Sought(u, v, m)'
  BY JobSteps DEF SoughtInv, Played, Steady, linkVars
<1>0. u \in members /\ v \in members /\ {u, v} \subseteq linked
  BY DEF Steady
<1>1. owner # NoOne /\ worker \in Job /\ worker.stage # "idle" /\ UNCHANGED <<rows, req>>
  BY <1>0, JobSteps DEF TypeInv, TypeOK
<1>2. \A r \in Requests : ByRequest(r, u, v, m)' = ByRequest(r, u, v, m)
  BY <1>1 DEF ByRequest
<1>3. clanMatches \subseteq clanMatches'
  BY <1>1 DEF ProcessClanMatch, jobExists, jobMembers, jobPlayers, jobRows, jobInsert, clanVars
<1>4. InHand(m) \in 0..1 /\ left[m] \in Nat
  BY DEF InHand, TypeInv, TypeOK
<1>5. left[m] > InHand(m) => left'[m] > InHand(m)'
  <2>1. CASE JobOver
    BY <1>1, <1>4, <2>1, JobOverTypes, JobSteps DEF InHand, JobOver, NoJob
  <2>2. CASE left' = left /\ worker'.match = worker.match
    BY <2>2 DEF InHand
  <2> QED
    BY <2>1, <2>2, JobSteps
<1>6. CASE ~ByWorker(u, v, m)
  BY <1>2, <1>3, <1>5, <1>6 DEF Sought
<1>7. CASE ByWorker(u, v, m)
  <2>1. worker.match = {m}
    BY <1>7 DEF ByWorker
  <2>2. CASE jobExists
    <3>1. CASE m \in clanMatches
      BY <1>3, <3>1 DEF Sought
    <3>2. CASE m \notin clanMatches
      <4>1. worker' = [worker EXCEPT !.stage = "members"]
        BY <1>1, <2>1, <2>2, <3>2 DEF jobExists, WorkerTo
      <4> QED
        BY <1>1, <2>1, <4>1 DEF Job, ByWorker, Sought
    <3> QED
      BY <3>1, <3>2
  <2>3. CASE jobMembers
    <3>1. worker' = [worker EXCEPT !.stage = "ids", !.ids = members]
      BY <1>0, <2>3, TwoMembers DEF jobMembers, TypeInv
    <3>2. ByWorker(u, v, m)'
      BY <1>0, <1>1, <2>1, <3>1 DEF Job, ByWorker
    <3> QED
      BY <3>2 DEF Sought
  <2>4. CASE jobPlayers
    <3>1. worker' = [worker EXCEPT !.stage = "rows", !.ids = PlayersOf(worker.ids)]
      BY <2>4 DEF jobPlayers
    <3>2. {u, v} \subseteq worker.ids
      BY <1>7, <2>4 DEF ByWorker, jobPlayers
    <3>3. {u, v} \subseteq PlayersOf(worker.ids)
      BY <1>0, <3>2 DEF PlayersOf, Played
    <3> QED
      BY <1>1, <2>1, <3>1, <3>3 DEF Job, ByWorker, Sought
  <2>5. CASE jobRows
    <3>1. {u, v} \subseteq worker.ids
      BY <1>7, <2>5 DEF ByWorker, jobRows
    <3>2. \A n \in worker.match : Together(n, worker.ids)
      BY <2>1, <3>1 DEF Together, Played
    <3>3. worker' = [worker EXCEPT !.stage = "insert"]
      BY <2>5, <3>2 DEF jobRows, WorkerTo
    <3> QED
      BY <1>1, <2>1, <3>3 DEF Job, ByWorker, Sought
  <2>6. CASE jobInsert
    BY <1>1, <2>1, <2>6 DEF jobInsert, Sought
  <2> QED
    BY <2>2, <2>3, <2>4, <2>5, <2>6 DEF ProcessClanMatch
<1> QED
  BY <1>6, <1>7

LEMMA InitSought == Init => SoughtInv
  BY DEF Init, SoughtInv

LEMMA NextSought == TypeInv /\ SoughtInv /\ [Next]_vars => SoughtInv'
<1> SUFFICES ASSUME TypeInv, SoughtInv, [Next]_vars PROVE SoughtInv'
  OBVIOUS
<1>1. ASSUME NEW r \in Requests, Ask(r) PROVE SoughtInv'
  <2>1. /\ UNCHANGED <<members, clanMatches, rows, jobs, left, worker, linked, late>>
        /\ req[r].op = "none" /\ \A s \in Requests \ {r} : req'[s] = req[s]
    BY <1>1 DEF Ask, clanVars, jobVars, linkVars, TypeInv, TypeOK
  <2>2. \A u, v, m : \A s \in Requests : ByRequest(s, u, v, m) => ByRequest(s, u, v, m)'
    BY <2>1 DEF ByRequest
  <2>3. \A u, v, m : Sought(u, v, m) => Sought(u, v, m)'
    BY <2>1, <2>2 DEF Sought, ByWorker, InHand
  <2> QED
    BY <2>1, <2>3 DEF SoughtInv, Played, Steady
<1>2. ASSUME NEW r \in Requests, Handle(r) PROVE SoughtInv'
  BY <1>2, HandleSought
\* A match gets no rows after its first job.
<1>3. ASSUME NEW n \in Matches, NEW w \in Users, createOrUpdatePlayer(n, w) PROVE SoughtInv'
  <2>1. /\ UNCHANGED <<clanMatches, members, jobs, left, worker, linked, late, req>> /\ jobs[n] = 0
        /\ rows' = rows \cup {<<n, w>>}
    BY <1>3 DEF createOrUpdatePlayer, clanVars, jobVars, linkVars
  <2>2. \A u, v, m : Sought(u, v, m)' = Sought(u, v, m)
    BY <2>1 DEF Sought, ByWorker, ByRequest, InHand
  <2>3. \A u, v, m : jobs[m] > 0 /\ Played(u, v, m)' => Played(u, v, m)
    BY <2>1 DEF Played
  <2> QED
    BY <2>1, <2>2, <2>3 DEF SoughtInv, Steady
\* Its jobs are all to do.
<1>4. ASSUME NEW n \in Matches, complete(n) PROVE SoughtInv'
  <2>1. /\ UNCHANGED <<clanMatches, members, rows, worker, linked, late, req>>
        /\ left' = [left EXCEPT ![n] = @ + 1] /\ jobs' = [jobs EXCEPT ![n] = @ + 1]
    BY <1>4 DEF complete, clanVars, linkVars
  <2>2. \A m \in Matches : InHand(m)' = InHand(m) /\ left[m] \in Nat /\ InHand(m) <= left[m]
    BY <2>1 DEF InHand, TypeInv, TypeOK, WorkerInv
  <2>3. left'[n] > InHand(n)'
    <3>1. left'[n] = left[n] + 1
      BY <2>1 DEF TypeInv, TypeOK
    <3>2. InHand(n) \in 0..1
      BY DEF InHand
    <3> QED
      BY <2>2, <3>1, <3>2
  <2>4. \A m \in Matches \ {n} : left'[m] = left[m] /\ jobs'[m] = jobs[m]
    BY <2>1 DEF TypeInv, TypeOK
  <2>5. \A u, v : \A m \in Matches : Sought(u, v, m) => Sought(u, v, m)'
    BY <2>1, <2>2, <2>3, <2>4 DEF Sought, ByWorker, ByRequest
  <2>6. \A u, v : Sought(u, v, n)'
    BY <2>3 DEF Sought
  <2> QED
    BY <2>1, <2>4, <2>5, <2>6 DEF SoughtInv, Played, Steady
<1>5. ASSUME NEW n \in Matches, StartJob(n) PROVE SoughtInv'
  <2>1. /\ UNCHANGED <<clanMatches, members, rows, jobs, left, linked, late, req>> /\ worker = NoJob
        /\ worker' = [match |-> {n}, stage |-> "exists", ids |-> {}]
    BY <1>5 DEF StartJob, NoJob, clanVars, linkVars
  <2>2. \A u, v : \A m \in Matches : Sought(u, v, m) => Sought(u, v, m)'
    BY <2>1 DEF Sought, ByWorker, ByRequest, InHand, NoJob
  <2> QED
    BY <2>1, <2>2 DEF SoughtInv, Played, Steady
<1>6. CASE ProcessClanMatch
  BY <1>6, WorkerSought
<1>7. CASE UNCHANGED vars
  BY <1>7 DEF vars, clanVars, jobVars, linkVars, SoughtInv, Played, Sought, ByWorker, ByRequest, InHand,
     Steady
\* Who links while a member is not relied upon.
<1>8. ASSUME NEW w \in Users, linkSteam(w) \/ unlinkSteam(w) PROVE SoughtInv'
  <2>1. UNCHANGED <<clanMatches, members, rows, jobs, left, worker, req>> /\ Steady' \subseteq Steady
    BY <1>8 DEF linkSteam, unlinkSteam, clanVars, jobVars, Steady
  <2> QED
    BY <2>1 DEF SoughtInv, Played, Sought, ByWorker, ByRequest, InHand
<1> QED
  BY <1>1, <1>2, <1>3, <1>4, <1>5, <1>6, <1>7, <1>8 DEF Next

\* When nobody searches and no job of a match is left, nobody is looking, so
\* the clan has it if two members who have had their accounts linked since they
\* joined shared it: whichever of joining and completing came first, and however
\* the two searches interleaved (ClanService::findMatchesForClan,
\* ProcessClanMatch).
THEOREM MatchesFound == Spec => []SharedMatchesFound
<1>1. TypeInv /\ SoughtInv => SharedMatchesFound
  <2> SUFFICES ASSUME TypeInv, SoughtInv, ~Searching, NEW m \in Matches,
                      jobs[m] > 0, left[m] = 0, Together(m, Steady)
               PROVE  m \in clanMatches
    BY DEF SharedMatchesFound
  <2>1. PICK u, v \in Steady : u # v /\ Played(u, v, m)
    BY DEF Together, Played
  <2>2. Sought(u, v, m)
    BY <2>1 DEF SoughtInv
  <2>3. InHand(m) = 0 /\ ~ByWorker(u, v, m)
    BY DEF InHand, ByWorker, TypeInv, WorkerInv
  <2>4. \A r \in Requests : ~ByRequest(r, u, v, m)
    BY DEF Searching, ByRequest
  <2> QED
    BY <2>2, <2>3, <2>4 DEF Sought
<1> QED
  BY <1>1, InitSought, NextSought, TypeInvariant, PTL DEF Spec

-----------------------------------------------------------------------------
(* What is found was earned.                                                 *)

LEMMA InitEarned == Init => EarnedInv
<1> SUFFICES ASSUME Init PROVE EarnedInv
  OBVIOUS
<1>1. AtOnce(members)
  BY DEF Init, AtOnce, Pairs
<1> QED
  BY <1>1 DEF Init, EarnedInv, AtOnce, NoRequest, NoJob

\* Two of those read, with their rows on one team, earn the match.
LEMMA TogetherEarned ==
  ASSUME TypeOK, EarnedInv, NEW us \in SUBSET Users, AtOnce(us), NEW m \in Matches, Together(m, us)
  PROVE  Earned(m)
<1>1. PICK u, v \in us :
        u # v /\ {<<m, u>>, <<m, v>>} \subseteq rows /\ TeamOf[m][u] = TeamOf[m][v]
  BY DEF Together
<1>2. {u, v} \in pairs /\ {u, v} \subseteq DOMAIN TeamOf[m]
  BY <1>1 DEF AtOnce, EarnedInv
<1> QED
  BY <1>1, <1>2 DEF Earned

\* Pairs are never forgotten.
LEMMA EarnedStays ==
  ASSUME pairs \subseteq pairs'
  PROVE  /\ \A m : Earned(m) => Earned(m)'
         /\ \A us : AtOnce(us) => \A u, v \in us : {u, v} \in pairs'
  BY DEF Earned, AtOnce

LEMMA PairsGrow == TypeInv /\ [Next]_vars => pairs \subseteq pairs'
<1> SUFFICES ASSUME TypeInv, [Next]_vars PROVE pairs \subseteq pairs'
  OBVIOUS
<1>1. ASSUME NEW r \in Requests, Ask(r) \/ Handle(r) PROVE pairs \subseteq pairs'
  BY <1>1 DEF Ask, Handle, joinCheck, joinCreate, readMembers, readPlayers, readRows, addMatchToClan,
     leaveCheck, removeCheck, deleteMember, transferCheck, transferVerify,
     transferSave, destroyCheck, destroy, clanVars
<1>2. CASE ProcessClanMatch
  BY <1>2, JobSteps
<1>3. ASSUME NEW m \in Matches, NEW u \in Users,
             createOrUpdatePlayer(m, u) \/ complete(m) \/ StartJob(m)
      PROVE  pairs \subseteq pairs'
  BY <1>3 DEF createOrUpdatePlayer, complete, StartJob, clanVars
<1>4. ASSUME NEW m \in Matches, complete(m) \/ StartJob(m) PROVE pairs \subseteq pairs'
  BY <1>4 DEF complete, StartJob, clanVars
<1>5. ASSUME NEW u \in Users, linkSteam(u) \/ unlinkSteam(u) PROVE pairs \subseteq pairs'
  BY <1>5 DEF linkSteam, unlinkSteam, clanVars
<1> QED
  BY <1>1, <1>2, <1>3, <1>4, <1>5 DEF Next, vars, clanVars

\* What holds of the slots holds if it does of the one that changes.
RequestEarned(x) == (\A u, v \in x.ids : {u, v} \in pairs) /\ \A m \in x.found : Earned(m)

LEMMA HandleEarned ==
  ASSUME TypeInv, EarnedInv, NEW r \in Requests, Handle(r), [Next]_vars
  PROVE  EarnedInv'
<1> USE DEF AtOnce
<1>1. UNCHANGED <<rows, worker>>
  BY DEF Handle, joinCheck, joinCreate, readMembers, readPlayers, readRows, addMatchToClan,
     leaveCheck, removeCheck, deleteMember, transferCheck, transferVerify,
     transferSave, destroyCheck, destroy, jobVars
<1>2. pairs \subseteq pairs' /\ \A m : Earned(m) => Earned(m)'
  BY PairsGrow, EarnedStays
<1>3. AtOnce(members)'
  <2>1. CASE members' \subseteq members
    BY <1>2, <2>1 DEF EarnedInv
  <2>2. CASE pairs' = pairs \cup Pairs(members')
    BY <2>2 DEF Pairs
  <2> QED
    BY <2>1, <2>2 DEF Handle, joinCheck, joinCreate, readMembers, readPlayers, readRows, addMatchToClan,
       leaveCheck, removeCheck, deleteMember, transferCheck, transferVerify,
       transferSave, destroyCheck, destroy, clanVars
<1>4. r \in DOMAIN req /\ req[r] \in RequestSlot /\ members \subseteq Users
  BY DEF TypeInv, TypeOK
<1>5. RequestEarned(req[r])
  BY DEF EarnedInv, RequestEarned
<1>6. /\ \A s \in Requests \ {r} : req'[s] = req[s]
      /\ RequestEarned(req'[r]) /\ \A m \in clanMatches' : Earned(m)
  <2>1. CASE addMatchToClan(r)
    <3>1. clanMatches' \subseteq clanMatches \cup req[r].found
      BY <2>1 DEF addMatchToClan
    <3>2. \/ End(r)
          \/ \E m \in req[r].found : req' = [req EXCEPT ![r].found = @ \ {m}]
      BY <2>1 DEF addMatchToClan
    <3>3. /\ \A s \in Requests \ {r} : req'[s] = req[s]
          /\ req'[r].found \subseteq req[r].found /\ req'[r].ids \subseteq req[r].ids
      BY <1>4, <3>2 DEF End, NoRequest, TypeInv, TypeOK, RequestSlot
    <3> QED
      BY <1>5, <3>1, <3>3 DEF RequestEarned, EarnedInv
  <2>2. CASE readMembers(r)
    <3>1. End(r) \/ req' = [req EXCEPT ![r].stage = "ids", ![r].ids = members]
      BY <2>2 DEF readMembers
    <3>2. /\ \A s \in Requests \ {r} : req'[s] = req[s]
          /\ req'[r].found \subseteq req[r].found /\ req'[r].ids \subseteq members
      <4>1. CASE End(r)
        BY <1>4, <4>1 DEF End, NoRequest, TypeInv, TypeOK, RequestSlot
      <4>2. CASE req' = [req EXCEPT ![r].stage = "ids", ![r].ids = members]
        BY <1>4, <4>2 DEF TypeInv, TypeOK, RequestSlot
      <4> QED
        BY <3>1, <4>1, <4>2
    <3> QED
      BY <1>5, <2>2, <3>2 DEF RequestEarned, EarnedInv, readMembers, clanVars
  <2>3. CASE readPlayers(r)
    <3>1. /\ \A s \in Requests \ {r} : req'[s] = req[s]
          /\ req'[r].found = req[r].found /\ req'[r].ids \subseteq req[r].ids
      BY <1>4, <2>3 DEF readPlayers, TypeInv, TypeOK, RequestSlot, PlayersOf
    <3> QED
      BY <1>5, <2>3, <3>1 DEF RequestEarned, EarnedInv, readPlayers, clanVars
  <2>4. CASE readRows(r)
    <3>1. \A m \in {n \in Matches : Together(n, req[r].ids)} : Earned(m)
      BY <1>4, TogetherEarned DEF TypeInv, EarnedInv, RequestSlot
    <3> HIDE DEF Together
    <3>2. req' = [req EXCEPT ![r].stage = "adding", ![r].found = {n \in Matches : Together(n, req[r].ids)}]
      BY <2>4 DEF readRows
    <3>3. /\ \A s \in Requests \ {r} : req'[s] = req[s]
          /\ req'[r].found = {n \in Matches : Together(n, req[r].ids)} /\ req'[r].ids = req[r].ids
      BY <1>4, <3>2 DEF TypeInv, TypeOK, RequestSlot
    <3> QED
      BY <1>5, <2>4, <3>1, <3>3 DEF RequestEarned, EarnedInv, readRows, clanVars
  <2>5. CASE ~(addMatchToClan(r) \/ readMembers(r) \/ readPlayers(r) \/ readRows(r))
    <3>1. clanMatches' \subseteq clanMatches /\ (End(r) \/ \E s \in ReqStages : Goto(r, s))
      BY <2>5 DEF Handle, joinCheck, joinCreate, leaveCheck, removeCheck, deleteMember, transferCheck,
         transferVerify, transferSave, destroyCheck, destroy, clanVars, ReqStages
    <3>2. /\ \A s \in Requests \ {r} : req'[s] = req[s]
          /\ req'[r].found \subseteq req[r].found /\ req'[r].ids \subseteq req[r].ids
      BY <1>4, <3>1 DEF End, Goto, NoRequest, TypeInv, TypeOK, RequestSlot
    <3> QED
      BY <1>5, <3>1, <3>2 DEF RequestEarned, EarnedInv
  <2> QED
    BY <2>1, <2>2, <2>3, <2>4, <2>5
<1>7. \A s \in Requests : RequestEarned(req'[s])
  BY <1>6 DEF EarnedInv, RequestEarned
<1>8. \A s \in Requests : AtOnce(req[s].ids)' /\ \A m \in req'[s].found : Earned(m)'
  BY <1>2, <1>7 DEF RequestEarned
<1> QED
  BY <1>1, <1>2, <1>3, <1>6, <1>8 DEF EarnedInv

LEMMA WorkerEarned ==
  ASSUME TypeInv, EarnedInv, ProcessClanMatch
  PROVE  EarnedInv'
<1> USE DEF AtOnce
<1>1. UNCHANGED <<members, pairs, rows, req>> /\ worker \in Job
  BY JobSteps DEF TypeInv, TypeOK
<1>2. \A m : Earned(m)' = Earned(m)
  BY <1>1 DEF Earned
<1>3. AtOnce(worker.ids)'
  <2>1. CASE JobOver
    BY <2>1 DEF JobOver, NoJob
  <2>2. CASE jobExists \/ jobRows \/ jobInsert
    BY <1>1, <2>1, <2>2 DEF jobExists, jobRows, jobInsert, WorkerTo, EarnedInv, Job
  <2>3. CASE jobMembers
    BY <1>1, <2>1, <2>3 DEF jobMembers, EarnedInv, Job
  <2>4. CASE jobPlayers
    BY <1>1, <2>4 DEF jobPlayers, PlayersOf, EarnedInv, Job
  <2> QED
    BY <2>2, <2>3, <2>4 DEF ProcessClanMatch
<1>4. worker'.stage = "insert" => \A m \in worker'.match : Earned(m)
  <2>1. CASE jobRows
    <3>1. (\A m \in worker.match : Together(m, worker.ids)) => \A m \in worker.match : Earned(m)
      BY <1>1, TogetherEarned DEF Job, EarnedInv, TypeInv
    <3> HIDE DEF Together
    <3> QED
      BY <1>1, <2>1, <3>1 DEF jobRows, JobOver, WorkerTo, NoJob, Job
  <2>2. CASE JobOver
    BY <2>2 DEF JobOver, NoJob
  <2>3. CASE jobExists \/ jobInsert
    BY <1>1, <2>2, <2>3 DEF jobExists, jobInsert, WorkerTo, Job
  <2>4. CASE jobMembers
    BY <1>1, <2>2, <2>4 DEF jobMembers, Job
  <2>5. CASE jobPlayers
    BY <1>1, <2>5 DEF jobPlayers, Job
  <2> QED
    BY <2>1, <2>3, <2>4, <2>5 DEF ProcessClanMatch
<1>5. \A m \in clanMatches' : Earned(m)
  BY DEF ProcessClanMatch, jobExists, jobMembers, jobPlayers, jobRows, jobInsert, clanVars, EarnedInv
<1> QED
  BY <1>1, <1>2, <1>3, <1>4, <1>5 DEF EarnedInv

LEMMA NextEarned == TypeInv /\ EarnedInv /\ [Next]_vars => EarnedInv'
<1> SUFFICES ASSUME TypeInv, EarnedInv, [Next]_vars PROVE EarnedInv'
  OBVIOUS
<1>1. ASSUME NEW r \in Requests, Ask(r) PROVE EarnedInv'
  <2>1. /\ UNCHANGED <<clanVars, rows, worker>>
        /\ \A s \in Requests : req'[s] = req[s] \/ (req'[s].ids = {} /\ req'[s].found = {})
    BY <1>1, AskSlot DEF jobVars
  <2> QED
    BY <2>1 DEF EarnedInv, AtOnce, Earned, clanVars
<1>2. ASSUME NEW r \in Requests, Handle(r) PROVE EarnedInv'
  BY <1>2, HandleEarned
<1>3. ASSUME NEW n \in Matches, NEW w \in Users, createOrUpdatePlayer(n, w) PROVE EarnedInv'
  BY <1>3 DEF createOrUpdatePlayer, EarnedInv, AtOnce, Earned, clanVars, jobVars
<1>4. ASSUME NEW n \in Matches, complete(n) \/ StartJob(n) PROVE EarnedInv'
  <2>1. CASE complete(n)
    BY <2>1 DEF complete, EarnedInv, AtOnce, Earned, clanVars
  <2>2. CASE StartJob(n)
    <3>1. worker' = [match |-> {n}, stage |-> "exists", ids |-> {}]
      BY <2>2 DEF StartJob, NoJob
    <3> QED
      BY <2>2, <3>1 DEF StartJob, EarnedInv, AtOnce, Earned, clanVars
  <2> QED
    BY <1>4, <2>1, <2>2
<1>5. CASE ProcessClanMatch
  BY <1>5, WorkerEarned
<1>6. CASE UNCHANGED vars
  BY <1>6 DEF vars, clanVars, jobVars, EarnedInv, AtOnce, Earned
<1>7. ASSUME NEW w \in Users, linkSteam(w) \/ unlinkSteam(w) PROVE EarnedInv'
  BY <1>7 DEF linkSteam, unlinkSteam, clanVars, jobVars, EarnedInv, AtOnce, Earned
<1> QED
  BY <1>1, <1>2, <1>3, <1>4, <1>5, <1>6, <1>7 DEF Next

\* The clan has only matches that two users who were members at one time played
\* on one team, although members, players and rows are read one after the other
\* (havingRaw, grouped by match and team).
THEOREM OnlyEarnedMatches == Spec => []MatchesEarned
<1>1. EarnedInv => MatchesEarned
  BY DEF EarnedInv, MatchesEarned, Earned
<1> QED
  BY <1>1, InitEarned, NextEarned, TypeInvariant, PTL DEF Spec

-----------------------------------------------------------------------------
(* The owner.                                                                *)

LEMMA InitOwner == Init => OwnerInv
  BY UsersAssumption DEF Init, OwnerInv, NoRequest, Removing

\* A request that may change the owner or remove a member is the only one that
\* does: what it checked, holds.
LEMMA HandleOwner ==
  ASSUME TypeInv, OwnerInv, NEW r \in Requests, Handle(r)
  PROVE  OwnerInv'
<1> SUFFICES ASSUME ~clashed' PROVE OwnerInv'
  BY DEF OwnerInv
<1>1. ~clashed
  BY DEF Handle, joinCheck, joinCreate, readMembers, readPlayers, readRows, addMatchToClan,
     leaveCheck, removeCheck, deleteMember, transferCheck, transferVerify,
     transferSave, destroyCheck, destroy
<1>2. /\ r \in DOMAIN req /\ req[r] \in RequestSlot /\ owner \in Users \cup {NoOne}
      /\ req[r].op # "none" => req[r].user \in Users /\ req[r].other \in Users
      /\ owner = NoOne => members = {}
  BY DEF TypeInv, TypeOK, RequestInv
<1>3. /\ \A s \in Requests \ {r} : req'[s] = req[s]
      /\ \/ End(r)
         \/ /\ req'[r].op = req[r].op /\ req'[r].user = req[r].user /\ req'[r].other = req[r].other
            /\ UNCHANGED owner /\ members \subseteq members'
  <2> USE <1>2 DEF TypeInv, TypeOK, RequestSlot, Goto, clanVars
  <2>1. CASE joinCheck(r) \/ joinCreate(r)
    BY <2>1 DEF joinCheck, joinCreate, End
  <2>2. CASE readMembers(r) \/ readPlayers(r)
    BY <2>2 DEF readMembers, readPlayers, End
  <2>3. CASE readRows(r) \/ addMatchToClan(r)
    BY <2>3 DEF readRows, addMatchToClan, End
  <2>4. CASE leaveCheck(r) \/ removeCheck(r) \/ transferCheck(r) \/ transferVerify(r) \/ destroyCheck(r)
    BY <2>4 DEF leaveCheck, removeCheck, transferCheck, transferVerify, destroyCheck, End
  <2>5. CASE deleteMember(r) \/ transferSave(r) \/ destroy(r)
    BY <2>5 DEF deleteMember, transferSave, destroy, End
  <2> QED
    BY <2>1, <2>2, <2>3, <2>4, <2>5 DEF Handle
<1>4. req'[r].op \in {req[r].op, "none"} /\ (req'[r].op # "none" => req'[r].user = req[r].user /\ req'[r].other = req[r].other)
  BY <1>2, <1>3 DEF End, NoRequest, TypeInv, TypeOK
<1>5. /\ \A q, s \in Requests : {req'[q].op, req'[s].op} \subseteq Removing => q = s
      /\ \A s \in Requests : req'[s].op = "leave" => req'[s].other = req'[s].user
  BY <1>1, <1>3, <1>4 DEF OwnerInv, Removing
\* The others that may remove a member, if this one may not.
<1>6. UNCHANGED <<owner, members>> \/ joinCreate(r) \/ deleteMember(r) \/ transferSave(r) \/ destroy(r)
  BY DEF Handle, joinCheck, readMembers, readPlayers, readRows, addMatchToClan,
     leaveCheck, removeCheck, transferCheck, transferVerify, destroyCheck, clanVars
<1>7. owner' = NoOne \/ owner' \in members'
  <2>1. CASE UNCHANGED <<owner, members>> \/ joinCreate(r) \/ destroy(r)
    BY <1>1, <2>1 DEF OwnerInv, joinCreate, destroy
  <2>2. CASE deleteMember(r)
    BY <1>1, <2>2 DEF OwnerInv, deleteMember
  <2>3. CASE transferSave(r)
    BY <1>1, <2>3 DEF OwnerInv, transferSave, Stage
  <2> QED
    BY <1>6, <2>1, <2>2, <2>3
<1>8. ASSUME NEW s \in Requests
      PROVE  /\ req'[s].op \in {"leave", "remove"} /\ req'[s].stage = "delete" => req'[s].other # owner'
             /\ req'[s].op = "transfer" /\ req'[s].stage = "save" =>
                  owner' = NoOne \/ req'[s].other \in members'
  <2>1. CASE s = r
    <3>1. CASE leaveCheck(r) \/ removeCheck(r)
      BY <1>1, <1>2, <1>3, <2>1, <3>1
      DEF leaveCheck, removeCheck, End, NoRequest, OwnerInv, Stage, clanVars, TypeInv, TypeOK
    <3>2. CASE transferVerify(r)
      BY <1>2, <2>1, <3>2
      DEF transferVerify, Goto, End, NoRequest, Stage, clanVars, TypeInv, TypeOK, RequestSlot
    <3>3. CASE ~(leaveCheck(r) \/ removeCheck(r) \/ transferVerify(r))
      <4>1. End(r) \/ req'[r].stage \notin {"delete", "save"}
        <5> USE <1>2 DEF TypeInv, TypeOK, RequestSlot, Goto
        <5>1. CASE joinCheck(r) \/ joinCreate(r)
          BY <5>1 DEF joinCheck, joinCreate
        <5>2. CASE readMembers(r) \/ readPlayers(r)
          BY <5>2 DEF readMembers, readPlayers
        <5>3. CASE readRows(r) \/ addMatchToClan(r)
          BY <5>3 DEF readRows, addMatchToClan, Stage
        <5>4. CASE transferCheck(r) \/ destroyCheck(r)
          BY <5>4 DEF transferCheck, destroyCheck
        <5>5. CASE deleteMember(r) \/ transferSave(r) \/ destroy(r)
          BY <5>5 DEF deleteMember, transferSave, destroy
        <5> QED
          BY <3>3, <5>1, <5>2, <5>3, <5>4, <5>5 DEF Handle
      <4> QED
        BY <1>2, <2>1, <4>1 DEF End, NoRequest
    <3> QED
      BY <3>1, <3>2, <3>3
  <2>2. CASE s # r
    <3>1. req'[s] = req[s] /\ (req[s].op # "none" => req[s].other # NoOne)
      BY <1>3, <2>2, UsersAssumption DEF TypeInv, RequestInv
    <3>2. CASE UNCHANGED owner /\ members \subseteq members'
      BY <1>1, <3>1, <3>2 DEF OwnerInv
    <3>3. CASE destroy(r)
      BY <3>1, <3>3 DEF destroy
    <3>4. CASE deleteMember(r) \/ transferSave(r)
      <4>1. req[r].op \in Removing
        BY <3>4 DEF deleteMember, transferSave, Stage, Removing
      <4>2. req[s].op \notin Removing
        BY <1>1, <2>2, <4>1 DEF OwnerInv
      <4> QED
        BY <3>1, <4>2 DEF Removing
    <3> QED
      BY <1>6, <3>2, <3>3, <3>4 DEF joinCreate
  <2> QED
    BY <2>1, <2>2
<1> QED
  BY <1>5, <1>7, <1>8 DEF OwnerInv

LEMMA NextOwner == TypeInv /\ OwnerInv /\ [Next]_vars => OwnerInv'
<1> SUFFICES ASSUME TypeInv, OwnerInv, [Next]_vars PROVE OwnerInv'
  OBVIOUS
\* A second such request clashes with the first.
<1>1. ASSUME NEW r \in Requests, Ask(r) PROVE OwnerInv'
  <2>1. PICK x \in RequestSlot :
          /\ req'[r] = x /\ x.stage = "check" /\ (x.op = "leave" => x.other = x.user)
          /\ ~clashed' => ~clashed /\ (x.op \in Removing =>
                                         \A s \in Requests : req[s].op \notin Removing)
    BY <1>1, AskSlot
  <2>2. UNCHANGED <<owner, members>> /\ \A s \in Requests \ {r} : req'[s] = req[s]
    BY <1>1, AskSlot DEF clanVars
  <2>3. SUFFICES ASSUME ~clashed' PROVE OwnerInv'
    BY DEF OwnerInv
  <2>4. ~clashed
    BY <2>1, <2>3
  <2> QED
    BY <2>1, <2>2, <2>3, <2>4 DEF OwnerInv
<1>2. ASSUME NEW r \in Requests, Handle(r) PROVE OwnerInv'
  BY <1>2, HandleOwner
<1>3. ASSUME NEW n \in Matches, NEW w \in Users, createOrUpdatePlayer(n, w) PROVE OwnerInv'
  BY <1>3 DEF createOrUpdatePlayer, OwnerInv, clanVars
<1>4. ASSUME NEW n \in Matches, complete(n) \/ StartJob(n) PROVE OwnerInv'
  BY <1>4 DEF complete, StartJob, OwnerInv, clanVars
<1>5. CASE ProcessClanMatch
  BY <1>5, JobSteps DEF OwnerInv
<1>6. CASE UNCHANGED vars
  BY <1>6 DEF vars, clanVars, OwnerInv
<1>7. ASSUME NEW w \in Users, linkSteam(w) \/ unlinkSteam(w) PROVE OwnerInv'
  BY <1>7 DEF linkSteam, unlinkSteam, clanVars, OwnerInv
<1> QED
  BY <1>1, <1>2, <1>3, <1>4, <1>5, <1>6, <1>7 DEF Next

\* As long as no two requests that may remove a member or change the owner
\* overlap, the owner is a member, whoever joins or deletes the clan meanwhile
\* (ClanService::leave, ::transferOwnership, ClanMemberController::destroy).
THEOREM OwnerRemains == Spec => []OwnerStays
<1>1. OwnerInv => OwnerStays
  BY DEF OwnerInv, OwnerStays
<1> QED
  BY <1>1, InitOwner, NextOwner, TypeInvariant, PTL DEF Spec
=============================================================================
