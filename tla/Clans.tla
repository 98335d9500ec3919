------------------------------- MODULE Clans -------------------------------
(***************************************************************************)
(* A clan, its members, its owner and its matches: the requests of          *)
(* ClanController and ClanMemberController, which check and write in        *)
(* several statements and run at the same time, and the ProcessClanMatch    *)
(* job that a completed demo dispatches.                                    *)
(*                                                                          *)
(* A clan has the matches in which two of its members played on one team.   *)
(* A match is looked for from both ends: by the job when its demo is        *)
(* complete, and by the request of a member who joins.  Clans do not touch  *)
(* each other, so there is one.  A user may link his Steam account, and     *)
(* unlink it, at any time; the account, or player, bears the user's name.   *)
(* A match is parsed once: its metadata callback is answered, or fails      *)
(* partway, before the completion callback is sent.                         *)
(***************************************************************************)
EXTENDS Integers, FiniteSets

CONSTANTS
  Users,
  NoOne,        \* the owner of a deleted clan
  Founder,      \* its first owner
  LinkedSets,   \* whose accounts may be linked at first
  Matches,
  TeamOf,       \* TeamOf[m]: the team of each user who played in match m
  Requests,     \* requests handled at the same time
  MaxRequests,  \* bound on all of them
  MaxJobs,      \* bound on the ProcessClanMatch jobs of a match
  MaxLinks      \* bound on Steam accounts linked or unlinked

ASSUME UsersAssumption ==
  IsFiniteSet(Users) /\ Founder \in Users /\ NoOne \notin Users /\ LinkedSets \subseteq SUBSET Users
ASSUME TeamAssumption ==
  /\ DOMAIN TeamOf = Matches
  /\ \A m \in Matches : DOMAIN TeamOf[m] \subseteq Users
ASSUME BoundsAssumption == {MaxRequests, MaxJobs, MaxLinks} \subseteq Nat

VARIABLES
  owner,        \* clans.owned_by
  members,      \* clan_members
  clanMatches,  \* clan_matches
  rows,         \* match_players: <<match, user>>
  jobs,         \* jobs[m]: ProcessClanMatch jobs dispatched for m
  left,         \* left[m]: those not over yet
  req,          \* req[r]: the request in slot r
  worker,       \* the worker of the default queue
  linked,       \* users with a steam_id
  late,         \* users who have linked it since they joined
  links,        \* times a steam_id was set or cleared
  asked,        \* requests so far
  clashed,      \* two requests that may change the owner or remove a member
                \* have been under way at once
  pairs         \* pairs of users who have been members at the same time

clanVars == <<owner, members, clanMatches, pairs>>
jobVars  == <<jobs, left, worker>>
linkVars == <<linked, late, links>>
vars == <<clanVars, rows, jobVars, linkVars, req, asked, clashed>>

Ops == {"join", "leave", "remove", "transfer", "destroy"}
Removing == {"leave", "remove", "transfer"}
NoRequest == [op |-> "none", user |-> NoOne, other |-> NoOne, stage |-> "idle",
              ids |-> {}, found |-> {}]
NoJob == [match |-> {}, stage |-> "idle", ids |-> {}]

\* The players table has a row for whoever has one in match_players.
PlayersOf(us) == {u \in us \cap linked : \E m \in Matches : <<m, u>> \in rows}

\* A wrong search: not grouped by team.
TogetherOnAnyTeam(m, ids) == \E u, v \in ids :
  u # v /\ {<<m, u>>, <<m, v>>} \subseteq rows

\* havingRaw('COUNT(DISTINCT player_id) >= 2'), grouped by match and team.
Together(m, ids) == \E u, v \in ids :
  u # v /\ {<<m, u>>, <<m, v>>} \subseteq rows /\ TeamOf[m][u] = TeamOf[m][v]

Pairs(us) == {{u, v} : u, v \in us}

-----------------------------------------------------------------------------
(* Requests.                                                                 *)

Stage(r, op, stage) == req[r].op = op /\ req[r].stage = stage
Goto(r, stage) == req' = [req EXCEPT ![r].stage = stage]
End(r) == req' = [req EXCEPT ![r] = NoRequest]

\* A request arrives.
Ask(r) ==
  /\ req[r].op = "none" /\ owner # NoOne /\ asked < MaxRequests
  /\ \E op \in Ops, user, other \in Users :
       /\ op \in {"join", "leave", "destroy"} => other = user
       /\ req' = [req EXCEPT ![r] = [NoRequest EXCEPT
            !.op = op, !.user = user, !.other = other, !.stage = "check"]]
       /\ clashed' = \/ clashed
                     \/ op \in Removing /\ \E s \in Requests : req[s].op \in Removing
  /\ asked' = asked + 1
  /\ UNCHANGED <<clanVars, rows, jobVars, linkVars>>

\* join: the clan of the link, isMember ...
joinCheck(r) ==
  /\ Stage(r, "join", "check")
  /\ IF owner = NoOne \/ req[r].user \in members THEN End(r) ELSE Goto(r, "create")
  /\ UNCHANGED <<clanVars, rows, jobVars, linkVars, asked, clashed>>

\* ... ClanMember::create, which the unique index or the clan's foreign key may
\* refuse ...
joinCreate(r) ==
  /\ Stage(r, "join", "create")
  /\ IF req[r].user \in members \/ owner = NoOne
       THEN End(r) /\ UNCHANGED <<members, pairs, late>>
       ELSE /\ members' = members \cup {req[r].user}
            /\ pairs' = pairs \cup Pairs(members')
            /\ late' = late \ {req[r].user}
            /\ Goto(r, "members")
  /\ UNCHANGED <<owner, clanMatches, rows, jobVars, linked, links, asked, clashed>>

\* ... and findMatchesForClan: the members, their players, ...
readMembers(r) ==
  /\ Stage(r, "join", "members")
  /\ IF Cardinality(members) < 2 THEN End(r)
     ELSE req' = [req EXCEPT ![r].stage = "ids", ![r].ids = members]
  /\ UNCHANGED <<clanVars, rows, jobVars, linkVars, asked, clashed>>

readPlayers(r) ==
  /\ Stage(r, "join", "ids")
  /\ req' = [req EXCEPT ![r].stage = "rows", ![r].ids = PlayersOf(@)]
  /\ UNCHANGED <<clanVars, rows, jobVars, linkVars, asked, clashed>>

\* ... the matches of two of them, ...
readRows(r) ==
  /\ Stage(r, "join", "rows")
  /\ req' = [req EXCEPT ![r].stage = "adding",
                        ![r].found = {m \in Matches : Together(m, req[r].ids)}]
  /\ UNCHANGED <<clanVars, rows, jobVars, linkVars, asked, clashed>>

\* ... one insertOrIgnore each.
addMatchToClan(r) ==
  /\ Stage(r, "join", "adding")
  /\ \/ \E m \in req[r].found :
          /\ clanMatches' = IF owner = NoOne THEN clanMatches ELSE clanMatches \cup {m}
          /\ req' = [req EXCEPT ![r].found = @ \ {m}]
     \/ req[r].found = {} /\ End(r) /\ UNCHANGED clanMatches
  /\ UNCHANGED <<owner, members, pairs, rows, jobVars, linkVars, asked, clashed>>

\* A wrong leave: the owner may.
leaveCheckNothing(r) ==
  /\ Stage(r, "leave", "check")
  /\ Goto(r, "delete")
  /\ UNCHANGED <<clanVars, rows, jobVars, linkVars, asked, clashed>>

\* leave: the clan is loaded, with its owner, who may not ...
leaveCheck(r) ==
  /\ Stage(r, "leave", "check")
  /\ IF owner \in {NoOne, req[r].user} THEN End(r) ELSE Goto(r, "delete")
  /\ UNCHANGED <<clanVars, rows, jobVars, linkVars, asked, clashed>>

\* ClanMemberController::destroy: by the owner, and not himself ...
removeCheck(r) ==
  /\ Stage(r, "remove", "check")
  /\ IF req[r].user # owner \/ req[r].other = owner THEN End(r) ELSE Goto(r, "delete")
  /\ UNCHANGED <<clanVars, rows, jobVars, linkVars, asked, clashed>>

\* ... the member's row is deleted.
deleteMember(r) ==
  /\ req[r].op \in {"leave", "remove"} /\ req[r].stage = "delete"
  /\ members' = members \ {req[r].other}
  /\ End(r)
  /\ UNCHANGED <<owner, clanMatches, pairs, rows, jobVars, linkVars, asked, clashed>>

\* transferOwnership: by the owner, ...
transferCheck(r) ==
  /\ Stage(r, "transfer", "check")
  /\ IF req[r].user # owner THEN End(r) ELSE Goto(r, "verify")
  /\ UNCHANGED <<clanVars, rows, jobVars, linkVars, asked, clashed>>

\* ... to another member ...
transferVerify(r) ==
  /\ Stage(r, "transfer", "verify")
  /\ IF req[r].other \notin members \/ req[r].other = req[r].user
       THEN End(r) ELSE Goto(r, "save")
  /\ UNCHANGED <<clanVars, rows, jobVars, linkVars, asked, clashed>>

\* ... and the row is updated if it is there.
transferSave(r) ==
  /\ Stage(r, "transfer", "save")
  /\ owner' = IF owner = NoOne THEN NoOne ELSE req[r].other
  /\ End(r)
  /\ UNCHANGED <<members, clanMatches, pairs, rows, jobVars, linkVars, asked, clashed>>

destroyCheck(r) ==
  /\ Stage(r, "destroy", "check")
  /\ IF req[r].user # owner THEN End(r) ELSE Goto(r, "drop")
  /\ UNCHANGED <<clanVars, rows, jobVars, linkVars, asked, clashed>>

\* The clan's members and matches go with it, by foreign key.
destroy(r) ==
  /\ Stage(r, "destroy", "drop")
  /\ owner' = NoOne /\ members' = {} /\ clanMatches' = {}
  /\ End(r)
  /\ UNCHANGED <<pairs, rows, jobVars, linkVars, asked, clashed>>

-----------------------------------------------------------------------------
(* Steam accounts.  Nothing looks for matches when one is linked.            *)

\* steamCallback with a link hash.
linkSteam(u) ==
  /\ u \notin linked /\ links < MaxLinks
  /\ linked' = linked \cup {u}
  /\ late' = IF u \in members THEN late \cup {u} ELSE late
  /\ links' = links + 1
  /\ UNCHANGED <<clanVars, rows, jobVars, req, asked, clashed>>

unlinkSteam(u) ==
  /\ u \in linked /\ links < MaxLinks
  /\ linked' = linked \ {u}
  /\ links' = links + 1
  /\ UNCHANGED <<clanVars, rows, jobVars, late, req, asked, clashed>>

-----------------------------------------------------------------------------
(* The parser's callbacks and ProcessClanMatch.                              *)

\* A wrong order: players get their rows after the job is dispatched.
createOrUpdatePlayerLate(m, u) ==
  /\ u \in DOMAIN TeamOf[m] /\ <<m, u>> \notin rows
  /\ rows' = rows \cup {<<m, u>>}
  /\ UNCHANGED <<clanVars, jobVars, linkVars, req, asked, clashed>>

\* The metadata callback makes the rows of a match one after the other, without
\* a transaction around them.
createOrUpdatePlayer(m, u) ==
  /\ jobs[m] = 0
  /\ u \in DOMAIN TeamOf[m] /\ <<m, u>> \notin rows
  /\ rows' = rows \cup {<<m, u>>}
  /\ UNCHANGED <<clanVars, jobVars, linkVars, req, asked, clashed>>

\* The completion callback follows, perhaps repeated, and also if the metadata
\* callback failed partway.
complete(m) ==
  /\ jobs[m] < MaxJobs
  /\ jobs' = [jobs EXCEPT ![m] = @ + 1]
  /\ left' = [left EXCEPT ![m] = @ + 1]
  /\ UNCHANGED <<clanVars, rows, worker, linkVars, req, asked, clashed>>

WorkerTo(stage) == worker' = [worker EXCEPT !.stage = stage]
JobOver ==
  /\ worker' = NoJob
  /\ left' = [m \in Matches |-> left[m] - (IF worker.match = {m} THEN 1 ELSE 0)]

StartJob(m) ==
  /\ worker = NoJob /\ left[m] > 0
  /\ worker' = [NoJob EXCEPT !.match = {m}, !.stage = "exists"]
  /\ UNCHANGED <<clanVars, rows, jobs, left, linkVars, req, asked, clashed>>

\* Clan::all, and checkAndAddMatch: not for a match the clan has.
jobExists ==
  /\ worker.stage = "exists"
  /\ IF owner = NoOne \/ worker.match \subseteq clanMatches
       THEN JobOver ELSE WorkerTo("members") /\ UNCHANGED left
  /\ UNCHANGED <<clanVars, rows, jobs, linkVars, req, asked, clashed>>

jobMembers ==
  /\ worker.stage = "members"
  /\ IF Cardinality(members) < 2 THEN JobOver
     ELSE worker' = [worker EXCEPT !.stage = "ids", !.ids = members] /\ UNCHANGED left
  /\ UNCHANGED <<clanVars, rows, jobs, linkVars, req, asked, clashed>>

jobPlayers ==
  /\ worker.stage = "ids"
  /\ worker' = [worker EXCEPT !.stage = "rows", !.ids = PlayersOf(@)]
  /\ UNCHANGED <<clanVars, rows, jobs, left, linkVars, req, asked, clashed>>

jobRows ==
  /\ worker.stage = "rows"
  /\ IF \A m \in worker.match : Together(m, worker.ids)
       THEN WorkerTo("insert") /\ UNCHANGED left ELSE JobOver
  /\ UNCHANGED <<clanVars, rows, jobs, linkVars, req, asked, clashed>>

\* A second row of a match, or one of a deleted clan, is refused, which the job
\* logs.
jobInsert ==
  /\ worker.stage = "insert"
  /\ clanMatches' = IF owner = NoOne THEN clanMatches ELSE clanMatches \cup worker.match
  /\ JobOver
  /\ UNCHANGED <<owner, members, pairs, rows, jobs, linkVars, req, asked, clashed>>

-----------------------------------------------------------------------------
\* ClanService::create, whose search finds nothing for one member.
Init ==
  /\ owner = Founder
  /\ members = {Founder}
  /\ pairs = Pairs({Founder})
  /\ clanMatches = {}
  /\ rows = {}
  /\ jobs = [m \in Matches |-> 0]
  /\ left = [m \in Matches |-> 0]
  /\ worker = NoJob
  /\ linked \in LinkedSets /\ late = {} /\ links = 0
  /\ req = [r \in Requests |-> NoRequest]
  /\ asked = 0
  /\ clashed = FALSE

Handle(r) ==
  \/ joinCheck(r) \/ joinCreate(r)
  \/ readMembers(r) \/ readPlayers(r) \/ readRows(r) \/ addMatchToClan(r)
  \/ leaveCheck(r) \/ removeCheck(r) \/ deleteMember(r)
  \/ transferCheck(r) \/ transferVerify(r) \/ transferSave(r)
  \/ destroyCheck(r) \/ destroy(r)

ProcessClanMatch == jobExists \/ jobMembers \/ jobPlayers \/ jobRows \/ jobInsert

Next ==
  \/ \E r \in Requests : Ask(r) \/ Handle(r)
  \/ \E m \in Matches : \/ \E u \in Users : createOrUpdatePlayer(m, u)
                        \/ complete(m) \/ StartJob(m)
  \/ \E u \in Users : linkSteam(u) \/ unlinkSteam(u)
  \/ ProcessClanMatch

Spec == Init /\ [][Next]_vars

-----------------------------------------------------------------------------
ReqStages == {"idle", "check", "create", "members", "ids", "rows", "adding",
              "delete", "verify", "save", "drop"}

JobStages == {"idle", "exists", "members", "ids", "rows", "insert"}
RequestSlot == [op: Ops \cup {"none"}, stage: ReqStages,
                user: Users \cup {NoOne}, other: Users \cup {NoOne},
                ids: SUBSET Users, found: SUBSET Matches]
Job == [match: SUBSET Matches, stage: JobStages, ids: SUBSET Users]

TypeOK ==
  /\ owner \in Users \cup {NoOne}
  /\ members \subseteq Users /\ clanMatches \subseteq Matches
  /\ owner = NoOne => members = {} /\ clanMatches = {}
  /\ rows \subseteq Matches \X Users
  /\ jobs \in [Matches -> 0..MaxJobs] /\ left \in [Matches -> 0..MaxJobs]
  /\ req \in [Requests -> RequestSlot] /\ worker \in Job
  /\ linked \subseteq Users /\ late \subseteq Users /\ links \in 0..MaxLinks
  /\ asked \in 0..MaxRequests /\ clashed \in BOOLEAN

-----------------------------------------------------------------------------
(* Safety.                                                                   *)

\* A match whose demo is complete and whose jobs are over is the clan's if two
\* of its members played together, whichever of joining and completing came
\* first and however they interleaved, once no join is still searching: of members
\* who have had their accounts linked since they joined.
Searching == \E r \in Requests : req[r].op = "join" /\ req[r].stage # "check"
Steady == (members \cap linked) \ late
SharedMatchesFound ==
  ~Searching => \A m \in Matches :
    jobs[m] > 0 /\ left[m] = 0 /\ Together(m, Steady) => m \in clanMatches

\* The clan has no match but those of two users who were members at one time
\* and played it on one team.
MatchesEarned ==
  \A m \in clanMatches : \E p \in pairs : \E u, v \in p :
    u # v /\ {u, v} \subseteq DOMAIN TeamOf[m] /\ TeamOf[m][u] = TeamOf[m][v]

\* Requests that follow each other leave the clan with an owner who is a
\* member, whatever they are and whoever joins meanwhile.
OwnerStays == clashed \/ owner = NoOne \/ owner \in members

-----------------------------------------------------------------------------
(* What messages and comments say and the code does not do.                  *)

\* ClanService.php:59, "Clan owner cannot leave the clan", and :142, "Verify new
\* owner is a member of the clan": the owner is a member, whatever overlaps.
OwnerIsMember == owner = NoOne \/ owner \in members

\* ClanService.php:98, "Find matches where 2+ clan members played together on the
\* same team", and :84, the player IDs of clan members: of all who are linked.
LinkedMatchesFound ==
  ~Searching => \A m \in Matches :
    jobs[m] > 0 /\ left[m] = 0 /\ Together(m, members \cap linked) => m \in clanMatches
=============================================================================
