--------------------------- MODULE EventDelivery ---------------------------
(***************************************************************************)
(* What sendAllEvents sends and what becomes of it: BatchSender cuts each  *)
(* list of events into batches and posts them, with retries, to the host   *)
(* of the job's completion URL; DemoParserService turns a batch into rows. *)
(*                                                                         *)
(* All jobs of the parser service share one BatchSender, whose baseURL     *)
(* field every list sets and every batch reads without a lock.  A Go       *)
(* string is two words, its pointer and its length, written one after the  *)
(* other.  Module ParserJob has the rest of a job; this one has the events *)
(* themselves, which ParserJob only counts by batch.                       *)
(***************************************************************************)
EXTENDS Integers, Sequences

CONSTANTS
  Jobs,         \* jobs being sent at the same time
  Hosts,        \* web applications
  HostOf,       \* HostOf[j]: the host of job j's completion URL
  Loads,        \* the numbers of events per list a parse may end with
  SizeOf,       \* SizeOf[l]: events per batch of list l
  MaxRetries,   \* retries of one request
  Known,        \* events whose player the web application has a row for
  Ranked        \* player-match events with a rank type and a matchmaking rank

\* The lists in the order they are sent.
Lists == <<"match", "round", "damage", "grenade", "gunfight", "player-round",
           "player-match", "aim", "aim-weapon", "achievements">>
Kinds   == {Lists[i] : i \in DOMAIN Lists}
Batched == {"damage", "grenade", "gunfight", "player-round", "player-match"}

ASSUME HostAssumption == HostOf \in [Jobs -> Hosts]
ASSUME LoadsAssumption == Loads \subseteq [Kinds -> Nat]
ASSUME SizeAssumption == SizeOf \in [Batched -> Nat \ {0}]
ASSUME RetriesAssumption == MaxRetries \in Nat
ASSUME KnownAssumption == Known \subseteq Nat
ASSUME RankedAssumption == Ranked \subseteq Nat

VARIABLES
  load,         \* load[j]: the events of job j's parse, per list
  list,         \* list[j]: the list being sent, an index of Lists
  chunk,        \* chunk[j]: the loop variable i of the batch loop
  stage,        \* stage[j]: where in the sending of the list job j is
  url,          \* url[j]: the host of the current batch's URL
  attempt,      \* attempt[j]: the attempt of the current batch
  baseURL,      \* BatchSender.baseURL, its two words
  rows,         \* event rows of the web applications
  ranks,        \* <<job, event>>: the player of the event has a player_ranks row
  updated       \* jobs whose match row updateMatchData has filled in

vars == <<load, list, chunk, stage, url, attempt, baseURL, rows, ranks, updated>>

Stages == {"enter", "write", "url", "post", "done", "failed"}

-----------------------------------------------------------------------------
(* Batches.  Event numbers start at 1, the loop variable at 0.               *)

Kind(j)  == Lists[list[j]]
Count(j) == load[j][Kind(j)]

\* Lists that are not cut go out as one request; the match data is no list.
Size(j) == IF Kind(j) \in Batched THEN SizeOf[Kind(j)] ELSE Count(j)
\* A wrong number of batches: the last, smaller one is forgotten.
WholeBatches(j) ==
  IF Kind(j) = "match" THEN 1 ELSE Count(j) \div Size(j)

TotalBatches(j) ==
  IF Kind(j) = "match" THEN 1 ELSE (Count(j) + Size(j) - 1) \div Size(j)

\* events[start:end]
Start(j) == chunk[j] * Size(j)
End(j) == IF Start(j) + Size(j) > Count(j) THEN Count(j) ELSE Start(j) + Size(j)
Batch(j) == (Start(j) + 1)..End(j)

IsLast(j) == chunk[j] = TotalBatches(j) - 1

-----------------------------------------------------------------------------
(* BatchSender.                                                              *)

Goto(j, s) == stage' = [stage EXCEPT ![j] = s]

\* On to the next list, or out of sendAllEvents.
NextList(j) ==
  /\ list' = [list EXCEPT ![j] = IF @ < Len(Lists) THEN @ + 1 ELSE @]
  /\ chunk' = [chunk EXCEPT ![j] = 0]
  /\ Goto(j, IF list[j] < Len(Lists) THEN "enter" ELSE "done")

\* A Send function: an empty list is skipped before the base URL is set.
SendList(j, kind) ==
  /\ stage[j] = "enter" /\ Kind(j) = kind
  /\ IF kind # "match" /\ Count(j) = 0
       THEN NextList(j) /\ UNCHANGED baseURL
       ELSE /\ baseURL' = [baseURL EXCEPT !.pointer = HostOf[j]]
            /\ Goto(j, "write")
            /\ UNCHANGED <<list, chunk>>
  /\ UNCHANGED <<load, url, attempt, rows, ranks, updated>>

SendMatchData(j)         == SendList(j, "match")
SendRoundEvents(j)       == SendList(j, "round")
SendDamageEvents(j)      == SendList(j, "damage")
SendGrenadeEvents(j)     == SendList(j, "grenade")
SendGunfightEvents(j)    == SendList(j, "gunfight")
SendPlayerRoundEvents(j) == SendList(j, "player-round")
SendPlayerMatchEvents(j) == SendList(j, "player-match")
SendAimEvents(j)         == SendList(j, "aim")
SendAimWeaponEvents(j)   == SendList(j, "aim-weapon")
SendAchievements(j)      == SendList(j, "achievements")

SetLength(j) ==
  /\ stage[j] = "write"
  /\ baseURL' = [baseURL EXCEPT !.length = HostOf[j]]
  /\ Goto(j, "url")
  /\ UNCHANGED <<load, list, chunk, url, attempt, rows, ranks, updated>>

\* url := bs.baseURL + ...; with the length of another host's URL, a torn string
\* is that of the pointer when both are equally long, and no URL otherwise.
BuildURL(j) ==
  /\ stage[j] = "url"
  /\ \E u \in {baseURL.pointer}
              \cup (IF baseURL.pointer = baseURL.length THEN {} ELSE {"none"}) :
       url' = [url EXCEPT ![j] = u]
  /\ attempt' = [attempt EXCEPT ![j] = 1]
  /\ Goto(j, "post")
  /\ UNCHANGED <<load, list, chunk, baseURL, rows, ranks, updated>>

\* sendRequestWithRetry after an acknowledged and after a failed attempt.
Acknowledged(j) ==
  /\ IF IsLast(j) THEN NextList(j)
     ELSE /\ chunk' = [chunk EXCEPT ![j] = @ + 1]
          /\ Goto(j, "url")
          /\ UNCHANGED list
  /\ UNCHANGED <<load, url, attempt, baseURL>>

\* A wrong retry: the batch after a failed one is sent next.
FailedSkips(j) ==
  /\ IF attempt[j] <= MaxRetries
       THEN attempt' = [attempt EXCEPT ![j] = @ + 1] /\ UNCHANGED <<list, chunk, stage>>
     ELSE IF IsLast(j) THEN NextList(j) /\ UNCHANGED attempt
     ELSE /\ chunk' = [chunk EXCEPT ![j] = @ + 1]
          /\ Goto(j, "url")
          /\ UNCHANGED <<list, attempt>>
  /\ UNCHANGED <<load, url, baseURL>>

Failed(j) ==
  /\ IF attempt[j] <= MaxRetries
       THEN attempt' = [attempt EXCEPT ![j] = @ + 1] /\ UNCHANGED stage
       ELSE Goto(j, "failed") /\ UNCHANGED attempt
  /\ UNCHANGED <<load, list, chunk, url, baseURL>>

-----------------------------------------------------------------------------
(* DemoParserService::createMatchEvent, one transaction per request.         *)

NoRanks == UNCHANGED ranks

\* A bulk insert that looks at no row that is already there.
InsertRows(j, events) ==
  rows' = rows \cup {[job |-> j, kind |-> Kind(j), event |-> e,
                      chunk |-> chunk[j], sent |-> attempt[j]] : e \in events}

createDamageEvent(j)      == InsertRows(j, Batch(j)) /\ NoRanks /\ UNCHANGED updated
createGunfightEvent(j)    == InsertRows(j, Batch(j)) /\ NoRanks /\ UNCHANGED updated
createGrenadeEvent(j)     == InsertRows(j, Batch(j)) /\ NoRanks /\ UNCHANGED updated
createPlayerRoundEvent(j) == InsertRows(j, Batch(j)) /\ NoRanks /\ UNCHANGED updated
createRoundEvent(j)       == InsertRows(j, Batch(j)) /\ NoRanks /\ UNCHANGED updated
createAimEvent(j)         == InsertRows(j, Batch(j)) /\ NoRanks /\ UNCHANGED updated
createAimWeaponEvent(j)   == InsertRows(j, Batch(j)) /\ NoRanks /\ UNCHANGED updated

\* A wrong recordPlayerRanks: it returns at the first event without a rank.
RanksBefore(events) ==
  {e \in events \cap Ranked \cap Known : \A d \in events : d < e => d \in Ranked}

\* recordPlayerRanks: without a rank type or a matchmaking rank, or of a player
\* the web application does not know, no rank is kept.
RanksOf(events) == events \cap Ranked \cap Known

createPlayerMatchEvent(j) ==
  /\ InsertRows(j, Batch(j))
  /\ ranks' = ranks \cup {<<j, e>> : e \in RanksOf(Batch(j))}
  /\ UNCHANGED updated

\* Achievements of unknown players are skipped.
createAchievements(j) ==
  InsertRows(j, Batch(j) \cap Known) /\ NoRanks /\ UNCHANGED updated

updateMatchData(j) ==
  updated' = updated \cup {j} /\ UNCHANGED <<rows, ranks>>

createMatchEvent(j) ==
  CASE Kind(j) = "match"        -> updateMatchData(j)
    [] Kind(j) = "round"        -> createRoundEvent(j)
    [] Kind(j) = "damage"       -> createDamageEvent(j)
    [] Kind(j) = "grenade"      -> createGrenadeEvent(j)
    [] Kind(j) = "gunfight"     -> createGunfightEvent(j)
    [] Kind(j) = "player-round" -> createPlayerRoundEvent(j)
    [] Kind(j) = "player-match" -> createPlayerMatchEvent(j)
    [] Kind(j) = "aim"          -> createAimEvent(j)
    [] Kind(j) = "aim-weapon"   -> createAimWeaponEvent(j)
    [] Kind(j) = "achievements" -> createAchievements(j)

\* The job's own web application stores the batch; the answer may be lost.
Post(j) ==
  /\ stage[j] = "post" /\ url[j] = HostOf[j]
  /\ createMatchEvent(j)
  /\ Acknowledged(j) \/ Failed(j)

\* The request is lost, rolled back, or sent to a host that knows no such job
\* (404) or to no host at all.
PostNowhere(j) ==
  /\ stage[j] = "post"
  /\ Failed(j)
  /\ UNCHANGED <<rows, ranks, updated>>

-----------------------------------------------------------------------------
Init ==
  /\ load \in [Jobs -> Loads]
  /\ list = [j \in Jobs |-> 1]
  /\ chunk = [j \in Jobs |-> 0]
  /\ stage = [j \in Jobs |-> "enter"]
  /\ url = [j \in Jobs |-> "none"]
  /\ attempt = [j \in Jobs |-> 1]
  /\ baseURL = [pointer |-> "none", length |-> "none"]
  /\ rows = {}
  /\ ranks = {}
  /\ updated = {}

sendAllEvents(j) ==
  \/ SendMatchData(j) \/ SendRoundEvents(j) \/ SendDamageEvents(j)
  \/ SendGrenadeEvents(j) \/ SendGunfightEvents(j) \/ SendPlayerRoundEvents(j)
  \/ SendPlayerMatchEvents(j) \/ SendAimEvents(j) \/ SendAimWeaponEvents(j)
  \/ SendAchievements(j)

Next ==
  \E j \in Jobs : \/ sendAllEvents(j) \/ SetLength(j) \/ BuildURL(j)
                  \/ Post(j) \/ PostNowhere(j)

Spec == Init /\ [][Next]_vars
-----------------------------------------------------------------------------
(* Type invariant.                                                           *)
TypeOK ==
  /\ load \in [Jobs -> Loads]
  /\ list \in [Jobs -> DOMAIN Lists]
  /\ chunk \in [Jobs -> Nat]
  /\ stage \in [Jobs -> Stages]
  /\ url \in [Jobs -> Hosts \cup {"none"}]
  /\ attempt \in [Jobs -> 1..(MaxRetries + 1)]
  /\ baseURL \in [{"pointer", "length"} -> Hosts \cup {"none"}]
  /\ \A row \in rows : row.event \in 1..load[row.job][row.kind]
  /\ \A rank \in ranks : rank[2] \in Known \cap Ranked
  /\ updated \subseteq Jobs

-----------------------------------------------------------------------------
(* Safety.                                                                   *)

\* The events of a list that end as rows; the match data is no list.
Due(j, k) == {e \in 1..load[j][k] : k # "match" /\ (k = "achievements" => e \in Known)}
StoredOf(j, k) == {row.event : row \in {x \in rows : x.job = j /\ x.kind = k}}

\* When sendAllEvents returns without an error, every event of every list has
\* its row, every known player whose event names a rank that rank, and the
\* match its data: cutting a list into batches loses no event at either end, and
\* a player without a rank keeps no other from his.
DoneMeansAllStored ==
  \A j \in Jobs : stage[j] = "done" =>
    /\ \A k \in Kinds : Due(j, k) \subseteq StoredOf(j, k)
    /\ {<<j, e>> : e \in Known \cap Ranked \cap 1..load[j]["player-match"]} \subseteq ranks
    /\ j \in updated

\* Only a repeated request repeats rows: no event is in two batches.
OneBatchPerEvent ==
  \A x, y \in rows :
    x.job = y.job /\ x.kind = y.kind /\ x.event = y.event => x.chunk = y.chunk

\* Whatever fails, the rows of a job are a prefix of its events: a row of a
\* list means that the lists sent before it are stored wholly.
EventsInOrder ==
  \A row \in rows, i, k \in DOMAIN Lists :
    row.kind = Lists[i] /\ k < i =>
      Due(row.job, Lists[k]) \subseteq StoredOf(row.job, Lists[k])

\* batch_sender.go:73, "Extract base URL from completion URL": a batch is
\* posted to the host of its own job's completion URL.  True as long as all
\* jobs name one host; the field is shared by all of them.
OwnHost == \A j \in Jobs : stage[j] = "post" => url[j] = HostOf[j]
=============================================================================
