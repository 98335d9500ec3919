# Verification of top-frag

top-frag imports Counter-Strike 2 demos, parses them and shows statistics. This
directory holds TLA+ models of the parts where steps interleave, get lost or
depend on a long history, the TLC runs that check them on small instances, and
TLAPS proofs of what matters most for instances of every size.

    tlasany M.tla                      parse module M
    tlc -config X.cfg MCM              check configuration X of module M
    tlapm M_proofs.tla                 check the proofs about module M

`PROJECT.json` maps each definition to the lines it models and lists the runs,
the mutants (a plausible bug per property, which the property must catch), the
hazards and the theorems.

## 1. The system

Three processes and a database:

```
 browser --> web-app (PHP, Laravel) --ParseDemo--> parser-service (Go)
              |  ^   queue workers   <--callbacks--      |
              |  |   MySQL, Redis                      demoinfocs
              |  +-- valve-demo-url-service (Node) <--> Steam Game Coordinator
              +----> Steam Web API, FACEIT API
```

| component | state | operations | what is hard | what makes it correct |
|---|---|---|---|---|
| parser job pipeline (`parse_demo.go`) | `h.jobs`, the `ProcessingJob`, a temporary file | upload, one goroutine per job, error exits | lost and late calls, panics, two uploads of one id, restarts | events arrive in order, completed means delivered, runs end |
| batch sender (`batch_sender.go`) | one `baseURL` for all jobs | cut, post, retry | shared field, retries, batch boundaries | nothing lost or sent in two batches, own host |
| web callbacks (`DemoParserService.php`) | job, match, player and event rows | progress, completion, ten kinds of events | requests repeated, late or out of order | a finished record stays finished, counters count once |
| demo queue (`ParseDemo.php`, `RateLimiterService.php`) | jobs table, a Redis counter | pop, attempt, release, usage up and down | redelivery after 90 s, kills at 300 s, commands that interleave | no place given twice, what is parsed has its rows, every job settles |
| rate limiter (`RateLimiterService.php`) | a Redis counter with time to live | GET, INCR, EXPIRE | interleaving, kill between commands | overshoot bounded, a full window has a time to live |
| sharecode pipeline (`ValveDemoRetrieval.php`, `ProcessUserSharecodesJob.php`, `DownloadDemoJob.php`) | a user's sharecode, files, match rows | schedule, walk, download, edits | stale user rows, two users of one match, kills | no match passed over or parsed twice, users catch up |
| demo URL service (`steamService.ts`) | one pending request, timers | `/demo`, Steam events | requests overwrite each other | everyone answered once, with his own match |
| rounds, teams, scores (`event_processor.go`, `match_handler.go`) | round number, sides, assignments, wins | round start and end, team changes | halftime, overtime, knife round, late joins | the rounds a team is credited with are those its players won |
| gunfights, assists and rows of a round (`gunfight_handler.go`, `damage_handler.go`, `round_handler.go`, `demo_parser.go`) | damage and gunfight events, round rows | hurt, kill, round end, second search | aggregation before and after, random map order, who lives known from kills only | what is sent agrees with itself; clutches and trades are those that were played |
| clans (`ClanService.php`, `ProcessClanMatch.php`) | members, owner, clan matches | create, join, leave, transfer, add match | checks and writes of concurrent requests | owner is a member, every shared match is found |
| match cache (`MatchCacheManager.php`) | cached pages | remember, invalidate | value computed before an invalidation stored after it | no page older than the rows for long |
| grenades, achievements, game mode, ranks, aim, impact (Go) | per match lists | pure bookkeeping and arithmetic | matching throws to detonations, ties, thresholds | agree with a reference definition |
| requests of the pages (`api.ts`, every component that asks) | what a component shows, the requests under way | mount, ask, answer, failure, leave | answers overtake each other, nothing is cancelled | what is shown is what is selected, nothing loads for ever |
| dashboards (`pages/dashboard.tsx`, `components/dashboard`) | filters, weapon, map, one answer per tab | filter, choose, open a tab | three requests of one tab, failures that keep old data | as above; colours and tables tell the truth |
| match tabs (`components/match-detail`) | chosen players, rounds, weapon; roster | open, choose, Retry | a first request that loads and chooses at once | as above |
| clan pages (`pages/clans*.tsx`, `components/clans`) | page, filters, dialogs, the owner once loaded | filter, turn, create, transfer, remove, leave, delete | dialogs over stale data | as above; buttons come back |
| grenade pages and map (`use-grenade-library.tsx`, `use-match-grenades.tsx`, `use-grenade-favourites.tsx`, `map-visualization-konva.tsx`) | filters, options, grenades, stars; markers, zoom | choose, star, remove, click, zoom, drag | three effects that set each other's filters, stars clicked before they are known | as above; a star can be removed, a round chosen |
| session (`use-auth.tsx`, `protected-route.tsx`, the callback pages) | token in three places, user, route | sign in, register, Steam and Discord, sign out, reload | a late 401, a user who arrives after the sign out | everyone gets the page he asked for, with his own token |
| account settings (`account-settings.tsx`, `use-steam-sharecode.tsx`) | account as told last, forms, one loading flag | change, link, set up, remove | requests under one flag, a page unmounted by its own request | what is said of the account is so |
| list of matches, upload, player card (`your-matches.tsx`, `upload-demo-modal.tsx`, `use-player-card.tsx`) | list, filters, sheet, timers | poll, filter, upload, hover | polling without waiting, forgotten timers | the list catches up, the card follows the pointer |
| averages of the services, FACEIT, images, the rest of the front end | none of their own | queries, formatting | - | - |

Who calls whom: `UploadController` or `DownloadDemoJob` store a file and queue
`ParseDemo`; that posts the file to the parser service, which answers as soon
as it has saved it; the goroutine then calls back `progress`, `event/*` and
`completion` of the web application. `completion` dispatches `ProcessClanMatch`.
`ValveDemoRetrieval` runs every quarter of an hour and starts one
`ProcessUserSharecodesJob` per user, which asks the Steam API for the next code
and queues `DownloadDemoJob`, which asks the demo URL service. The browser asks
all of it through `api.ts`, with ten seconds for a request; a page knows nothing
that it did not ask for, and nothing is pushed to it.

## 2. The modules

| module | models | used by |
|---|---|---|
| `JobCallbacks` | what the callbacks do to the record, match, rows and counters | `ParserJob` |
| `ParserJob` | `HandleParseDemo`, `processDemo`, retries, lost and late calls, restart | `MCParserJob` |
| `DeliveryPromise` | abstract: batches delivered in order, success only with all | refinement in `ParserJob` |
| `EventDelivery` | lists, batches, shared `baseURL`, rows and ranks | `MCEventDelivery` |
| `DemoUrlService` | the demo URL service | `MCSteam` |
| `RateLimiter` | `checkRateLimit` | `MCSteam` |
| `DemoQueue` | `ParseDemo`, workers, reservations, usage | `MCDemoQueue` |
| `SharecodePipeline` | schedule, walk, downloads, edits | `MCSharecodePipeline` |
| `MatchRounds` | rounds, sides, assignments, scores | `MCParsing` |
| `DamageAssists` | damage, kills, assists and their aggregation | `MCParsing` |
| `RoundMetrics` | the rows of a round: kills, opening duel, trades, clutches | `MCParsing` |
| `Clans` | a clan's members, owner and matches, `ProcessClanMatch` | `MCClans` |
| `Fetching` | what all pages share: slots, requests, late and failed answers | every page |
| `Dashboards`, `MatchTabs`, `ClanPages`, `GrenadePages` | the pages, what each asks and shows | `FrontEnd` |
| `FrontEnd` | the pages under their router | `MCFrontEnd` |
| `Ratings` | the colour of every graded statistic | `MCFrontEnd` |
| `Tables` | the three kinds of tables sorted by a click | `MCFrontEnd` |
| `GrenadeMap` | markers, zoom, slider of rounds | `MCFrontEnd` |
| `Session` | signing in and out, tokens, routes, callbacks | `MCVisitor` |
| `AccountSettings` | the settings page with the hook of the sharecode | `MCVisitor` |
| `MatchList` | the polled list of matches and the upload sheet | `MCVisitor` |
| `PlayerCard` | the card shown under the pointer | `MCVisitor` |

Some MC modules hold several parts that share no state (`MCSteam`, `MCParsing`,
`MCFrontEnd`, `MCVisitor`): each initial state runs one of them, with the others
at rest. The modules with `_proofs` in their name hold the theorems.

**ParserJob with JobCallbacks.** A run is an upload. `pc[r]` is the place of its
goroutine, named after the status it has set; `call[r]` is the HTTP call it blocks on.
`Handle` is the callback on the web side; it may come after the sender gave up
(`strays`), be repeated by a retry, or never come. `Answer`, `Lose`, `LoseAnswer` and
`GiveUpWaiting` are what the goroutine sees of it. The order of updates, including
those of the parse itself (15, a percentage per round, 85), the steps counter that
makes the early ones invalid, and each error exit are the code's. `Crash` restarts the
process, which forgets `h.jobs` and every goroutine. When game mode detection fails
the parse goes on; when the parse fails the goroutine reports it and ends. The
deferred cleanup is a step of its own, in which `os.Remove` may fail, which is only
logged; so the file may stay, as it may after a failed save. `JobCallbacks` keeps the
record with status, percentage and `completed_at`, the rows of batches, the players'
counter and the clan jobs dispatched; a dispatch that throws is logged and the
completion answered all the same. A batch here is a number; its events are in
`EventDelivery`.

**EventDelivery.** Each job walks the ten lists in the code's order. `SendList`
sets the shared `baseURL` as two writes (pointer and length), because a Go
string is two words and no lock is held; the batch's URL is read from it, and
the batch posted with retries. `load` says how many events each list has;
`Batch` is the slice the loop variable selects. Rows are tagged with the batch
that brought them, so an event in two batches is visible. The rank of a player
event is stored only of a player the match knows (`Known`) and when the event has
its type and value (`Ranked`).

**DemoUrlService.** Handlers of Node's event loop are atomic between awaits.
`pending` is `pendingMatchRequest`; `delayed` are the requests whose
`requestGame` call is scheduled, 1 s ahead; `given[q]` the codes whose match
`q` was answered with.

**DemoQueue.** `at[w]` is where in `ParseDemo::handle` worker `w` is, one place
per Redis command or database call. `queue`, `attempts` and `Overdue` are
Laravel's database queue with `retry_after`. A worker deletes or releases the row it
reserved by its id; when the row has been failed, or pushed again under a new id,
there is nothing left for it to do (`Orphaned`). `Kill` is the worker's `--timeout`
or a restart: the `finally` block does not run. `taken` are the ids in `h.jobs`
of the parser service.

**RateLimiter.** One place per Redis command; `expiring` says that the key has a
time to live.

**SharecodePipeline.** `Chain[u]` are the matches Steam knows of user `u` and
`code[u]` a position in it. `walker` and `loader` are the two workers, one step
per call that another actor can see. `Editors` are users who change, remove or
pause their sharecode while jobs run.

**MatchRounds.** The environment is the demo: two rosters, their true sides,
rounds that are won or drawn, players who connect, get a side or change it,
demos that begin inside a round. At a round's end the aim and the ticks may
fail, which stops the parse there (`failed`). `currentRound`, `teamAssignments`,
`currentSide` and `teamWins` are the parser's. Half lengths and the number of
players at which an assignment is complete are the real ones (12, 3, 10).

**DamageAssists.** `HandlePlayerHurt`, `HandlePlayerKilled` and `HandleRoundEnd`
append to `damage`, `gunfights` and `rounds`; `postProcessDamageAssists` searches
again at the end. A kill may also come between a round's end and the next round's
start, or after the last round; it is marked `late`. The winner among equal helpers is
a choice, as the code ranges over a Go map.

**RoundMetrics.** `MetricsPlayerKilled` appends the kill to `fights`, which is all the
parser knows; `standing` is the game's own history of who lives. A death without a
killer is refused by the handler (`DiesUnseen`), and players who have left are still
in `Entered`. `MetricsRoundEnd` builds the rows: `Clutch` goes through the gunfights
that are deaths as the code's loop does (`ClutchStep`), `Nearest` is the gunfight a
position is taken from, and which mate in reach of a death is asked is a choice, as
the code ranges over a Go map. A position is a spot, in reach of itself only, and the
round is the first of its match.

**Clans.** A request is a record in `req` with the place of its next statement and
the results it read so far (`ids`, `found`); the job has the same in `worker`.
A request's check and its write are steps of their own, so that any two overlap.
`OwnerStays` is claimed for requests that do not overlap with another one that
removes a member or transfers the clan (`clashed`); joins, deletion and the job
may overlap with anything. Users link and
unlink their own Steam account at any time (`linked`), which starts no search;
`late` are those who linked it since they joined. `SharedMatchesFound` is claimed of
the members who have been linked since they joined, whenever no join is still
searching. `pairs` remembers who were members together.

**Fetching and the pages.** A *slot* is a part of a page that asks for itself.
`view[s]` is its `loading`, `error` and `data`, as `useState` has them; `calls` are
the requests without an answer; `sent[s]` and `landed[s]` number its last request and
the one whose answer came last, so `Settled(s)` says that nothing is under way and no
answer overtook another. No component cancels a request: an answer of an older
selection lands like any other. A data value is the parameters it was asked with, and
never the statistics in it: what matters is whether the page shows those of the
selection. Each page has an operator per slot for its parameters (`AimParams`,
`MatchesParams`, ...), an action per control and handler, and an operator per part for
what it renders (`StatsShown`, `ClanShown`, ...: skeleton, error, content). In
`GrenadePages` an answer changes filters, and filters ask: the three effects of the
provider are in `Provided`, `Rendered` says which run again after a render. The ranks
tab shows content without a map, too, when it has ranks of Premier or FACEIT
(`Elsewhere`). `FrontEnd` leaves a page for any other at any time, and with it its
state.

**Session.** `auth` is the provider's state, `stored` the token in localStorage,
`client` the one in the API client: `Header` is what a request carries. `Routed`
is what `ProtectedRoute`, `PublicRoute` and the onboarding page make of a path;
`Become` keeps a page's own state only while it stays mounted. `server` has the
tokens that are valid. **AccountSettings** has the provider's `waiting`, which
unmounts the page, next to the hook's own flag; a page that goes leaves its
requests behind (`left`), which the server still carries out; **MatchList** the interval that
never waits; **PlayerCard** its two timers, and those the provider lost.

**Ratings, Tables, GrenadeMap.** Pure functions of the front end with a small state
around them: a value that grows from one step to the next, rows that are clicked
and replaced, a map that is zoomed and dragged. Of the three kinds of tables the
match page sorts its list in place, the list of matches a new copy, and the maps
have a comparator of their own. A rank may be null, and null compares equal to
every value. Values are counted in tenths
since the statistics have decimals and the comparisons mostly integers.

In a model file, a definition headed "A wrong ..." is a mutant: it is used by no
specification and only stands for a plausible bug a property has to catch.

## 3. The runs

| run | instance | states | shows |
|---|---|---|---|
| `one_upload` | 1 upload, 2 batches of 2 attempts, rounds 1 and 41, 1 late request, 1 restart | 286 021 | delivery in order, `Completed` only when whole, the refinement of `DeliveryPromise`, the run ends |
| `two_uploads` | 2 uploads of one id, 1 batch, 1 late request | 6 441 532 | each counts its players once; who can reopen a completed record |
| `event_delivery` | 2 jobs of one host, lists of 3 by 2s, 1 by 1s and 4 by 3s, achievements and player events among them, players known or not, with a rank or none, 1 retry | 314 721 | nothing lost, every rank that can be stored is, prefix order across lists |
| `demo_queue` | 2 jobs (one with a match), 2 workers, limit 2, 2 tries, 1 kill | 192 125 | the counter covers the holders, uploads bounded, rows exist, jobs settle |
| `sharecodes` | 2 users sharing a match, one edits, 1 code per job, 2 tries, 1 kill | 868 964 | no code passed over, parsed once, the other user catches up |
| `steam` | 3 requests, 2 of them for one match, limit 2, 1 dropout; or 3 workers, limit 2, 1 kill | 23 639 | the room is somebody's who waits, everybody answered; overshoot bounded, a full window has a time to live |
| `parsing` | 31 rounds, matchmaking or FACEIT, 2 players, rounds 5 and 20 drawn; or 3 players, 2 rounds, 5 hits of 41 or 59; or a round of 3 against 1 with 3 deaths, 2 spots, 1 or 200 ticks between kills, 1 death unseen, 1 player gone | 1 138 718 | scores across halftime and two overtimes, sides of gunfights; assists are earned, those of the last round agree; clutches are those played, both sides of a trade agree |
| `clans` | 3 users, all or two linked at first, 1 link or unlink, 1 match, 2 of 3 requests at a time, 1 job | 5 559 311 | a shared match is found by joining or by completing, none is unearned, the owner stays a member |
| `pages` | every page with 3 rounds of requests, 2 matches, players, members and maps, 1 period, round and weapon; every value from -1 to 100; tables of 3 rows; maps of 13 to 30 rounds | 729 324 | pages show what is selected and never load for nothing, stars can be removed, arrows and colours tell the truth |
| `visitor` | 3 sign ins and 5 requests; the settings with 3; the list with 3, 2 files; the card of 2 players | 215 212 | a visitor gets his page with the current token, settings, list and card catch up |
| `failed_job_completed` | 1 upload, 1 batch, nothing late | - | finding 1 |
| `wrong_match` | 2 requests | - | finding 2 |

Why the bounds are enough. *ParserJob*: two batches are one that is followed and
one that follows, two attempts one that is repeated; a late request needs only
one. *EventDelivery*: lists of three by twos and four by threes have a full and a
short batch, a list of one by ones a full one only, and the others are empty; of
four players each combination of known and ranked occurs. *DemoUrlService*:
the room can be taken over, and its new owner's room be lost again, with three.
*DemoQueue* and *RateLimiter*: two workers interleave any two commands, and the
safety properties are proved for any number. *SharecodePipeline*: a chain of two
with one code per job needs two jobs, and the shared code is asked for twice.
*MatchRounds*: round 31 is the first of the second overtime. Scores are symmetric
in the players of a roster. *DamageAssists*: 41 is the threshold and 59 completes
it to 100 health, so two helpers may be equal, one below and one above, or one
may kill. *RoundMetrics*: three deaths of three
against one are a clutch of either side, won and lost, its number of enemies
changing on the way, and two mates who may both be asked; 200 ticks are past the
window of 192. *Clans*: three
users are two who share the match and one on the other team; three requests are
a join before the two that may clash, and one link or unlink falls between any two
steps of them. *Pages*: three rounds of requests are one
whose answer comes late, one that is answered and one after it; two of whatever is
chosen are the one shown and another. The values of *Ratings* are all those a
statistic takes, so the comparison is exhaustive. A slider of 512 pixels is the
real one. *Session*: three tokens are one signed out, one refused and the current
one. *GrenadeMap* goes to zoom 1.2, not 5: the stage is clamped in the same way.
*PlayerCard*: of hide timers forgotten one is enough, for it does what two would.
Between them the passing runs take every action of every module.

`CHECK_DEADLOCK FALSE` stands where a system may be at rest: all runs ended, all
jobs settled, demo over, a visitor who does no more. In `steam` a disjunct `Rest`
lets the demo URL service rest, so that deadlock is checked of the limiter's
workers, which never do.

**Fairness.** *ParserJob*: weak fairness of each goroutine's step (the Go scheduler)
and of each call's outcome (`http.Client.Timeout` is set). A request's arrival is not
fair. *DemoUrlService*: `setTimeout` fires, requests that arrived are handled; Steam
is not fair. *DemoQueue*: weak fairness of workers and of `retry_after`; strong
fairness of popping a job, since a free worker may be busy with the other job each
time the job could be popped, and the queue is served in order. *SharecodePipeline*:
the schedule and the workers run; strong fairness of starting a user's job (the worker
may be busy in between) and of `getNextMatchSharingCode`, which states that Steam
answers now and then; without it the code promises nothing. *Session* and
*AccountSettings*: `api.ts` answers or aborts every request after ten seconds.
*MatchList*: the interval fires, the parser ends, a timer closes the sheet; strong
fairness of an answer to a request of the present state, which states that the API
answers now and then. *PlayerCard*: timers fire, requests end. What a visitor does is
never fair. `EventDelivery`, `MatchRounds`, `DamageAssists`, `RoundMetrics`,
`RateLimiter`, `Clans` and the pages are checked for safety only; that a page does not
load for ever is `LoadingEnds`, that whatever loads has a request under way, which
ends.

### Findings

1. `failed_job_completed`: `completionCallback` always calls
   `updateProcessingJob` with `isCompleted` true, so the error report of a failed
   job records it as Completed (`DemoParserService.php:41`).
2. `wrong_match`: a `matchList` event answers whoever has the one room, for
   whatever sharecode (`steamService.ts:97`).

The models also reproduce these, which no run of the project repeats. To see one,
take the configuration named, set the constants named and leave only the
property named (an invariant, or under `PROPERTY` where "step" is said).

| configuration | constants | violates | what happens |
|---|---|---|---|
| `ParserJobTwo.cfg` | no symmetry, `MaxStrays = 0` | `OneGoroutine` | `parse_demo.go:90` looks up, :128 registers; two uploads of one id both run |
| `ParserJobOne.cfg` | `NumBatches = 1`, `MaxAttempts = 1`, `MaxStrays = 0`, `MaxCrashes = 0` | `UpdatesAccepted` | `parse_demo.go:325`: 0 total steps, answered 422 until the parser reports |
| `ParserJobOne.cfg` | the same with `RoundMarks <- MCNoRounds` | `TempFilesRemoved` | a removal that fails is only logged (`parse_demo.go:166`), against the "all scenarios" of :253 |
| `ParserJobOne.cfg` | the same with `RoundMarks <- MCNoRounds` | `ClanJobDispatched` | a dispatch that throws is only logged, so a completed match may never be looked at for clans (`DemoParserService.php:116`) |
| `ParserJobOne.cfg` | the same with `RoundMarks <- MCNoRounds` | `CompletedHasRoster` | the metadata is sent once, its failure passed over, so a match may be completed without players |
| `EventDelivery.cfg` | `Hosts = {h1, h2}`, `HostOf <- TwoHosts`, `Loads <- MCShortLoads`, `MaxRetries = 0` | `OwnHost` | two jobs with different hosts share `baseURL` (`batch_sender.go:82`) |
| `DemoQueue.cfg` | `Jobs = {d1, d2, d3}`, `Known = {}`, `Workers = {w1, w2, w3}`, `MaxConcurrent = 3`, `Tries = 1`, `MaxKills = 0` | step `RefusedWhenFull` | a worker's own increment counts against it (`ParseDemo.php:34`), so 2 run where `services.php:79` says 3 |
| `DemoQueue.cfg` | `Jobs = {d1}`, `Known = {}`, `MaxConcurrent = 3`, `MaxKills = 0` | `DuplicatesCancelled` | `DemoParserService.php:281` returns before the comparison for a job that has a match, and `ParseDemo` gives every job one |
| `DemoQueue.cfg` | `Jobs = {d1}`, `MaxConcurrent = 3` | `OneParsePerMatch` | a job overdue while it uploads is uploaded by a second worker and parsed twice: `parse_demo.go:90` looks the id up, :128 registers it once the file has arrived |
| `Sharecodes.cfg` | `Users = Editors = {u1}`, `Codes = {c1, c2, c3}`, `Chain <- MCLongChain`, `MaxPerJob = 2`, `MaxKills = 0`, no fairness | step `RemovedStaysRemoved` | a running job writes the sharecode back after the user removed it (`ProcessUserSharecodesJob.php:80`) |
| `Sharecodes.cfg` | as above, `Editors = {}`, `MaxEdits = 0` | `RequestedIsImported` | a download without a URL returns normally, its match is never asked for again (`DownloadDemoJob.php:33`) |
| `Sharecodes.cfg` | `Editors = {}`, `Codes = {c1, c2, c3}`, `MaxPerJob = 2`, `MaxEdits = 0`, `MaxKills = 0` | `ReadWhole` | a second download of a code overwrites the file that waits to be parsed (`DemoDownloadService.php:238`) |
| `Parsing.cfg` | `Known = {h1, a1}`, `MaxRounds = 13`, `Servers = {"valve"}`, `KnifeSwap`, `MidRound = FALSE` | step `SidesAreTrue` | gunfights of rounds 13, 28 and 31 still carry the old sides (`match_handler.go:331`) |
| `Parsing.cfg` | the same with `Servers = {"faceit"}` | `FaceitTeamCredited` | FACEIT: the switch comes one round off (`match_handler.go:343`) |
| `Parsing.cfg` | the same with `MaxRounds = 2`, `KnifeSwap = TRUE` | `FaceitTeamCredited` | FACEIT: players keep the team of the knife round (`event_processor.go:337`) |
| `Parsing.cfg` | `MaxRounds = 13`, `Servers = {"valve"}`, `KnifeSwap`, `MidRound = FALSE`, `BreakJoins = TRUE`, `DrawnRounds = {}` | `RightTeamCredited` | a player who joins at the break is assigned by his old side (`event_processor.go:486`) |
| `Parsing.cfg` | `Players = {h1}`, `MaxRounds = 41`, `Servers = {"valve"}`, `KnifeSwap`, `MidRound = FALSE` | `ProgressInRange` | progress passes 100 in round 41 (`demo_parser.go:361`) |
| `Parsing.cfg` | - | `AssistsAggregated` | the second search for damage assists takes the last round for all gunfights, so that what is sent contradicts the round rows (`demo_parser.go:305`) |
| `Parsing.cfg` | - | `KillsAggregated` | kills after the round end miss its row (`round_handler.go:136`) |
| `Parsing.cfg` | - | `WinsAttempted` | a clutch against two is won as one against one: the number follows the enemies left (`round_handler.go:644`) |
| `Parsing.cfg` | - | `ClutchesTrueAlways` | a fall and a player who has left leave their teams alive, so clutches are missed (`round_handler.go:588`) |
| `Parsing.cfg` | - | `TradesTraded` | only the first mate in a map's random order is asked, so a traded death may be missed (`round_handler.go:486`) |
| `Parsing.cfg` | - | `PossibleByLiving` | dead mates count as possible traders (`round_handler.go:397`) |
| `Clans.cfg` | - | `OwnerIsMember` | a new owner is a member when checked and removed before he is written (`ClanService.php:143`) |
| `Clans.cfg` | - | `LinkedMatchesFound` | an account linked after its user joined and the match completed is searched for by nobody (`AuthController.php:186`, `ClanService.php:98`) |
| `FrontEnd.cfg` | - | `RetryLoadsStats` | Retry of the first load loads the players and asks for none (`player-stats.tsx:191`) |
| `FrontEnd.cfg` | - | `NoPlayersTrue` | "No players available for this match." after a Retry (`aim-tracking.tsx:214`) |
| `FrontEnd.cfg` | - | `OwnerActionsForOwner` | who has transferred the clan is still offered to (`members-list.tsx:253`) |
| `FrontEnd.cfg` | - | `PreviousMonthIsPrevious` | on the 31st the previous month is this one (`leaderboards-tab.tsx:143`) |
| `FrontEnd.cfg` | - | `TopThreeShowsLeaders` | the answer with a type is a list, the code expects a map of types (`leaderboards-tab.tsx:85`) |
| `FrontEnd.cfg` | - | `GrenadesOfMap` | an answer under way brings the old map's grenades back (`use-grenade-library.tsx:473`) |
| `FrontEnd.cfg` | - | `StarsTrue` | the answer that initialises the stars empties one just filled (`use-grenade-favourites.tsx:235`) |
| `FrontEnd.cfg` | - | `MapFillsStage` | zooming out with the slider leaves the map aside (`map-visualization-konva.tsx:192`) |
| `FrontEnd.cfg` | - | `HighlightIsSelection` | the index of a marker is kept when the round changes the list (`map-visualization-konva.tsx:287`) |
| `FrontEnd.cfg` | - | `EachRoundCanBeChosen` | of 30 rounds the first is nearer to "all" on no pixel (`round-slider.tsx:41`) |
| `FrontEnd.cfg` | - | step `BetterLooksBetterAlways` | an ADR of 40.5 or 60.5 falls through to "excellent" (`utils.ts:45`) |
| `FrontEnd.cfg` | - | `LegendTrue` | the legend says 80, 60, 40, the colours 75, 50, 25 (`aim-rating-gauge.tsx:46`) |
| `FrontEnd.cfg` | - | `ArrowTellsRanks` | a missing rank compares equal, so 1, none, 2 keeps its order under a descending arrow (`scoreboard.tsx:136`) |
| `FrontEnd.cfg` | - | step `EveryClickTurnsArrow` | the first click on K/D leaves the arrow down (`your-matches/table.tsx:109`) |
| `Visitor.cfg` | - | `LogoutClears` | an answer to `fetchUser` after the sign out brings the user back (`use-auth.tsx:156`) |
| `Visitor.cfg` | - | step `ClearsInvalidTokenOnly` | a late 401 removes the token of the next sign in (`api.ts:200`) |
| `Visitor.cfg` | - | step `LoginFailureShown` | the loading flag unmounts the form that would say it (`login.tsx:46`) |
| `Visitor.cfg` | - | step `SetupFollowsSteam` | "Redirecting to setup..." goes to a page that sends to the sign in whoever is not fetched yet (`steam-callback.tsx:113`) |
| `Visitor.cfg` | - | step `DiscordLinkOpensSettings` | the path of the settings is not among the routes (`discord-callback.tsx:65`) |
| `Visitor.cfg` | - | `SetupShownAlways` | overlapping requests, or a save the page left behind, show a setup that is not the account's (`use-steam-sharecode.tsx:25`) |
| `Visitor.cfg` | - | `FormNeverBreaks` | a sharecode typed after one was removed (`account-settings.tsx:360`) |
| `Visitor.cfg` | - | `ProcessingShownTrue` | back on the page the switch is set from the user fetched before it was turned (`account-settings.tsx:114`) |
| `Visitor.cfg` | - | step `PasswordChangeSaid` | the page that would say it was unmounted by its own request (`account-settings.tsx:143`) |
| `Visitor.cfg` | - | `NoMatchesFoundTrue` | a page turned while a filter is asked for, and empty under it (`your-matches.tsx:208`) |
| `Visitor.cfg` | - | step `ProgressGoesOn` | answers overtake each other (`your-matches.tsx:146`) |
| `Visitor.cfg` | - | step `TimerClosesItsSheet` | a sheet reopened within the delay is closed with its file (`upload-demo-modal.tsx:88`) |

## 4. The proofs

All are of the specifications TLC checks, for every value of the constants that
satisfies the named assumptions of the module.

*`ParserJob_proofs`.* `TypeCorrect`, `BatchesArriveInOrder`, `CompletedIsWhole`,
`EveryRunKeepsPromise`. `DeliveredInOrder` is not inductive: a late request could
bring a batch whose predecessors are missing, if such a request could exist.
`DeliveryInv` adds that every given-up request (`StraysInOrder`) and every
goroutine (`RunInOrder`) was at its batch only with the earlier ones stored, and
that a job is Completed only in its last step. Rows are never removed, so all of
it survives every other step. The refinement shows that each step adds at most
the next batch and that the verdict changes once.

`RunsCountOnce` and `OthersReopen` share `OnceInv`. A run counts
its players with the first metadata request that is handled: `CountInv` says that
before it is sent nothing of the run is counted or given up, that at most one of
its metadata requests is given up, and that none is left once the run is counted.
`LateInv` says that a run which has completed the record sends completions only,
and `NotWaiting` that a run which is over waits for no call; so whoever reopens
a completed record is another run, or a request given up earlier.

*`Steam_proofs`.* Of the rate limiter `LimiterTypes`, `WindowOvershoots`,
`FullWindowsExpire`. The overshoot is inductive with the types: whoever is let
through was let through below the limit, and then at most all workers are between
GET and INCR. A full window without time to live needs `RequestsAccounted`: each
request counted in it has its worker before EXPIRE, or a kill. The theorem assumes
fewer kills than requests per window, and is false without. Of the demo URL service
`UrlTypes`, `RoomOfWaiting`, `OneAnswer`, for any number of requests: whatever
clears the room leaves it empty, and whatever ends a request that has the room
clears it first.

*`DemoQueue_proofs`.* `QueueTypes`, `UsageCovers`, `LimitKept`, `ParsesRecorded`,
for any number of jobs, workers, tries and kills. `QueueInv` joins them with
`WorkersRecorded` (what an uploading worker works for has its rows) and
`ParsesTaken`. The counter never falls below the holders because a worker leaves
the holders with its own decrement, and a kill or an expiry only removes what
nobody holds. The limit follows at the check, where the worker that passes counts
itself.

*`EventDelivery_proofs`.* `NothingMissing` and `PrefixStored`, for any lists, batch
sizes, retries, hosts and jobs at once. `EventInv` says of a job at list `k` that
the lists before it are wholly stored, `k` is stored up to the batch under way
and nothing beyond; the shared `baseURL` may be anything. That cutting loses
nothing is the arithmetic lemma `Cut`: a batch ends where the next one begins, and the last one
at the end of the list.

*`SharecodePipeline_proofs`.* `ChainWithoutGaps`: `WalkInv` adds that a walker is at
most one code ahead of what is saved, and only once the download of the code in
between is queued or its match is known. `OneParsePerCode`: `LoadInv` adds that the one download
worker, between its look for a match and the match it makes, is the only one
that makes any. Both for any chains, limits, kills and edits.

*`Clans_proofs`.* `ClanTypes`; the other three for any users, teams, matches and
overlapping requests. `MatchesFound`: of any two members whose accounts have been
linked since before they joined (`Steady`) and who played a completed match on one
team, somebody is still to look for it (`SoughtInv`): the job of the match, the worker
that has not read past them, or a request to join that has yet to search. So once all
searches are over the clan has it. `OnlyEarnedMatches`: whatever the worker or a
request has read in between, members or matches, was true at one time (`EarnedInv`).
`OwnerRemains`: what a request that may remove a member or change the owner has
checked still holds while no other such request overlaps it (`OwnerInv`); requests to
join, searches and deletions may.

*`Parsing_proofs`.* `RoundTypes`, then `RoundsCredited` and `SidesOfFights` from
`CreditInv`: the round counter follows the rounds played (`PlaceInv`), every
assignment follows the roster (`TeamsInv`), and team A is on the side its roster plays,
behind by one round from a break to the end of the round after it (`SideInv`).
The theorems state what the demo must be like, because each condition is needed:
nobody is first seen in the break at halftime (`~BreakJoins`), the round after a swap
has a winner, and, for the score, every round has an assigned player by its end
(`~QuietRounds`). Without any of the three TLC finds a violation.
`AssistsEarned`: an assist found at a kill would be found later, because a victim who
is dead is not hurt again in the round. `KillsCounted`: a round's rows
count each kill between its start and its end, and no row counts a later one
(`KillsInTime`, checked with TLC on the instance of `parsing` and not part of the
run; that the later kills are sent all the same is `KillsAggregated` above).
`LastRoundAgrees` is of the last round's gunfights before its end, with any hits
and kills after it; it takes that there is a last round (`LastRound > 0`). Both
rest on `CountedInv`: what a row has counted stays true of the gunfights in time.
`TradesTold`: whoever traded a death has killed its killer, who is
then not among the living at the round's end (`FallenInv`).

`ClutchesTold` and `WinsCounted` are about a fold over the gunfights. `ClutchByStep`
unfolds it: Clutch goes through them one by one. The inductions on their number are of
sets instead of operators (`NatFromZero`, from the least number that is missing).
`ClutchesTold`: if every death had a killer and nobody has left, who stands after a
kill is known from it (`StandsInv`), and after `k` of them the account of a player
agrees with the first members of `standing` (`Describes`): the clutch under way, the
attempts by number, whether he outlived one. The last needs that nobody returns to
life, and that who is alone came to be so at some death. The theorem takes that nobody
has more than five enemies (`FiveEnemies`), since the code counts clutches against one
to five only; with six TLC finds a clutch that is counted when the sixth falls.
`WinsCounted` takes nothing: over all numbers a round counts no more wins than
attempts, so that `clutch_win_percentage` (`PlayerMatchEvent.php:108`) stays a
percentage. That of one number need not (`WinsAttempted` above).

*`Views_proofs`.* `ArrowsTell` for any rows, columns and values, null among them. In
a column where every row has a value `Before` is a strict weak order under either
arrow, so a sort (`Sorted`) leaves nothing out of place, whatever the order of the
list before. With a value missing it is none, and `ArrowTellsRanks` is false.
`ColoursFollowValues` for all values, by the chains of comparisons the colour
functions are made of.

`SignInReturns` and `OldTokenNotSent`: by `SessionInv`, a token the provider has is the
one the client sends, unless it was refused and cleared (`TokensAgree`), and every
place the visitor is sent to leads to the page he wanted (`LeadsTo`). `SetupKnown`: a
request of the hook that overlaps no other, and no save or removal a page left behind
(`Stray`), is the last one and carries the setup as the account has it, since nothing
but the hook's requests changes it (`SettingsInv`).

`SelectionShown`, `SkeletonsEnd` and `StarsTaken`, for any number of requests answered
or failed in any order on any page. `FrontEndInv` says of the mounted page what its
kind needs (`DashboardsHeld`, `MatchHeld`, `ClanHeld`, `GrenadesHeld`). All share
`Fetched`: requests are numbered, and no number of a slot exceeds the rounds asked.
Then, of each slot:

- the request with its last number asks for the selection of now, and so does what
  it shows if the answer to that number came last. A selection either makes the slot
  ask anew, so that older answers no longer count, or leaves its key alone;
- whatever says that it is loading has a request under way, and a button that is
  disabled has its own.

The exceptions are what the work was in. The players of a match and those compared are
asked for once, so that even a late answer is theirs (`FixedSlots`). The best
players depend on the match shown and not on the one selected (`MatchPageHeld`). The
first answer of the statistics, which is of nobody, is followed by a request as
long as there are players (`StatsFollow`). A list of grenades is empty
while it loads, and a toggle counts only for the list it was made in
(`StarsAwaited`).

TLC checked `OnceInv`, `SoughtInv`, `EarnedInv`, `OwnerInv`, `CreditInv`, `StandsInv`,
`SessionInv`, `SettingsInv` and `FrontEndInv` as invariants of the runs before they
were proved.

Only model-checked: everything under fairness (`EveryRunEnds`,
`EveryRequestAnswered`, `EveryJobSettles`, `CatchesUp`, `AuthLoadingEnds`,
`ListCatchesUp`, `CardFollowsPointer`), which is out of TLAPS's reach. Of every other
property of the passing runs there is a theorem.

## 5. Not modelled

Line of sight and aim (floating-point geometry); read-only queries, averages and
caches with a time to live; the inside of OAuth providers; logging, configuration and
images. Of the parser economy and impact of a round, grenades, achievements, game mode
and ranks; of the web application the computation of leaderboards and the match cache.
Of the front end the landing page, the layout and sidebar, the `ui` library, charts,
the drawing of the map, and five template components that nothing imports
(`data-table.tsx`, `chart-area-interactive.tsx`, `section-cards.tsx`,
`nav-documents.tsx`, `nav-secondary.tsx`). Time is abstracted to what timers can do:
that a timer has fired, a key expired or a reservation become overdue. The 24 h
cleanup of downloaded files and the Steam API's cool-off are not modelled. `Clans`
leaves out a Steam account that passes from one user to another, a second parse of its
match and a metadata request that the parser gave up waiting for while the web
application still adds players. On a map without favourites
`use-grenade-library.tsx:610` asks for its matches anew after every answer, since
`initialFilters` is another object at each render; the repeated request is the one
before once more, so that the loop is a stuttering step of `GrenadePages`.

Hazards known and not yet covered by a model: a second download of a code
overwrites the file that waits to be parsed (`DemoDownloadService.php:238`, shown
by `ReadWhole` above); `updateOrCreate` without a unique index may insert a user
of a leaderboard twice (`ClanLeaderboardService.php:58`); a page computed before
an invalidation is cached after it (`MatchCacheManager.php:57`); the report of a
failed job is sent once and may be lost (`batch_sender.go:881`), which leaves
the record in its last status; the fields of the one `DemoParser` are shared by
all jobs (`demo_parser.go:75`).

`PROJECT.json` has the status and reason of each component.

External code, modelled from how the sources use it: Laravel's queue worker and
database queue, Redis, `node-steam-user` and the Game Coordinator, the demo
library's events.

## 6. Plan

Done, in this order: job pipeline with its callbacks and abstract promise; event
delivery; demo URL service; queue and usage; rate limiter; sharecode pipeline; rounds;
assists; the rows of a round; clans; the pages of the front end, session and settings;
proofs of all of them but the match list and the player card, whose properties are
liveness.

Next, in this order:

1. Clan leaderboards: two computations of one period, members who left,
   visibility of a weekly computation.
2. `MatchCache`: `remember` against invalidation, with the observers that call it.
3. `SharedParser`: two parses over the fields of the one `DemoParser` and
   `ProgressManager`; player ticks and their cleanup.
4. The computations of the parser as function modules with reference definitions,
   checked over bounded inputs: impact of a round (`impact_rating.go`; its bonus for
   a won clutch and `round_handler.go:1082`'s for a won round are never given, since
   `clutchWon` is always false and team "A" is compared with winner "CT"), grenade throws and detonations
   (`grenade_handler.go`), achievements, game mode and rank detection.
5. A composition of queue, job and callbacks: from the upload to the completed
   record, with the retry of one meeting the late request of the other.

Theorems planned: those of the modules above, as they come.
