--------------------------- MODULE DemoUrlService ---------------------------
(***************************************************************************)
(* valve-demo-url-service: POST /demo asks Steam's Game Coordinator (GC)   *)
(* for the match of a sharecode and answers with its demo URL.             *)
(*                                                                         *)
(* SteamService has room for one pending request.  A later request takes   *)
(* the room over; a matchList event answers whoever has it, with the match *)
(* the event carries; every request has its own 30 s timer.  Handlers run  *)
(* to completion one at a time (Node's event loop), so an action is what   *)
(* runs between two awaits or timers.                                      *)
(***************************************************************************)
EXTENDS Naturals, FiniteSets

CONSTANTS
  Requests,     \* POST /demo requests
  Codes,        \* sharecodes
  CodeOf,       \* CodeOf[q]: the sharecode of request q
  RateMax,      \* requests the limiter lets through per window
  MaxDrops      \* bound on Steam errors

ASSUME CodeAssumption == CodeOf \in [Requests -> Codes]
ASSUME RateAssumption == RateMax \in Nat
ASSUME DropsAssumption == MaxDrops \in Nat

None == "none"
ASSUME NoneAssumption == None \notin Requests

VARIABLES
  connected, gcReady,
  pending,      \* pendingMatchRequest: a request or None
  status,       \* status[q]: see Statuses
  given,        \* given[q]: the sharecode of the match q was answered with
  delayed,      \* requests whose requestGame is scheduled, 1 s ahead
  asked,        \* requests whose requestGame the GC has not answered
  window,       \* requests counted in the limiter's window
  drops         \* Steam errors so far

urlVars == <<connected, gcReady, pending, status, given, delayed, asked, window,
          drops>>

\* limited: 429; waiting: the handler awaits requestMatchInfo; found: 200;
\* notFound: 404, the match has no URL; failed: 500.
Statuses == {"new", "limited", "waiting", "found", "notFound", "failed"}

isGCReady == gcReady /\ connected

-----------------------------------------------------------------------------
(* Steam's events.                                                           *)
LoggedOn ==
  /\ ~connected
  /\ connected' = TRUE
  /\ UNCHANGED <<gcReady, pending, status, given, delayed, asked, window, drops>>

\* appLaunched, or playingState with app 730.
AppLaunched ==
  /\ connected /\ ~gcReady
  /\ gcReady' = TRUE
  /\ UNCHANGED <<connected, pending, status, given, delayed, asked, window, drops>>

\* The pending request is left as it is.
SteamError ==
  /\ drops < MaxDrops
  /\ drops' = drops + 1
  /\ connected' = FALSE
  /\ gcReady' = FALSE
  /\ UNCHANGED <<pending, status, given, delayed, asked, window>>

-----------------------------------------------------------------------------
(* POST /demo.                                                               *)

Limit(q) ==
  /\ status[q] = "new"
  /\ window >= RateMax
  /\ status' = [status EXCEPT ![q] = "limited"]
  /\ UNCHANGED <<connected, gcReady, pending, given, delayed, asked, window, drops>>

\* getDemoUrl refuses while the GC is not ready.
Refuse(q) ==
  /\ status[q] = "new" /\ window < RateMax
  /\ ~isGCReady
  /\ status' = [status EXCEPT ![q] = "failed"]
  /\ window' = window + 1
  /\ UNCHANGED <<connected, gcReady, pending, given, delayed, asked, drops>>

\* requestMatchInfo: takes the room, whoever has it, and starts two timers.
RequestMatchInfo(q) ==
  /\ status[q] = "new" /\ window < RateMax
  /\ isGCReady
  /\ status' = [status EXCEPT ![q] = "waiting"]
  /\ pending' = q
  /\ delayed' = delayed \cup {q}
  /\ window' = window + 1
  /\ UNCHANGED <<connected, gcReady, given, asked, drops>>

\* The 1 s timer: cs.requestGame, whatever has become of the request.
RequestGame(q) ==
  /\ q \in delayed
  /\ delayed' = delayed \ {q}
  /\ asked' = asked \cup {q}
  /\ UNCHANGED <<connected, gcReady, pending, status, given, window, drops>>

\* Wrong timers: one that only ends the request in the room, and one that does
\* not empty it.
TimeoutOfRoom(q) ==
  /\ status[q] = "waiting" /\ pending = q
  /\ q \notin delayed
  /\ pending' = None
  /\ status' = [status EXCEPT ![q] = "failed"]
  /\ UNCHANGED <<connected, gcReady, given, delayed, asked, window, drops>>
TimeoutKeepingRoom(q) ==
  /\ status[q] = "waiting"
  /\ status' = [status EXCEPT ![q] = "failed"]
  /\ UNCHANGED <<connected, gcReady, pending, given, delayed, asked, window, drops>>

\* The 30 s timer: rejects its own request and empties the room, whoever has it.
Timeout(q) ==
  /\ status[q] = "waiting"
  /\ q \notin delayed
  /\ pending' = None
  /\ status' = [status EXCEPT ![q] = "failed"]
  /\ UNCHANGED <<connected, gcReady, given, delayed, asked, window, drops>>

\* A matchList with the match of q's sharecode goes to whoever has the room;
\* extractDemoUrl may find no URL in it.
MatchList(q) ==
  /\ q \in asked
  /\ asked' = asked \ {q}
  /\ IF pending = None THEN UNCHANGED <<pending, status, given>>
     ELSE /\ pending' = None
          /\ \/ /\ status' = [status EXCEPT ![pending] = "found"]
                /\ given' = [given EXCEPT ![pending] = {CodeOf[q]}]
             \/ /\ status' = [status EXCEPT ![pending] = "notFound"]
                /\ UNCHANGED given
  /\ UNCHANGED <<connected, gcReady, delayed, window, drops>>

\* A matchList without matches is ignored.
EmptyMatchList(q) ==
  /\ q \in asked
  /\ asked' = asked \ {q}
  /\ UNCHANGED <<connected, gcReady, pending, status, given, delayed, window, drops>>

\* The limiter's window of 15 minutes ends.
NewWindow ==
  /\ window > 0
  /\ window' = 0
  /\ UNCHANGED <<connected, gcReady, pending, status, given, delayed, asked, drops>>

-----------------------------------------------------------------------------
\* startServer listens once Steam is logged on.
UrlInit ==
  /\ connected = TRUE
  /\ gcReady = FALSE
  /\ pending = None
  /\ status = [q \in Requests |-> "new"]
  /\ given = [q \in Requests |-> {}]
  /\ delayed = {}
  /\ asked = {}
  /\ window = 0
  /\ drops = 0

UrlNext ==
  \/ LoggedOn \/ AppLaunched \/ SteamError \/ NewWindow
  \/ \E q \in Requests :
       \/ Limit(q) \/ Refuse(q) \/ RequestMatchInfo(q)
       \/ RequestGame(q) \/ Timeout(q) \/ MatchList(q) \/ EmptyMatchList(q)

UrlSpec == UrlInit /\ [][UrlNext]_urlVars

\* Timers fire and requests that have arrived are handled.
UrlFairness ==
  \A q \in Requests :
    WF_urlVars(Limit(q) \/ Refuse(q) \/ RequestMatchInfo(q))
      /\ WF_urlVars(RequestGame(q)) /\ WF_urlVars(Timeout(q))

UrlFairSpec == UrlSpec /\ UrlFairness

-----------------------------------------------------------------------------
UrlTypeOK ==
  /\ connected \in BOOLEAN /\ gcReady \in BOOLEAN
  /\ pending \in Requests \cup {None}
  /\ status \in [Requests -> Statuses]
  /\ given \in [Requests -> SUBSET Codes]
  /\ delayed \subseteq Requests
  /\ asked \subseteq Requests
  /\ window \in 0..RateMax
  /\ drops \in 0..MaxDrops

\* The room never belongs to a request that has been answered, so no request
\* is answered twice: every way out of waiting empties the room or had lost it.
RoomIsWaiting == pending # None => status[pending] = "waiting"

\* Every request is answered, also when its room is taken, Steam drops out or
\* the Game Coordinator stays silent: each has a timer of its own.
EveryRequestAnswered ==
  \A q \in Requests :
    status[q] = "new" ~> status[q] \in {"limited", "found", "notFound", "failed"}

\* server.ts:173 answers "matchId: sharecode" beside the URL, and
\* steamService.ts:87 calls the match it took "ourMatch": the URL given for a
\* sharecode is that of its match.
OwnMatch == \A q \in Requests : given[q] \subseteq {CodeOf[q]}
=============================================================================
