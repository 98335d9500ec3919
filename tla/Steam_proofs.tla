---------------------------- MODULE Steam_proofs ----------------------------
(***************************************************************************)
(* Proofs about what stands between the web application and Steam: the     *)
(* rate limiter, for any number of workers, requests and kills, and the    *)
(* demo URL service, for any requests, sharecodes, limit and number of     *)
(* Steam errors.                                                           *)
(***************************************************************************)
EXTENDS RateLimiter, DemoUrlService, FiniteSetTheorems, TLAPS

-----------------------------------------------------------------------------
(* The rate limiter.  OvershootBounded is inductive with the types: a      *)
(* worker is only let through below the limit, and then at most all        *)
(* workers are between GET and INCR.  FullWindowExpires is not: it needs   *)
(* to know that every request counted in a key without a time to live has  *)
(* its worker between INCR and EXPIRE, or a kill to account for it.        *)

Counted == {w \in Workers : at[w] = "expire"}

\* Every request of a window without a time to live is accounted for.
RequestsAccounted == ~expiring => count <= Cardinality(Counted) + kills

LimiterInv ==
  /\ count \in Nat
  /\ expiring \in BOOLEAN
  /\ at \in [Workers -> Places]
  /\ kills \in 0..MaxKills
  /\ OvershootBounded
  /\ RequestsAccounted

-----------------------------------------------------------------------------
\* A set of workers is finite and no larger than all of them.
LEMMA WorkerSubset ==
  ASSUME NEW S, S \subseteq Workers
  PROVE  /\ IsFiniteSet(S) /\ Cardinality(S) \in Nat
         /\ Cardinality(Workers) \in Nat
         /\ Cardinality(S) <= Cardinality(Workers)
  BY WorkersAssumption, FS_Subset, FS_CardinalityType

\* So are Admitted and Counted, before and after a step.
LEMMA WorkerSets ==
  /\ IsFiniteSet(Admitted) /\ Cardinality(Admitted) \in Nat
  /\ IsFiniteSet(Counted) /\ Cardinality(Counted) \in Nat
  /\ Cardinality(Workers) \in Nat
  /\ Cardinality(Admitted) <= Cardinality(Workers)
  /\ Cardinality(Admitted') \in Nat /\ Cardinality(Counted') \in Nat
  /\ Cardinality(Admitted') <= Cardinality(Workers)
<1>1. Admitted \subseteq Workers /\ Counted \subseteq Workers
  BY DEF Admitted, Counted
<1>2. Admitted' \subseteq Workers /\ Counted' \subseteq Workers
  BY DEF Admitted, Counted
<1> QED
  BY <1>1, <1>2, WorkerSubset

LEMMA InitLimiter == Init => LimiterInv
<1> SUFFICES ASSUME Init PROVE LimiterInv
  OBVIOUS
<1>1. Admitted = {} /\ Counted = {}
  BY DEF Init, Admitted, Counted
<1>2. Cardinality(Admitted) = 0 /\ Cardinality(Counted) = 0
  BY <1>1, FS_EmptySet
<1>3. at \in [Workers -> Places]
  BY DEF Init, Places
<1>4. count = 0 /\ kills = 0
  BY DEF Init
<1>5. expiring \in BOOLEAN
  BY DEF Init
<1>6. OvershootBounded
  BY <1>2, <1>4, WorkerSets, RequestsAssumption DEF OvershootBounded
<1>7. RequestsAccounted
  BY <1>2, <1>4 DEF RequestsAccounted
<1> QED
  BY <1>3, <1>4, <1>5, <1>6, <1>7, KillsAssumption DEF LimiterInv

-----------------------------------------------------------------------------
(* How a worker's move changes the two sets.                                 *)

\* A worker that goes somewhere leaves the set of its old place and joins that
\* of its new one.
LEMMA Moves ==
  ASSUME at \in [Workers -> Places], NEW w \in Workers, NEW place \in Places,
         Goto(w, place)
  PROVE  /\ at' \in [Workers -> Places]
         /\ Admitted' = IF place = "incr" THEN Admitted \cup {w} ELSE Admitted \ {w}
         /\ Counted' = IF place = "expire" THEN Counted \cup {w} ELSE Counted \ {w}
  BY DEF Goto, Admitted, Counted

\* What that does to their sizes.
LEMMA Sizes ==
  ASSUME at \in [Workers -> Places], NEW w \in Workers, NEW place \in Places,
         Goto(w, place)
  PROVE  /\ Cardinality(Admitted') =
              Cardinality(Admitted) + (IF place = "incr" THEN 1 ELSE 0)
                                    - (IF at[w] = "incr" THEN 1 ELSE 0)
         /\ Cardinality(Counted') =
              Cardinality(Counted) + (IF place = "expire" THEN 1 ELSE 0)
                                   - (IF at[w] = "expire" THEN 1 ELSE 0)
<1>1. /\ w \in Admitted <=> at[w] = "incr"
      /\ w \in Counted <=> at[w] = "expire"
  BY DEF Admitted, Counted
<1>2. /\ Cardinality(Admitted \cup {w}) =
           IF w \in Admitted THEN Cardinality(Admitted) ELSE Cardinality(Admitted) + 1
      /\ Cardinality(Counted \cup {w}) =
           IF w \in Counted THEN Cardinality(Counted) ELSE Cardinality(Counted) + 1
  BY WorkerSets, FS_AddElement
<1>3. /\ Cardinality(Admitted \ {w}) =
           IF w \in Admitted THEN Cardinality(Admitted) - 1 ELSE Cardinality(Admitted)
      /\ Cardinality(Counted \ {w}) =
           IF w \in Counted THEN Cardinality(Counted) - 1 ELSE Cardinality(Counted)
  BY WorkerSets, FS_RemoveElement
<1>4. /\ Admitted' = IF place = "incr" THEN Admitted \cup {w} ELSE Admitted \ {w}
      /\ Counted' = IF place = "expire" THEN Counted \cup {w} ELSE Counted \ {w}
  BY Moves
<1>5. Cardinality(Admitted') =
        Cardinality(Admitted) + (IF place = "incr" THEN 1 ELSE 0)
                              - (IF at[w] = "incr" THEN 1 ELSE 0)
  <2>1. CASE place = "incr"
    BY <2>1, <1>1, <1>2, <1>4, WorkerSets
  <2>2. CASE place # "incr"
    BY <2>2, <1>1, <1>3, <1>4, WorkerSets
  <2> QED
    BY <2>1, <2>2
<1>6. Cardinality(Counted') =
        Cardinality(Counted) + (IF place = "expire" THEN 1 ELSE 0)
                             - (IF at[w] = "expire" THEN 1 ELSE 0)
  <2>1. CASE place = "expire"
    BY <2>1, <1>1, <1>2, <1>4, WorkerSets
  <2>2. CASE place # "expire"
    BY <2>2, <1>1, <1>3, <1>4, WorkerSets
  <2> QED
    BY <2>1, <2>2
<1> QED
  BY <1>5, <1>6

-----------------------------------------------------------------------------
LEMMA StepLimiter == LimiterInv /\ [Next]_vars => LimiterInv'
<1> SUFFICES ASSUME LimiterInv, [Next]_vars PROVE LimiterInv'
  OBVIOUS
<1> USE DEF LimiterInv
<1>0. /\ Cardinality(Admitted) \in Nat /\ Cardinality(Counted) \in Nat
      /\ Cardinality(Workers) \in Nat
      /\ MaxRequests \in Nat \ {0} /\ MaxKills \in Nat
      /\ Cardinality(Admitted') <= Cardinality(Workers) /\ Cardinality(Admitted') \in Nat
  BY WorkerSets, RequestsAssumption, KillsAssumption
<1>1. ASSUME NEW w \in Workers, checkSteamApiLimit(w) PROVE LimiterInv'
  <2>1. Goto(w, "check") /\ at[w] = "idle" /\ UNCHANGED <<count, expiring, kills>>
    BY <1>1 DEF checkSteamApiLimit
  <2>2. at' \in [Workers -> Places]
    BY <2>1, Moves DEF Places
  <2>3. Cardinality(Admitted') = Cardinality(Admitted)
        /\ Cardinality(Counted') = Cardinality(Counted)
    BY <2>1, <1>0, Sizes DEF Places
  <2> QED
    BY <2>1, <2>2, <2>3 DEF OvershootBounded, RequestsAccounted
<1>2. ASSUME NEW w \in Workers, get(w) PROVE LimiterInv'
  <2>1. at[w] \in {"check", "wait"} /\ UNCHANGED <<count, expiring, kills>>
    BY <1>2 DEF get
  <2>2. CASE count >= MaxRequests
    <3>1. Goto(w, "wait")
      BY <1>2, <2>2 DEF get
    <3>2. at' \in [Workers -> Places]
      BY <3>1, Moves DEF Places
    <3>3. Cardinality(Admitted') = Cardinality(Admitted)
          /\ Cardinality(Counted') = Cardinality(Counted)
      BY <2>1, <3>1, <1>0, Sizes DEF Places
    <3> QED
      BY <2>1, <3>2, <3>3 DEF OvershootBounded, RequestsAccounted
  <2>3. CASE ~(count >= MaxRequests)
    <3>1. Goto(w, "incr")
      BY <1>2, <2>3 DEF get
    <3>2. at' \in [Workers -> Places]
      BY <3>1, Moves DEF Places
    <3>3. Cardinality(Counted') = Cardinality(Counted)
      BY <2>1, <3>1, <1>0, Sizes DEF Places
    <3>4. OvershootBounded'
      BY <1>0, <2>1, <2>3 DEF OvershootBounded
    <3> QED
      BY <2>1, <3>2, <3>3, <3>4 DEF RequestsAccounted
  <2> QED
    BY <2>2, <2>3
<1>3. ASSUME NEW w \in Workers, incr(w) PROVE LimiterInv'
  <2>1. /\ at[w] = "incr" /\ count' = count + 1 /\ Goto(w, "expire")
        /\ UNCHANGED <<expiring, kills>>
    BY <1>3 DEF incr
  <2>2. at' \in [Workers -> Places]
    BY <2>1, Moves DEF Places
  <2>3. Cardinality(Admitted') = Cardinality(Admitted) - 1
        /\ Cardinality(Counted') = Cardinality(Counted) + 1
    BY <2>1, <1>0, Sizes DEF Places
  <2> QED
    BY <1>0, <2>1, <2>2, <2>3 DEF OvershootBounded, RequestsAccounted
<1>4. ASSUME NEW w \in Workers, expire(w) PROVE LimiterInv'
  <2>1. /\ at[w] = "expire" /\ expiring' = (count > 0) /\ Goto(w, "idle")
        /\ UNCHANGED <<count, kills>>
    BY <1>4 DEF expire
  <2>2. at' \in [Workers -> Places]
    BY <2>1, Moves DEF Places
  <2>3. Cardinality(Admitted') = Cardinality(Admitted) /\ Cardinality(Counted') \in Nat
    BY <2>1, <1>0, Sizes, WorkerSets DEF Places
  <2>4. expiring' \in BOOLEAN
    BY <2>1
  <2>5. expiring' \/ count' = 0
    <3>1. count > 0 \/ count = 0
      OBVIOUS
    <3> QED
      BY <2>1, <3>1, Zenon
  <2>6. OvershootBounded'
    BY <1>0, <2>1, <2>3 DEF OvershootBounded
  <2>7. RequestsAccounted'
    <3> SUFFICES ASSUME ~expiring' PROVE count' <= Cardinality(Counted') + kills'
      BY DEF RequestsAccounted
    <3>1. count' = 0 /\ kills' \in Nat
      BY <2>1, <2>5
    <3> QED
      BY <2>3, <3>1
  <2> QED
    BY <2>1, <2>2, <2>4, <2>6, <2>7
<1>5. ASSUME Expires PROVE LimiterInv'
  <2>1. Admitted' = Admitted /\ Counted' = Counted
    BY <1>5 DEF Expires, Admitted, Counted
  <2>2. count' = 0 /\ expiring' \in BOOLEAN /\ UNCHANGED <<at, kills>>
    BY <1>5 DEF Expires
  <2>3. OvershootBounded' /\ RequestsAccounted'
    BY <1>0, <2>1, <2>2 DEF OvershootBounded, RequestsAccounted
  <2> QED
    BY <2>2, <2>3
<1>6. ASSUME NEW w \in Workers, Kill(w) PROVE LimiterInv'
  <2>1. /\ kills < MaxKills /\ kills' = kills + 1 /\ Goto(w, "idle")
        /\ UNCHANGED <<count, expiring>>
    BY <1>6 DEF Kill
  <2>2. at' \in [Workers -> Places]
    BY <2>1, Moves DEF Places
  <2>3. Cardinality(Admitted') <= Cardinality(Admitted)
        /\ Cardinality(Counted') >= Cardinality(Counted) - 1
    BY <2>1, <1>0, Sizes DEF Places
  <2>4. Cardinality(Counted') \in Nat
    BY WorkerSets
  <2>5. kills' \in 0..MaxKills
    BY <1>0, <2>1
  <2>6. OvershootBounded'
    BY <1>0, <2>1, <2>3 DEF OvershootBounded
  <2>7. RequestsAccounted'
    BY <1>0, <2>1, <2>3, <2>4 DEF RequestsAccounted
  <2> QED
    BY <2>1, <2>2, <2>5, <2>6, <2>7
<1>7. ASSUME UNCHANGED vars PROVE LimiterInv'
  BY <1>7 DEF vars, OvershootBounded, RequestsAccounted, Admitted, Counted
<1> QED
  BY <1>1, <1>2, <1>3, <1>4, <1>5, <1>6, <1>7 DEF Next, Step

LEMMA LimiterInvariant == Spec => []LimiterInv
  BY InitLimiter, StepLimiter, PTL DEF Spec

-----------------------------------------------------------------------------
\* However the GET, INCR and EXPIRE of any number of workers interleave and
\* whoever is killed, a window admits at most one request more per other worker
\* (RateLimiterService::checkRateLimit).
THEOREM WindowOvershoots == Spec => []OvershootBounded
<1>1. LimiterInv => OvershootBounded
  BY DEF LimiterInv
<1> QED
  BY <1>1, LimiterInvariant, PTL

\* Every variable keeps its type, and the counter its bound.
THEOREM LimiterTypes == Spec => []TypeOK
<1>1. LimiterInv => TypeOK
  BY WorkerSets, RequestsAssumption DEF LimiterInv, TypeOK, OvershootBounded
<1> QED
  BY <1>1, LimiterInvariant, PTL

\* With fewer kills than requests per window, a full window always has a time
\* to live or a worker about to give it one.
THEOREM FullWindowsExpire ==
  ASSUME MaxKills < MaxRequests
  PROVE  Spec => []FullWindowExpires
<1>1. ASSUME LimiterInv PROVE FullWindowExpires
  <2> SUFFICES ASSUME count >= MaxRequests, ~expiring
               PROVE  \E w \in Workers : at[w] = "expire"
    BY DEF FullWindowExpires
  <2>1. Cardinality(Counted) # 0
    BY <1>1, WorkerSets, RequestsAssumption, KillsAssumption
    DEF LimiterInv, RequestsAccounted
  <2>2. Counted # {}
    BY <2>1, FS_EmptySet
  <2> QED
    BY <2>2 DEF Counted
<1> QED
  BY <1>1, LimiterInvariant, PTL

-----------------------------------------------------------------------------
(* The demo URL service has one room for all who wait; that no request is  *)
(* answered twice rests on the room never belonging to one that has its    *)
(* answer.  This is inductive with the types: a request enters the room    *)
(* when it begins to wait, and whatever ends the wait empties the room.    *)

UrlInv == UrlTypeOK /\ RoomIsWaiting

LEMMA InitUrl == UrlInit => UrlInv
<1> SUFFICES ASSUME UrlInit PROVE UrlInv
  OBVIOUS
<1>1. connected \in BOOLEAN /\ gcReady \in BOOLEAN
  BY Zenon DEF UrlInit
<1>2. window \in 0..RateMax /\ drops \in 0..MaxDrops
  BY RateAssumption, DropsAssumption DEF UrlInit
<1>3. /\ pending = None /\ delayed = {} /\ asked = {}
      /\ status \in [Requests -> Statuses] /\ given \in [Requests -> SUBSET Codes]
  BY DEF UrlInit, Statuses
<1> QED
  BY <1>1, <1>2, <1>3 DEF UrlInv, UrlTypeOK, RoomIsWaiting

\* A step of any action keeps the types and the owner of the room.
LEMMA NextUrl == UrlInv /\ [UrlNext]_urlVars => UrlInv'
<1> SUFFICES ASSUME UrlInv, [UrlNext]_urlVars PROVE UrlInv'
  OBVIOUS
<1> USE NoneAssumption, RateAssumption, DropsAssumption
        DEF UrlInv, UrlTypeOK, RoomIsWaiting, Statuses
<1>1. CASE LoggedOn
  BY <1>1 DEF LoggedOn
<1>2. CASE AppLaunched
  BY <1>2 DEF AppLaunched
<1>3. CASE SteamError
  <2>1. connected' \in BOOLEAN /\ gcReady' \in BOOLEAN
    BY <1>3, Zenon DEF SteamError
  <2>2. drops' \in 0..MaxDrops
    BY <1>3 DEF SteamError
  <2>3. UNCHANGED <<pending, status, given, delayed, asked, window>>
    BY <1>3 DEF SteamError
  <2> QED
    BY <2>1, <2>2, <2>3
<1>4. CASE NewWindow
  BY <1>4 DEF NewWindow
<1>5. ASSUME NEW q \in Requests, Limit(q) PROVE UrlInv'
  BY <1>5 DEF Limit
<1>6. ASSUME NEW q \in Requests, Refuse(q) PROVE UrlInv'
  BY <1>6 DEF Refuse
<1>7. ASSUME NEW q \in Requests, RequestMatchInfo(q) PROVE UrlInv'
  BY <1>7 DEF RequestMatchInfo
<1>8. ASSUME NEW q \in Requests, RequestGame(q) PROVE UrlInv'
  BY <1>8 DEF RequestGame
<1>9. ASSUME NEW q \in Requests, Timeout(q) PROVE UrlInv'
  BY <1>9 DEF Timeout
<1>10. ASSUME NEW q \in Requests, MatchList(q) PROVE UrlInv'
  <2>1. CodeOf[q] \in Codes
    BY CodeAssumption
  <2>2. CASE pending = None
    BY <1>10, <2>2 DEF MatchList
  <2>3. CASE pending # None
    <3>1. pending \in Requests
      BY <2>3
    <3>2. /\ pending' = None /\ asked' = asked \ {q}
          /\ UNCHANGED <<connected, gcReady, delayed, window, drops>>
          /\ status' \in {[status EXCEPT ![pending] = "found"], [status EXCEPT ![pending] = "notFound"]}
          /\ given' \in {given, [given EXCEPT ![pending] = {CodeOf[q]}]}
      BY <1>10, <2>3 DEF MatchList
    <3>3. status' \in [Requests -> Statuses] /\ given' \in [Requests -> SUBSET Codes]
      BY <2>1, <3>1, <3>2
    <3> QED
      BY <3>2, <3>3
  <2> QED
    BY <2>2, <2>3
<1>11. ASSUME NEW q \in Requests, EmptyMatchList(q) PROVE UrlInv'
  BY <1>11 DEF EmptyMatchList
<1>12. CASE UNCHANGED urlVars
  BY <1>12 DEF urlVars
<1> QED
  BY <1>1, <1>2, <1>3, <1>4, <1>5, <1>6, <1>7, <1>8, <1>9, <1>10, <1>11, <1>12 DEF UrlNext

LEMMA UrlInvariant == UrlSpec => []UrlInv
  BY InitUrl, NextUrl, PTL DEF UrlSpec

\* The state of the service, and what it gives away, have their types: the
\* limiter never counts beyond its limit (server.ts).
THEOREM UrlTypes == UrlSpec => []UrlTypeOK
  BY UrlInvariant, PTL DEF UrlInv

\* The room never belongs to a request that has been answered.
THEOREM RoomOfWaiting == UrlSpec => []RoomIsWaiting
  BY UrlInvariant, PTL DEF UrlInv

-----------------------------------------------------------------------------
Answered == {"limited", "found", "notFound", "failed"}

\* An answer is the last word: no timer, late matchList, error of Steam or new
\* owner of the room changes how an answered request ended or what it was given
\* (steamService.ts: pendingMatchRequest).
AnsweredOnce ==
  [][\A q \in Requests : status[q] \in Answered =>
        status'[q] = status[q] /\ given'[q] = given[q]]_urlVars

THEOREM OneAnswer == UrlSpec => AnsweredOnce
<1> DEFINE Kept == \A q \in Requests : status[q] \in Answered =>
                      status'[q] = status[q] /\ given'[q] = given[q]
<1>1. ASSUME UrlInv, UrlNext PROVE Kept
  <2> USE <1>1 DEF UrlInv, UrlTypeOK, RoomIsWaiting, Answered
  <2>1. CASE LoggedOn \/ AppLaunched \/ SteamError \/ NewWindow
    BY <2>1 DEF LoggedOn, AppLaunched, SteamError, NewWindow
  <2>2. ASSUME NEW q \in Requests, Limit(q) \/ Refuse(q) \/ RequestMatchInfo(q)
        PROVE  Kept
    BY <2>2 DEF Limit, Refuse, RequestMatchInfo
  <2>3. ASSUME NEW q \in Requests, RequestGame(q) \/ EmptyMatchList(q) PROVE Kept
    BY <2>3 DEF RequestGame, EmptyMatchList
  <2>4. ASSUME NEW q \in Requests, Timeout(q) PROVE Kept
    BY <2>4 DEF Timeout
  <2>5. ASSUME NEW q \in Requests, MatchList(q) PROVE Kept
    BY <2>5 DEF MatchList
  <2> QED
    BY <2>1, <2>2, <2>3, <2>4, <2>5 DEF UrlNext
<1>2. UrlInv /\ [UrlNext]_urlVars => [Kept]_urlVars
  BY <1>1
<1> QED
  BY <1>2, UrlInvariant, PTL DEF UrlSpec, AnsweredOnce
=============================================================================
