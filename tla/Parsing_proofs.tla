--------------------------- MODULE Parsing_proofs ---------------------------
(***************************************************************************)
(* What the parser makes of a demo, for every roster and length of match,  *)
(* every set of hits and every round: the rounds are credited to the right *)
(* team, the sides of a fight are the true ones, assists are earned and    *)
(* counted, trades are told alike of both sides, clutches are those played.*)
(***************************************************************************)
EXTENDS MatchRounds, DamageAssists, RoundMetrics, FiniteSetTheorems, WellFoundedInduction,
        TLAPS

-----------------------------------------------------------------------------
(* Induction over the naturals, of a set instead of an operator.           *)

LEMMA NatFromZero ==
  ASSUME NEW S, 0 \in S, \A k \in Nat : k \in S => k + 1 \in S
  PROVE  Nat \subseteq S
<1> SUFFICES ASSUME Nat \ S # {} PROVE FALSE
  OBVIOUS
<1>1. PICK m \in Nat \ S : \A l \in Nat \ S : <<l, m>> \notin OpToRel(<, Nat)
  BY NatLessThanWellFounded, WFMin
<1>2. m # 0 /\ m - 1 \in Nat \ S
  OBVIOUS
<1>3. <<m - 1, m>> \in OpToRel(<, Nat)
  <2> DEFINE ss == <<m - 1, m>>
  <2>1. ss \in Nat \X Nat /\ ss[1] < ss[2]
    BY <1>2
  <2> QED
    BY <2>1 DEF OpToRel
<1> QED
  BY <1>1, <1>2, <1>3

-----------------------------------------------------------------------------
(* Remainders: the rounds of an overtime half.                             *)

LEMMA NextMultiple ==
  ASSUME NEW k \in Nat, NEW a \in Nat, NEW b \in Nat, a < b
  PROVE  k * a + k <= k * b
<1> DEFINE d == b - a - 1
<1>1. d \in Nat /\ b = a + 1 + d
  OBVIOUS
<1> HIDE DEF d
<1>2. k * b = k * a + k + k * d /\ k * d \in Nat /\ k * a \in Nat
  BY <1>1
<1> QED
  BY <1>2

LEMMA OneQuotient ==
  ASSUME NEW k \in Nat, NEW a \in Nat, NEW b \in Nat,
         NEW r \in 0..(k - 1), NEW s \in 0..(k - 1), k * a + r = k * b + s
  PROVE  a = b
<1>1. k * a \in Nat /\ k * b \in Nat
  OBVIOUS
<1>2. ~(a < b)
  <2> SUFFICES ASSUME a < b PROVE FALSE
    OBVIOUS
  <2>1. k * a + k <= k * b
    BY NextMultiple
  <2> QED
    BY <2>1, <1>1
<1>3. ~(b < a)
  <2> SUFFICES ASSUME b < a PROVE FALSE
    OBVIOUS
  <2>1. k * b + k <= k * a
    BY NextMultiple
  <2> QED
    BY <2>1, <1>1
<1> QED
  BY <1>2, <1>3

LEMMA NextRemainder ==
  ASSUME NEW k \in Nat, k >= 2, NEW x \in Nat
  PROVE  (x % k = 0) <=> ((x + 1) % k = 1)
<1> DEFINE a == x \div k
           b == (x + 1) \div k
           r == x % k
           s == (x + 1) % k
<1>1. x = k * a + r /\ r \in 0..(k - 1) /\ a \in Nat
  OBVIOUS
<1>2. x + 1 = k * b + s /\ s \in 0..(k - 1) /\ b \in Nat
  OBVIOUS
<1> HIDE DEF a, b, r, s
<1>3. k * a \in Nat /\ k * b \in Nat
  BY <1>1, <1>2
<1>4. r = 0 => s = 1
  <2>1. r = 0 => k * a + 1 = k * b + s
    BY <1>1, <1>2, <1>3
  <2>2. r = 0 => a = b
    BY <1>1, <1>2, <2>1, OneQuotient, 1 \in 0..(k - 1)
  <2> QED
    BY <2>1, <2>2, <1>2, <1>3
<1>5. s = 1 => r = 0
  <2>1. s = 1 => k * a + r = k * b + 0
    BY <1>1, <1>2, <1>3
  <2>2. s = 1 => a = b
    BY <1>1, <1>2, <2>1, OneQuotient, 0 \in 0..(k - 1)
  <2> QED
    BY <2>1, <2>2, <1>1, <1>3
<1> QED
  BY <1>4, <1>5 DEF r, s

\* The rounds at whose end checkForSideSwitch switches are those that follow a
\* swap of the demo.
LEMMA SwitchFollowsSwap ==
  ASSUME NEW n \in Nat
  PROVE  /\ SwapAfter(n) <=> switchAt(n + 1)
         /\ ~switchAt(0) /\ ~switchAt(1)
         /\ SwapAfter(n) => n >= Half
<1>1. Half \in Nat /\ Half > 0 /\ OTHalf \in Nat /\ OTHalf >= 2 /\ 2 * Half \in Nat
  BY RoundsAssumption
<1>2. CASE n >= 2 * Half
  <2> DEFINE x == n - 2 * Half
  <2>1. x \in Nat /\ (n + 1) - 2 * Half = x + 1
    BY <1>1, <1>2
  <2>2. (x % OTHalf = 0) <=> ((x + 1) % OTHalf = 1)
    BY <1>1, <2>1, NextRemainder
  <2>3. SwapAfter(n) <=> (x >= OTHalf /\ x % OTHalf = 0)
    BY <1>1, <1>2 DEF SwapAfter
  <2>4. switchAt(n + 1) <=> ((x + 1) % OTHalf = 1 /\ x + 1 > OTHalf)
    <3>1. n + 1 # Half + 1 /\ n + 1 > 2 * Half
      BY <1>1, <1>2
    <3> QED
      BY <3>1, <2>1 DEF switchAt
  <2> HIDE DEF x
  <2>5. SwapAfter(n) <=> switchAt(n + 1)
    BY <2>1, <2>2, <2>3, <2>4, <1>1
  <2> QED
    BY <2>5, <1>1, <1>2 DEF switchAt
<1>3. CASE n < 2 * Half
  <2>1. ~(n >= 2 * Half + OTHalf) /\ ~(n + 1 > 2 * Half) /\ (n = Half <=> n + 1 = Half + 1)
    BY <1>1, <1>3
  <2>2. SwapAfter(n) <=> n = Half
    BY <2>1 DEF SwapAfter
  <2>3. switchAt(n + 1) <=> n + 1 = Half + 1
    BY <2>1 DEF switchAt
  <2> QED
    BY <2>1, <2>2, <2>3, <1>1 DEF switchAt
<1> QED
  BY <1>1, <1>2, <1>3

-----------------------------------------------------------------------------
(* The teams: what an event of a player does to the assignments.           *)

MapsOK(s) ==
  /\ (DOMAIN s.assigned \cup DOMAIN s.team) \subseteq Players
  /\ \A q \in DOMAIN s.assigned : s.assigned[q] \in Teams
  /\ \A q \in DOMAIN s.team : s.team[q] \in Teams

\* e is s with new assignments, by their true sides, of players in P only.
Adds(s, e, P) ==
  /\ MapsOK(e)
  /\ DOMAIN s.assigned \subseteq DOMAIN e.assigned
  /\ \A q \in DOMAIN s.assigned : e.assigned[q] = s.assigned[q]
  /\ \A q \in DOMAIN e.assigned \ DOMAIN s.assigned :
       q \in P /\ currentRound <= Half
         /\ e.assigned[q] = IF TrueSide(q) = "CT" THEN "A" ELSE "B"

LEMMA SidesOf == ASSUME homeSide \in Sides, NEW p \in Players
  PROVE  TrueSide(p) \in Sides /\ (getTeamString(p) \in Sides => getTeamString(p) = TrueSide(p))
  BY DEF TrueSide, Other, Sides, getTeamString

LEMMA AssignAdds ==
  ASSUME NEW t, NEW p \in Players, NEW side, homeSide \in Sides,
         side \in Sides => side = TrueSide(p),
         DOMAIN t \subseteq Players, \A q \in DOMAIN t : t[q] \in Teams,
         NEW u, u = assignTeamBasedOnRound1To12(t, p, side)
  PROVE  /\ DOMAIN t \subseteq DOMAIN u /\ DOMAIN u \subseteq Players
         /\ \A q \in DOMAIN u : u[q] \in Teams
         /\ \A q \in DOMAIN t : u[q] = t[q]
         /\ \A q \in DOMAIN u \ DOMAIN t :
              q = p /\ currentRound <= Half
                /\ u[q] = IF TrueSide(q) = "CT" THEN "A" ELSE "B"
         /\ getAssignedTeam(u, p) \in Teams
<1>1. CASE u = t
  BY <1>1 DEF getAssignedTeam, Teams
<1>2. CASE u # t
  <2> DEFINE x == IF side = "CT" THEN "A" ELSE "B"
  <2>1. /\ currentRound <= Half /\ side \in Sides /\ p \notin DOMAIN t
        /\ u = [q \in DOMAIN t \cup {p} |-> IF q \in DOMAIN t THEN t[q] ELSE x]
    BY <1>2 DEF assignTeamBasedOnRound1To12, PutIfAbsent
  <2>2. x \in Teams /\ x = IF TrueSide(p) = "CT" THEN "A" ELSE "B"
    BY <2>1 DEF Teams
  <2> HIDE DEF x
  <2> QED
    BY <2>1, <2>2 DEF getAssignedTeam
<1> QED
  BY <1>1, <1>2

LEMMA TrackAdds ==
  ASSUME NEW s, MapsOK(s), NEW p \in Players, homeSide \in Sides,
         NEW e, e = ensurePlayerTracked(s, p, getTeamString(p))
  PROVE  Adds(s, e, {p})
<1> DEFINE t == assignTeamBasedOnRound1To12(s.assigned, p, getTeamString(p))
<1>1. e.assigned = t /\ e.team = PutIfAbsent(s.team, p, getAssignedTeam(t, p))
  BY DEF ensurePlayerTracked
<1>2. getTeamString(p) \in Sides => getTeamString(p) = TrueSide(p)
  BY SidesOf
<1>3. /\ DOMAIN s.assigned \subseteq DOMAIN t /\ DOMAIN t \subseteq Players
      /\ \A q \in DOMAIN t : t[q] \in Teams
      /\ \A q \in DOMAIN s.assigned : t[q] = s.assigned[q]
      /\ \A q \in DOMAIN t \ DOMAIN s.assigned :
           q = p /\ currentRound <= Half
             /\ t[q] = IF TrueSide(q) = "CT" THEN "A" ELSE "B"
      /\ getAssignedTeam(t, p) \in Teams
  BY <1>2, AssignAdds DEF MapsOK
<1> HIDE DEF t
<1>4. /\ DOMAIN e.team \subseteq Players
      /\ \A q \in DOMAIN e.team : e.team[q] \in Teams
  BY <1>1, <1>3 DEF PutIfAbsent, MapsOK
<1> QED
  BY <1>1, <1>3, <1>4 DEF Adds, MapsOK

LEMMA AddsTwice ==
  ASSUME NEW s, NEW e, NEW f, NEW P, NEW Q, Adds(s, e, P), Adds(e, f, Q)
  PROVE  Adds(s, f, P \cup Q)
<1>1. \A q \in DOMAIN s.assigned : f.assigned[q] = s.assigned[q]
  BY DEF Adds
<1>2. ASSUME NEW q \in DOMAIN f.assigned \ DOMAIN s.assigned
      PROVE  q \in P \cup Q /\ currentRound <= Half
               /\ f.assigned[q] = IF TrueSide(q) = "CT" THEN "A" ELSE "B"
  BY DEF Adds
<1> QED
  BY <1>1, <1>2 DEF Adds

\* Players are only assigned while they may be; the first sets the sides.
AssignStep ==
  /\ DOMAIN teamAssignments \subseteq DOMAIN teamAssignments'
  /\ \A q \in DOMAIN teamAssignments : teamAssignments'[q] = teamAssignments[q]
  /\ \A q \in DOMAIN teamAssignments' \ DOMAIN teamAssignments :
       /\ currentRound <= Half
       /\ BreakJoins \/ phase # "break" \/ played # Half
       /\ teamAssignments'[q] = IF TrueSide(q) = "CT" THEN "A" ELSE "B"
  /\ MapsOK(Maps)'
  /\ currentSide' = IF currentSide["A"] = NoSide /\ DOMAIN teamAssignments' # {}
                      THEN [A |-> "CT", B |-> "T"] ELSE currentSide
  /\ present' \subseteq Players
  /\ UNCHANGED <<server, phase, played, homeSide, won, currentRound, teamWins, ends, failed>>

LEMMA AddsAssigns ==
  ASSUME NEW e, NEW P, Adds(Maps, e, P), SetMaps(e),
         \A q \in P : MayAppear(q) \/ phase # "break",
         present' \subseteq Players,
         UNCHANGED <<server, phase, played, homeSide, won, currentRound, teamWins, ends, failed>>
  PROVE  AssignStep
<1>1. teamAssignments' = e.assigned /\ team' = e.team
  BY DEF SetMaps
<1>2. MapsOK(Maps)'
  BY <1>1 DEF Adds, MapsOK, Maps
<1>3. \A q \in DOMAIN teamAssignments' \ DOMAIN teamAssignments :
        /\ currentRound <= Half
        /\ BreakJoins \/ phase # "break" \/ played # Half
        /\ teamAssignments'[q] = IF TrueSide(q) = "CT" THEN "A" ELSE "B"
  BY <1>1 DEF Adds, Maps, MayAppear
<1> QED
  BY <1>1, <1>2, <1>3 DEF AssignStep, Adds, Maps, SetMaps

LEMMA PlayerAssigns ==
  ASSUME PlayerEvent, MapsOK(Maps), homeSide \in Sides, present \subseteq Players
  PROVE  AssignStep /\ (gunfight' # gunfight => phase # "break")
<1> PICK p \in Players : \/ HandlePlayerConnect(p)
                         \/ HandlePlayerTeamChange(p)
                         \/ HandleWeaponFire(p)
                         \/ \E v \in Players : HandlePlayerKilled(p, v)
  BY DEF PlayerEvent
<1> DEFINE e == ensurePlayerTracked(Maps, p, getTeamString(p))
<1>1. Adds(Maps, e, {p})
  BY TrackAdds
<1>2. CASE HandlePlayerConnect(p)
  BY <1>1, <1>2, AddsAssigns DEF HandlePlayerConnect, demo
<1>3. CASE HandleWeaponFire(p)
  BY <1>1, <1>3, AddsAssigns DEF HandleWeaponFire, demo
<1>4. CASE HandlePlayerTeamChange(p)
  <2> DEFINE t == assignTeamBasedOnRound1To12(teamAssignments, p, TrueSide(p))
             f == [assigned |-> t,
                   team |-> [q \in DOMAIN team |->
                               IF q = p THEN getAssignedTeam(t, p) ELSE team[q]]]
  <2>1. SetMaps(f)
    BY <1>4 DEF HandlePlayerTeamChange
  <2>2. /\ DOMAIN teamAssignments \subseteq DOMAIN t /\ DOMAIN t \subseteq Players
        /\ \A q \in DOMAIN t : t[q] \in Teams
        /\ \A q \in DOMAIN teamAssignments : t[q] = teamAssignments[q]
        /\ \A q \in DOMAIN t \ DOMAIN teamAssignments :
             q = p /\ currentRound <= Half
               /\ t[q] = IF TrueSide(q) = "CT" THEN "A" ELSE "B"
        /\ getAssignedTeam(t, p) \in Teams
    BY AssignAdds DEF MapsOK, Maps
  <2>3. Adds(Maps, f, {p})
    <3> HIDE DEF t
    <3> QED
      BY <2>2 DEF Adds, MapsOK, Maps
  <2> HIDE DEF f
  <2> QED
    BY <1>4, <2>1, <2>3, AddsAssigns DEF HandlePlayerTeamChange
<1>5. ASSUME NEW v \in Players, HandlePlayerKilled(p, v)
      PROVE  AssignStep /\ phase # "break"
  <2> DEFINE f == ensurePlayerTracked(e, v, getTeamString(v))
  <2>1. MapsOK(e)
    BY <1>1 DEF Adds
  <2>2. Adds(e, f, {v})
    BY <2>1, TrackAdds
  <2>3. SetMaps(f) /\ phase # "break"
    BY <1>5 DEF HandlePlayerKilled
  <2> HIDE DEF e, f
  <2>4. Adds(Maps, f, {p} \cup {v})
    BY <1>1, <2>2, AddsTwice
  <2> QED
    BY <1>5, <2>3, <2>4, AddsAssigns DEF HandlePlayerKilled, demo
<1> QED
  BY <1>2, <1>3, <1>4, <1>5 DEF HandlePlayerConnect, HandleWeaponFire, HandlePlayerTeamChange

-----------------------------------------------------------------------------
(* Types.                                                                  *)

\* The parser is at most the skipped round ahead of the counted ones.
AheadInv ==
  /\ phase = "round" => played = 0 \/ played < MaxRounds
  /\ currentRound <= IF phase = "round" THEN played + 2 ELSE played + 1

RoundTypeInv == TypeOK /\ AheadInv

LEMMA RoundTypeInit == Init => RoundTypeInv
<1> SUFFICES ASSUME Init PROVE RoundTypeInv
  OBVIOUS
<1>1. DOMAIN teamAssignments = {} /\ DOMAIN team = {}
  BY DEF Init
<1>2. /\ server \in Servers /\ phase \in {"warmup", "round"} /\ homeSide \in Sides
      /\ present \subseteq Players
  BY KnownAssumption DEF Init, Sides
<1>3. /\ played = 0 /\ currentRound = 0 /\ ends = 0 /\ failed = FALSE
      /\ won \in [Rosters -> Nat] /\ teamWins \in [Teams -> Nat]
      /\ currentSide = [t \in Teams |-> NoSide]
  BY DEF Init
<1>4. MaxRounds \in Nat
  BY RoundsAssumption
<1>5. 0 \in 0..(MaxRounds + 1) /\ (0 <= IF phase = "round" THEN 2 ELSE 1)
  BY <1>4
<1>6. TypeOK
  BY <1>1, <1>2, <1>3, <1>5 DEF TypeOK
<1> QED
  BY <1>3, <1>4, <1>6 DEF RoundTypeInv, AheadInv

LEMMA NoSideIsNone == NoSide \notin Sides
  BY DEF NoSide, Sides

LEMMA SidesDiffer ==
  ASSUME TypeOK
  PROVE  /\ currentSide["A"] = NoSide <=> DOMAIN teamAssignments = {}
         /\ DOMAIN teamAssignments # {} =>
              /\ checkForSideSwitch \in [Teams -> Sides]
              /\ checkForSideSwitch["A"] # checkForSideSwitch["B"]
<1>1. CASE DOMAIN teamAssignments = {}
  BY <1>1 DEF TypeOK, Teams
<1>2. CASE DOMAIN teamAssignments # {}
  <2>1. currentSide \in [Teams -> Sides] /\ currentSide["A"] # currentSide["B"]
    BY <1>2 DEF TypeOK
  <2> QED
    BY <1>2, <2>1, NoSideIsNone DEF checkForSideSwitch, Teams
<1> QED
  BY <1>1, <1>2

\* Without a team no side is credited.
LEMMA WinsTyped ==
  ASSUME TypeOK, NEW winner \in Sides, updateTeamWins(winner)
  PROVE  /\ teamWins' \in [Teams -> Nat]
         /\ IF DOMAIN teamAssignments = {} THEN currentSide' = [t \in Teams |-> NoSide]
            ELSE currentSide' \in [Teams -> Sides] /\ currentSide'["A"] # currentSide'["B"]
<1>1. teamWins' \in [Teams -> Nat]
  BY DEF updateTeamWins, TypeOK
<1>2. currentSide' = checkForSideSwitch
  BY DEF updateTeamWins
<1>3. CASE DOMAIN teamAssignments = {}
  <2>1. currentSide = [t \in Teams |-> NoSide]
    BY <1>3 DEF TypeOK
  <2>2. [A |-> NoSide, B |-> NoSide] = [t \in Teams |-> NoSide]
    BY DEF Teams
  <2>3. currentSide["A"] = NoSide /\ currentSide["B"] = NoSide
    BY <2>1 DEF Teams
  <2>4. checkForSideSwitch = [t \in Teams |-> NoSide]
    <3>1. CASE switchAt(currentRound)
      <4>1. checkForSideSwitch = [A |-> NoSide, B |-> NoSide]
        BY <2>3, <3>1, Zenon DEF checkForSideSwitch
      <4> QED
        BY <2>2, <4>1, Zenon
    <3>2. CASE ~switchAt(currentRound)
      BY <2>1, <3>2, Zenon DEF checkForSideSwitch
    <3> QED
      BY <3>1, <3>2
  <2> QED
    BY <1>1, <1>2, <1>3, <2>4
<1> QED
  BY <1>1, <1>2, <1>3, SidesDiffer

LEMMA RoundTypeStep == RoundTypeInv /\ [Next]_vars => RoundTypeInv'
<1> SUFFICES ASSUME RoundTypeInv, [Next]_vars PROVE RoundTypeInv'
  OBVIOUS
<1>0. MaxRounds \in Nat /\ played \in Nat /\ currentRound \in Nat
  BY RoundsAssumption DEF RoundTypeInv, TypeOK
<1>1. CASE HandleRoundStart
  BY <1>0, <1>1 DEF HandleRoundStart, RoundTypeInv, TypeOK, AheadInv
<1>2. ASSUME NEW winner \in Sides \cup {"Unknown"}, HandleRoundEnd(winner)
      PROVE  RoundTypeInv'
  <2>1. /\ phase = "round" /\ phase' = "over" /\ played' = played + 1 /\ ends' = ends + 1
        /\ UNCHANGED <<server, homeSide, present, currentRound, teamAssignments, team, gunfight>>
        /\ failed' \in BOOLEAN
    BY <1>2 DEF HandleRoundEnd
  <2>2. won' \in [Rosters -> Nat]
    BY <1>2 DEF HandleRoundEnd, RoundTypeInv, TypeOK, RosterOn, Rosters
  <2>3. /\ teamWins' \in [Teams -> Nat]
        /\ IF DOMAIN teamAssignments = {} THEN currentSide' = [t \in Teams |-> NoSide]
           ELSE currentSide' \in [Teams -> Sides] /\ currentSide'["A"] # currentSide'["B"]
    <3>1. CASE winner \in Sides
      BY <1>2, <3>1, WinsTyped DEF HandleRoundEnd, RoundTypeInv
    <3>2. CASE winner \notin Sides
      BY <1>2, <3>2 DEF HandleRoundEnd, RoundTypeInv, TypeOK
    <3> QED
      BY <3>1, <3>2
  <2>4. AheadInv'
    BY <2>1, <1>0 DEF AheadInv, RoundTypeInv
  <2>5. played' \in 0..(MaxRounds + 1)
    BY <2>1, <1>0 DEF AheadInv, RoundTypeInv
  <2> QED
    BY <2>1, <2>2, <2>3, <2>4, <2>5 DEF RoundTypeInv, TypeOK
<1>3. CASE SkipRoundEnd
  BY <1>0, <1>3 DEF SkipRoundEnd, shouldSkipCurrentRound, RoundTypeInv, TypeOK, AheadInv
<1>4. CASE SwapSides
  BY <1>0, <1>4 DEF SwapSides, SwapDue, Other, Sides, RoundTypeInv, TypeOK, AheadInv
<1>5. CASE PlayerEvent
  <2>1. AssignStep
    BY <1>5, PlayerAssigns DEF RoundTypeInv, TypeOK, MapsOK, Maps
  <2>2. IF DOMAIN teamAssignments' = {} THEN currentSide' = [t \in Teams |-> NoSide]
        ELSE currentSide' \in [Teams -> Sides] /\ currentSide'["A"] # currentSide'["B"]
    <3>1. CASE DOMAIN teamAssignments' = {}
      BY <2>1, <3>1 DEF AssignStep, RoundTypeInv, TypeOK
    <3>2. CASE DOMAIN teamAssignments = {} /\ DOMAIN teamAssignments' # {}
      <4>1. currentSide' = [A |-> "CT", B |-> "T"]
        BY <2>1, <3>2, SidesDiffer DEF AssignStep, RoundTypeInv
      <4> QED
        BY <3>2, <4>1 DEF Teams, Sides
    <3>3. CASE DOMAIN teamAssignments # {}
      BY <2>1, <3>3, SidesDiffer DEF AssignStep, RoundTypeInv, TypeOK
    <3> QED
      BY <3>1, <3>2, <3>3
  <2>3. /\ (DOMAIN teamAssignments \cup DOMAIN team)' \subseteq Players
        /\ \A p \in DOMAIN teamAssignments' : teamAssignments'[p] \in Teams
        /\ \A p \in DOMAIN team' : team'[p] \in Teams
    BY <2>1 DEF AssignStep, MapsOK, Maps
  <2>4. ends' = ends
    BY <1>5 DEF PlayerEvent, HandlePlayerConnect, HandlePlayerTeamChange, HandleWeaponFire,
                HandlePlayerKilled
  <2>5. AheadInv'
    BY <2>1 DEF AssignStep, AheadInv, RoundTypeInv
  <2> QED
    BY <2>1, <2>2, <2>3, <2>4, <2>5 DEF AssignStep, RoundTypeInv, TypeOK
<1>6. CASE UNCHANGED vars
  BY <1>6 DEF vars, RoundTypeInv, TypeOK, AheadInv
<1> QED
  BY <1>1, <1>2, <1>3, <1>4, <1>5, <1>6 DEF Next

\* What the parser keeps of a match has its types: the two teams never share a
\* side, whatever the demo holds, and every round has its end event.
THEOREM RoundTypes == Spec => []TypeOK
<1>1. RoundTypeInv => TypeOK
  BY DEF RoundTypeInv
<1> QED
  BY <1>1, RoundTypeInit, RoundTypeStep, PTL DEF Spec

-----------------------------------------------------------------------------
(* The score of a matchmaking demo.                                        *)

\* Where the parser stands in the demo.  Round 0 is one it has only seen the
\* end of.
PlaceInv ==
  /\ IF phase = "round" THEN currentRound = played + 1 \/ (currentRound = 0 /\ played = 0)
                        ELSE currentRound = played
  /\ phase = "warmup" => played = 0
  /\ phase = "over" => played >= 1
  /\ phase = "break" => SwapAfter(played)

\* The home roster is on the side it began on for as long as teams are given.
FirstHalf == played < Half \/ (played = Half /\ phase = "over")
TeamOfRoster(p) == IF Roster[p] = "home" THEN "A" ELSE "B"
TeamsInv ==
  /\ FirstHalf => homeSide = "CT"
  /\ \A p \in DOMAIN teamAssignments : teamAssignments[p] = TeamOfRoster(p)

\* Team A plays for the home roster; its side is behind from the break to the
\* end of the round after it.
Behind == phase = "break" \/ (phase = "round" /\ switchAt(currentRound))
SideInv == DOMAIN teamAssignments # {} =>
  currentSide["A"] = IF Behind THEN Other(homeSide) ELSE homeSide

ScoreInv == teamWins["A"] = won["home"] /\ teamWins["B"] = won["away"]

CreditInv == isFaceitMatch \/ failed \/ (PlaceInv /\ TeamsInv /\ SideInv)
ScoreKept == isFaceitMatch \/ failed \/ ScoreInv

LEMMA CreditInit == Init => CreditInv /\ ScoreKept
<1> SUFFICES ASSUME Init PROVE CreditInv /\ ScoreKept
  OBVIOUS
<1>1. DOMAIN teamAssignments = {}
  BY DEF Init
<1>2. /\ phase \in {"warmup", "round"} /\ played = 0 /\ currentRound = 0
      /\ ~isFaceitMatch => homeSide = "CT"
      /\ teamWins["A"] = 0 /\ teamWins["B"] = 0 /\ won["home"] = 0 /\ won["away"] = 0
  BY DEF Init, Teams, Rosters
<1> QED
  BY <1>1, <1>2 DEF CreditInv, ScoreKept, PlaceInv, TeamsInv, SideInv, ScoreInv

\* The events of players leave the score and the place in the demo alone.
LEMMA AssignKeeps ==
  ASSUME ~BreakJoins, AssignStep, TypeOK, PlaceInv, TeamsInv, SideInv
  PROVE  PlaceInv' /\ TeamsInv' /\ SideInv'
<1>1. /\ phase' = phase /\ played' = played /\ currentRound' = currentRound
      /\ homeSide' = homeSide
  BY DEF AssignStep
<1>2. PlaceInv'
  BY <1>1 DEF PlaceInv
<1>3. played \in Nat /\ currentRound \in Nat /\ Half \in Nat /\ Half > 0
  BY RoundsAssumption DEF TypeOK
<1>4. ASSUME NEW q \in DOMAIN teamAssignments' \ DOMAIN teamAssignments
      PROVE  FirstHalf /\ homeSide = "CT" /\ teamAssignments'[q] = TeamOfRoster(q)
  <2>1. currentRound <= Half /\ (phase # "break" \/ played # Half)
    BY <1>4 DEF AssignStep
  <2>2. FirstHalf
    <3>1. phase \in {"warmup", "round", "over", "break"}
      BY DEF TypeOK
    <3>2. phase = "break" => played >= Half
      BY <1>3, SwitchFollowsSwap DEF PlaceInv
    <3> QED
      BY <2>1, <1>3, <3>1, <3>2 DEF PlaceInv, FirstHalf
  <2>3. homeSide = "CT"
    BY <2>2 DEF TeamsInv
  <2>4. TrueSide(q) = IF Roster[q] = "home" THEN "CT" ELSE "T"
    BY <2>3 DEF TrueSide, Other
  <2> QED
    BY <1>4, <2>2, <2>3, <2>4 DEF AssignStep, TeamOfRoster
<1>5. TeamsInv'
  <2>1. FirstHalf' => homeSide' = "CT"
    BY <1>1 DEF TeamsInv, FirstHalf
  <2>2. \A p \in DOMAIN teamAssignments' : teamAssignments'[p] = TeamOfRoster(p)
    BY <1>4 DEF TeamsInv, AssignStep
  <2> QED
    BY <2>1, <2>2 DEF TeamsInv, TeamOfRoster
<1>6. SideInv'
  <2> SUFFICES ASSUME DOMAIN teamAssignments' # {}
               PROVE  currentSide'["A"] = IF Behind THEN Other(homeSide) ELSE homeSide
    BY <1>1 DEF SideInv, Behind
  <2>1. CASE DOMAIN teamAssignments = {}
    <3> PICK q \in DOMAIN teamAssignments' : TRUE
      OBVIOUS
    <3>1. FirstHalf /\ homeSide = "CT" /\ currentRound <= Half
      BY <2>1, <1>4 DEF AssignStep
    <3>2. ~Behind
      <4>1. phase # "break"
        BY <3>1, <1>3, SwitchFollowsSwap DEF PlaceInv, FirstHalf
      <4>2. ~switchAt(currentRound)
        BY <3>1, <1>3 DEF switchAt
      <4> QED
        BY <4>1, <4>2 DEF Behind
    <3>3. currentSide'["A"] = "CT"
      BY <2>1, SidesDiffer DEF AssignStep
    <3> QED
      BY <3>1, <3>2, <3>3
  <2>2. CASE DOMAIN teamAssignments # {}
    BY <2>2, SidesDiffer DEF AssignStep, SideInv
  <2> QED
    BY <2>1, <2>2
<1> QED
  BY <1>2, <1>5, <1>6

\* The end of a round brings team A to its side and credits the winner.
LEMMA RoundEndKeeps ==
  ASSUME \A n \in DrawnRounds : ~switchAt(n), TypeOK, PlaceInv, TeamsInv, SideInv,
         ~isFaceitMatch, NEW winner \in Sides \cup {"Unknown"}, HandleRoundEnd(winner), ~failed'
  PROVE  /\ PlaceInv' /\ TeamsInv' /\ SideInv'
         /\ ScoreInv /\ ~QuietRounds => ScoreInv'
<1>1. /\ phase = "round" /\ phase' = "over" /\ played' = played + 1
      /\ homeSide' = homeSide /\ currentRound' = currentRound
      /\ teamAssignments' = teamAssignments
  BY DEF HandleRoundEnd
<1>2. played \in Nat /\ currentRound \in Nat /\ Half \in Nat
  BY RoundsAssumption DEF TypeOK
<1>3. currentRound = played + 1
  <2>1. ~(currentRound <= 0)
    BY DEF HandleRoundEnd, ProcessRoundEndFails
  <2> QED
    BY <1>1, <1>2, <2>1 DEF PlaceInv
<1>4. PlaceInv'
  BY <1>1, <1>2, <1>3 DEF PlaceInv
<1>5. TeamsInv'
  <2>1. FirstHalf' => FirstHalf
    BY <1>1, <1>2 DEF FirstHalf
  <2> QED
    BY <1>1, <2>1 DEF TeamsInv, TeamOfRoster
<1>6. ~Behind'
  BY <1>1 DEF Behind
<1>7. ASSUME DOMAIN teamAssignments # {}
      PROVE  /\ currentSide' = IF winner \in Sides THEN checkForSideSwitch ELSE currentSide
             /\ currentSide'["A"] = homeSide /\ currentSide'["B"] = Other(homeSide)
  <2>1. /\ currentSide \in [Teams -> Sides] /\ currentSide["A"] # currentSide["B"]
        /\ homeSide \in Sides
    BY <1>7 DEF TypeOK
  <2>2. currentSide["A"] = IF switchAt(currentRound) THEN Other(homeSide) ELSE homeSide
    BY <1>1, <1>7 DEF SideInv, Behind
  <2>3. currentSide["B"] = Other(currentSide["A"]) /\ currentSide["A"] \in Sides
    BY <2>1 DEF Teams, Sides, Other
  <2>4. Other(Other(homeSide)) = homeSide
    BY <2>1 DEF Other, Sides
  <2>5. checkForSideSwitch["A"] = homeSide /\ checkForSideSwitch["B"] = Other(homeSide)
    <3>1. CASE switchAt(currentRound)
      <4>1. checkForSideSwitch = [A |-> currentSide["B"], B |-> currentSide["A"]]
        BY <3>1, Zenon DEF checkForSideSwitch
      <4>2. checkForSideSwitch["A"] = currentSide["B"] /\ checkForSideSwitch["B"] = currentSide["A"]
        BY <4>1
      <4> QED
        BY <2>2, <2>3, <2>4, <3>1, <4>2
    <3>2. CASE ~switchAt(currentRound)
      <4>1. checkForSideSwitch = currentSide
        BY <3>2, Zenon DEF checkForSideSwitch
      <4> QED
        BY <2>2, <2>3, <3>2, <4>1
    <3> QED
      BY <3>1, <3>2
  <2>6. CASE winner \in Sides
    BY <2>5, <2>6 DEF HandleRoundEnd, updateTeamWins
  <2>7. CASE winner \notin Sides
    <3>1. ~switchAt(currentRound)
      BY <1>3, <2>7 DEF HandleRoundEnd
    <3> QED
      BY <2>2, <2>3, <2>7, <3>1 DEF HandleRoundEnd
  <2> QED
    BY <2>6, <2>7
<1>8. SideInv'
  BY <1>1, <1>6, <1>7 DEF SideInv
<1>9. ASSUME ScoreInv, ~QuietRounds PROVE ScoreInv'
  <2>1. /\ won \in [Rosters -> Nat] /\ teamWins \in [Teams -> Nat]
        /\ homeSide \in Sides /\ winner \in Sides \cup {"Unknown"}
    BY DEF TypeOK
  <2>2. CASE winner \in Sides
    <3>1. currentSide'["A"] = homeSide /\ currentSide'["B"] = Other(homeSide)
      BY <1>7, <1>9 DEF HandleRoundEnd
    <3>2. /\ teamWins'["A"] = IF homeSide = winner THEN teamWins["A"] + 1 ELSE teamWins["A"]
          /\ teamWins'["B"] = IF Other(homeSide) = winner THEN teamWins["B"] + 1
                                                          ELSE teamWins["B"]
      BY <2>2, <3>1 DEF HandleRoundEnd, updateTeamWins, Teams
    <3>3. won' = [won EXCEPT ![RosterOn(winner)] = @ + 1]
      BY <2>2 DEF HandleRoundEnd
    <3>4. CASE homeSide = winner
      <4>1. Other(homeSide) # winner /\ RosterOn(winner) = "home"
        BY <3>4, <2>1 DEF Other, RosterOn, Sides
      <4> QED
        BY <3>2, <3>3, <3>4, <4>1, <2>1, <1>9 DEF ScoreInv, Rosters
    <3>5. CASE homeSide # winner
      <4>1. Other(homeSide) = winner /\ RosterOn(winner) = "away"
        BY <3>5, <2>1, <2>2 DEF Other, RosterOn, Sides
      <4> QED
        BY <3>2, <3>3, <3>5, <4>1, <2>1, <1>9 DEF ScoreInv, Rosters
    <3> QED
      BY <3>4, <3>5
  <2>3. CASE winner \notin Sides
    BY <2>3, <1>9 DEF HandleRoundEnd, ScoreInv
  <2> QED
    BY <2>2, <2>3
<1> QED
  BY <1>4, <1>5, <1>8, <1>9

LEMMA CreditStep ==
  ASSUME ~BreakJoins, \A n \in DrawnRounds : ~switchAt(n)
  PROVE  TypeOK /\ CreditInv /\ [Next]_vars => CreditInv' /\ (ScoreKept /\ ~QuietRounds => ScoreKept')
<1> SUFFICES ASSUME TypeOK, CreditInv, [Next]_vars
             PROVE  CreditInv' /\ (ScoreKept /\ ~QuietRounds => ScoreKept')
  OBVIOUS
<1> DEFINE Kept == CreditInv' /\ (ScoreKept /\ ~QuietRounds => ScoreKept')
<1>1. CASE UNCHANGED vars
  BY <1>1 DEF vars, CreditInv, ScoreKept, isFaceitMatch, PlaceInv, TeamsInv, SideInv, ScoreInv,
              FirstHalf, Behind
<1>2. CASE isFaceitMatch /\ Next
  <2>1. server' = server
    <3>1. PlayerEvent => server' = server
      BY PlayerAssigns DEF AssignStep, TypeOK, MapsOK, Maps
    <3>2. ASSUME NEW winner \in Sides \cup {"Unknown"}, HandleRoundEnd(winner)
          PROVE  server' = server
      BY <3>2 DEF HandleRoundEnd
    <3> QED
      BY <1>2, <3>1, <3>2 DEF Next, HandleRoundStart, SkipRoundEnd, SwapSides
  <2> QED
    BY <1>2, <2>1 DEF CreditInv, ScoreKept, isFaceitMatch
<1>3. CASE ~isFaceitMatch /\ Next
  <2>1. /\ ~failed /\ PlaceInv /\ TeamsInv /\ SideInv /\ (ScoreKept => ScoreInv)
        /\ played \in Nat /\ currentRound \in Nat /\ Half \in Nat /\ Half > 0
    BY <1>3, RoundsAssumption DEF CreditInv, ScoreKept, Next, TypeOK
  <2>2. CASE HandleRoundStart
    <3>1. /\ phase # "round" /\ phase' = "round" /\ played' = played /\ ~SwapDue
          /\ currentRound' = played + 1 /\ homeSide' = homeSide
          /\ teamAssignments' = teamAssignments /\ currentSide' = currentSide
          /\ teamWins' = teamWins /\ won' = won
      BY <2>1, <2>2 DEF HandleRoundStart, PlaceInv
    <3>2. SwapAfter(played) <=> switchAt(played + 1)
      BY <2>1, SwitchFollowsSwap
    <3>3. Behind <=> Behind'
      <4>1. phase \in {"warmup", "over", "break"}
        BY <2>2 DEF HandleRoundStart
      <4>2. CASE phase = "warmup"
        BY <3>1, <4>2, <2>1, SwitchFollowsSwap DEF Behind, PlaceInv
      <4>3. CASE phase = "over"
        BY <3>1, <3>2, <4>3, <2>1 DEF Behind, PlaceInv, SwapDue
      <4>4. CASE phase = "break"
        BY <3>1, <3>2, <4>4, <2>1 DEF Behind, PlaceInv
      <4> QED
        BY <4>1, <4>2, <4>3, <4>4
    <3>4. PlaceInv' /\ TeamsInv' /\ SideInv'
      BY <3>1, <3>3, <2>1 DEF PlaceInv, TeamsInv, SideInv, FirstHalf, TeamOfRoster
    <3> QED
      BY <3>1, <3>4, <2>1 DEF CreditInv, ScoreKept, ScoreInv
  <2>3. ASSUME NEW winner \in Sides \cup {"Unknown"}, HandleRoundEnd(winner)
        PROVE  Kept
    BY <2>1, <2>3, <1>3, RoundEndKeeps DEF CreditInv, ScoreKept
  <2>4. ~SkipRoundEnd
    BY <1>3 DEF SkipRoundEnd, shouldSkipCurrentRound
  <2>5. CASE SwapSides
    <3>1. /\ phase = "over" /\ phase' = "break" /\ played' = played /\ SwapAfter(played)
          /\ currentRound' = currentRound /\ homeSide' = Other(homeSide)
          /\ teamAssignments' = teamAssignments /\ currentSide' = currentSide
          /\ teamWins' = teamWins /\ won' = won
      BY <2>1, <2>5 DEF SwapSides, SwapDue, PlaceInv
    <3>2. played >= Half /\ Other(Other(homeSide)) = homeSide
      BY <3>1, <2>1, SwitchFollowsSwap DEF TypeOK, Sides, Other
    <3>3. PlaceInv'
      BY <3>1, <2>1 DEF PlaceInv
    <3>4. TeamsInv'
      BY <3>1, <3>2, <2>1 DEF TeamsInv, FirstHalf, TeamOfRoster
    <3>5. SideInv'
      BY <3>1, <3>2, <2>1 DEF SideInv, Behind
    <3> QED
      BY <3>1, <3>3, <3>4, <3>5, <2>1 DEF CreditInv, ScoreKept, ScoreInv
  <2>6. CASE PlayerEvent
    <3>1. AssignStep
      BY <2>6, PlayerAssigns DEF TypeOK, MapsOK, Maps
    <3>2. PlaceInv' /\ TeamsInv' /\ SideInv'
      BY <3>1, <2>1, AssignKeeps
    <3> QED
      BY <3>1, <3>2, <2>1 DEF AssignStep, CreditInv, ScoreKept, ScoreInv
  <2> QED
    BY <1>3, <2>2, <2>3, <2>4, <2>5, <2>6 DEF Next
<1> QED
  BY <1>1, <1>2, <1>3

\* Across halftime and every overtime of a matchmaking demo, wherever it begins
\* and whoever joins, leaves and reconnects, the rounds credited to a player's
\* team are those his roster has won: if nobody is first seen in the break at
\* halftime, every round has an assigned player by its end, and the round after
\* a swap has a winner.
THEOREM RoundsCredited ==
  ASSUME ~BreakJoins, ~QuietRounds, \A n \in DrawnRounds : ~switchAt(n)
  PROVE  Spec => []RightTeamCredited
<1> DEFINE IInv == RoundTypeInv /\ CreditInv /\ ScoreKept
<1>1. Init => IInv
  BY RoundTypeInit, CreditInit
<1>2. IInv /\ [Next]_vars => IInv'
  BY RoundTypeStep, CreditStep DEF RoundTypeInv
<1>3. IInv => RightTeamCredited
  <2> SUFFICES ASSUME IInv, ~isFaceitMatch, ~failed, NEW p \in DOMAIN teamAssignments
               PROVE  teamWins[teamAssignments[p]] = won[Roster[p]]
    BY DEF RightTeamCredited, TeamsHoldScore
  <2>1. ScoreInv /\ teamAssignments[p] = TeamOfRoster(p)
    BY DEF CreditInv, ScoreKept, TeamsInv
  <2>2. Roster[p] \in Rosters
    BY RosterAssumption DEF RoundTypeInv, TypeOK
  <2> QED
    BY <2>1, <2>2 DEF ScoreInv, TeamOfRoster, Rosters
<1> QED
  BY <1>1, <1>2, <1>3, PTL DEF Spec

\* The sides of a fight between assigned players are those they played on, but
\* in the first round of a half: even where a round ends before anybody has a
\* team.
THEOREM SidesOfFights ==
  ASSUME ~BreakJoins, \A n \in DrawnRounds : ~switchAt(n)
  PROVE  Spec => SidesTrueLater
<1> DEFINE IInv == RoundTypeInv /\ CreditInv
           Right == gunfight' # gunfight => \/ isFaceitMatch
                                            \/ phase = "round" /\ switchAt(currentRound)
                                            \/ TrueSides(gunfight')
<1>1. Init => IInv
  BY RoundTypeInit, CreditInit
<1>2. IInv /\ [Next]_vars => IInv'
  BY RoundTypeStep, CreditStep DEF RoundTypeInv
<1>3. IInv /\ IInv' /\ [Next]_vars => [Right]_vars
  <2> SUFFICES ASSUME IInv, IInv', Next, gunfight' # gunfight, ~isFaceitMatch,
                      ~(phase = "round" /\ switchAt(currentRound))
               PROVE  TrueSides(gunfight')
    OBVIOUS
  <2>1. PICK k \in Players, v \in Players : HandlePlayerKilled(k, v)
    BY DEF Next, HandleRoundStart, HandleRoundEnd, SkipRoundEnd, SwapSides, PlayerEvent,
           HandlePlayerConnect, HandlePlayerTeamChange, HandleWeaponFire
  <2>2. PlayerEvent
    BY <2>1 DEF PlayerEvent
  <2>3. AssignStep /\ phase # "break"
    BY <2>2, PlayerAssigns DEF RoundTypeInv, TypeOK, MapsOK, Maps
  <2>4. TeamsInv' /\ SideInv' /\ ~Behind'
    BY <2>3 DEF AssignStep, CreditInv, isFaceitMatch, Behind, Next
  <2>5. gunfight'.side = [p \in {k, v} |->
                            getPlayerCurrentSide(teamAssignments', currentSide', p)]
    BY <2>1 DEF HandlePlayerKilled
  <2> SUFFICES ASSUME NEW p \in DOMAIN gunfight'.side, p \in DOMAIN teamAssignments'
               PROVE  gunfight'.side[p] = TrueSide(p)
    BY DEF TrueSides
  <2>6. gunfight'.side[p] = currentSide'[TeamOfRoster(p)]
    <3>1. p \in {k, v} /\ gunfight'.side[p] = currentSide'[teamAssignments'[p]]
      BY <2>5 DEF getPlayerCurrentSide
    <3>2. teamAssignments'[p] = TeamOfRoster(p)
      BY <2>4 DEF TeamsInv, TeamOfRoster
    <3> QED
      BY <3>1, <3>2
  <2>7. currentSide'["A"] = homeSide /\ homeSide' = homeSide
    BY <2>3, <2>4 DEF SideInv, AssignStep
  <2>8. currentSide'["B"] = Other(homeSide)
    <3>1. currentSide' \in [Teams -> Sides] /\ currentSide'["A"] # currentSide'["B"]
      BY DEF RoundTypeInv, TypeOK
    <3> QED
      BY <2>7, <3>1 DEF Teams, Sides, Other
  <2> QED
    BY <2>6, <2>7, <2>8 DEF TeamOfRoster, TrueSide
<1> QED
  BY <1>1, <1>2, <1>3, PTL DEF Spec, SidesTrueLater

-----------------------------------------------------------------------------
(* Damage assists.                                                         *)

LEMMA MinOfTwo ==
  ASSUME NEW a \in Nat, NEW b \in Nat
  PROVE  Min({a, b}) \in {a, b} /\ Min({a, b}) <= a /\ Min({a, b}) <= b
<1>1. \E x \in {a, b} : \A y \in {a, b} : x <= y
  BY a <= b \/ b <= a
<1>2. Min({a, b}) \in {a, b} /\ \A y \in {a, b} : Min({a, b}) <= y
  BY <1>1, Zenon DEF Min
<1> QED
  BY <1>2

\* The search among the damages one victim took.
HelpersOf(taken, k) == {a \in Fighters \ {k} : taken[a] >= Threshold}
MostOf(taken, k) ==
  {a \in HelpersOf(taken, k) : \A b \in HelpersOf(taken, k) : taken[b] <= taken[a]}
Credited(taken, k) == IF HelpersOf(taken, k) = {} THEN {Nobody} ELSE MostOf(taken, k)

LEMMA SearchIsCredited ==
  ASSUME NEW r, NEW v, NEW k
  PROVE  /\ findDamageAssist(r, v, k) = Credited(damage[r][v], k)
         /\ Helpers(r, v, k) = HelpersOf(damage[r][v], k)
<1>1. Helpers(r, v, k) = HelpersOf(damage[r][v], k)
  BY DEF Helpers, HelpersOf
<1> QED
  BY <1>1 DEF findDamageAssist, Credited, MostOf

Gunfight == [round : 1..LastRound, killer : Fighters, victim : Fighters,
             assist : Fighters \cup {Nobody}, late : BOOLEAN]

AssistTypes ==
  /\ CurrentRound \in 0..LastRound
  /\ health \in [Fighters -> Nat]
  /\ damage \in Seq([Fighters -> [Fighters -> Nat]]) /\ Len(damage) = CurrentRound
  /\ killer # <<>> => /\ killer \in Fighters \X Fighters
                      /\ CurrentRound > 0 /\ health[killer[2]] = 0
  /\ gunfights \in Seq(Gunfight)
  /\ rounds \in Seq([Fighters -> [kills : Nat, assists : Nat]])
  /\ Len(rounds) <= CurrentRound /\ CurrentRound <= Len(rounds) + 1
  /\ done \in BOOLEAN

\* A victim of the round that runs is dead: what he has taken is settled.
DeadInv == \A i \in DOMAIN gunfights :
  /\ gunfights[i].round <= CurrentRound
  /\ gunfights[i].round = CurrentRound => health[gunfights[i].victim] = 0

Found(g) == g.assist \in Credited(damage[g.round][g.victim], g.killer)
FoundInv == ~done => \A i \in DOMAIN gunfights : Found(gunfights[i])

KillsInTimeOf(r, p)   == Cardinality({i \in InTime(r) : gunfights[i].killer = p})
AssistsInTimeOf(r, p) == Cardinality({i \in InTime(r) : gunfights[i].assist = p})

\* No gunfight of the round that runs is late: those its end counts are those in
\* time, and what is counted stays counted, for whoever is killed after it is late.
CountedInv ==
  /\ \A i \in DOMAIN gunfights : gunfights[i].round > Len(rounds) => ~gunfights[i].late
  /\ \A r \in 1..Len(rounds), p \in Fighters :
       /\ rounds[r][p].kills = KillsInTimeOf(r, p)
       /\ ~done => rounds[r][p].assists = AssistsInTimeOf(r, p)

LEMMA AssistsStart ==
  AssistsInit => AssistTypes /\ DeadInv /\ FoundInv /\ CountedInv
<1> SUFFICES ASSUME AssistsInit PROVE AssistTypes /\ DeadInv /\ FoundInv /\ CountedInv
  OBVIOUS
<1>1. /\ CurrentRound = 0 /\ killer = <<>> /\ damage = <<>> /\ gunfights = <<>>
      /\ rounds = <<>> /\ done = FALSE /\ health \in [Fighters -> Nat]
  BY DEF AssistsInit
<1>2. 0 \in 0..LastRound /\ Len(<<>>) = 0
  BY BoundsAssumption
<1> DEFINE Tables == [Fighters -> [Fighters -> Nat]]
           Counts == [Fighters -> [kills : Nat, assists : Nat]]
<1> HIDE DEF Tables, Counts
<1>3. <<>> \in Seq(Tables) /\ <<>> \in Seq(Gunfight) /\ <<>> \in Seq(Counts)
  OBVIOUS
<1>4. /\ CurrentRound \in 0..LastRound /\ Len(damage) = CurrentRound
      /\ Len(rounds) <= CurrentRound /\ CurrentRound <= Len(rounds) + 1
  BY <1>1, <1>2
<1>5. damage \in Seq(Tables) /\ gunfights \in Seq(Gunfight) /\ rounds \in Seq(Counts)
  BY <1>1, <1>3, Zenon
<1>6. AssistTypes
  BY <1>1, <1>4, <1>5, Zenon DEF AssistTypes, Tables, Counts
<1>7. DOMAIN gunfights = {} /\ 1..Len(rounds) = {}
  BY <1>1
<1> QED
  BY <1>1, <1>6, <1>7 DEF DeadInv, FoundInv, CountedInv

\* A hit changes what its victim has taken in the round, of nobody else.
LEMMA HurtStep ==
  ASSUME AssistTypes, NEW a \in Fighters, NEW v \in Fighters, NEW hit \in Hits,
         DamageHandlePlayerHurt(a, v, hit)
  PROVE  /\ AssistTypes'
         /\ \A p \in Fighters : health[p] = 0 => health'[p] = 0
         /\ \A r \in 1..CurrentRound, p \in Fighters :
              r # CurrentRound \/ health[p] = 0 => damage'[r][p] = damage[r][p]
<1> DEFINE actual == Min({hit, health[v]})
<1>1. /\ hit \in Nat /\ health[v] \in Nat /\ health[v] > 0 /\ CurrentRound > 0
      /\ CurrentRound \in Nat /\ CurrentRound \in 1..Len(damage)
  <2>1. CurrentRound \in 0..LastRound /\ Len(damage) = CurrentRound /\ health \in [Fighters -> Nat]
    BY Zenon DEF AssistTypes
  <2>2. CurrentRound > 0 /\ health[v] > 0
    BY DEF DamageHandlePlayerHurt
  <2>3. hit \in 1..100 /\ LastRound \in Nat
    BY HitsAssumption, BoundsAssumption
  <2> QED
    BY <2>1, <2>2, <2>3
<1>2. actual \in Nat /\ health[v] - actual \in Nat
  BY <1>1, MinOfTwo
<1>3. /\ damage' = [damage EXCEPT ![CurrentRound][v][a] = @ + actual]
      /\ health' = [health EXCEPT ![v] = @ - actual]
      /\ killer' = IF health'[v] = 0 THEN <<a, v>> ELSE <<>>
      /\ UNCHANGED <<CurrentRound, gunfights, rounds, done>>
  BY DEF DamageHandlePlayerHurt
<1> HIDE DEF actual
<1>4. health' \in [Fighters -> Nat] /\ health'[v] = health[v] - actual
      /\ \A p \in Fighters : health[p] = 0 => health'[p] = 0
  <2>1. health \in [Fighters -> Nat]
    BY Zenon DEF AssistTypes
  <2> QED
    BY <1>1, <1>2, <1>3, <2>1
<1> DEFINE Rows == [Fighters -> [Fighters -> Nat]]
           row == [damage[CurrentRound] EXCEPT ![v][a] = @ + actual]
<1>5. damage[CurrentRound] \in Rows /\ damage \in Seq(Rows) /\ Len(damage) = CurrentRound
  BY <1>1 DEF AssistTypes
<1>6. row \in Rows /\ \A p \in Fighters : p # v => row[p] = damage[CurrentRound][p]
  <2> DEFINE table == damage[CurrentRound]
             cell == [table[v] EXCEPT ![a] = @ + actual]
  <2>1. table \in [Fighters -> [Fighters -> Nat]]
    BY <1>5
  <2>2. cell \in [Fighters -> Nat]
    BY <1>2, <2>1
  <2>3. row = [table EXCEPT ![v] = cell]
    OBVIOUS
  <2> HIDE DEF table, cell, row
  <2>4. row \in Rows /\ \A p \in Fighters : p # v => row[p] = table[p]
    BY <2>1, <2>2, <2>3
  <2> QED
    BY <2>4 DEF table
<1>7. damage' = [damage EXCEPT ![CurrentRound] = row]
  BY <1>3
<1> HIDE DEF row, Rows
<1>8. /\ damage' \in Seq(Rows) /\ Len(damage') = CurrentRound
      /\ \A r \in 1..CurrentRound : damage'[r] = IF r = CurrentRound THEN row ELSE damage[r]
  BY <1>1, <1>5, <1>6, <1>7
<1>9. \A r \in 1..CurrentRound, p \in Fighters :
        r # CurrentRound \/ health[p] = 0 => damage'[r][p] = damage[r][p]
  BY <1>1, <1>6, <1>8
<1>10. killer' # <<>> => /\ killer' \in Fighters \X Fighters
                         /\ CurrentRound' > 0 /\ health'[killer'[2]] = 0
  BY <1>1, <1>3
<1>11. AssistTypes'
  BY <1>3, <1>4, <1>8, <1>10 DEF AssistTypes, Rows
<1> QED
  BY <1>4, <1>9, <1>11

\* A kill appends one gunfight of the round that runs.
LEMMA KillStep ==
  ASSUME AssistTypes, GunfightHandlePlayerKilled
  PROVE  /\ AssistTypes' /\ killer' = <<>>
         /\ UNCHANGED <<CurrentRound, health, damage, rounds, done>>
         /\ Len(gunfights') = Len(gunfights) + 1
         /\ \A i \in DOMAIN gunfights : gunfights'[i] = gunfights[i]
         /\ \E g \in Gunfight : /\ gunfights'[Len(gunfights) + 1] = g
                                /\ g.round = CurrentRound /\ health[g.victim] = 0 /\ Found(g)
                                /\ g.late <=> CurrentRound = Len(rounds)
<1>1. killer \in Fighters \X Fighters /\ health[killer[2]] = 0 /\ CurrentRound \in 1..LastRound
  BY BoundsAssumption DEF GunfightHandlePlayerKilled, AssistTypes
<1>2. PICK assist \in findDamageAssist(CurrentRound, killer[2], killer[1]) :
        gunfights' = Append(gunfights, [round |-> CurrentRound, killer |-> killer[1],
                                        victim |-> killer[2], assist |-> assist,
                                        late |-> CurrentRound = Len(rounds)])
  BY DEF GunfightHandlePlayerKilled
<1> DEFINE g == [round |-> CurrentRound, killer |-> killer[1],
                 victim |-> killer[2], assist |-> assist,
                 late |-> CurrentRound = Len(rounds)]
<1>3. assist \in Credited(damage[CurrentRound][killer[2]], killer[1])
  BY <1>2, SearchIsCredited
<1>4. assist \in Fighters \cup {Nobody}
  BY <1>3 DEF Credited, MostOf, HelpersOf
<1>5. g \in Gunfight
  BY <1>1, <1>4 DEF Gunfight
<1>6. /\ g.round = CurrentRound /\ health[g.victim] = 0 /\ Found(g)
      /\ g.late <=> CurrentRound = Len(rounds)
  BY <1>1, <1>3 DEF Found
<1>7. gunfights' = Append(gunfights, g) /\ gunfights \in Seq(Gunfight)
  BY <1>2 DEF AssistTypes
<1> HIDE DEF g
<1>8. /\ gunfights' \in Seq(Gunfight) /\ Len(gunfights') = Len(gunfights) + 1
      /\ \A i \in DOMAIN gunfights : gunfights'[i] = gunfights[i]
      /\ gunfights'[Len(gunfights) + 1] = g
  BY <1>5, <1>7
<1>9. killer' = <<>> /\ UNCHANGED <<CurrentRound, health, damage, rounds, done>>
  BY DEF GunfightHandlePlayerKilled
<1>10. AssistTypes'
  BY <1>8, <1>9 DEF AssistTypes
<1> QED
  BY <1>5, <1>6, <1>8, <1>9, <1>10

\* A new round has no damage yet.
LEMMA NewRoundStep ==
  ASSUME AssistTypes, DamageHandleRoundStart
  PROVE  /\ AssistTypes'
         /\ \A r \in 1..CurrentRound : damage'[r] = damage[r]
<1> DEFINE Rows == [Fighters -> [Fighters -> Nat]]
<1>1. /\ damage \in Seq(Rows) /\ Len(damage) = CurrentRound
      /\ CurrentRound \in 0..LastRound /\ LastRound \in Nat
  BY BoundsAssumption, Zenon DEF AssistTypes
<1>2. /\ CurrentRound < LastRound /\ CurrentRound = Len(rounds)
      /\ CurrentRound' = CurrentRound + 1 /\ killer' = <<>>
      /\ health' = [p \in Fighters |-> 100] /\ damage' = Append(damage, NoDamage)
      /\ UNCHANGED <<gunfights, rounds, done>>
  BY DEF DamageHandleRoundStart
<1>3. NoDamage \in Rows
  BY DEF NoDamage
<1> HIDE DEF Rows
<1>4. /\ damage' \in Seq(Rows) /\ Len(damage') = CurrentRound'
      /\ \A r \in 1..CurrentRound : damage'[r] = damage[r]
  BY <1>1, <1>2, <1>3
<1>5. /\ CurrentRound' \in 0..LastRound
      /\ Len(rounds') <= CurrentRound' /\ CurrentRound' <= Len(rounds') + 1
  BY <1>1, <1>2
<1>6. health' \in [Fighters -> Nat]
  BY <1>2
<1>7. AssistTypes'
  BY <1>2, <1>4, <1>5, <1>6, Zenon DEF AssistTypes, Rows
<1> QED
  BY <1>4, <1>7

LEMMA CountsAreNat ==
  ASSUME AssistTypes, NEW r, NEW p
  PROVE  Kills(r, p) \in Nat /\ Assists(r, p) \in Nat
<1>1. IsFiniteSet(DOMAIN gunfights)
  BY FS_Interval DEF AssistTypes
<1>2. /\ IsFiniteSet({i \in DOMAIN gunfights : gunfights[i].round = r /\ gunfights[i].killer = p})
      /\ IsFiniteSet({i \in DOMAIN gunfights : gunfights[i].round = r /\ gunfights[i].assist = p})
  BY <1>1, FS_Subset
<1> QED
  BY <1>2, FS_CardinalityType DEF Kills, Assists

LEMMA RoundCounted ==
  ASSUME AssistTypes, AggregateRoundEnd
  PROVE  /\ AssistTypes'
         /\ Len(rounds) + 1 = CurrentRound /\ Len(rounds') = CurrentRound
         /\ \A r \in 1..Len(rounds) : rounds'[r] = rounds[r]
         /\ \A p \in Fighters : /\ rounds'[CurrentRound][p].kills = Kills(CurrentRound, p)
                                /\ rounds'[CurrentRound][p].assists = Assists(CurrentRound, p)
<1> DEFINE Counts == [Fighters -> [kills : Nat, assists : Nat]]
           row == [p \in Fighters |-> [kills |-> Kills(CurrentRound, p),
                                       assists |-> Assists(CurrentRound, p)]]
<1>1. row \in Counts
  BY CountsAreNat
<1>2. \A p \in Fighters : /\ row[p].kills = Kills(CurrentRound, p)
                          /\ row[p].assists = Assists(CurrentRound, p)
  OBVIOUS
<1>3. /\ rounds' = Append(rounds, row) /\ CurrentRound > Len(rounds)
      /\ UNCHANGED <<CurrentRound, health, killer, damage, gunfights, done>>
  BY DEF AggregateRoundEnd
<1>4. /\ rounds \in Seq(Counts) /\ CurrentRound <= Len(rounds) + 1
      /\ CurrentRound \in 0..LastRound /\ LastRound \in Nat
  BY BoundsAssumption, Zenon DEF AssistTypes
<1> HIDE DEF row, Counts
<1>5. /\ rounds' \in Seq(Counts) /\ Len(rounds') = CurrentRound
      /\ Len(rounds) + 1 = CurrentRound /\ rounds'[CurrentRound] = row
      /\ \A r \in 1..Len(rounds) : rounds'[r] = rounds[r]
  BY <1>1, <1>3, <1>4
<1>6. Len(rounds') <= CurrentRound' /\ CurrentRound' <= Len(rounds') + 1
  BY <1>3, <1>4, <1>5
<1>7. AssistTypes'
  BY <1>3, <1>5, <1>6, Zenon DEF AssistTypes, Counts
<1> QED
  BY <1>2, <1>5, <1>7

\* The second search changes nothing of a gunfight but its assist.
LEMMA SearchedAgain ==
  ASSUME AssistTypes, postProcessDamageAssists
  PROVE  /\ AssistTypes' /\ done' = TRUE
         /\ CurrentRound = LastRound /\ Len(rounds) = LastRound
         /\ UNCHANGED <<CurrentRound, health, killer, damage, rounds>>
         /\ DOMAIN gunfights' = DOMAIN gunfights
         /\ \A i \in DOMAIN gunfights :
              /\ gunfights'[i].round = gunfights[i].round
              /\ gunfights'[i].killer = gunfights[i].killer
              /\ gunfights'[i].victim = gunfights[i].victim
              /\ gunfights'[i].late = gunfights[i].late
              /\ gunfights'[i].assist
                   \in Credited(damage[LastRound][gunfights[i].victim], gunfights[i].killer)
<1>1. /\ CurrentRound = LastRound /\ Len(rounds) = LastRound /\ done' = TRUE
      /\ UNCHANGED <<CurrentRound, health, killer, damage, rounds>>
  BY DEF postProcessDamageAssists
<1>2. PICK new \in [DOMAIN gunfights -> Fighters \cup {Nobody}] :
        /\ \A i \in DOMAIN gunfights :
             new[i] \in findDamageAssist(CurrentRound, gunfights[i].victim, gunfights[i].killer)
        /\ gunfights' = [i \in DOMAIN gunfights |-> [gunfights[i] EXCEPT !.assist = new[i]]]
  BY DEF postProcessDamageAssists
<1>3. gunfights \in Seq(Gunfight)
  BY Zenon DEF AssistTypes
<1>4. ASSUME NEW i \in DOMAIN gunfights
      PROVE  /\ gunfights'[i] \in Gunfight
             /\ gunfights'[i].round = gunfights[i].round
             /\ gunfights'[i].killer = gunfights[i].killer
             /\ gunfights'[i].victim = gunfights[i].victim
             /\ gunfights'[i].late = gunfights[i].late
             /\ gunfights'[i].assist = new[i]
  <2>1. gunfights[i] \in Gunfight /\ new[i] \in Fighters \cup {Nobody}
    BY <1>2, <1>3
  <2>2. gunfights'[i] = [gunfights[i] EXCEPT !.assist = new[i]]
    BY <1>2
  <2> QED
    BY <2>1, <2>2 DEF Gunfight
<1>5. gunfights' \in Seq(Gunfight) /\ DOMAIN gunfights' = DOMAIN gunfights
  <2>1. DOMAIN gunfights = 1..Len(gunfights) /\ Len(gunfights) \in Nat
    BY <1>3
  <2>2. gunfights' \in [1..Len(gunfights) -> Gunfight]
    BY <1>2, <1>4, <2>1
  <2> QED
    BY <2>1, <2>2
<1>6. AssistTypes'
  BY <1>1, <1>5, Zenon DEF AssistTypes
<1>7. \A i \in DOMAIN gunfights :
        new[i] \in Credited(damage[LastRound][gunfights[i].victim], gunfights[i].killer)
  BY <1>1, <1>2, SearchIsCredited
<1> QED
  BY <1>1, <1>4, <1>5, <1>6, <1>7

EarnedInv == AssistTypes /\ DeadInv /\ FoundInv

\* What was found when a player was killed is what would be found later.
LEMMA FoundStep == EarnedInv /\ [AssistsNext]_assistVars => EarnedInv'
<1> SUFFICES ASSUME EarnedInv, [AssistsNext]_assistVars PROVE EarnedInv'
  OBVIOUS
<1>0. /\ AssistTypes /\ CurrentRound \in Nat
      /\ gunfights \in Seq(Gunfight) /\ Len(gunfights) \in Nat
      /\ DOMAIN gunfights = 1..Len(gunfights)
  BY BoundsAssumption DEF EarnedInv, AssistTypes
<1>1. ASSUME NEW i \in DOMAIN gunfights
      PROVE  /\ gunfights[i].round \in 1..CurrentRound /\ gunfights[i].victim \in Fighters
             /\ gunfights[i].round = CurrentRound => health[gunfights[i].victim] = 0
             /\ ~done => Found(gunfights[i])
  <2>1. gunfights[i] \in Gunfight
    BY <1>0
  <2> QED
    BY <1>0, <2>1, BoundsAssumption DEF EarnedInv, DeadInv, FoundInv, Gunfight
<1>2. ASSUME NEW a \in Fighters, NEW v \in Fighters, NEW hit \in Hits,
             DamageHandlePlayerHurt(a, v, hit)
      PROVE  EarnedInv'
  <2>1. /\ AssistTypes'
        /\ \A p \in Fighters : health[p] = 0 => health'[p] = 0
        /\ \A r \in 1..CurrentRound, p \in Fighters :
             r # CurrentRound \/ health[p] = 0 => damage'[r][p] = damage[r][p]
        /\ UNCHANGED <<CurrentRound, gunfights, done>>
    BY <1>0, <1>2, HurtStep DEF DamageHandlePlayerHurt
  <2>2. DeadInv'
    BY <1>1, <2>1 DEF EarnedInv, DeadInv
  <2>3. FoundInv'
    BY <1>1, <2>1 DEF FoundInv, Found
  <2> QED
    BY <2>1, <2>2, <2>3 DEF EarnedInv
<1>3. CASE GunfightHandlePlayerKilled
  <2>1. /\ AssistTypes'
        /\ UNCHANGED <<CurrentRound, health, damage, done>>
        /\ Len(gunfights') = Len(gunfights) + 1
        /\ \A i \in DOMAIN gunfights : gunfights'[i] = gunfights[i]
    BY <1>0, <1>3, KillStep
  <2>2. PICK g \in Gunfight : /\ gunfights'[Len(gunfights) + 1] = g
                              /\ g.round = CurrentRound /\ health[g.victim] = 0 /\ Found(g)
    BY <1>0, <1>3, KillStep
  <2>3. gunfights' \in Seq(Gunfight) /\ DOMAIN gunfights' = 1..(Len(gunfights) + 1)
    BY <2>1 DEF AssistTypes
  <2>4. ASSUME NEW i \in DOMAIN gunfights'
        PROVE  /\ gunfights'[i].round <= CurrentRound'
               /\ gunfights'[i].round = CurrentRound' => health'[gunfights'[i].victim] = 0
               /\ ~done' => Found(gunfights[i])'
    <3>1. CASE i = Len(gunfights) + 1
      BY <1>0, <2>1, <2>2, <3>1 DEF Found
    <3>2. CASE i \in DOMAIN gunfights
      BY <1>0, <1>1, <2>1, <3>2 DEF Found
    <3> QED
      BY <1>0, <2>3, <3>1, <3>2
  <2> QED
    BY <2>1, <2>4 DEF EarnedInv, DeadInv, FoundInv, Found
<1>4. CASE DamageHandleRoundStart
  <2>1. /\ AssistTypes' /\ CurrentRound' = CurrentRound + 1
        /\ UNCHANGED <<gunfights, done>>
        /\ \A r \in 1..CurrentRound : damage'[r] = damage[r]
    BY <1>0, <1>4, NewRoundStep DEF DamageHandleRoundStart
  <2>2. DeadInv'
    BY <1>0, <1>1, <2>1 DEF DeadInv
  <2>3. FoundInv'
    BY <1>1, <2>1 DEF FoundInv, Found
  <2> QED
    BY <2>1, <2>2, <2>3 DEF EarnedInv
<1>5. CASE AggregateRoundEnd
  <2>1. AssistTypes' /\ UNCHANGED <<CurrentRound, health, damage, gunfights, done>>
    BY <1>0, <1>5, RoundCounted DEF AggregateRoundEnd
  <2> QED
    BY <2>1 DEF EarnedInv, DeadInv, FoundInv, Found
<1>6. CASE postProcessDamageAssists
  <2>1. /\ AssistTypes' /\ done' = TRUE /\ UNCHANGED <<CurrentRound, health>>
        /\ DOMAIN gunfights' = DOMAIN gunfights
        /\ \A i \in DOMAIN gunfights : /\ gunfights'[i].round = gunfights[i].round
                                       /\ gunfights'[i].victim = gunfights[i].victim
    BY <1>0, <1>6, SearchedAgain
  <2>2. DeadInv'
    BY <2>1 DEF EarnedInv, DeadInv
  <2> QED
    BY <2>1, <2>2 DEF EarnedInv, FoundInv
<1>7. CASE UNCHANGED assistVars
  BY <1>7 DEF assistVars, EarnedInv, AssistTypes, DeadInv, FoundInv, Found
<1> QED
  BY <1>2, <1>3, <1>4, <1>5, <1>6, <1>7 DEF AssistsNext

\* Whoever is credited with an assist while the demo is read did at least the
\* threshold of damage to that victim in that round, and is not the killer:
\* also with hits between the rounds.
THEOREM AssistsEarned == AssistsSpec => []AssistsAreEarned
<1>1. AssistsInit => EarnedInv
  BY AssistsStart DEF EarnedInv
<1>2. EarnedInv => AssistsAreEarned
  <2> SUFFICES ASSUME EarnedInv, ~done, NEW i \in DOMAIN gunfights,
                      gunfights[i].assist # Nobody
               PROVE  /\ gunfights[i].assist # gunfights[i].killer
                      /\ damage[gunfights[i].round][gunfights[i].victim][gunfights[i].assist]
                           >= Threshold
    BY DEF AssistsAreEarned
  <2>1. Found(gunfights[i])
    BY DEF EarnedInv, FoundInv
  <2> QED
    BY <2>1 DEF Found, Credited, MostOf, HelpersOf
<1> QED
  BY <1>1, <1>2, FoundStep, PTL DEF AssistsSpec

LEMMA SameCounts ==
  ASSUME gunfights' = gunfights, NEW r, NEW p
  PROVE  KillsInTimeOf(r, p)' = KillsInTimeOf(r, p)
         /\ AssistsInTimeOf(r, p)' = AssistsInTimeOf(r, p)
  BY DEF KillsInTimeOf, AssistsInTimeOf, InTime

LEMMA CountedStays ==
  ASSUME CountedInv, UNCHANGED <<gunfights, rounds, done>>
  PROVE  CountedInv'
<1>1. ASSUME NEW r \in 1..Len(rounds'), NEW p \in Fighters
      PROVE  /\ rounds'[r][p].kills = KillsInTimeOf(r, p)'
             /\ ~done' => rounds'[r][p].assists = AssistsInTimeOf(r, p)'
  BY SameCounts DEF CountedInv
<1> QED
  BY <1>1 DEF CountedInv

LEMMA CountedStep == EarnedInv /\ CountedInv /\ [AssistsNext]_assistVars => CountedInv'
<1> SUFFICES ASSUME EarnedInv, CountedInv, [AssistsNext]_assistVars PROVE CountedInv'
  OBVIOUS
<1>0. /\ AssistTypes /\ CurrentRound \in Nat /\ Len(rounds) \in Nat
      /\ gunfights \in Seq(Gunfight) /\ Len(gunfights) \in Nat
      /\ DOMAIN gunfights = 1..Len(gunfights)
  BY BoundsAssumption DEF EarnedInv, AssistTypes
<1>1. ASSUME NEW a \in Fighters, NEW v \in Fighters, NEW hit \in Hits,
             DamageHandlePlayerHurt(a, v, hit)
      PROVE  CountedInv'
  BY <1>1, CountedStays DEF DamageHandlePlayerHurt
<1>2. CASE GunfightHandlePlayerKilled
  <2> DEFINE n == Len(gunfights) + 1
  <2>1. /\ UNCHANGED <<CurrentRound, rounds, done>> /\ AssistTypes' /\ Len(gunfights') = n
        /\ \A i \in DOMAIN gunfights : gunfights'[i] = gunfights[i]
        /\ gunfights'[n].round = CurrentRound
        /\ gunfights'[n].late <=> CurrentRound = Len(rounds)
    BY <1>0, <1>2, KillStep
  <2>2. DOMAIN gunfights' = DOMAIN gunfights \cup {n}
    <3>1. gunfights' \in Seq(Gunfight)
      BY <2>1 DEF AssistTypes
    <3> QED
      BY <1>0, <2>1, <3>1
  <2>3. Len(rounds) <= CurrentRound
    BY <1>0 DEF AssistTypes
  <2>4. \A i \in DOMAIN gunfights' : gunfights'[i].round > Len(rounds') => ~gunfights'[i].late
    <3>1. \A i \in DOMAIN gunfights : gunfights'[i].round > Len(rounds') => ~gunfights'[i].late
      BY <2>1 DEF CountedInv
    <3>2. CurrentRound > Len(rounds) => ~gunfights'[n].late
      BY <1>0, <2>1, <2>3
    <3>3. gunfights'[n].round > Len(rounds') => ~gunfights'[n].late
      BY <2>1, <3>2
    <3> HIDE DEF n
    <3> QED
      BY <2>2, <3>1, <3>3
  <2>5. ASSUME NEW r \in 1..Len(rounds), NEW p \in Fighters
        PROVE  /\ KillsInTimeOf(r, p)' = KillsInTimeOf(r, p)
               /\ AssistsInTimeOf(r, p)' = AssistsInTimeOf(r, p)
    <3>1. r = CurrentRound => gunfights'[n].late
      BY <1>0, <2>1, <2>3
    <3>4. gunfights'[n].round = r => gunfights'[n].late
      BY <2>1, <3>1
    <3>2. InTime(r)' = InTime(r)
      <4> HIDE DEF n
      <4>1. ASSUME NEW i \in DOMAIN gunfights'
            PROVE  gunfights'[i].round = r /\ ~gunfights'[i].late <=> i \in InTime(r)
        <5>1. CASE i = n
          <6>1. n \notin InTime(r)
            BY <1>0 DEF InTime, n
          <6> QED
            BY <3>4, <5>1, <6>1
        <5>2. CASE i \in DOMAIN gunfights
          <6>1. i \in InTime(r) <=> gunfights[i].round = r /\ ~gunfights[i].late
            BY <5>2, Zenon DEF InTime
          <6>2. gunfights'[i] = gunfights[i]
            BY <2>1, <5>2
          <6>3. CASE gunfights[i].late
            BY <6>1, <6>2, <6>3, Zenon
          <6>4. CASE ~gunfights[i].late
            BY <6>1, <6>2, <6>4, Zenon
          <6> QED
            BY <6>3, <6>4
        <5> QED
          BY <2>2, <5>1, <5>2
      <4>2. InTime(r) \subseteq DOMAIN gunfights'
        BY <2>2 DEF InTime
      <4> QED
        BY <4>1, <4>2, Zenon DEF InTime
    <3>3. \A i \in InTime(r) : gunfights'[i] = gunfights[i]
      BY <2>1 DEF InTime
    <3> QED
      BY <3>2, <3>3 DEF KillsInTimeOf, AssistsInTimeOf
  <2> QED
    BY <2>1, <2>4, <2>5 DEF CountedInv
<1>3. CASE DamageHandleRoundStart
  BY <1>3, CountedStays DEF DamageHandleRoundStart
<1>4. CASE AggregateRoundEnd
  <2>1. done' = done /\ ~done /\ gunfights' = gunfights
    BY <1>4 DEF AggregateRoundEnd
  <2>2. /\ Len(rounds) + 1 = CurrentRound /\ Len(rounds') = CurrentRound
        /\ \A r \in 1..Len(rounds) : rounds'[r] = rounds[r]
        /\ \A p \in Fighters : /\ rounds'[CurrentRound][p].kills = Kills(CurrentRound, p)
                               /\ rounds'[CurrentRound][p].assists = Assists(CurrentRound, p)
    BY <1>0, <1>4, RoundCounted
  <2>3. InTime(CurrentRound) = {i \in DOMAIN gunfights : gunfights[i].round = CurrentRound}
    BY <1>0, <2>2 DEF InTime, CountedInv
  <2>4. \A p \in Fighters : /\ Kills(CurrentRound, p) = KillsInTimeOf(CurrentRound, p)
                            /\ Assists(CurrentRound, p) = AssistsInTimeOf(CurrentRound, p)
    BY <2>3 DEF Kills, Assists, KillsInTimeOf, AssistsInTimeOf
  <2>5. ASSUME NEW r \in 1..Len(rounds'), NEW p \in Fighters
        PROVE  rounds'[r][p].kills = KillsInTimeOf(r, p) /\ rounds'[r][p].assists = AssistsInTimeOf(r, p)
    <3>1. r = CurrentRound \/ r \in 1..Len(rounds)
      BY <1>0, <2>2
    <3>2. CASE r = CurrentRound
      BY <2>2, <2>4, <3>2
    <3>3. CASE r \in 1..Len(rounds)
      <4>1. /\ rounds[r][p].kills = KillsInTimeOf(r, p)
            /\ rounds[r][p].assists = AssistsInTimeOf(r, p)
        BY <2>1, <3>3 DEF CountedInv
      <4> QED
        BY <2>2, <3>3, <4>1
    <3> QED
      BY <3>1, <3>2, <3>3
  <2>6. ASSUME NEW r \in 1..Len(rounds'), NEW p \in Fighters
        PROVE  /\ rounds'[r][p].kills = KillsInTimeOf(r, p)'
               /\ ~done' => rounds'[r][p].assists = AssistsInTimeOf(r, p)'
    BY <2>1, <2>5, SameCounts
  <2>7. \A i \in DOMAIN gunfights' : gunfights'[i].round > Len(rounds') => ~gunfights'[i].late
    <3>1. \A i \in DOMAIN gunfights : gunfights[i].round \in Int
      <4>1. \A i \in DOMAIN gunfights : gunfights[i] \in Gunfight
        BY <1>0
      <4> QED
        BY <4>1, BoundsAssumption DEF Gunfight
    <3> QED
      BY <1>0, <2>1, <2>2, <3>1 DEF CountedInv
  <2> QED
    BY <2>6, <2>7 DEF CountedInv
<1>5. CASE postProcessDamageAssists
  <2>1. /\ done' = TRUE /\ UNCHANGED rounds /\ DOMAIN gunfights' = DOMAIN gunfights
        /\ \A i \in DOMAIN gunfights : /\ gunfights'[i].round = gunfights[i].round
                                       /\ gunfights'[i].killer = gunfights[i].killer
                                       /\ gunfights'[i].late = gunfights[i].late
    BY <1>0, <1>5, SearchedAgain
  <2>2. ASSUME NEW r, NEW p PROVE KillsInTimeOf(r, p)' = KillsInTimeOf(r, p)
    <3>1. InTime(r)' = InTime(r)
      BY <2>1 DEF InTime
    <3>2. \A i \in InTime(r) : gunfights'[i].killer = gunfights[i].killer
      BY <2>1 DEF InTime
    <3> QED
      BY <3>1, <3>2 DEF KillsInTimeOf
  <2> QED
    BY <2>1, <2>2 DEF CountedInv
<1>6. CASE UNCHANGED assistVars
  BY <1>6, CountedStays DEF assistVars
<1> QED
  BY <1>1, <1>2, <1>3, <1>4, <1>5, <1>6 DEF AssistsNext

\* Without equals there is one who did the most.
LEMMA OneCredited ==
  ASSUME NEW taken \in [Fighters -> Nat], NEW k,
         \A a, b \in HelpersOf(taken, k) : a # b => taken[a] # taken[b],
         NEW x \in Credited(taken, k), NEW y \in Credited(taken, k)
  PROVE  x = y
<1>1. CASE HelpersOf(taken, k) = {}
  BY <1>1 DEF Credited
<1>2. CASE HelpersOf(taken, k) # {}
  <2>1. x \in MostOf(taken, k) /\ y \in MostOf(taken, k)
    BY <1>2 DEF Credited
  <2>2. /\ x \in HelpersOf(taken, k) /\ y \in HelpersOf(taken, k)
        /\ taken[x] <= taken[y] /\ taken[y] <= taken[x]
    BY <2>1 DEF MostOf
  <2>3. taken[x] \in Nat /\ taken[y] \in Nat
    BY <2>2 DEF HelpersOf
  <2> QED
    BY <2>2, <2>3
<1> QED
  BY <1>1, <1>2

LEMMA AgreedStep ==
  ASSUME LastRound > 0
  PROVE  EarnedInv /\ CountedInv /\ LastRoundAggregated /\ [AssistsNext]_assistVars
           => LastRoundAggregated'
<1> SUFFICES ASSUME EarnedInv, CountedInv, LastRoundAggregated, [AssistsNext]_assistVars
             PROVE  LastRoundAggregated'
  OBVIOUS
<1>1. CASE UNCHANGED assistVars
  BY <1>1 DEF assistVars, LastRoundAggregated, InTime, Equals, Helpers
<1>2. CASE postProcessDamageAssists
  <2>1. /\ AssistTypes /\ LastRound \in Nat
        /\ \A i \in DOMAIN gunfights : Found(gunfights[i]) /\ gunfights[i] \in Gunfight
    BY <1>2, BoundsAssumption DEF EarnedInv, AssistTypes, FoundInv, postProcessDamageAssists
  <2>2. /\ CurrentRound = LastRound /\ Len(rounds) = LastRound
        /\ UNCHANGED <<damage, rounds>> /\ DOMAIN gunfights' = DOMAIN gunfights
        /\ \A i \in DOMAIN gunfights :
             /\ gunfights'[i].round = gunfights[i].round
             /\ gunfights'[i].killer = gunfights[i].killer
             /\ gunfights'[i].victim = gunfights[i].victim
             /\ gunfights'[i].late = gunfights[i].late
             /\ gunfights'[i].assist
                  \in Credited(damage[LastRound][gunfights[i].victim], gunfights[i].killer)
    BY <1>2, <2>1, SearchedAgain
  <2>9. InTime(LastRound)' = InTime(LastRound)
    BY <2>2 DEF InTime
  <2> SUFFICES ASSUME \A i \in InTime(LastRound) : ~Equals(gunfights[i])'
               PROVE  \A p \in Fighters : rounds'[LastRound][p].assists = AssistsInTimeOf(LastRound, p)'
    BY <2>9 DEF LastRoundAggregated, AssistsInTimeOf
  <2>3. ASSUME NEW i \in InTime(LastRound)
        PROVE  gunfights'[i].assist = gunfights[i].assist
    <3>0. i \in DOMAIN gunfights /\ gunfights[i].round = LastRound
      BY DEF InTime
    <3> DEFINE taken == damage[LastRound][gunfights[i].victim]
               k == gunfights[i].killer
    <3>1. taken \in [Fighters -> Nat]
      <4>1. damage \in Seq([Fighters -> [Fighters -> Nat]]) /\ Len(damage) = LastRound
        BY <2>1, <2>2 DEF AssistTypes
      <4>2. gunfights[i].victim \in Fighters
        BY <2>1, <3>0 DEF Gunfight
      <4> QED
        BY <2>1, <4>1, <4>2
    <3>2. \A a, b \in HelpersOf(taken, k) : a # b => taken[a] # taken[b]
      BY <2>2, <2>3, <3>0 DEF Equals, Helpers, HelpersOf
    <3>3. gunfights[i].assist \in Credited(taken, k) /\ gunfights'[i].assist \in Credited(taken, k)
      BY <2>1, <2>2, <3>0 DEF Found
    <3> HIDE DEF taken, k
    <3> QED
      BY <3>1, <3>2, <3>3, OneCredited
  <2>4. ASSUME NEW p \in Fighters
        PROVE  rounds'[LastRound][p].assists = AssistsInTimeOf(LastRound, p)'
    <3>1. rounds[LastRound][p].assists = AssistsInTimeOf(LastRound, p)
      BY <1>2, <2>1, <2>2 DEF CountedInv, postProcessDamageAssists
    <3>2. AssistsInTimeOf(LastRound, p)' = AssistsInTimeOf(LastRound, p)
      BY <2>3, <2>9 DEF AssistsInTimeOf
    <3> QED
      BY <2>2, <3>1, <3>2
  <2> QED
    BY <2>4
<1>3. CASE AssistsNext /\ ~postProcessDamageAssists
  <2>1. done' = done /\ ~done
    BY <1>3 DEF AssistsNext, DamageHandlePlayerHurt, GunfightHandlePlayerKilled,
                DamageHandleRoundStart, AggregateRoundEnd
  <2> QED
    BY <2>1 DEF LastRoundAggregated
<1> QED
  BY <1>1, <1>2, <1>3

LEMMA CountedInvariant == AssistsSpec => [](EarnedInv /\ CountedInv)
<1>1. AssistsInit => EarnedInv /\ CountedInv
  BY AssistsStart DEF EarnedInv
<1>2. EarnedInv /\ CountedInv /\ [AssistsNext]_assistVars => (EarnedInv /\ CountedInv)'
  BY FoundStep, CountedStep
<1> QED
  BY <1>1, <1>2, PTL DEF AssistsSpec

\* The assists of the last round's gunfights before its end, which are searched
\* again after the round has been counted, are those its player events count,
\* however many hits and kills there are and whenever they come: if no two helpers
\* hurt a victim of these alike.
THEOREM LastRoundAgrees ==
  ASSUME LastRound > 0
  PROVE  AssistsSpec => []LastRoundAggregated
<1>1. AssistsInit => LastRoundAggregated
  BY DEF AssistsInit, LastRoundAggregated
<1> QED
  BY <1>1, AgreedStep, CountedInvariant, PTL DEF AssistsSpec

\* The player events of every round count each kill from its start to its end once
\* and no other, whatever kills follow before the next round or the post-processing.
THEOREM KillsCounted == AssistsSpec => []KillsInTime
<1>1. EarnedInv /\ CountedInv => KillsInTime
  <2> SUFFICES ASSUME AssistTypes, CountedInv PROVE KillsInTime
    BY DEF EarnedInv
  <2>1. DOMAIN rounds = 1..Len(rounds)
    BY DEF AssistTypes
  <2> QED
    BY <2>1 DEF CountedInv, KillsInTime, KillsInTimeOf
<1> QED
  BY <1>1, CountedInvariant, PTL

-----------------------------------------------------------------------------
(* Trades.                                                                 *)

Fight == [killer : Entered, victim : Entered, from : Spots, to : Spots, at : Nat]

FightTypes ==
  /\ standing \in Seq(SUBSET Entered) /\ standing # <<>>
  /\ fights \in Seq(Fight)

\* Whom the parser has seen die is not among those who stand.
FallenInv == \A i \in DOMAIN fights : fights[i].victim \notin Last(standing)

LEMMA FightsStart == MetricsInit => FightTypes /\ FallenInv /\ TradesAgree
<1> SUFFICES ASSUME MetricsInit PROVE FightTypes /\ FallenInv /\ TradesAgree
  OBVIOUS
<1>1. PICK gone \in SUBSET Entered : standing = <<Entered \ gone>>
  BY DEF MetricsInit
<1>2. standing \in Seq(SUBSET Entered) /\ standing # <<>>
  BY <1>1
<1>3. fights = <<>> /\ rows = <<>>
  BY DEF MetricsInit
<1> QED
  BY <1>2, <1>3 DEF FightTypes, FallenInv, TradesAgree

LEMMA OneDies ==
  ASSUME FightTypes, NEW v, Dies(v)
  PROVE  /\ standing' \in Seq(SUBSET Entered) /\ standing' # <<>>
         /\ v \in Entered /\ Last(standing') = Last(standing) \ {v}
         /\ rows = <<>> /\ rows' = rows
<1>1. /\ standing \in Seq(SUBSET Entered) /\ standing # <<>>
      /\ Last(standing) \in SUBSET Entered
  BY DEF FightTypes, Last
<1>2. standing' = Append(standing, Last(standing) \ {v}) /\ v \in Last(standing)
  BY DEF Dies
<1> DEFINE left == Last(standing) \ {v}
<1>3. left \in SUBSET Entered
  BY <1>1
<1> HIDE DEF left
<1>4. standing' \in Seq(SUBSET Entered) /\ Len(standing') = Len(standing) + 1
      /\ standing'[Len(standing) + 1] = left
  BY <1>1, <1>2, <1>3 DEF left
<1>5. Last(standing') = left
  BY <1>4 DEF Last
<1>6. standing' # <<>>
  BY <1>1, <1>4
<1>7. rows = <<>> /\ rows' = rows
  BY DEF Dies, Playing
<1> QED
  BY <1>1, <1>2, <1>4, <1>5, <1>6, <1>7 DEF left

LEMMA FightStep ==
  ASSUME FightTypes, FallenInv, NEW k \in Entered, NEW v \in Entered, MetricsPlayerKilled(k, v)
  PROVE  /\ FightTypes' /\ FallenInv'
         /\ \E g \in Fight : fights' = Append(fights, g) /\ g.victim = v
<1>1. /\ standing' \in Seq(SUBSET Entered) /\ standing' # <<>>
      /\ Last(standing') = Last(standing) \ {v}
  BY OneDies DEF MetricsPlayerKilled
<1>2. PICK x \in Spots, y \in Spots, gap \in Gaps :
        fights' = Append(fights, [killer |-> k, victim |-> v, from |-> x, to |-> y,
                                  at |-> IF fights = <<>> THEN 0 ELSE Last(fights).at + gap])
  BY DEF MetricsPlayerKilled
<1> DEFINE at == IF fights = <<>> THEN 0 ELSE Last(fights).at + gap
           g == [killer |-> k, victim |-> v, from |-> x, to |-> y, at |-> at]
<1>3. fights \in Seq(Fight)
  BY DEF FightTypes
<1>4. at \in Nat
  <2>1. fights # <<>> => Last(fights) \in Fight
    BY <1>3 DEF Last
  <2>2. gap \in Nat
    BY WindowAssumption
  <2> QED
    BY <2>1, <2>2 DEF Fight
<1> HIDE DEF at
<1>5. g \in Fight /\ g.victim = v
  BY <1>4 DEF Fight
<1>6. fights' = Append(fights, g)
  BY <1>2 DEF at
<1> HIDE DEF g
<1>7. /\ fights' \in Seq(Fight) /\ DOMAIN fights' = DOMAIN fights \cup {Len(fights) + 1}
      /\ fights'[Len(fights) + 1] = g
      /\ \A i \in DOMAIN fights : fights'[i] = fights[i]
  BY <1>3, <1>5, <1>6
<1>8. FallenInv'
  BY <1>1, <1>5, <1>7 DEF FallenInv
<1>9. \E h \in Fight : fights' = Append(fights, h) /\ h.victim = v
  BY <1>5, <1>6
<1> QED
  BY <1>1, <1>7, <1>8, <1>9 DEF FightTypes

\* The death that one row calls traded is a trade of the row of the mate asked.
LEMMA RowsAgree ==
  ASSUME FightTypes, FallenInv, MetricsRoundEnd
  PROVE  TradesAgree'
<1> PICK traded \in SuccessfulTradedDeaths :
      rows' = [p \in Entered |->
           LET clutch == Clutch(p)
           IN [kills |-> KillsOf(p), died |-> Died(p),
               firstKill |-> FirstKill(p), firstDeath |-> FirstDeath(p),
               possible |-> PossibleTrades(p), trades |-> SuccessfulTrades(p),
               tradable |-> DeathsOf({p}) \cap PossibleTradedDeaths,
               traded |-> DeathsOf({p}) \cap traded,
               attempts |-> clutch.attempts, wins |-> clutch.wins]]
  BY DEF MetricsRoundEnd
<1>1. \A p \in Entered : /\ rows'[p].traded = DeathsOf({p}) \cap traded
                         /\ rows'[p].trades = SuccessfulTrades(p)
  OBVIOUS
<1>2. UNCHANGED <<standing, fights>>
  BY DEF MetricsRoundEnd
<1>3. ASSUME NEW p \in Entered, NEW i \in rows'[p].traded
      PROVE  /\ \E q \in Mates(p) : i \in SuccessfulTrades(q)
             /\ fights[i].killer \notin Last(standing)
  <2>1. i \in roundDeaths /\ fights[i].victim = p /\ i \in traded
    BY <1>1, <1>3 DEF DeathsOf
  <2>2. PICK q \in PossibleTraders(i) : i \in traded <=> TradedBy(q, fights[i])
    BY <2>1 DEF SuccessfulTradedDeaths
  <2>3. q \in Mates(p) /\ InReach(q, fights[i]) /\ TradedBy(q, fights[i])
    BY <2>1, <2>2 DEF PossibleTraders
  <2>4. q \in Entered /\ p \in Mates(q)
    BY <2>3 DEF Mates
  <2>5. i \in SuccessfulTrades(q)
    BY <2>1, <2>3, <2>4 DEF SuccessfulTrades, PossibleTrades, DeathsOf
  <2>6. PICK j \in roundDeaths : fights[j].victim = fights[i].killer
    BY <2>3 DEF TradedBy
  <2>7. j \in DOMAIN fights
    BY DEF roundDeaths
  <2> QED
    BY <2>3, <2>5, <2>6, <2>7 DEF FallenInv
<1>4. ASSUME NEW p \in Entered, NEW i \in rows'[p].traded
      PROVE  /\ \E q \in Mates(p) : i \in rows'[q].trades
             /\ fights'[i].killer \notin Last(standing')
  <2>1. Mates(p) \subseteq Entered
    BY DEF Mates
  <2> QED
    BY <1>1, <1>2, <1>3, <2>1
<1> QED
  BY <1>4 DEF TradesAgree, Mates

\* However many players, kills and spots there are, whichever mate is asked: a
\* death the victim's row counts as traded is a trade in the row of a mate, and
\* its killer does not outlive the round.
THEOREM TradesTold == MetricsSpec => []TradesAgree
<1> DEFINE IInv == FightTypes /\ FallenInv /\ TradesAgree
<1>1. MetricsInit => IInv
  BY FightsStart
<1>2. IInv /\ [MetricsNext]_metricVars => IInv'
  <2> SUFFICES ASSUME IInv, [MetricsNext]_metricVars PROVE IInv'
    OBVIOUS
  <2>1. ASSUME NEW k \in Entered, NEW v \in Entered, MetricsPlayerKilled(k, v)
        PROVE  IInv'
    <3>1. rows' = <<>>
      BY <2>1, OneDies DEF MetricsPlayerKilled
    <3> QED
      BY <2>1, <3>1, FightStep DEF TradesAgree
  <2>2. ASSUME NEW v \in Entered, DiesUnseen(v) PROVE IInv'
    <3>1. /\ standing' \in Seq(SUBSET Entered) /\ standing' # <<>>
          /\ Last(standing') = Last(standing) \ {v}
          /\ rows' = <<>> /\ fights' = fights
      BY <2>2, OneDies DEF DiesUnseen
    <3> QED
      BY <3>1 DEF FightTypes, FallenInv, TradesAgree
  <2>3. CASE MetricsRoundEnd
    <3>1. UNCHANGED <<standing, fights>>
      BY <2>3 DEF MetricsRoundEnd
    <3>2. FightTypes' /\ FallenInv'
      BY <3>1 DEF FightTypes, FallenInv
    <3> QED
      BY <2>3, <3>2, RowsAgree
  <2>4. CASE UNCHANGED metricVars
    BY <2>4 DEF metricVars, FightTypes, FallenInv, TradesAgree
  <2> QED
    BY <2>1, <2>2, <2>3, <2>4 DEF MetricsNext
<1> QED
  BY <1>1, <1>2, PTL DEF MetricsSpec

-----------------------------------------------------------------------------
(* Clutches.                                                               *)

Body(p, g, s) == IF s = {} THEN NoClutch
                 ELSE ClutchStep(p, g[s \ {Max(s)}], fights[Max(s)])
Folds(p, g, T) == g = [s \in SUBSET T |-> Body(p, g, s)]

\* The fold of Clutch unfolded: g gives the account of every set of gunfights.
LEMMA ClutchIsFold ==
  ASSUME NEW p
  PROVE  Clutch(p) = (CHOOSE g : Folds(p, g, DOMAIN fights))[DOMAIN fights]
BY DEF Clutch, FoldLeft, MapThenFoldSet, Folds, Body

LEMMA MaxOfInterval ==
  ASSUME NEW k \in Nat, NEW s \in SUBSET (1..(k + 1)), k + 1 \in s
  PROVE  Max(s) = k + 1
<1>1. \A y \in s : k + 1 >= y
  OBVIOUS
<1>2. \A x \in s : (\A y \in s : x >= y) => x = k + 1
  OBVIOUS
<1> QED
  BY <1>1, <1>2 DEF Max

\* There is such a g: one is made of that of one gunfight less.
LEMMA FoldExists ==
  ASSUME NEW p, NEW n \in Nat
  PROVE  \E g : Folds(p, g, 1..n)
<1> DEFINE S == {k \in Nat : \E g : Folds(p, g, 1..k)}
<1>1. 0 \in S
  <2> DEFINE g == [s \in SUBSET (1..0) |-> NoClutch]
  <2>1. SUBSET (1..0) = {{}}
    OBVIOUS
  <2>2. g = [s \in SUBSET (1..0) |-> Body(p, g, s)]
    BY <2>1 DEF Body
  <2> HIDE DEF g
  <2> QED
    BY <2>2 DEF Folds
<1>2. ASSUME NEW k \in Nat, k \in S PROVE k + 1 \in S
  <2>1. PICK f : Folds(p, f, 1..k)
    BY <1>2
  <2> DEFINE g == [s \in SUBSET (1..(k + 1)) |->
                     IF k + 1 \in s THEN ClutchStep(p, f[s \ {k + 1}], fights[k + 1]) ELSE f[s]]
  <2>2. ASSUME NEW s \in SUBSET (1..(k + 1)) PROVE g[s] = Body(p, g, s)
    <3>1. CASE k + 1 \in s
      <4>1. Max(s) = k + 1
        BY <3>1, MaxOfInterval
      <4>2. s \ {k + 1} \in SUBSET (1..(k + 1)) /\ k + 1 \notin s \ {k + 1}
        OBVIOUS
      <4>3. g[s \ {k + 1}] = f[s \ {k + 1}]
        BY <4>2
      <4> QED
        BY <3>1, <4>1, <4>3 DEF Body
    <3>2. CASE k + 1 \notin s
      <4>1. s \in SUBSET (1..k)
        BY <3>2
      <4>2. f[s] = Body(p, f, s)
        BY <2>1, <4>1 DEF Folds
      <4>3. \A x : g[s \ {x}] = f[s \ {x}]
        BY <3>2
      <4>4. Body(p, g, s) = Body(p, f, s)
        BY <4>3 DEF Body
      <4> QED
        BY <3>2, <4>2, <4>4
    <3> QED
      BY <3>1, <3>2
  <2>3. g = [s \in SUBSET (1..(k + 1)) |-> g[s]]
    OBVIOUS
  <2> HIDE DEF g
  <2>4. g = [s \in SUBSET (1..(k + 1)) |-> Body(p, g, s)]
    BY <2>2, <2>3
  <2>5. Folds(p, g, 1..(k + 1))
    BY <2>4 DEF Folds
  <2> QED
    BY <2>5
<1> HIDE DEF S
<1>3. n \in S
  BY <1>1, <1>2, NatFromZero
<1> QED
  BY <1>3 DEF S

\* Clutch goes through the gunfights one by one.
LEMMA ClutchByStep ==
  ASSUME NEW p, NEW T, fights \in Seq(T)
  PROVE  \E f : /\ f[0] = NoClutch
                /\ \A k \in 1..Len(fights) : f[k] = ClutchStep(p, f[k - 1], fights[k])
                /\ f[Len(fights)] = Clutch(p)
<1> DEFINE n == Len(fights)
<1>1. n \in Nat /\ DOMAIN fights = 1..n
  OBVIOUS
<1> HIDE DEF n
<1>2. PICK g : g = (CHOOSE h : Folds(p, h, 1..n))
  OBVIOUS
<1>3. Folds(p, g, 1..n)
  BY <1>1, <1>2, FoldExists
<1> DEFINE f == [k \in 0..n |-> g[1..k]]
<1>4. \A s \in SUBSET (1..n) : g[s] = Body(p, g, s)
  BY <1>3 DEF Folds
<1>5. f[0] = NoClutch
  <2>1. 1..0 = {} /\ 0 \in 0..n
    BY <1>1
  <2> QED
    BY <1>4, <2>1 DEF Body
<1>6. ASSUME NEW k \in 1..n PROVE f[k] = ClutchStep(p, f[k - 1], fights[k])
  <2>1. k - 1 \in Nat /\ k - 1 \in 0..n /\ k \in 0..n /\ k = (k - 1) + 1
    BY <1>1
  <2>2. 1..k \in SUBSET (1..n) /\ 1..k # {} /\ (1..k) \ {k} = 1..(k - 1) /\ k \in 1..k
    BY <1>1
  <2>3. Max(1..k) = k
    BY <2>1, <2>2, MaxOfInterval
  <2>4. g[1..k] = ClutchStep(p, g[1..(k - 1)], fights[k])
    BY <1>4, <2>2, <2>3 DEF Body
  <2> QED
    BY <2>1, <2>4
<1>7. f[n] = Clutch(p)
  BY <1>1, <1>2, ClutchIsFold
<1> QED
  BY <1>5, <1>6, <1>7 DEF n

\* Who stands after a death is known from the kills, as long as all have a killer.
StandsInv ==
  /\ Len(fights) < Len(standing)
  /\ Len(standing) = Len(fights) + 1 =>
       \A k \in 1..Len(fights) : standing[k + 1] = standing[k] \ {fights[k].victim}

\* The parser has seen every death, and nobody has left.
AllSeen ==
  /\ Len(standing) = Len(fights) + 1 /\ standing[1] = Entered
  /\ \A k \in 1..Len(fights) : /\ fights[k].killer # fights[k].victim
                               /\ standing[k + 1] = standing[k] \ {fights[k].victim}

LEMMA SeenMeansAllSeen ==
  ASSUME FightTypes, StandsInv, Seen
  PROVE  AllSeen
<1>1. /\ Len(fights) \in Nat /\ DOMAIN fights = 1..Len(fights)
      /\ Len(standing) \in Nat /\ roundDeaths \in SUBSET (1..Len(fights))
  BY DEF FightTypes, roundDeaths
<1>2. IsFiniteSet(1..Len(fights)) /\ Cardinality(1..Len(fights)) = Len(fights)
  <2>1. \A n \in Nat : IsFiniteSet(1..n) /\ Cardinality(1..n) = IF 1 > n THEN 0 ELSE n - 1 + 1
    BY FS_Interval
  <2> QED
    BY <1>1, <2>1
<1>3. Cardinality(roundDeaths) \in Nat /\ Cardinality(roundDeaths) <= Len(fights)
  <2> DEFINE all == 1..Len(fights)
  <2>0. IsFiniteSet(all) /\ roundDeaths \in SUBSET all
    BY <1>1, <1>2
  <2> HIDE DEF all
  <2>1. IsFiniteSet(roundDeaths) /\ Cardinality(roundDeaths) <= Cardinality(all)
    BY <2>0, FS_Subset
  <2>2. Cardinality(roundDeaths) \in Nat
    BY <2>1, FS_CardinalityType
  <2> QED
    BY <1>2, <2>1, <2>2 DEF all
<1>4. Cardinality(roundDeaths) = Len(standing) - 1 /\ standing[1] = Entered
  BY DEF Seen
<1>5. Len(standing) = Len(fights) + 1 /\ Cardinality(roundDeaths) = Len(fights)
  <2>1. Len(fights) < Len(standing)
    BY DEF StandsInv
  <2> QED
    BY <1>1, <1>3, <1>4, <2>1
<1>6. roundDeaths = 1..Len(fights)
  BY <1>1, <1>2, <1>5, FS_Subset
<1>7. \A k \in 1..Len(fights) : fights[k].killer # fights[k].victim
  BY <1>6 DEF roundDeaths
<1> QED
  BY <1>4, <1>5, <1>7 DEF AllSeen, StandsInv

LEMMA NobodyReturns ==
  ASSUME FightTypes, AllSeen,
         NEW i \in 1..Len(standing), NEW j \in 1..Len(standing), i <= j
  PROVE  standing[j] \subseteq standing[i]
<1> DEFINE D == {d \in Nat : i + d <= Len(standing) => standing[i + d] \subseteq standing[i]}
<1>0. Len(standing) \in Nat /\ Len(fights) \in Nat /\ Len(standing) = Len(fights) + 1
  BY DEF FightTypes, AllSeen
<1>1. 0 \in D
  OBVIOUS
<1>2. ASSUME NEW d \in Nat, d \in D PROVE d + 1 \in D
  <2> SUFFICES ASSUME i + (d + 1) <= Len(standing)
               PROVE  standing[i + (d + 1)] \subseteq standing[i]
    OBVIOUS
  <2>1. i + d \in 1..Len(fights) /\ i + (d + 1) = (i + d) + 1
    BY <1>0
  <2>2. standing[(i + d) + 1] \subseteq standing[i + d]
    BY <2>1 DEF AllSeen
  <2>3. standing[i + d] \subseteq standing[i]
    BY <1>0, <1>2, <2>1
  <2> QED
    BY <2>1, <2>2, <2>3
<1> HIDE DEF D
<1>3. j - i \in D
  BY <1>0, <1>1, <1>2, NatFromZero
<1> QED
  BY <1>0, <1>3 DEF D

\* What the account of p is to say of the first k members of standing.
BeginsAgainst(p, i, n) == Begins(p, i) /\ Cardinality(Enemies(p) \cap standing[i]) = n
Outlived(p, k) == \E i, j \in 1..k : /\ i < j /\ Begins(p, i) /\ p \in standing[j]
                                     /\ Enemies(p) \cap standing[j] = {}
Attempts(p, n, k) == {i \in 1..k : BeginsAgainst(p, i, n)}
Accounts == [alive : SUBSET Entered, against : 0..5,
             attempts : [1..5 -> Nat], wins : [1..5 -> {0, 1}]]
Describes(p, c, k) ==
  /\ c \in Accounts /\ c.alive = standing[k]
  /\ c.against # 0 <=> k > 1 /\ Alone(p, k)
  /\ \A n \in 1..5 : c.attempts[n] = Cardinality(Attempts(p, n, k))
  /\ (\E n \in 1..5 : c.wins[n] = 1) <=> Outlived(p, k)

LEMMA StartDescribed ==
  ASSUME AllSeen, NEW p \in Entered
  PROVE  Describes(p, NoClutch, 1)
<1>1. NoClutch \in Accounts
  BY DEF NoClutch, Accounts, None
<1>2. ~Begins(p, 1)
  BY DEF Begins
<1>3. \A n \in 1..5 : Attempts(p, n, 1) = {}
  BY <1>2 DEF Attempts, BeginsAgainst
<1>4. ~Outlived(p, 1)
  BY DEF Outlived
<1> QED
  <2>1. \A n \in 1..5 : Cardinality(Attempts(p, n, 1)) = 0
    BY <1>3, FS_EmptySet
  <2>2. \A n \in 1..5 : NoClutch.attempts[n] = 0 /\ NoClutch.wins[n] = 0
    BY DEF NoClutch, None
  <2>3. NoClutch.alive = standing[1] /\ NoClutch.against = 0
    BY DEF NoClutch, AllSeen
  <2> QED
    BY <1>1, <1>4, <2>1, <2>2, <2>3 DEF Describes

\* The attempts of one more death.
LEMMA OneMoreAttempt ==
  ASSUME NEW p, NEW n, NEW k \in Nat
  PROVE  /\ Cardinality(Attempts(p, n, k)) \in Nat
         /\ Cardinality(Attempts(p, n, k + 1)) =
              IF BeginsAgainst(p, k + 1, n) THEN Cardinality(Attempts(p, n, k)) + 1
                                            ELSE Cardinality(Attempts(p, n, k))
<1> DEFINE before == Attempts(p, n, k)
<1>1. Attempts(p, n, k + 1) = IF BeginsAgainst(p, k + 1, n) THEN before \cup {k + 1} ELSE before
  BY DEF Attempts
<1>2. before \in SUBSET (1..k) /\ k + 1 \notin before
  BY DEF Attempts
<1> HIDE DEF before
<1>3. IsFiniteSet(1..k)
  BY FS_Interval
<1>4. IsFiniteSet(before) /\ Cardinality(before) \in Nat
  BY <1>2, <1>3, FS_Subset, FS_CardinalityType
<1>5. Cardinality(before \cup {k + 1}) = Cardinality(before) + 1
  BY <1>2, <1>4, FS_AddElement
<1> QED
  BY <1>1, <1>4, <1>5 DEF before

\* Who is alone has come to be so at some death.
LEMMA AloneHasBegun ==
  ASSUME NEW p, NEW k \in Nat, k > 1, Alone(p, k)
  PROVE  \E i \in 1..k : Begins(p, i)
<1> SUFFICES ASSUME \A i \in 1..k : ~Begins(p, i) PROVE FALSE
  OBVIOUS
<1> DEFINE D == {i \in Nat : 1 < i /\ i <= k => ~Alone(p, i)}
<1>1. 0 \in D
  OBVIOUS
<1>2. ASSUME NEW i \in Nat, i \in D PROVE i + 1 \in D
  <2>1. 1 < i + 1 /\ i + 1 <= k => ~Begins(p, i + 1)
    OBVIOUS
  <2>2. i + 1 > 2 /\ i + 1 <= k => ~Alone(p, (i + 1) - 1)
    BY <1>2
  <2> QED
    BY <2>1, <2>2 DEF Begins
<1> HIDE DEF D
<1>3. k \in D
  BY <1>1, <1>2, NatFromZero
<1> QED
  BY <1>3 DEF D

\* A clutch is won at the death that leaves a player, who was alone, no enemies.
LEMMA OutlivedByOneMore ==
  ASSUME FightTypes, AllSeen, NEW p, NEW k \in 1..Len(fights)
  PROVE  /\ Alone(p, k) => ~Outlived(p, k)
         /\ Outlived(p, k + 1) <=>
              \/ Outlived(p, k)
              \/ /\ k > 1 /\ Alone(p, k)
                 /\ p \in standing[k + 1] /\ Enemies(p) \cap standing[k + 1] = {}
<1>0. Len(standing) \in Nat /\ Len(fights) \in Nat /\ Len(standing) = Len(fights) + 1
  BY DEF FightTypes, AllSeen
<1>1. ASSUME Alone(p, k), Outlived(p, k) PROVE FALSE
  <2>1. PICK j \in 1..k : Enemies(p) \cap standing[j] = {}
    BY <1>1 DEF Outlived
  <2>2. standing[k] \subseteq standing[j]
    BY <1>0, NobodyReturns
  <2> QED
    BY <1>1, <2>1, <2>2 DEF Alone
<1>2. Outlived(p, k) => Outlived(p, k + 1)
  BY DEF Outlived
<1>3. ASSUME k > 1, Alone(p, k), p \in standing[k + 1], Enemies(p) \cap standing[k + 1] = {}
      PROVE  Outlived(p, k + 1)
  <2>1. PICK i \in 1..k : Begins(p, i)
    BY <1>3, AloneHasBegun
  <2>2. i \in 1..(k + 1) /\ k + 1 \in 1..(k + 1) /\ i < k + 1
    OBVIOUS
  <2> QED
    BY <1>3, <2>1, <2>2 DEF Outlived
<1>4. ASSUME Outlived(p, k + 1), ~Outlived(p, k)
      PROVE  /\ k > 1 /\ Alone(p, k)
             /\ p \in standing[k + 1] /\ Enemies(p) \cap standing[k + 1] = {}
  <2>1. PICK i \in 1..(k + 1), j \in 1..(k + 1) :
          i < j /\ Begins(p, i) /\ p \in standing[j] /\ Enemies(p) \cap standing[j] = {}
    BY <1>4 DEF Outlived
  <2>2. j = k + 1
    <3> SUFFICES ASSUME j # k + 1 PROVE FALSE
      OBVIOUS
    <3>1. i \in 1..k /\ j \in 1..k
      BY <2>1
    <3> QED
      BY <1>4, <2>1, <3>1 DEF Outlived
  <2>3. i \in 1..k /\ i > 1 /\ Alone(p, i)
    BY <2>1, <2>2 DEF Begins
  <2>4. standing[k + 1] \subseteq standing[k] /\ standing[k] \subseteq standing[i]
    BY <1>0, <2>3, NobodyReturns
  <2>5. Enemies(p) \cap standing[k] # {}
    <3> SUFFICES ASSUME Enemies(p) \cap standing[k] = {} PROVE FALSE
      OBVIOUS
    <3>1. i # k
      BY <2>3 DEF Alone
    <3>2. i < k /\ k \in 1..k /\ p \in standing[k]
      BY <2>1, <2>2, <2>3, <2>4, <3>1
    <3> QED
      BY <1>4, <2>1, <2>3, <3>2 DEF Outlived
  <2>6. Alone(p, k)
    BY <2>1, <2>2, <2>3, <2>4, <2>5 DEF Alone
  <2> QED
    BY <2>1, <2>2, <2>3, <2>6
<1> QED
  BY <1>1, <1>2, <1>3, <1>4

LEMMA EnemiesLeft ==
  ASSUME FightTypes, NEW p \in Entered, Cardinality(Enemies(p)) <= 5, NEW k \in DOMAIN standing
  PROVE  LET n == Cardinality(standing[k] \cap Enemies(p))
         IN n \in 0..5 /\ (n = 0 <=> standing[k] \cap Enemies(p) = {})
<1> DEFINE left == standing[k] \cap Enemies(p)
<1>1. Enemies(p) \in SUBSET Entered /\ left \in SUBSET Enemies(p)
  BY DEF Enemies
<1> HIDE DEF left
<1>2. IsFiniteSet(Enemies(p)) /\ Cardinality(Enemies(p)) \in Nat
  BY <1>1, EnteredAssumption, FS_Subset, FS_CardinalityType
<1>3. IsFiniteSet(left) /\ Cardinality(left) <= Cardinality(Enemies(p))
  BY <1>1, <1>2, FS_Subset
<1>4. Cardinality(left) \in Nat /\ (Cardinality(left) = 0 <=> left = {})
  BY <1>3, FS_CardinalityType, FS_EmptySet
<1>5. Cardinality(left) \in 0..5
  BY <1>2, <1>3, <1>4
<1> QED
  BY <1>4, <1>5 DEF left

\* One more death is counted as it should be.
LEMMA StepDescribed ==
  ASSUME FightTypes, AllSeen, NEW p \in Entered, Cardinality(Enemies(p)) <= 5,
         NEW k \in 1..Len(fights), NEW c, Describes(p, c, k)
  PROVE  Describes(p, ClutchStep(p, c, fights[k]), k + 1)
<1> DEFINE alive == c.alive \ {fights[k].victim}
           n == Cardinality(alive \cap Enemies(p))
           next == ClutchStep(p, c, fights[k])
<1>0. Len(standing) \in Nat /\ Len(fights) \in Nat /\ k + 1 \in 1..Len(standing)
      /\ DOMAIN standing = 1..Len(standing) /\ k \in Nat
  BY DEF FightTypes, AllSeen
<1>1. alive = standing[k + 1] /\ alive \in SUBSET Entered
  BY <1>0 DEF AllSeen, Describes, FightTypes
<1>2. fights[k].killer # fights[k].victim
  BY DEF AllSeen
<1>3. n \in 0..5 /\ (n = 0 <=> alive \cap Enemies(p) = {})
  BY <1>0, <1>1, EnemiesLeft
<1>4. \A m \in 1..5 : /\ Cardinality(Attempts(p, m, k)) \in Nat
                      /\ Cardinality(Attempts(p, m, k + 1)) = IF BeginsAgainst(p, k + 1, m)
                           THEN Cardinality(Attempts(p, m, k)) + 1 ELSE Cardinality(Attempts(p, m, k))
  BY <1>0, OneMoreAttempt
<1>5. Alone(p, k + 1) <=> p \in alive /\ alive \cap Mates(p) = {} /\ n \in 1..5
  BY <1>1, <1>3 DEF Alone
<1>6. Begins(p, k + 1) <=> Alone(p, k + 1) /\ c.against = 0
  <2>1. c.against # 0 <=> k > 1 /\ Alone(p, k)
    BY DEF Describes
  <2>2. k + 1 > 1 /\ (k + 1 > 2 <=> k > 1) /\ (k + 1) - 1 = k
    BY <1>0
  <2> QED
    BY <2>1, <2>2 DEF Begins
<1>7. \A m \in 1..5 : BeginsAgainst(p, k + 1, m) <=> Begins(p, k + 1) /\ n = m
  <2>1. alive \cap Enemies(p) = Enemies(p) \cap standing[k + 1]
    BY <1>1
  <2> QED
    BY <2>1 DEF BeginsAgainst
<1>8. /\ c \in Accounts
      /\ \A m \in 1..5 : c.attempts[m] = Cardinality(Attempts(p, m, k))
      /\ (\E m \in 1..5 : c.wins[m] = 1) <=> Outlived(p, k)
  BY DEF Describes
<1>9. /\ c.alive \in SUBSET Entered /\ c.against \in 0..5
      /\ c.attempts \in [1..5 -> Nat] /\ c.wins \in [1..5 -> {0, 1}]
      /\ c = [alive |-> c.alive, against |-> c.against, attempts |-> c.attempts, wins |-> c.wins]
  BY <1>8 DEF Accounts
<1>10. next = CASE p \notin alive -> [c EXCEPT !.alive = alive, !.against = 0]
              [] p \in alive /\ alive \cap Mates(p) = {} /\ n \in 1..5 ->
                   [c EXCEPT !.alive = alive, !.against = n,
                             !.attempts = IF c.against = 0 THEN Count(@, n) ELSE @]
              [] OTHER -> [c EXCEPT !.alive = alive, !.against = 0,
                             !.wins = IF c.against # 0 /\ n = 0 THEN Count(@, c.against) ELSE @]
  BY <1>2 DEF ClutchStep
<1> HIDE DEF alive, n, next
<1>11. CASE Alone(p, k + 1)
  <2>1. next = [alive |-> alive, against |-> n, wins |-> c.wins,
                attempts |-> IF c.against = 0 THEN Count(c.attempts, n) ELSE c.attempts]
    BY <1>5, <1>9, <1>10, <1>11
  <2>2. n \in 1..5 /\ Count(c.attempts, n) \in [1..5 -> Nat]
    <3>1. n \in 1..5 /\ c.attempts \in [1..5 -> Nat]
      BY <1>5, <1>9, <1>11
    <3> DEFINE tally == c.attempts
    <3>2. tally[n] + 1 \in Nat
      BY <3>1
    <3> HIDE DEF tally
    <3>3. [tally EXCEPT ![n] = @ + 1] \in [1..5 -> Nat]
      BY <3>1, <3>2 DEF tally
    <3> QED
      BY <3>1, <3>3 DEF Count, tally
  <2>3. next \in Accounts
    BY <1>1, <1>9, <2>1, <2>2 DEF Accounts
  <2>4. \A m \in 1..5 : next.attempts[m] = Cardinality(Attempts(p, m, k + 1))
    BY <1>4, <1>6, <1>7, <1>8, <1>9, <1>11, <2>1, <2>2 DEF Count
  <2>5. Outlived(p, k + 1) <=> Outlived(p, k)
    BY <1>11, OutlivedByOneMore DEF Alone
  <2>6. next.alive = standing[k + 1] /\ next.against # 0 /\ next.wins = c.wins /\ k + 1 > 1
    BY <1>0, <1>1, <2>1, <2>2
  <2> QED
    BY <1>8, <1>11, <2>3, <2>4, <2>5, <2>6 DEF Describes, next
<1>12. CASE ~Alone(p, k + 1)
  <2>0. \A m \in 1..5 : c.attempts[m] = Cardinality(Attempts(p, m, k + 1))
    BY <1>4, <1>6, <1>7, <1>8, <1>12
  <2>1. CASE p \in alive /\ c.against # 0 /\ n = 0
    <3>1. next = [alive |-> alive, against |-> 0, attempts |-> c.attempts,
                  wins |-> Count(c.wins, c.against)]
      <4>1. n \notin 1..5
        BY <2>1
      <4> QED
        BY <1>9, <1>10, <2>1, <4>1
    <3>2. k > 1 /\ Alone(p, k)
      BY <2>1 DEF Describes
    <3>3. ~Outlived(p, k) /\ Outlived(p, k + 1)
      BY <1>1, <1>3, <2>1, <3>2, OutlivedByOneMore
    <3>4. c.against \in 1..5 /\ \A m \in 1..5 : c.wins[m] = 0
      BY <1>8, <1>9, <2>1, <3>3
    <3>5. /\ Count(c.wins, c.against) \in [1..5 -> {0, 1}]
          /\ Count(c.wins, c.against)[c.against] = 1
      BY <1>9, <3>4 DEF Count
    <3>6. next \in Accounts /\ next.alive = standing[k + 1] /\ next.against = 0
          /\ next.attempts = c.attempts /\ \E m \in 1..5 : next.wins[m] = 1
      BY <1>1, <1>9, <3>1, <3>4, <3>5 DEF Accounts
    <3> QED
      BY <1>12, <2>0, <3>3, <3>6 DEF Describes, next
  <2>2. CASE ~(p \in alive /\ c.against # 0 /\ n = 0)
    <3>1. next = [alive |-> alive, against |-> 0, attempts |-> c.attempts, wins |-> c.wins]
      <4>1. ~(p \in alive /\ alive \cap Mates(p) = {} /\ n \in 1..5)
        BY <1>5, <1>12
      <4> QED
        BY <1>9, <1>10, <2>2, <4>1
    <3>2. Outlived(p, k + 1) <=> Outlived(p, k)
      <4>1. c.against # 0 <=> k > 1 /\ Alone(p, k)
        BY DEF Describes
      <4>2. ~(/\ k > 1 /\ Alone(p, k)
              /\ p \in standing[k + 1] /\ Enemies(p) \cap standing[k + 1] = {})
        BY <1>1, <1>3, <2>2, <4>1
      <4> QED
        BY <4>2, OutlivedByOneMore
    <3>3. next \in Accounts /\ next.alive = standing[k + 1] /\ next.against = 0
          /\ next.attempts = c.attempts /\ next.wins = c.wins
      BY <1>1, <1>9, <3>1 DEF Accounts
    <3> QED
      BY <1>8, <1>12, <2>0, <3>2, <3>3 DEF Describes, next
  <2> QED
    BY <2>1, <2>2
<1> QED
  BY <1>11, <1>12

LEMMA ClutchDescribed ==
  ASSUME FightTypes, AllSeen, NEW p \in Entered, Cardinality(Enemies(p)) <= 5
  PROVE  Describes(p, Clutch(p), Len(standing))
<1> DEFINE n == Len(fights)
<1>1. n \in Nat /\ Len(standing) = n + 1 /\ fights \in Seq(Fight)
  BY DEF FightTypes, AllSeen
<1>2. PICK f : /\ f[0] = NoClutch
               /\ \A k \in 1..n : f[k] = ClutchStep(p, f[k - 1], fights[k])
               /\ f[n] = Clutch(p)
  BY <1>1, ClutchByStep
<1> DEFINE D == {k \in Nat : k <= n => Describes(p, f[k], k + 1)}
<1>3. 0 \in D
  BY <1>2, StartDescribed
<1>4. ASSUME NEW k \in Nat, k \in D PROVE k + 1 \in D
  <2> SUFFICES ASSUME k + 1 <= n PROVE Describes(p, f[k + 1], (k + 1) + 1)
    OBVIOUS
  <2>1. k + 1 \in 1..n /\ (k + 1) - 1 = k /\ Describes(p, f[k], k + 1)
    BY <1>1, <1>4
  <2>2. f[k + 1] = ClutchStep(p, f[k], fights[k + 1])
    BY <1>2, <2>1
  <2> QED
    BY <2>1, <2>2, StepDescribed
<1> HIDE DEF D, n
<1>5. n \in D
  BY <1>1, <1>3, <1>4, NatFromZero
<1> QED
  BY <1>1, <1>2, <1>5 DEF D

\* The code counts clutches against one to five, the teams it is made for.
FiveEnemies == \A p \in Entered : Cardinality(Enemies(p)) <= 5

LEMMA RowsTrue ==
  ASSUME FiveEnemies, FightTypes, StandsInv, MetricsRoundEnd
  PROVE  ClutchesTrue'
<1> SUFFICES ASSUME Seen'
             PROVE  \A p \in Entered :
        /\ \A n \in 1..5 : rows'[p].attempts[n] = Cardinality(Clutches(p, n)')
        /\ (\E n \in 1..5 : rows'[p].wins[n] = 1) <=>
             \E i, j \in DOMAIN standing' : /\ i < j /\ Begins(p, i)' /\ p \in standing'[j]
                                            /\ Enemies(p) \cap standing'[j] = {}
  BY DEF ClutchesTrue, Enemies
<1>1. standing' = standing /\ fights' = fights
  BY DEF MetricsRoundEnd
<1>2. Seen
  BY <1>1 DEF Seen, roundDeaths
<1>3. AllSeen /\ DOMAIN standing = 1..Len(standing)
  BY <1>2, SeenMeansAllSeen DEF FightTypes
<1> TAKE p \in Entered
<1>4. Describes(p, Clutch(p), Len(standing))
  BY <1>3, ClutchDescribed DEF FiveEnemies
<1>5. rows'[p].attempts = Clutch(p).attempts /\ rows'[p].wins = Clutch(p).wins
  BY DEF MetricsRoundEnd
<1>6. \A i : Begins(p, i)' <=> Begins(p, i)
  BY <1>1 DEF Begins, Alone, Mates, Enemies
<1>7. \A n \in 1..5 : Clutches(p, n)' = Attempts(p, n, Len(standing))
  BY <1>1, <1>3, <1>6 DEF Clutches, Attempts, BeginsAgainst, Enemies
<1> QED
  BY <1>1, <1>3, <1>4, <1>5, <1>6, <1>7 DEF Describes, Outlived

LEMMA StandsStep ==
  ASSUME FightTypes, StandsInv, NEW v \in Entered, Dies(v),
         \/ fights' = fights
         \/ \E g \in Fight : fights' = Append(fights, g) /\ g.victim = v
  PROVE  StandsInv'
<1>1. /\ fights \in Seq(Fight) /\ standing \in Seq(SUBSET Entered) /\ standing # <<>>
      /\ Len(fights) \in Nat /\ Len(standing) \in Nat
  BY DEF FightTypes
<1>2. standing' = Append(standing, Last(standing) \ {v}) /\ Last(standing) = standing[Len(standing)]
  BY DEF Dies, Last
<1> DEFINE left == Last(standing) \ {v}
<1>3. left \in SUBSET Entered
  BY <1>1, <1>2
<1> HIDE DEF left
<1>4. /\ Len(standing') = Len(standing) + 1 /\ standing'[Len(standing) + 1] = left
      /\ \A i \in 1..Len(standing) : standing'[i] = standing[i]
  BY <1>1, <1>2, <1>3 DEF left
<1>5. CASE fights' = fights
  BY <1>1, <1>4, <1>5 DEF StandsInv
<1>6. ASSUME NEW g \in Fight, fights' = Append(fights, g), g.victim = v
      PROVE  StandsInv'
  <2>1. /\ Len(fights') = Len(fights) + 1 /\ fights'[Len(fights) + 1] = g
        /\ \A i \in 1..Len(fights) : fights'[i] = fights[i]
    BY <1>1, <1>6
  <2>2. Len(fights') < Len(standing')
    BY <1>1, <1>4, <2>1 DEF StandsInv
  <2>3. ASSUME Len(standing') = Len(fights') + 1, NEW k \in 1..Len(fights')
        PROVE  standing'[k + 1] = standing'[k] \ {fights'[k].victim}
    <3>1. Len(standing) = Len(fights) + 1
      BY <1>1, <1>4, <2>1, <2>3
    <3>2. CASE k = Len(fights) + 1
      BY <1>1, <1>2, <1>4, <1>6, <2>1, <3>1, <3>2 DEF left
    <3>3. CASE k # Len(fights) + 1
      <4>1. k \in 1..Len(fights) /\ k \in 1..Len(standing) /\ k + 1 \in 1..Len(standing)
        BY <1>1, <2>1, <3>1, <3>3
      <4> QED
        BY <1>4, <2>1, <3>1, <4>1 DEF StandsInv
    <3> QED
      BY <3>2, <3>3
  <2> QED
    BY <2>2, <2>3 DEF StandsInv
<1> QED
  BY <1>5, <1>6

\* However the kills of a round follow each other, whoever kills himself and
\* whatever the teams, as long as nobody has more than five enemies: where the
\* parser has seen every death, a row counts a clutch against n exactly if its
\* player was left alone with n enemies, and a clutch won exactly if he outlived
\* them.
THEOREM ClutchesTold ==
  ASSUME FiveEnemies
  PROVE  MetricsSpec => []ClutchesTrue
<1> DEFINE IInv == FightTypes /\ FallenInv /\ StandsInv /\ ClutchesTrue
<1>1. MetricsInit => IInv
  <2> SUFFICES ASSUME MetricsInit PROVE IInv
    OBVIOUS
  <2>1. FightTypes /\ FallenInv
    BY FightsStart
  <2>2. Len(fights) = 0 /\ Len(standing) = 1 /\ rows = <<>>
    BY DEF MetricsInit
  <2> QED
    BY <2>1, <2>2 DEF StandsInv, ClutchesTrue
<1>2. IInv /\ [MetricsNext]_metricVars => IInv'
  <2> SUFFICES ASSUME IInv, [MetricsNext]_metricVars PROVE IInv'
    OBVIOUS
  <2>1. ASSUME NEW k \in Entered, NEW v \in Entered, MetricsPlayerKilled(k, v)
        PROVE  IInv'
    <3>1. Dies(v) /\ rows' = <<>>
      BY <2>1, OneDies DEF MetricsPlayerKilled
    <3>2. /\ FightTypes' /\ FallenInv'
          /\ \E g \in Fight : fights' = Append(fights, g) /\ g.victim = v
      BY <2>1, FightStep
    <3>3. StandsInv'
      BY <3>1, <3>2, StandsStep
    <3> QED
      BY <3>1, <3>2, <3>3 DEF ClutchesTrue
  <2>2. ASSUME NEW v \in Entered, DiesUnseen(v) PROVE IInv'
    <3>1. /\ standing' \in Seq(SUBSET Entered) /\ standing' # <<>>
          /\ Last(standing') = Last(standing) \ {v}
          /\ rows' = <<>> /\ fights' = fights /\ Dies(v)
      BY <2>2, OneDies DEF DiesUnseen
    <3>2. StandsInv'
      BY <3>1, StandsStep
    <3> QED
      BY <3>1, <3>2 DEF FightTypes, FallenInv, ClutchesTrue
  <2>3. CASE MetricsRoundEnd
    <3>1. UNCHANGED <<standing, fights>>
      BY <2>3 DEF MetricsRoundEnd
    <3>2. FightTypes' /\ FallenInv' /\ StandsInv'
      BY <3>1 DEF FightTypes, FallenInv, StandsInv
    <3> QED
      BY <2>3, <3>2, RowsTrue
  <2>4. CASE UNCHANGED metricVars
    <3>1. standing' = standing /\ fights' = fights /\ rows' = rows
      BY <2>4 DEF metricVars
    <3>2. FightTypes' /\ FallenInv' /\ StandsInv' /\ (Seen' <=> Seen)
      BY <3>1 DEF FightTypes, FallenInv, StandsInv, Seen, roundDeaths
    <3>3. \A p, i : Begins(p, i)' <=> Begins(p, i)
      BY <3>1 DEF Begins, Alone, Mates, Enemies
    <3>4. \A p, n : Clutches(p, n)' = Clutches(p, n)
      BY <3>1, <3>3 DEF Clutches, Enemies
    <3> QED
      BY <3>1, <3>2, <3>3, <3>4 DEF ClutchesTrue, Enemies
  <2> QED
    BY <2>1, <2>2, <2>3, <2>4 DEF MetricsNext
<1> QED
  BY <1>1, <1>2, PTL DEF MetricsSpec

\* What an account says whatever has been seen, of teams of any size.
Tallies == [1..5 -> Nat]
Tried(c) ==
  /\ c = [alive |-> c.alive, against |-> c.against, attempts |-> c.attempts, wins |-> c.wins]
  /\ c.against \in 0..5 /\ c.attempts \in Tallies /\ c.wins \in Tallies
  /\ Total(c.wins) + (IF c.against # 0 THEN 1 ELSE 0) <= Total(c.attempts)

LEMMA TotalType ==
  ASSUME NEW t \in Tallies
  PROVE  Total(t) \in Nat
BY DEF Total, Tallies

LEMMA CountedMore ==
  ASSUME NEW t \in Tallies, NEW n \in 1..5
  PROVE  /\ Count(t, n) \in Tallies
         /\ Total(t) \in Nat /\ Total(Count(t, n)) = Total(t) + 1
<1>1. Count(t, n) = [m \in 1..5 |-> IF m = n THEN t[m] + 1 ELSE t[m]]
  BY DEF Count, Tallies
<1>2. \A m \in 1..5 : t[m] \in Nat
  BY DEF Tallies
<1>3. Count(t, n) \in Tallies
  BY <1>1, <1>2 DEF Tallies
<1>4. n = 1 \/ n = 2 \/ n = 3 \/ n = 4 \/ n = 5
  OBVIOUS
<1>5. t[1] \in Nat /\ t[2] \in Nat /\ t[3] \in Nat /\ t[4] \in Nat /\ t[5] \in Nat
  BY <1>2
<1> QED
  BY <1>1, <1>3, <1>4, <1>5 DEF Total

LEMMA StepTried ==
  ASSUME NEW p, NEW c, NEW d, Tried(c)
  PROVE  Tried(ClutchStep(p, c, d))
<1> DEFINE alive == c.alive \ {d.victim}
           n == Cardinality(alive \cap Enemies(p))
<1> HIDE DEF n
<1>1. CASE d.killer = d.victim
  BY <1>1 DEF ClutchStep
<1>2. CASE d.killer # d.victim /\ p \notin alive
  <2>1. ClutchStep(p, c, d) = [c EXCEPT !.alive = alive, !.against = 0]
    BY <1>2 DEF ClutchStep
  <2>2. ClutchStep(p, c, d) = [alive |-> alive, against |-> 0,
                               attempts |-> c.attempts, wins |-> c.wins]
    BY <2>1 DEF Tried
  <2>3. Total(c.wins) \in Nat /\ Total(c.attempts) \in Nat
    BY TotalType DEF Tried
  <2>4. Total(c.wins) + 0 <= Total(c.attempts)
    BY <2>3 DEF Tried
  <2> QED
    BY <2>2, <2>4 DEF Tried
<1>3. CASE d.killer # d.victim /\ p \in alive /\ alive \cap Mates(p) = {} /\ n \in 1..5
  <2>1. ClutchStep(p, c, d) = [c EXCEPT !.alive = alive, !.against = n,
                                 !.attempts = IF c.against = 0 THEN Count(@, n) ELSE @]
    BY <1>3 DEF ClutchStep, n
  <2> DEFINE more == IF c.against = 0 THEN Count(c.attempts, n) ELSE c.attempts
  <2>2. ClutchStep(p, c, d) = [alive |-> alive, against |-> n, attempts |-> more, wins |-> c.wins]
    BY <2>1 DEF Tried
  <2>3. more \in Tallies /\ Total(c.wins) + 1 <= Total(more)
    <3>1. Total(c.wins) \in Nat /\ Total(c.attempts) \in Nat
      BY TotalType DEF Tried
    <3>2. /\ Count(c.attempts, n) \in Tallies
          /\ Total(Count(c.attempts, n)) = Total(c.attempts) + 1
      BY <1>3, CountedMore DEF Tried
    <3> QED
      BY <3>1, <3>2 DEF Tried
  <2> HIDE DEF more
  <2>4. n # 0
    BY <1>3
  <2> QED
    BY <1>3, <2>2, <2>3, <2>4 DEF Tried
<1>4. CASE /\ d.killer # d.victim /\ p \in alive
           /\ ~(alive \cap Mates(p) = {} /\ n \in 1..5)
  <2>1. ClutchStep(p, c, d) = [c EXCEPT !.alive = alive, !.against = 0,
                                 !.wins = IF c.against # 0 /\ n = 0 THEN Count(@, c.against) ELSE @]
    BY <1>4 DEF ClutchStep, n
  <2> DEFINE more == IF c.against # 0 /\ n = 0 THEN Count(c.wins, c.against) ELSE c.wins
  <2>2. ClutchStep(p, c, d) = [alive |-> alive, against |-> 0,
                               attempts |-> c.attempts, wins |-> more]
    BY <2>1 DEF Tried
  <2>3. more \in Tallies /\ Total(more) + 0 <= Total(c.attempts)
    <3>1. Total(c.wins) \in Nat /\ Total(c.attempts) \in Nat
      BY TotalType DEF Tried
    <3>2. c.wins \in Tallies /\ (c.against # 0 => c.against \in 1..5)
      BY DEF Tried
    <3>3. c.against # 0 => /\ Count(c.wins, c.against) \in Tallies
                           /\ Total(Count(c.wins, c.against)) = Total(c.wins) + 1
      BY <3>2, CountedMore
    <3> QED
      BY <3>1, <3>2, <3>3 DEF Tried
  <2> HIDE DEF more
  <2> QED
    BY <2>2, <2>3 DEF Tried
<1> QED
  BY <1>1, <1>2, <1>3, <1>4

LEMMA ClutchTried ==
  ASSUME FightTypes, NEW p
  PROVE  Tried(Clutch(p))
<1> DEFINE n == Len(fights)
<1>1. n \in Nat /\ fights \in Seq(Fight)
  BY DEF FightTypes
<1>2. PICK f : /\ f[0] = NoClutch
               /\ \A k \in 1..n : f[k] = ClutchStep(p, f[k - 1], fights[k])
               /\ f[n] = Clutch(p)
  BY <1>1, ClutchByStep
<1> DEFINE D == {k \in Nat : k <= n => Tried(f[k])}
<1>3. 0 \in D
  <2>1. Tried(NoClutch)
    BY DEF Tried, NoClutch, None, Tallies, Total
  <2> QED
    BY <1>2, <2>1
<1>4. ASSUME NEW k \in Nat, k \in D PROVE k + 1 \in D
  <2> SUFFICES ASSUME k + 1 <= n PROVE Tried(f[k + 1])
    OBVIOUS
  <2>1. k + 1 \in 1..n /\ (k + 1) - 1 = k /\ Tried(f[k])
    BY <1>1, <1>4
  <2> QED
    BY <1>2, <2>1, StepTried
<1> HIDE DEF D, n
<1>5. n \in D
  BY <1>1, <1>3, <1>4, NatFromZero
<1> QED
  BY <1>1, <1>2, <1>5 DEF D

\* Whatever the parser has not seen and however many play: over all numbers of
\* enemies a round counts no more clutches won than attempted.
THEOREM WinsCounted == MetricsSpec => []WinsWithinAttempts
<1> DEFINE IInv == FightTypes /\ FallenInv /\ WinsWithinAttempts
<1>1. MetricsInit => IInv
  BY FightsStart DEF MetricsInit, WinsWithinAttempts
<1>2. IInv /\ [MetricsNext]_metricVars => IInv'
  <2> SUFFICES ASSUME IInv, [MetricsNext]_metricVars PROVE IInv'
    OBVIOUS
  <2>1. ASSUME NEW k \in Entered, NEW v \in Entered, MetricsPlayerKilled(k, v)
        PROVE  IInv'
    <3>1. rows' = <<>>
      BY <2>1, OneDies DEF MetricsPlayerKilled
    <3> QED
      BY <2>1, <3>1, FightStep DEF WinsWithinAttempts
  <2>2. ASSUME NEW v \in Entered, DiesUnseen(v) PROVE IInv'
    <3>1. /\ standing' \in Seq(SUBSET Entered) /\ standing' # <<>>
          /\ Last(standing') = Last(standing) \ {v}
          /\ rows' = <<>> /\ fights' = fights
      BY <2>2, OneDies DEF DiesUnseen
    <3> QED
      BY <3>1 DEF FightTypes, FallenInv, WinsWithinAttempts
  <2>3. CASE MetricsRoundEnd
    <3>1. UNCHANGED <<standing, fights>>
      BY <2>3 DEF MetricsRoundEnd
    <3>2. \A p \in Entered : /\ rows'[p].attempts = Clutch(p).attempts
                             /\ rows'[p].wins = Clutch(p).wins
      BY <2>3 DEF MetricsRoundEnd
    <3>3. ASSUME NEW p \in Entered
          PROVE  Total(Clutch(p).wins) <= Total(Clutch(p).attempts)
      <4>1. Tried(Clutch(p))
        BY ClutchTried
      <4>2. Total(Clutch(p).wins) \in Nat /\ Total(Clutch(p).attempts) \in Nat
        BY <4>1, TotalType DEF Tried
      <4> QED
        BY <4>1, <4>2 DEF Tried
    <3> QED
      BY <3>1, <3>2, <3>3 DEF FightTypes, FallenInv, WinsWithinAttempts, Total
  <2>4. CASE UNCHANGED metricVars
    BY <2>4 DEF metricVars, FightTypes, FallenInv, WinsWithinAttempts
  <2> QED
    BY <2>1, <2>2, <2>3, <2>4 DEF MetricsNext
<1> QED
  BY <1>1, <1>2, PTL DEF MetricsSpec
=============================================================================
