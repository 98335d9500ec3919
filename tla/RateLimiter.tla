---------------------------- MODULE RateLimiter ----------------------------
(***************************************************************************)
(* RateLimiterService::checkRateLimit and waitForRateLimit: the counters in *)
(* Redis before calls to the Steam API and to the demo URL service.  GET,   *)
(* INCR and EXPIRE are three commands, and a queue worker may run between   *)
(* any two, or be killed there (queue:work --timeout).                      *)
(***************************************************************************)
EXTENDS Integers, FiniteSets

CONSTANTS
  Workers,      \* processes that call the limited service
  MaxRequests,  \* requests per window
  MaxKills      \* bound on workers killed and restarted

ASSUME RequestsAssumption == MaxRequests \in Nat \ {0}
ASSUME WorkersAssumption == IsFiniteSet(Workers)
ASSUME KillsAssumption == MaxKills \in Nat

VARIABLES
  count,        \* the counter, 0 when the key is absent
  expiring,     \* the key has a time to live
  at,           \* at[w]: "idle", "check", "wait", "incr" or "expire"
  kills

vars == <<count, expiring, at, kills>>

Places == {"idle", "check", "wait", "incr", "expire"}
Goto(w, place) == at' = [at EXCEPT ![w] = place]

-----------------------------------------------------------------------------
checkSteamApiLimit(w) ==
  /\ at[w] = "idle"
  /\ Goto(w, "check")
  /\ UNCHANGED <<count, expiring, kills>>

\* A wrong comparison: at the limit one more is let through.
getAt(w) ==
  /\ at[w] \in {"check", "wait"}
  /\ Goto(w, IF count > MaxRequests THEN "wait" ELSE "incr")
  /\ UNCHANGED <<count, expiring, kills>>

\* Redis::get and the comparison; waitForRateLimit asks again a second later.
get(w) ==
  /\ at[w] \in {"check", "wait"}
  /\ Goto(w, IF count >= MaxRequests THEN "wait" ELSE "incr")
  /\ UNCHANGED <<count, expiring, kills>>

\* A key that was absent is made without a time to live.
incr(w) ==
  /\ at[w] = "incr"
  /\ count' = count + 1
  /\ Goto(w, "expire")
  /\ UNCHANGED <<expiring, kills>>

\* A wrong expire: only for the first request of a window.
expireFirst(w) ==
  /\ at[w] = "expire"
  /\ expiring' = (expiring \/ count = 1)
  /\ Goto(w, "idle")
  /\ UNCHANGED <<count, kills>>

\* EXPIRE of a key that has expired meanwhile does nothing.
expire(w) ==
  /\ at[w] = "expire"
  /\ expiring' = (count > 0)
  /\ Goto(w, "idle")
  /\ UNCHANGED <<count, kills>>

\* The time to live is over; every EXPIRE starts it anew.
Expires ==
  /\ expiring
  /\ count' = 0
  /\ expiring' = FALSE
  /\ UNCHANGED <<at, kills>>

Kill(w) ==
  /\ at[w] # "idle" /\ kills < MaxKills
  /\ kills' = kills + 1
  /\ Goto(w, "idle")
  /\ UNCHANGED <<count, expiring>>

-----------------------------------------------------------------------------
Init ==
  /\ count = 0
  /\ expiring = FALSE
  /\ at = [w \in Workers |-> "idle"]
  /\ kills = 0

Step(w) == get(w) \/ incr(w) \/ expire(w)
Next == Expires \/ \E w \in Workers : checkSteamApiLimit(w) \/ Step(w) \/ Kill(w)
Spec == Init /\ [][Next]_vars

-----------------------------------------------------------------------------
TypeOK ==
  /\ count \in 0..(MaxRequests + Cardinality(Workers) - 1)
  /\ expiring \in BOOLEAN
  /\ at \in [Workers -> Places]
  /\ kills \in 0..MaxKills

\* Workers that have been let through and have not counted themselves yet.
Admitted == {w \in Workers : at[w] = "incr"}

\* The commands interleave, but a window admits at most one request more per
\* worker that was between GET and INCR when the limit was reached.
OvershootBounded ==
  count + Cardinality(Admitted) <= MaxRequests + Cardinality(Workers) - 1

\* A counter at its limit has a time to live, or a worker about to set one, so
\* that the window everybody waits for opens again: unless as many workers as
\* the limit are killed between their INCR and their EXPIRE.
FullWindowExpires ==
  count >= MaxRequests => expiring \/ \E w \in Workers : at[w] = "expire"
=============================================================================
