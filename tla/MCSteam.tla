------------------------------ MODULE MCSteam ------------------------------
(* Instances of what stands between the web application and Steam, for TLC: *)
(* the demo URL service or the rate limiter.  They share no state, so each  *)
(* is run by itself, with the other at rest.                                *)
EXTENDS DemoUrlService, RateLimiter

CONSTANTS q1, q2, q3, c1, c2, w1, w2, w3

VARIABLE part

\* Two requests for one match (a retry of the web application) and one for
\* another.
MCCodeOf == [q \in Requests |-> IF q = q3 THEN c2 ELSE c1]

\* The service when its requests have been refused.
AtRest == /\ connected = FALSE /\ gcReady = FALSE /\ pending = None
          /\ status = [q \in Requests |-> "failed"] /\ given = [q \in Requests |-> {}]
          /\ delayed = {} /\ asked = {} /\ window = 0 /\ drops = 0

SteamInit == /\ Init
             /\ \/ part = "url" /\ UrlInit
                \/ part = "limiter" /\ AtRest

\* The service may rest; the workers of the limiter never do.
Rest == part = "url" /\ UNCHANGED <<part, urlVars, vars>>
SteamNext ==
    \/ part = "url" /\ UrlNext /\ UNCHANGED <<part, vars>>
    \/ part = "limiter" /\ Next /\ UNCHANGED <<part, urlVars>>
    \/ Rest

SteamSpec == SteamInit /\ [][SteamNext]_<<part, urlVars, vars>>
SteamFairSpec == SteamSpec /\ (part = "url" => UrlFairness)
=============================================================================
