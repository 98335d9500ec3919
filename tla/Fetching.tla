------------------------------- MODULE Fetching -------------------------------
(***************************************************************************)
(* What the pages of the front end have in common: a component asks the    *)
(* API in an effect, keeps what it shows in useState, and sets it whenever *)
(* an answer comes.  No request is ever cancelled, so answers of older     *)
(* selections land too, in any order.  Each part of a page that asks for   *)
(* itself is a slot.  An unmounted component ignores its answers, so a     *)
(* page that is left is forgotten with its requests.                       *)
(***************************************************************************)
EXTENDS Integers, FiniteSets

CONSTANTS MaxAsked,  \* bound: rounds of requests after which users do no more
          Nothing    \* null

ASSUME FetchingAssumption == MaxAsked \in Nat

VARIABLES page,    \* the page mounted
          view,    \* view[s]: loading, error and data of slot s
          calls,   \* the requests without an answer
          asked,   \* the number of the last round of requests
          sent,    \* sent[s]: the number of the last request of slot s
          landed   \* landed[s]: the number of the one whose answer came last
fetchVars == <<page, view, calls, asked, sent, landed>>

\* useState of a component that asks when it is mounted
Blank == [loading |-> TRUE, error |-> FALSE, data |-> Nothing]
\* and of one that asks later
Idle == [loading |-> FALSE, error |-> FALSE, data |-> Nothing]

Pending(s) == {c \in calls : c.slot = s}

\* The three places of a fetch where a component sets its state.
Starting(v) == [v EXCEPT !.loading = TRUE, !.error = FALSE]
Got(v, data) == [v EXCEPT !.loading = FALSE, !.data = data]
Failed(v) == [v EXCEPT !.loading = FALSE, !.error = TRUE]

\* The requests slots S make, each for its key, numbered in their order.
Requests(S, key(_), n) == {[slot |-> s, key |-> key(s), n |-> n] : s \in S}
SentBy(S, n) == [s \in DOMAIN sent |-> IF s \in S THEN n ELSE sent[s]]
Ask(S, key(_)) == /\ asked' = asked + 1
                  /\ calls' = calls \cup Requests(S, key, asked + 1)
                  /\ sent' = SentBy(S, asked + 1)
NoAsk == UNCHANGED <<calls, asked, sent>>

\* What the user does that makes a page ask is bounded.
MayAsk == asked < MaxAsked

\* An answer comes in, or a failure the page shows.
Land(c) == /\ calls' = calls \ {c}
           /\ landed' = [landed EXCEPT ![c.slot] = c.n]
           /\ UNCHANGED <<page, asked, sent>>

\* A failure the page does not show, and keeps what it has.
LandUnseen(c) == /\ calls' = calls \ {c}
                 /\ UNCHANGED <<page, asked, sent, landed>>

\* An answer after which slots S ask.
LandThenAsk(c, S, key(_)) ==
    /\ calls' = (calls \ {c}) \cup Requests(S, key, asked + 1)
    /\ landed' = [landed EXCEPT ![c.slot] = c.n]
    /\ asked' = asked + 1 /\ sent' = SentBy(S, asked + 1)
    /\ UNCHANGED page

\* Page p of the given slots is mounted, those of S ask at once; what the page
\* shown before still waits for lands nowhere.
Mounted(p, slots, S, key(_)) ==
    /\ page' = p
    /\ view' = [s \in slots |-> IF s \in S THEN Blank ELSE Idle]
    /\ calls' = Requests(S, key, 1)
    /\ asked' = 1
    /\ sent' = [s \in slots |-> IF s \in S THEN 1 ELSE 0]
    /\ landed' = [s \in slots |-> 0]

\* Nothing is under way for s, and the answer to its last request came last.
Settled(s) == Pending(s) = {} /\ landed[s] = sent[s]
=============================================================================
