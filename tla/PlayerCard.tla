------------------------------- MODULE PlayerCard -------------------------------
(***************************************************************************)
(* The card shown of the player whose name the pointer rests on: shown     *)
(* 300 ms after the pointer came, hidden 150 ms after it left, unless it   *)
(* went on to the card itself.                                             *)
(***************************************************************************)
EXTENDS Fetching

CONSTANTS Shown  \* the players on the page

VARIABLES pointer,  \* the player or the card it is on, or "away"
          card,     \* the player the card is of: steamId, Nothing while it is not visible
          showing,  \* the player of the show timer
          hides,    \* hide timers: the one the provider knows, and those it forgot
          pressed   \* whether Escape or the mouse outside the card was ever pressed
cardExtras == <<pointer, card, showing, hides, pressed>>
cardVars == <<fetchVars, cardExtras>>

CardInit == /\ page = "scoreboard" /\ view = [card |-> Idle]
            /\ calls = {} /\ asked = 0 /\ sent = [card |-> 0] /\ landed = [card |-> 0]
            /\ pointer = "away" /\ card = Nothing /\ showing = Nothing /\ pressed = FALSE
            /\ hides = [known |-> FALSE, forgotten |-> 0]
OnScoreboard == page = "scoreboard"

\* The pointer comes to the name of p.
ShowPlayerCard(p) ==
    /\ OnScoreboard /\ MayAsk /\ pointer = "away" /\ pointer' = p
    /\ hides' = [hides EXCEPT !.known = FALSE]
    /\ showing' = IF card = p THEN showing ELSE p
    /\ UNCHANGED <<card, pressed, fetchVars>>
\* or to the card.
CancelHide == /\ OnScoreboard /\ pointer = "away" /\ card # Nothing /\ pointer' = "card"
              /\ hides' = [hides EXCEPT !.known = FALSE]
              /\ UNCHANGED <<card, showing, pressed, fetchVars>>
\* A wrong hidePlayerCard: it only stops the card from being shown.
HideNever == showing' = Nothing /\ hides' = hides
\* hidePlayerCard: a timer more; a timer that was known is forgotten.
Hide == /\ showing' = Nothing
        /\ hides' = [known |-> TRUE, forgotten |-> hides.forgotten + (IF hides.known THEN 1 ELSE 0)]
HidePlayerCard == /\ OnScoreboard /\ pointer # "away" /\ pointer' = "away" /\ Hide
                  /\ UNCHANGED <<card, pressed, fetchVars>>
\* bound: one timer forgotten
Press == /\ OnScoreboard /\ card # Nothing /\ hides.forgotten = 0
         /\ Hide /\ pressed' = TRUE /\ UNCHANGED <<pointer, card, fetchVars>>

\* The show timer, after every hide timer: they are shorter, and a later one
\* stops it.
ShowTimer == LET key(s) == showing IN
    /\ OnScoreboard /\ showing # Nothing /\ ~hides.known /\ hides.forgotten = 0
    /\ card' = showing /\ showing' = Nothing
    /\ view' = [view EXCEPT !["card"] = Starting(@)] /\ Ask({"card"}, key)
    /\ UNCHANGED <<pointer, hides, pressed, page, landed>>
\* A hide timer; the provider knows of none after it.
HideTimer == \E known \in BOOLEAN :
    /\ OnScoreboard /\ IF known THEN hides.known ELSE hides.forgotten > 0
    /\ hides' = [known |-> FALSE,
                 forgotten |-> IF known THEN hides.forgotten
                               ELSE hides.forgotten - 1 + (IF hides.known THEN 1 ELSE 0)]
    /\ card' = Nothing /\ pointer' = IF pointer = "card" THEN "away" ELSE pointer
    /\ view' = IF card = Nothing THEN view
               ELSE [view EXCEPT !["card"].data = Nothing, !["card"].error = FALSE]
    /\ UNCHANGED <<showing, pressed, calls, asked, sent, page, landed>>

\* Answers are shown of whomever they are, on a card that is hidden too.
CardGot(c) == /\ Land(c) /\ view' = [view EXCEPT !["card"] = Got(@, c.key)] /\ UNCHANGED cardExtras
CardFailed(c) == /\ Land(c) /\ view' = [view EXCEPT !["card"] = Failed(@)] /\ UNCHANGED cardExtras
CardAnswers == OnScoreboard /\ \E c \in calls : CardGot(c) \/ CardFailed(c)

\* What the card says.
CardShown == CASE card = Nothing -> "nothing"
               [] view["card"].loading -> "skeleton"
               [] view["card"].error -> "error"
               [] OTHER -> view["card"].data

CardNext == \/ \E p \in Shown : ShowPlayerCard(p)
            \/ CancelHide
            \/ HidePlayerCard
            \/ Press
            \/ ShowTimer
            \/ HideTimer
            \/ CardAnswers
CardFairness == WF_cardVars(ShowTimer) /\ WF_cardVars(HideTimer) /\ WF_cardVars(CardAnswers)
CardSpec == CardInit /\ [][CardNext]_cardVars /\ CardFairness
-----------------------------------------------------------------------------
(* What must be true of the card.                                          *)

\* When the last request was answered last, the card is of the player it was asked
\* of, or says that it failed.
CardOfPlayer == OnScoreboard /\ card # Nothing /\ Settled("card") => CardShown \in {card, "error"}

\* A pointer that comes to rest on a name has the card of that player in the
\* end, and one that rests elsewhere has none: no timer of an earlier rest shows
\* or hides it, unless something was pressed.
FollowsPointer == CASE pointer = "away" -> card = Nothing
                    [] pointer = "card" -> TRUE
                    [] OTHER -> pressed \/ card = pointer
CardFollowsPointer == <>[][pointer' = pointer]_cardVars => <>[]FollowsPointer
=============================================================================
