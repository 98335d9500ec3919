------------------------------ MODULE MCVisitor ------------------------------
(* Instances of the parts of the front end that wait, for TLC: signing in and *)
(* out, the settings of the account, the list of matches, or the card of a    *)
(* player.  Each is run by itself, with the others at rest.                   *)
EXTENDS Session, AccountSettings, MatchList, PlayerCard

MCDemos == {[name |-> "a", valid |-> TRUE], [name |-> "b", valid |-> FALSE]}

NoSession ==
    /\ auth = SignedOut(Nothing) /\ stored = Nothing /\ client = Nothing
    /\ route = Place("login") /\ form = FreshForm /\ behind = FALSE /\ wanted = "matches"
    /\ server = [valid |-> {}, issued |-> 0, sharecode |-> FALSE]
NoSettings ==
    /\ account = [version |-> 0, linked |-> {}, setup |-> FALSE, enabled |-> FALSE]
    /\ user = account /\ waiting = FALSE /\ panel = FirstForm
    /\ fields = FieldsOf(account) /\ hook = FirstHook
NoList == choice = FirstChoice /\ sheet = ClosedSheet /\ timers = 0 /\ job = 1
NoCard == /\ pointer = "away" /\ card = Nothing /\ showing = Nothing /\ pressed = FALSE
          /\ hides = [known |-> FALSE, forgotten |-> 0]

VisitorInit ==
    \/ SessionInit /\ NoSettings /\ NoList /\ NoCard
    \/ SettingsInit /\ NoSession /\ NoList /\ NoCard
    \/ MatchListInit /\ NoSession /\ NoSettings /\ NoCard
    \/ CardInit /\ NoSession /\ NoSettings /\ NoList

VisitorNext ==
    \/ /\ page = "session" /\ SessionNext
       /\ UNCHANGED <<settingsExtras, matchListExtras, cardExtras>>
    \/ /\ page = "settings" /\ SettingsNext
       /\ UNCHANGED <<sessionExtras, matchListExtras, cardExtras>>
    \/ /\ page = "matches" /\ MatchListNext
       /\ UNCHANGED <<sessionExtras, settingsExtras, cardExtras>>
    \/ /\ page = "scoreboard" /\ CardNext
       /\ UNCHANGED <<sessionExtras, settingsExtras, matchListExtras>>

visitorVars == <<fetchVars, sessionExtras, settingsExtras, matchListExtras, cardExtras>>
VisitorSpec == /\ VisitorInit /\ [][VisitorNext]_visitorVars
               /\ SessionFairness /\ SettingsFairness /\ MatchListFairness /\ CardFairness
=============================================================================
