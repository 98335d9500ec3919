------------------------------- MODULE ClanPages -------------------------------
(***************************************************************************)
(* The pages of the clans: the list with the creation of a clan, and of a  *)
(* clan its overview (invite link, members, transfer, deletion), matches   *)
(* and leaderboards.  A tab of a clan is a page of its own here.           *)
(***************************************************************************)
EXTENDS Fetching

CONSTANTS Members,    \* the members of the clan
          User,       \* the one who looks
          LastPage,   \* bound: pages of matches
          Boards      \* the types of leaderboards

ASSUME ClanPagesAssumption == LastPage \in Nat

VARIABLES pick,    \* what is chosen on the page
          dialog,  \* the dialog open, and what is chosen or typed in it
          busy,    \* the dialogs whose request is under way
          link,    \* the server's: the number of the invite link it has now
          owner    \* the server's: the owner of the clan
clanPageExtras == <<pick, dialog, busy, link, owner>>
clanPageVars == <<fetchVars, clanPageExtras>>

ClanPageNames == {"clans", "overview", "clan_matches", "leaderboards"}
ClanSlots(p) == CASE p = "clans"        -> {"clan_list", "create"}
                  [] p = "overview"     -> {"clan", "winrate", "members", "invite", "transfer", "delete"}
                  [] p = "clan_matches" -> {"filter_members", "clan_rows"}
                  [] p = "leaderboards" -> {"board", "top_three"}
AskingSlots(p) == CASE p = "clans"        -> {"clan_list"}
                    [] p = "overview"     -> {"clan"}
                    [] p = "clan_matches" -> {"filter_members", "clan_rows"}
                    [] p = "leaderboards" -> {"board", "top_three"}

NoFilters == {}
NoDates == [unit |-> "none", first |-> 0, last |-> 0]
FirstPick == [page |-> 1, filters |-> NoFilters, members |-> {},
              board |-> CHOOSE b \in Boards : TRUE, period |-> "week", custom |-> FALSE,
              dates |-> NoDates]
NoDialog == [kind |-> "none", to |-> Nothing]

-----------------------------------------------------------------------------
(* What the slots ask for.                                                 *)

MatchesParams(q) == [page |-> q.page, filters |-> q.filters, members |-> q.members]
BoardParams(q) == [board |-> q.board, period |-> IF q.custom THEN "custom" ELSE q.period,
                   dates |-> IF q.custom THEN q.dates ELSE NoDates]
\* one period after the other; with a type the API answers a list
TopThreeParams(q, period) == [board |-> q.board, period |-> period]
ClanKey(s, q) == CASE s = "clan_rows" -> MatchesParams(q)
                   [] s = "board"     -> BoardParams(q)
                   [] s = "top_three" -> TopThreeParams(q, "week")
                   [] OTHER           -> [of |-> s]

OpenClanPage(p) == LET key(s) == ClanKey(s, FirstPick) IN
    /\ Mounted(p, ClanSlots(p), AskingSlots(p), key)
    /\ pick' = FirstPick /\ dialog' = NoDialog /\ busy' = {}

ClanPagesInit ==
    /\ page \in ClanPageNames
    /\ pick = FirstPick /\ dialog = NoDialog /\ busy = {} /\ link = 0 /\ owner \in Members
    /\ view = [s \in ClanSlots(page) |-> IF s \in AskingSlots(page) THEN Blank ELSE Idle]
    /\ calls = {[slot |-> s, key |-> ClanKey(s, pick), n |-> 1] : s \in AskingSlots(page)}
    /\ asked = 1
    /\ sent = [s \in ClanSlots(page) |-> IF s \in AskingSlots(page) THEN 1 ELSE 0]
    /\ landed = [s \in ClanSlots(page) |-> 0]

\* A request of slot s while the others stay as they are.
AskOne(s, k) == LET key(t) == k IN
    Ask({s}, key) /\ UNCHANGED <<page, landed>>

-----------------------------------------------------------------------------
(* The list of clans and the creation of one.                              *)

ClanListShown == IF view["clan_list"].loading THEN "skeleton"
                 ELSE IF view["clan_list"].error THEN "error" ELSE "content"

ClanListGot(c) == Land(c) /\ view' = [view EXCEPT !["clan_list"] = Got(@, [key |-> c.key])]
                          /\ UNCHANGED clanPageExtras
ClanListFailed(c) == Land(c) /\ view' = [view EXCEPT !["clan_list"] = Failed(@)]
                             /\ UNCHANGED clanPageExtras
TryAgain == /\ page = "clans" /\ MayAsk /\ ClanListShown = "error"
            /\ AskOne("clan_list", ClanKey("clan_list", pick))
            /\ view' = [view EXCEPT !["clan_list"] = Starting(@)]
            /\ UNCHANGED clanPageExtras

CreateOpenChange(open) ==
    /\ page = "clans" /\ ClanListShown = "content" /\ open # (dialog.kind = "create")
    /\ dialog' = IF open THEN [NoDialog EXCEPT !.kind = "create"] ELSE NoDialog
    /\ UNCHANGED <<fetchVars, pick, busy, link, owner>>

\* What the form checks before it asks: a name, and a tag of at most four
\* characters, of letters and digits only.
Creatable(name, tag) == /\ name.length > 0 /\ name.alphanumeric
                        /\ tag.length \in 1..4 /\ tag.alphanumeric

\* The submit button is disabled while a creation is under way.
SubmitClan(name, tag) ==
    /\ page = "clans" /\ MayAsk /\ dialog.kind = "create" /\ "create" \notin busy
    /\ Creatable(name, tag)
    /\ busy' = busy \cup {"create"}
    /\ AskOne("create", [of |-> "create"])
    /\ UNCHANGED <<view, pick, dialog, link, owner>>

\* The new clan's page is opened.
ClanCreated(c) == OpenClanPage("overview") /\ UNCHANGED <<link, owner>>
CreateFailed(c) == /\ LandUnseen(c) /\ busy' = busy \ {"create"}
                   /\ UNCHANGED <<view, pick, dialog, link, owner>>
HandleClanClick == /\ page = "clans" /\ ClanListShown = "content"
                   /\ OpenClanPage("overview") /\ UNCHANGED <<link, owner>>

-----------------------------------------------------------------------------
(* The clan and its overview.                                              *)

ClanShown == IF view["clan"].loading THEN "skeleton"
             ELSE IF view["clan"].error THEN "error" ELSE "content"
WinrateShown == IF view["winrate"].loading THEN "loading" ELSE "gauge"
MembersShown == IF view["members"].loading THEN "skeleton"
                ELSE IF view["members"].error THEN "error" ELSE "content"

\* The overview is mounted: it asks for the matches and the members, and keeps
\* the invite link and the owner the clan had.
ClanGot(c) ==
    LET key(s) == ClanKey(s, pick) IN
    /\ LandThenAsk(c, {"winrate", "members"}, key)
    /\ view' = [view EXCEPT !["clan"] = Got(@, [key |-> c.key, owner |-> owner]),
                            !["winrate"] = Blank, !["members"] = Blank,
                            !["invite"] = Got(@, [key |-> c.key, link |-> link])]
    /\ UNCHANGED clanPageExtras
ClanFailed(c) == Land(c) /\ view' = [view EXCEPT !["clan"] = Failed(@)] /\ UNCHANGED clanPageExtras

\* Every parsed match has a winning team, which counts as a win.
WinrateOf(parsed) == IF parsed = 0 THEN 0 ELSE (parsed * 100) \div parsed
WinrateGot(c) == \E parsed \in {0, 3} :
    /\ Land(c)
    /\ view' = [view EXCEPT !["winrate"] = Got(@, [key |-> c.key, rate |-> WinrateOf(parsed)])]
    /\ UNCHANGED clanPageExtras
WinrateFailed(c) ==
    /\ Land(c) /\ view' = [view EXCEPT !["winrate"] = Got(@, [key |-> c.key, rate |-> 0])]
    /\ UNCHANGED clanPageExtras

MembersGot(c) ==
    /\ Land(c) /\ view' = [view EXCEPT !["members"] = Got(@, [key |-> c.key, owner |-> owner])]
    /\ busy' = busy \ {"transfer"} /\ UNCHANGED <<pick, dialog, link, owner>>
\* the first time the error is shown; after a transfer it is a toast
MembersFailed(c) ==
    /\ IF view["members"].loading
       THEN Land(c) /\ view' = [view EXCEPT !["members"] = Failed(@)]
       ELSE LandUnseen(c) /\ UNCHANGED view
    /\ busy' = busy \ {"transfer"} /\ UNCHANGED <<pick, dialog, link, owner>>

\* A new invite link: the server makes it, then the answer shows it.
HandleRegenerate ==
    /\ page = "overview" /\ MayAsk /\ ClanShown = "content"
    /\ AskOne("invite", [link |-> Nothing])
    /\ UNCHANGED <<view, clanPageExtras>>
InviteMade(c) ==
    /\ c.slot = "invite" /\ c.key.link = Nothing
    /\ link' = link + 1
    /\ calls' = (calls \ {c}) \cup {[c EXCEPT !.key.link = link']}
    /\ UNCHANGED <<page, view, asked, sent, landed, pick, dialog, busy, owner>>
InviteGot(c) ==
    /\ c.key.link # Nothing /\ Land(c)
    /\ view' = [view EXCEPT !["invite"].data = [@ EXCEPT !.link = c.key.link]]
    /\ UNCHANGED clanPageExtras
\* a toast; the server may have made the link or not
InviteFailed(c) == LandUnseen(c) /\ UNCHANGED <<view, clanPageExtras>>

IsOwner == view["clan"].data.owner = User  \* of the clan as it was loaded

\* The button of a member's row, there for the owner only.
Transferable(m) == /\ page = "overview" /\ ClanShown = "content" /\ MembersShown = "content"
                   /\ IsOwner /\ m # view["members"].data.owner
HandleTransferClick(m) ==
    /\ Transferable(m) /\ dialog.kind = "none"
    /\ dialog' = [kind |-> "transfer", to |-> m]
    /\ UNCHANGED <<fetchVars, pick, busy, link, owner>>
HandleTransferOwnership ==
    /\ page = "overview" /\ MayAsk /\ dialog.kind = "transfer" /\ "transfer" \notin busy
    /\ busy' = busy \cup {"transfer"}
    /\ AskOne("transfer", [to |-> dialog.to])
    /\ UNCHANGED <<view, pick, dialog, link, owner>>
\* The server lets the owner do it; then the members are asked for again.  A
\* dialog reopened for another member is closed, too.
OwnershipTransferred(c) == LET key(s) == ClanKey(s, pick) IN
    /\ owner = User /\ owner' = c.key.to
    /\ dialog' = IF dialog.kind = "transfer" THEN NoDialog ELSE dialog
    /\ LandThenAsk(c, {"members"}, key)
    /\ UNCHANGED <<view, pick, busy, link>>
\* refused, or only the answer lost
TransferFailed(c) ==
    /\ LandUnseen(c) /\ busy' = busy \ {"transfer"}
    /\ owner' \in {owner, IF owner = User THEN c.key.to ELSE owner}
    /\ UNCHANGED <<view, pick, dialog, link>>

\* The deletion asks for the name to be typed.
HandleDeleteClick ==
    /\ page = "overview" /\ ClanShown = "content" /\ IsOwner
    /\ dialog.kind = "none" /\ "delete" \notin busy
    /\ dialog' = [kind |-> "delete", to |-> "nothing typed"]
    /\ UNCHANGED <<fetchVars, pick, busy, link, owner>>
TypeConfirmation ==
    /\ dialog.kind = "delete" /\ "delete" \notin busy
    /\ \E text \in {"the name", "something else"} : dialog' = [dialog EXCEPT !.to = text]
    /\ UNCHANGED <<fetchVars, pick, busy, link, owner>>
HandleDeleteClan ==
    /\ page = "overview" /\ MayAsk /\ dialog = [kind |-> "delete", to |-> "the name"]
    /\ "delete" \notin busy
    /\ busy' = busy \cup {"delete"}
    /\ AskOne("delete", [of |-> "delete"])
    /\ UNCHANGED <<view, pick, dialog, link, owner>>
ClanDeleted(c) == owner = User /\ OpenClanPage("clans") /\ UNCHANGED <<link, owner>>
DeleteFailed(c) == /\ LandUnseen(c) /\ busy' = busy \ {"delete"}
                   /\ UNCHANGED <<view, pick, dialog, link, owner>>

CloseDialog == /\ dialog.kind \in {"transfer", "delete"} /\ dialog' = NoDialog
               /\ UNCHANGED <<fetchVars, pick, busy, link, owner>>

-----------------------------------------------------------------------------
(* The matches of the clan.                                                *)

ClanMatchesShown == IF view["clan_rows"].error THEN "error"
                    ELSE IF view["clan_rows"].loading THEN "skeleton"
                    ELSE IF view["clan_rows"].data = Nothing THEN "nothing"
                    ELSE IF view["clan_rows"].data.rows = 0 THEN "nothing" ELSE "table"

\* With another filter or other members the first page is asked for.
Choose(q) == LET key(s) == ClanKey(s, q) IN
    /\ page = "clan_matches" /\ MayAsk /\ q # pick
    /\ pick' = q
    /\ Ask({"clan_rows"}, key)
    /\ view' = [view EXCEPT !["clan_rows"] = Starting(@)]
    /\ UNCHANGED <<page, landed, dialog, busy, link, owner>>
HandlePageChange(n) == page = "clan_matches" /\ ClanMatchesShown = "table" /\ Choose([pick EXCEPT !.page = n])
HandleFiltersChange(f) == Choose([pick EXCEPT !.filters = f, !.page = 1])
HandleClearFilters == Choose([pick EXCEPT !.filters = NoFilters, !.members = {}, !.page = 1])
\* the select chooses one member or all, the list below it takes one away
SelectMembers(ms) ==
    /\ page = "clan_matches" /\ view["filter_members"].data # Nothing
    /\ ms = {} \/ Cardinality(ms) = 1
    /\ Choose([pick EXCEPT !.members = ms, !.page = 1])

ClanRowsGot(c) == \E rows \in {0, 1} :
    /\ Land(c) /\ view' = [view EXCEPT !["clan_rows"] =
                             [loading |-> FALSE, error |-> FALSE, data |-> [key |-> c.key, rows |-> rows]]]
    /\ UNCHANGED clanPageExtras
ClanRowsFailed(c) == Land(c) /\ view' = [view EXCEPT !["clan_rows"] = Failed(@)] /\ UNCHANGED clanPageExtras
FilterMembersGot(c) == Land(c) /\ view' = [view EXCEPT !["filter_members"] = Got(@, [key |-> c.key])]
                               /\ UNCHANGED clanPageExtras
FilterMembersFailed(c) == LandUnseen(c) /\ UNCHANGED <<view, clanPageExtras>>

-----------------------------------------------------------------------------
(* The leaderboards, and the all-time best beside them.                    *)

BoardShown == IF view["board"].error THEN "error"
              ELSE IF view["board"].loading THEN "skeleton" ELSE "content"
TopThreeShown == IF view["top_three"].loading THEN "skeleton"
                 ELSE IF view["top_three"].data = 0 THEN "nothing" ELSE "content"

\* The board asks when its parameters change, the top three when the type does.
ChooseBoard(q) ==
    LET S == {"board"} \cup (IF q.board = pick.board THEN {} ELSE {"top_three"})
        key(s) == ClanKey(s, q)
    IN /\ page = "leaderboards" /\ MayAsk /\ q # pick
       /\ pick' = q
       /\ Ask(S, key)
       /\ view' = [s \in DOMAIN view |-> IF s \in S THEN Starting(view[s]) ELSE view[s]]
       /\ UNCHANGED <<page, landed, dialog, busy, link, owner>>

SelectBoard(b) == ChooseBoard([pick EXCEPT !.board = b])
SelectPeriod(p) == ChooseBoard(IF p = "custom" THEN [pick EXCEPT !.custom = TRUE]
                               ELSE [pick EXCEPT !.custom = FALSE, !.period = p])
Dated(unit, period, first, last) ==
    [pick EXCEPT !.custom = TRUE, !.period = period,
                 !.dates = [unit |-> unit, first |-> first, last |-> last]]
\* The weeks and months are those beside the current one, whichever is shown.
HandlePreviousWeek == ChooseBoard(Dated("days", "week", -14, -7))
HandleNextWeek == ChooseBoard(Dated("days", "week", 7, 14))
\* A month back, then day 0, which is one month more; a day the month before
\* does not have (long) is one of this month, and of the next but one.
HandlePreviousMonth(long) == LET m == IF long THEN -1 ELSE -2 IN
    ChooseBoard(Dated("months", "month", m, m))
HandleNextMonth(long) == LET m == IF long THEN 2 ELSE 1 IN
    ChooseBoard(Dated("months", "month", m, m))
HandleResetPeriod == ChooseBoard([pick EXCEPT !.custom = FALSE, !.dates = NoDates])

BoardGot(c) == Land(c) /\ view' = [view EXCEPT !["board"] = Got(@, [key |-> c.key])]
                       /\ UNCHANGED clanPageExtras
BoardFailed(c) == /\ Land(c) /\ view' = [view EXCEPT !["board"] = Got(Failed(@), Nothing)]
                  /\ UNCHANGED clanPageExtras

\* What the top three take from an answer: the entries under the type, of
\* which a list has none.
EntriesOf(answer) == IF answer.form = "list" THEN 0 ELSE answer.entries
\* The week's answer or failure is followed by the request for the month.
TopThreeLanded(c, entries) ==
    IF c.key.period = "week"
    THEN LET key(s) == TopThreeParams([board |-> c.key.board], "month") IN
         LandThenAsk(c, {"top_three"}, key) /\ UNCHANGED <<view, clanPageExtras>>
    ELSE /\ Land(c)
         /\ view' = [view EXCEPT !["top_three"] = Got(@, entries)]
         /\ UNCHANGED clanPageExtras
TopThreeGot(c) == TopThreeLanded(c, EntriesOf([form |-> "list", entries |-> 3]))
TopThreeFailed(c) == TopThreeLanded(c, 0)

-----------------------------------------------------------------------------
ClanAnswered(c) ==
    CASE c.slot = "clan_list" -> ClanListGot(c)  [] c.slot = "create"  -> ClanCreated(c)
      [] c.slot = "clan"      -> ClanGot(c)      [] c.slot = "winrate" -> WinrateGot(c)
      [] c.slot = "members"   -> MembersGot(c)   [] c.slot = "invite"  -> InviteMade(c) \/ InviteGot(c)
      [] c.slot = "transfer"  -> OwnershipTransferred(c)
      [] c.slot = "delete"    -> ClanDeleted(c)
      [] c.slot = "filter_members" -> FilterMembersGot(c)
      [] c.slot = "clan_rows" -> ClanRowsGot(c)
      [] c.slot = "board"     -> BoardGot(c)     [] c.slot = "top_three" -> TopThreeGot(c)

ClanRequestFailed(c) ==
    CASE c.slot = "clan_list" -> ClanListFailed(c)  [] c.slot = "create"  -> CreateFailed(c)
      [] c.slot = "clan"      -> ClanFailed(c)      [] c.slot = "winrate" -> WinrateFailed(c)
      [] c.slot = "members"   -> MembersFailed(c)   [] c.slot = "invite"  -> InviteFailed(c)
      [] c.slot = "transfer"  -> TransferFailed(c)
      [] c.slot = "delete"    -> DeleteFailed(c)
      [] c.slot = "filter_members" -> FilterMembersFailed(c)
      [] c.slot = "clan_rows" -> ClanRowsFailed(c)
      [] c.slot = "board"     -> BoardFailed(c)     [] c.slot = "top_three" -> TopThreeFailed(c)

ClanPagesNext ==
    \/ TryAgain
    \/ \E open \in BOOLEAN : CreateOpenChange(open)
    \/ \E length \in {0, 4, 5}, alphanumeric \in BOOLEAN :
         SubmitClan([length |-> 4, alphanumeric |-> TRUE],
                    [length |-> length, alphanumeric |-> alphanumeric])
    \/ HandleClanClick
    \/ HandleRegenerate
    \/ \E m \in Members : HandleTransferClick(m)
    \/ HandleTransferOwnership
    \/ HandleDeleteClick \/ TypeConfirmation \/ HandleDeleteClan \/ CloseDialog
    \/ \E n \in 1..LastPage : HandlePageChange(n)
    \/ \E f \in {NoFilters, {"map"}} : HandleFiltersChange(f)
    \/ HandleClearFilters
    \/ \E ms \in SUBSET Members : SelectMembers(ms)
    \/ \E b \in Boards : SelectBoard(b)
    \/ \E p \in {"week", "month", "custom"} : SelectPeriod(p)
    \/ HandlePreviousWeek \/ HandleNextWeek
    \/ \E long \in BOOLEAN : HandlePreviousMonth(long) \/ HandleNextMonth(long)
    \/ HandleResetPeriod
    \/ page \in ClanPageNames /\ \E c \in calls : ClanAnswered(c)
    \/ page \in ClanPageNames /\ \E c \in calls : ClanRequestFailed(c)

ClanPagesSpec ==
    /\ ClanPagesInit /\ [][ClanPagesNext]_clanPageVars
    /\ WF_clanPageVars(\E c \in calls : ClanAnswered(c) \/ ClanRequestFailed(c))
-----------------------------------------------------------------------------
(* What must be true of the pages of the clans.                            *)

\* Once the last request is answered last, the matches and the leaderboard are
\* those of the page, filters, members, type and period chosen.
ClanPagesShowSelection ==
    /\ page = "clan_matches" /\ Settled("clan_rows") /\ ClanMatchesShown = "table" =>
           view["clan_rows"].data.key = MatchesParams(pick)
    /\ page = "leaderboards" /\ Settled("board") /\ BoardShown = "content" =>
           view["board"].data.key = BoardParams(pick)

\* A page says "loading", and a dialog keeps its button disabled, only while
\* its request is under way, whatever failed before.
ClanSkeletonsEnd ==
    /\ page = "clans" /\ ClanListShown = "skeleton" => Pending("clan_list") # {}
    /\ page = "overview" =>
           /\ ClanShown = "skeleton" => Pending("clan") # {}
           /\ ClanShown = "content" /\ WinrateShown = "loading" => Pending("winrate") # {}
           /\ ClanShown = "content" /\ MembersShown = "skeleton" => Pending("members") # {}
    /\ page = "clan_matches" /\ ClanMatchesShown = "skeleton" => calls # {}
    /\ page = "leaderboards" =>
           /\ BoardShown = "skeleton" => Pending("board") # {}
           /\ TopThreeShown = "skeleton" => Pending("top_three") # {}
    /\ \A b \in busy : Pending(b) # {} \/ (b = "transfer" /\ Pending("members") # {})

\* "You will become a regular member and will no longer have owner privileges"
\* (members-list.tsx:253).  The page offers them still, for it keeps the owner
\* the clan had when it was loaded.
OwnerActionsForOwner ==
    page = "overview" /\ calls = {} => \A m \in Members : Transferable(m) => owner = User

\* "Calculate previous month" (leaderboards-tab.tsx:143): it is the one before
\* the previous, unless the day is one the previous month does not have.
PreviousMonthIsPrevious ==
    page = "leaderboards" /\ pick.dates # NoDates =>
        (pick.dates.unit = "months" /\ pick.dates.first < 0 => pick.dates.first = -1)

\* The all-time best are shown once somebody is on a board; they never are, for
\* with a type the answer is a list (leaderboards-tab.tsx:85 knows it).
TopThreeShowsLeaders ==
    page = "leaderboards" /\ Settled("top_three") => TopThreeShown # "nothing"
=============================================================================
