------------------------------- MODULE MatchList -------------------------------
(***************************************************************************)
(* The page with a user's matches: it asks for them every two seconds,     *)
(* whether the last request was answered or not, while a match is parsed;  *)
(* with filters, pages, and the sheet where a demo is uploaded.            *)
(***************************************************************************)
EXTENDS Fetching, Sequences

CONSTANTS Demos  \* the files that may be chosen; those not valid are too large or no demos

VARIABLES choice,  \* the page and the filters chosen
          sheet,   \* the sheet: open, file, uploading, error, success
          timers,  \* close timers of uploads done
          job      \* the server's: how far the parsed match is
matchListExtras == <<choice, sheet, timers, job>>
matchListVars == <<fetchVars, matchListExtras>>

Jobs == <<"processing", "completed">>
NoFilter == {}
\* The pages of all matches, and of those of a filter.
LastPageOf(filters) == IF filters = NoFilter THEN 2 ELSE 1

\* The parameters of a request; seen: how far the match was then.
PollParams(q) == [page |-> q.page, filters |-> q.filters]
PollKey(q) == [of |-> PollParams(q), seen |-> job]
ClosedSheet == [open |-> FALSE, file |-> Nothing, uploading |-> FALSE, error |-> FALSE, success |-> FALSE]
FirstChoice == [page |-> 1, filters |-> NoFilter]

MatchListInit ==
    /\ page = "matches"
    /\ choice = FirstChoice /\ sheet = ClosedSheet /\ timers = 0 /\ job = 1
    /\ view = [list |-> Blank]
    /\ calls = {[slot |-> "list", key |-> PollKey(FirstChoice), n |-> 1]}
    /\ asked = 1 /\ sent = [list |-> 1] /\ landed = [list |-> 0]

ListShown == IF view["list"].error THEN "error"
             ELSE IF view["list"].loading THEN "skeleton"
             ELSE IF view["list"].data.rows = 0 THEN "nothing" ELSE "table"

-----------------------------------------------------------------------------
(* The list.                                                               *)

\* A wrong Poll: the interval keeps the choice it was started with first.
PollOfFirst == LET key(s) == PollKey(FirstChoice) IN
    /\ page = "matches"
    /\ calls' = calls \cup Requests({"list"}, key, asked)
    /\ UNCHANGED <<page, view, asked, sent, landed, matchListExtras>>
\* The interval: the same request once more.
Poll == LET key(s) == PollKey(choice) IN
    /\ page = "matches"
    /\ calls' = calls \cup Requests({"list"}, key, asked)
    /\ UNCHANGED <<page, view, asked, sent, landed, matchListExtras>>

\* Another page or filter starts an interval of its own, with a request at
\* once; the list stays until it is answered.
ChooseMatches(q) == LET key(s) == PollKey(q) IN
    /\ choice' = q
    /\ IF q = choice THEN UNCHANGED <<calls, asked, sent>> ELSE Ask({"list"}, key)
    /\ UNCHANGED <<page, view, landed>>

TurnPage(n) == /\ page = "matches" /\ MayAsk /\ ListShown = "table"
               /\ n \in 1..view["list"].data.lastPage
               /\ ChooseMatches([choice EXCEPT !.page = n])
               /\ UNCHANGED <<sheet, timers, job>>
\* also the Clear button
FilterMatches(f) == /\ page = "matches" /\ MayAsk /\ f # choice.filters
                    /\ ChooseMatches([page |-> 1, filters |-> f])
                    /\ UNCHANGED <<sheet, timers, job>>

\* An answer, of any time since its request.
ListGot(c) == \E j \in c.key.seen..job :
    /\ Land(c)
    /\ view' = [view EXCEPT !["list"] =
                  [loading |-> FALSE, error |-> FALSE,
                   data |-> [of |-> c.key.of, job |-> j,
                             lastPage |-> LastPageOf(c.key.of.filters),
                             rows |-> IF c.key.of.page <= LastPageOf(c.key.of.filters) THEN 1 ELSE 0]]]
    /\ UNCHANGED matchListExtras
ListFailed(c) == /\ LandUnseen(c) /\ view' = [view EXCEPT !["list"] = Failed(@)]
                 /\ UNCHANGED matchListExtras

\* The parser goes on.
ParseGoesOn == /\ page = "matches" /\ job < Len(Jobs) /\ job' = job + 1
               /\ UNCHANGED <<fetchVars, choice, sheet, timers>>

-----------------------------------------------------------------------------
(* The sheet for uploads.                                                  *)

SheetOnly == UNCHANGED <<fetchVars, choice, job>>

HandleOpenChange(open) ==
    /\ page = "matches" /\ open # sheet.open
    /\ sheet' = IF open THEN [sheet EXCEPT !.open = TRUE]
                ELSE [sheet EXCEPT !.open = FALSE, !.file = Nothing, !.error = FALSE, !.success = FALSE]
    /\ SheetOnly /\ UNCHANGED timers

\* A demo of at most 1 GB.
HandleFileChange(file) ==
    /\ page = "matches" /\ sheet.open /\ ~sheet.uploading
    /\ sheet' = IF file.valid THEN [sheet EXCEPT !.file = file, !.error = FALSE]
                ELSE [sheet EXCEPT !.file = Nothing, !.error = TRUE]
    /\ SheetOnly /\ UNCHANGED timers

HandleUpload ==
    /\ page = "matches" /\ MayAsk
    /\ sheet.open /\ sheet.file # Nothing /\ ~sheet.uploading
    /\ sheet' = [sheet EXCEPT !.uploading = TRUE, !.error = FALSE, !.success = FALSE]
    /\ asked' = asked + 1 /\ sent' = sent
    /\ calls' = calls \cup {[slot |-> "upload", key |-> [file |-> sheet.file], n |-> asked + 1]}
    /\ UNCHANGED <<page, view, landed, choice, timers, job>>
\* An answer that is no success says nothing.
UploadGot(c) == \E success \in BOOLEAN :
    /\ LandUnseen(c)
    /\ sheet' = IF success THEN [sheet EXCEPT !.uploading = FALSE, !.success = TRUE, !.file = Nothing]
                ELSE [sheet EXCEPT !.uploading = FALSE]
    /\ timers' = IF success THEN timers + 1 ELSE timers
    /\ UNCHANGED <<view, choice, job>>
UploadFailed(c) == /\ LandUnseen(c)
                   /\ sheet' = [sheet EXCEPT !.uploading = FALSE, !.error = TRUE]
                   /\ UNCHANGED <<view, choice, timers, job>>

\* Two seconds after an upload the sheet is closed and the first page chosen.
CloseAfterUpload ==
    /\ page = "matches" /\ timers > 0 /\ timers' = timers - 1
    /\ sheet' = [sheet EXCEPT !.open = FALSE, !.success = FALSE]
    /\ ChooseMatches([choice EXCEPT !.page = 1])
    /\ UNCHANGED job
-----------------------------------------------------------------------------
MatchListAnswered(c) == CASE c.slot = "list" -> ListGot(c) [] c.slot = "upload" -> UploadGot(c)
MatchListRequestFailed(c) == CASE c.slot = "list" -> ListFailed(c) [] c.slot = "upload" -> UploadFailed(c)

MatchListNext ==
    \/ Poll
    \/ \E n \in 1..2 : TurnPage(n)
    \/ \E f \in {NoFilter, {"map"}} : FilterMatches(f)
    \/ ParseGoesOn
    \/ \E open \in BOOLEAN : HandleOpenChange(open)
    \/ \E file \in Demos : HandleFileChange(file)
    \/ HandleUpload
    \/ CloseAfterUpload
    \/ page = "matches" /\ \E c \in calls : MatchListAnswered(c)
    \/ page = "matches" /\ \E c \in calls : MatchListRequestFailed(c)

\* The interval runs on, the parser ends, timers fire; of the requests the page
\* repeats some are answered, and not before they were made.
FreshAnswer == \E c \in calls : /\ c.slot = "list" /\ c.key = PollKey(choice) /\ ListGot(c)
MatchListFairness == /\ WF_matchListVars(Poll) /\ WF_matchListVars(ParseGoesOn)
                     /\ WF_matchListVars(CloseAfterUpload) /\ SF_matchListVars(FreshAnswer)
MatchListSpec == MatchListInit /\ [][MatchListNext]_matchListVars /\ MatchListFairness
-----------------------------------------------------------------------------
(* What must be true of the list.                                          *)

UpToDate == /\ page = "matches" /\ view["list"].data # Nothing
            /\ view["list"].data.of = PollParams(choice) /\ view["list"].data.job = job

\* However requests overtake each other and fail, the list is once and for all
\* that of the page and the filters chosen, with the match as it is, if the API
\* answers now and then.
ListCatchesUp == page = "matches" => <>[]UpToDate

\* An error goes when a later request is answered.
ListComesBack == page = "matches" => []<>(ListShown \in {"table", "nothing"})

\* One upload at a time, also of a sheet closed and opened again; the button is
\* disabled only while it is under way, and "uploaded successfully" stands for
\* the last upload.
OneUploadAtATime == /\ Cardinality(Pending("upload")) = (IF sheet.uploading THEN 1 ELSE 0)
                    /\ ~(sheet.success /\ sheet.uploading)

\* "No matches found" is said of a page of these filters only when they have
\* none.  A page turned before the answer to a filter is one they do not have.
NoMatchesFoundTrue ==
    UpToDate /\ ListShown = "nothing" => LastPageOf(choice.filters) = 0

\* What a match is said to be never goes back.
ProgressGoesOn == [][page = "matches" /\ view["list"].data # Nothing /\ view'["list"].data # Nothing
                       => view'["list"].data.job >= view["list"].data.job]_matchListVars

\* "Close modal after a short delay" (upload-demo-modal.tsx:88): the timer closes
\* the sheet of its upload, not one opened again with another file.
TimerClosesItsSheet == [][timers' < timers => sheet.file = Nothing]_matchListVars
=============================================================================
