-------------------------------- MODULE Tables --------------------------------
(***************************************************************************)
(* The tables a user sorts by clicking a column: the scoreboard on the     *)
(* details tab of a match page ("match"), the scoreboards unfolded in the  *)
(* list of matches ("list", sorted by the state of the surrounding table)  *)
(* and the map statistics ("maps").  A row is its place in what the API    *)
(* answered.                                                               *)
(***************************************************************************)
EXTENDS Integers, FiniteSets

CONSTANTS Rows,     \* how many rows the API answers
          Team,     \* Team[r]: the team of the player in row r
          Columns,  \* the columns that can be clicked
          Nullable, \* those of a scoreboard that may have no value: the rank
          Default,  \* the column a table is sorted by at first
          Values,   \* the values of a cell
          Null

ASSUME TableAssumption ==
    /\ Rows \in Nat /\ Default \in Columns /\ DOMAIN Team = 1..Rows
    /\ Values \subseteq Int /\ Null \notin Values

VARIABLES kind,    \* the table
          cell,    \* cell[r][c]: what the API answered
          sort,    \* its sort state; of "list", that of the surrounding table
          visible, \* the tab is open, or the row of the match unfolded
          order    \* order[i]: the row in place i of the list, as last sorted
tableVars == <<kind, cell, sort, visible, order>>

Unsorted == [col |-> Default, dir |-> "unset"]
DefaultSort == [col |-> Default, dir |-> "desc"]

\* A row of the API.  The map statistics have numbers only.
RowsOf(k) == {row \in [Columns -> Values \cup {Null}] :
                \A c \in Columns : row[c] = Null => c \in Nullable /\ k # "maps"}

\* The scoreboard falls back on its own initial sort when it is given none.
Effective(s) == IF s.dir = "unset" THEN DefaultSort ELSE s
ShownSort == Effective(sort)

-----------------------------------------------------------------------------
\* The comparator puts x first: it has no opinion, 0, if one is not a number,
\* nor when the map table has no direction.
Before(x, y, dir) ==
    /\ {x, y} \subseteq Values
    /\ (dir = "asc" /\ x < y) \/ (dir = "desc" /\ x > y)

Earlier(list, r, q) == \E i, j \in 1..Rows : i < j /\ list[i] = r /\ list[j] = q
Orders == {p \in [1..Rows -> 1..Rows] : \A i, j \in 1..Rows : p[i] = p[j] => i = j}

\* Array.prototype.sort.  The comparator is consistent unless two numbers that
\* differ both equal a null: then the sort is stable, and else any that leaves no
\* two neighbours in the wrong order.
Sorted(list, rows, s) ==
    LET First(r, q) == Before(rows[r][s.col], rows[q][s.col], s.dir)
        Consistent == \A r, q, t \in 1..Rows : ~First(r, q) /\ ~First(q, t) => ~First(r, t)
        Stable(p) == \A i, j \in 1..Rows : i < j =>
            ~First(p[j], p[i]) /\ (First(p[i], p[j]) \/ Earlier(list, p[i], p[j]))
        Settled(p) == \A i \in 1..Rows - 1 : ~First(p[i + 1], p[i])
    IN {p \in Orders : IF Consistent THEN Stable(p) ELSE Settled(p)}

\* The list a table sorts when it is shown: the scoreboard sorts the list it is
\* given in place, which is the page's own on a match page and a new copy of the
\* answer in the list of matches; the map table sorts a copy.
Answered == [i \in 1..Rows |-> i]
Listed == IF kind = "match" THEN order ELSE Answered
Render(list) == order' \in IF visible' THEN Sorted(list, cell', Effective(sort')) ELSE {list}

\* The two scoreboards split the sorted list by team.
Together(r, q) == kind # "maps" => Team[r] = Team[q]

\* The arrow at a column: only the sorted one has one.
SortIcon(c) == IF ShownSort.col = c /\ ShownSort.dir # "none" THEN ShownSort.dir ELSE "none"

-----------------------------------------------------------------------------
TablesInit == /\ kind \in {"match", "list", "maps"}
              /\ cell \in [1..Rows -> RowsOf(kind)]
              /\ sort = IF kind = "list" THEN Unsorted ELSE DefaultSort
              /\ visible = (kind # "list")
              /\ order \in IF visible THEN Sorted(Answered, cell, sort) ELSE {Answered}

\* The scoreboard of a match page.
FullHandleSort(c) ==
    /\ kind = "match" /\ visible
    /\ sort' = [col |-> c, dir |-> IF sort.col = c /\ sort.dir = "desc" THEN "asc" ELSE "desc"]
    /\ UNCHANGED <<kind, cell, visible>>
    /\ Render(Listed)

\* An unfolded scoreboard passes the click on to the table of matches.
MatchHandleSort(c) ==
    /\ kind = "list" /\ visible
    /\ sort' = [col |-> c,
                dir |-> IF sort.dir # "unset" /\ sort.col = c /\ sort.dir = "desc"
                        THEN "asc" ELSE "desc"]
    /\ UNCHANGED <<kind, cell, visible>>
    /\ Render(Listed)

\* The map table goes from descending to ascending to none, which is by matches.
MapsHandleSort(c) ==
    /\ kind = "maps"
    /\ sort' = IF sort.col # c THEN [col |-> c, dir |-> "desc"]
               ELSE CASE sort.dir = "desc" -> [col |-> c, dir |-> "asc"]
                      [] sort.dir = "asc"  -> [col |-> Default, dir |-> "none"]
                      [] OTHER             -> [col |-> c, dir |-> "desc"]
    /\ UNCHANGED <<kind, cell, visible>>
    /\ Render(Listed)

Click(c) == FullHandleSort(c) \/ MatchHandleSort(c) \/ MapsHandleSort(c)

\* The row is unfolded or folded; its sort state is kept.
ToggleRow == /\ kind = "list" /\ visible' = ~visible
             /\ UNCHANGED <<kind, cell, sort>>
             /\ Render(Listed)

\* Another tab of the match page, and back: a new scoreboard, of the list as it
\* was sorted.
handleTabChange == /\ kind = "match" /\ visible' = ~visible
                   /\ sort' = DefaultSort
                   /\ UNCHANGED <<kind, cell>>
                   /\ Render(Listed)

\* A wrong memo: without the data among what it depends on.
NewRowsUnsorted(r) ==
    /\ \E row \in RowsOf(kind) : cell' = [cell EXCEPT ![r] = row]
    /\ UNCHANGED <<kind, sort, visible, order>>

\* An answer of the API replaces the rows.  A match page shows its loading state
\* meanwhile, so its scoreboard is new; the sort state of the others stays.
NewRows(r) == /\ \E row \in RowsOf(kind) : cell' = [cell EXCEPT ![r] = row]
              /\ sort' = IF kind = "match" THEN DefaultSort ELSE sort
              /\ UNCHANGED <<kind, visible>>
              /\ Render(Answered)

TablesNext == \/ \E c \in Columns : FullHandleSort(c)
              \/ \E c \in Columns : MatchHandleSort(c)
              \/ \E c \in Columns : MapsHandleSort(c)
              \/ ToggleRow \/ handleTabChange
              \/ \E r \in 1..Rows : NewRows(r)
TablesSpec == TablesInit /\ [][TablesNext]_tableVars

-----------------------------------------------------------------------------
\* The arrow over a column in which every row has a value tells the order of the
\* rows under it, whatever was clicked, answered or folded before and however
\* often the list was sorted: what stands higher is not smaller under an arrow
\* down and not larger under one up (scoreboard.tsx, map-stats-tab.tsx).
Whole(c) == \A r \in 1..Rows : cell[r][c] # Null
ArrowTellsOrder ==
    visible => \A c \in {d \in Columns : Whole(d)} : \A i, j \in 1..Rows :
        i < j /\ Together(order[i], order[j]) =>
            /\ SortIcon(c) = "desc" => cell[order[i]][c] >= cell[order[j]][c]
            /\ SortIcon(c) = "asc"  => cell[order[i]][c] <= cell[order[j]][c]

-----------------------------------------------------------------------------
(* What the arrow suggests, or a comment says, and the code does not do.     *)

\* Of the rows that have a value, too: a rank may be missing, and then the rows
\* around it are not compared.
ArrowTellsRanks ==
    visible => \A c \in Columns : \A i, j \in 1..Rows :
        i < j /\ Together(order[i], order[j]) /\ SortIcon(c) \in {"asc", "desc"} =>
            ~Before(cell[order[j]][c], cell[order[i]][c], SortIcon(c))

\* Every click turns an arrow, as table.tsx:109 says of the same column; the
\* first one on K/D leaves it descending.
EveryClickTurnsArrow ==
    [][\A c \in Columns : Click(c) /\ SortIcon(c) = "desc" => SortIcon(c)' = "asc"]_tableVars

=============================================================================
