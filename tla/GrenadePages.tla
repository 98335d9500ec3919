------------------------------ MODULE GrenadePages ------------------------------
(***************************************************************************)
(* The grenades: the library of a user's favourites on a map, and the      *)
(* grenades of a match, where the user marks favourites.  Both are a       *)
(* provider of filters, options and grenades, with filters, map and list   *)
(* below it.  The list is mounted anew after each load, and forgets.       *)
(***************************************************************************)
EXTENDS Fetching

CONSTANTS Lineups,    \* the grenades of the one map that has any
          OtherMaps,  \* the maps without a grenade
          Kinds,      \* the types of grenades
          Throwers    \* players and sides that can be chosen

VARIABLES provider,  \* initialized, filters and options of the provider
          list,      \* what the list knows of the favourites, since it is mounted
          kept       \* the server's: the favourites of the user
grenadeExtras == <<provider, list, kept>>
grenadeVars == <<fetchVars, grenadeExtras>>

GrenadePageNames == {"library", "match_grenades"}
\* stars: one per grenade, so that each may be under way on its own
ProviderSlots == {"options", "init", "matches", "rounds", "grenades", "favourites", "checks", "star", "remove"}

TheMap == "a"  \* the map with grenades
AllMaps == {TheMap} \cup OtherMaps
NoMap == ""
Every == "all"

DefaultFilters(map) == [map |-> map, match |-> "", round |-> Every, who |-> Every, type |-> "fire"]
\* What a page's provider starts with: the match page knows its map.
FirstProvider(p) ==
    [initialized |-> FALSE,
     filters |-> DefaultFilters(IF p = "match_grenades" THEN TheMap ELSE NoMap),
     maps |-> FALSE, players |-> FALSE]
EmptyList == [since |-> 0, stars |-> {}, ids |-> {}, busy |-> {}]

-----------------------------------------------------------------------------
(* What the slots ask for.                                                 *)

\* The library needs a match, or all of them; a match page only the map.
HasValidFilters(p, f) == f.map # NoMap /\ (p = "library" => f.match # "")
GrenadeParams(f) == [map |-> f.map, match |-> f.match, round |-> f.round,
                     who |-> f.who, type |-> f.type]
\* seen: the favourites when it was asked
GrenadeKey(s, f) ==
    CASE s \in {"options", "init"} -> [step |-> "maps"]
      [] s \in {"matches", "rounds"} -> [map |-> f.map]
      [] s = "grenades" -> [of |-> GrenadeParams(f), seen |-> kept]
      [] s \in {"favourites", "checks"} -> [since |-> list.since, seen |-> kept]

\* The effects of a render: which slots ask again when the provider goes from
\* v to w (set: a handler has set the filters, perhaps to what they were).  The
\* library's initial filters are a new object in every render, so that
\* what depends on them is asked for again whatever has changed.
Rendered(v, w, set) ==
    (IF w.initialized /\ HasValidFilters(page, w.filters)
        /\ (~v.initialized \/ set) THEN {"grenades"} ELSE {})
    \cup (IF page = "match_grenades" /\ w.initialized /\ w.filters.map # NoMap
             /\ (~v.initialized \/ w.filters.map # v.filters.map) THEN {"rounds"} ELSE {})
    \cup (IF page = "library" /\ ~w.initialized THEN {"init"} ELSE {})
    \cup (IF page = "library" /\ w.initialized /\ w.filters.map # NoMap /\ w.filters.match = ""
          THEN {"matches"} ELSE {})

\* Only loads of grenades get a number of their own: a request repeated by a
\* render is the one before once more.
Numbered(S) == IF "grenades" \in S THEN asked + 1 ELSE asked

\* What a render asks for once more, if anything has changed.
AskedAgain(changed) ==
    LET key(s) == GrenadeKey(s, provider.filters) IN
    Requests(IF changed THEN Rendered(provider, provider, FALSE) ELSE {}, key, asked)

\* The provider becomes w with the grenades data, and its effects run; the list
\* is unmounted by a load.
Provided(w, set, data, cs) ==
    LET S == Rendered(provider, w, set)
        n == Numbered(S)
        key(s) == GrenadeKey(s, w.filters)
    IN /\ provider' = w
       /\ calls' = cs \cup Requests(S, key, n)
       /\ asked' = n /\ sent' = SentBy(S \cap {"grenades"}, n)
       /\ IF "grenades" \in S
          THEN /\ view' = [view EXCEPT !["grenades"] = [loading |-> TRUE, error |-> FALSE, data |-> data]]
               /\ list' = EmptyList
          ELSE view' = [view EXCEPT !["grenades"].data = data] /\ UNCHANGED list
       /\ UNCHANGED <<page, landed>>
Grenades == view["grenades"].data

OpenGrenades(p) == LET key(s) == GrenadeKey(s, FirstProvider(p).filters) IN
    /\ Mounted(p, ProviderSlots, {"options", "init"}, key)
    /\ provider' = FirstProvider(p) /\ list' = EmptyList

GrenadesInit ==
    /\ page \in GrenadePageNames
    /\ kept \in {{}, Lineups}
    /\ provider = FirstProvider(page) /\ list = EmptyList
    /\ view = [s \in ProviderSlots |-> Idle]
    /\ calls = {[slot |-> s, key |-> [step |-> "maps"], n |-> 1] : s \in {"options", "init"}}
    /\ asked = 1
    /\ sent = [s \in ProviderSlots |-> 0]
    /\ landed = [s \in ProviderSlots |-> 0]

-----------------------------------------------------------------------------
(* Options and defaults.                                                   *)

\* setFilterOptions(data), which forgets players loaded meanwhile.
OptionsGot(c) == /\ Provided([provider EXCEPT !.maps = TRUE, !.players = FALSE], FALSE, Grenades, calls \ {c})
                 /\ UNCHANGED kept

\* The matches of a map with grenades begin with "all".
FirstMatch(map) == IF map = TheMap /\ kept # {} THEN Every ELSE ""

\* initializeWithDefaults: in the library the first map, then its matches, and
\* then all filters, whatever the user has chosen meanwhile.
InitGot(c) ==
    IF page = "match_grenades"
    THEN Provided([provider EXCEPT !.initialized = TRUE], FALSE, Grenades, calls \ {c}) /\ UNCHANGED kept
    ELSE IF c.key.step = "maps"
    THEN /\ calls' = (calls \ {c}) \cup {[c EXCEPT !.key.step = "matches"]}
         /\ UNCHANGED <<page, view, asked, sent, landed, grenadeExtras>>
    ELSE \E map \in AllMaps :
           Provided([provider EXCEPT !.initialized = TRUE,
                                     !.filters = [DefaultFilters(map) EXCEPT !.match = FirstMatch(map)]],
                    TRUE, Grenades, calls \ {c})
           /\ UNCHANGED kept

\* The first match of the map asked for becomes the match of the filters.
MatchesGot(c) == LET match == FirstMatch(c.key.map) IN
    /\ Provided([provider EXCEPT !.players = FALSE,
                              !.filters = IF match = "" THEN @
                                          ELSE [@ EXCEPT !.match = match, !.round = Every, !.who = Every]],
             match # "", Grenades, calls \ {c})
    /\ UNCHANGED kept
\* is not shown, and renders nothing
MatchesFailed(c) == LandUnseen(c) /\ UNCHANGED <<view, grenadeExtras>>

\* Rounds and players of the match.
MatchOptionsGot(c) == /\ Provided([provider EXCEPT !.players = TRUE], FALSE, Grenades, calls \ {c})
                      /\ UNCHANGED kept

\* A failure is shown, and a render if no other was shown before.
OptionsFailed(c) ==
    /\ calls' = (calls \ {c}) \cup AskedAgain(~view["grenades"].error)
    /\ view' = [view EXCEPT !["grenades"].error = TRUE]
    /\ UNCHANGED <<page, asked, sent, landed, grenadeExtras>>

-----------------------------------------------------------------------------
(* Filters and grenades.                                                   *)

WithMap(f, map) == [f EXCEPT !.map = map, !.match = "", !.round = Every, !.who = Every]

\* setFilter, from the selects or the slider of rounds under the match's map.
SetFilter(f, data) ==
    /\ MayAsk /\ f # provider.filters
    /\ Provided([provider EXCEPT !.filters = f, !.initialized = TRUE], TRUE, data, calls)
    /\ UNCHANGED kept
SetMap(map) == /\ page = "library" /\ provider.maps
               /\ map # provider.filters.map
               /\ SetFilter(WithMap(provider.filters, map), Nothing)
SetType(type) == provider.maps /\ SetFilter([provider.filters EXCEPT !.type = type], Grenades)
\* a side, or a player once they are loaded
SetWho(who) == provider.maps /\ SetFilter([provider.filters EXCEPT !.who = who], Grenades)
HandleRoundChange(round) == page = "match_grenades"
                            /\ SetFilter([provider.filters EXCEPT !.round = round], Grenades)

\* What the server answers: of the library the favourites when it looked, which
\* is after the request and before the answer.
AnswersTo(c) == IF page = "library"
                THEN {IF c.key.of.map = TheMap THEN k ELSE {} : k \in {c.key.seen, kept}}
                ELSE {Lineups}

\* The list is mounted after the load, or gets other grenades, and asks which of
\* them are favourites.
ListAsks(c, shown) == page = "match_grenades" /\ shown # {}
GrenadesGot(c) == \E shown \in AnswersTo(c) :
    LET l == IF view["grenades"].loading THEN [EmptyList EXCEPT !.since = c.n] ELSE list
        S == IF ListAsks(c, shown) THEN {"favourites"} ELSE {}
        key(s) == [since |-> l.since, seen |-> kept]
    IN /\ view' = [view EXCEPT !["grenades"] =
                     [@ EXCEPT !.loading = FALSE, !.data = [of |-> c.key.of, shown |-> shown]]]
       /\ list' = l
       /\ calls' = (calls \ {c}) \cup Requests(S, key, c.n) \cup AskedAgain(TRUE)
       /\ landed' = [landed EXCEPT !["grenades"] = c.n]
       /\ UNCHANGED <<page, asked, sent, provider, kept>>
\* The grenades there were are shown again, below the error.
GrenadesFailed(c) ==
    LET remounted == view["grenades"].loading
        l == IF remounted THEN [EmptyList EXCEPT !.since = c.n] ELSE list
        S == IF remounted /\ Grenades # Nothing /\ page = "match_grenades" THEN {"favourites"} ELSE {}
        key(s) == [since |-> l.since, seen |-> kept]
    IN /\ view' = [view EXCEPT !["grenades"] = Failed(@)]
       /\ list' = l
       /\ calls' = (calls \ {c}) \cup Requests(S, key, c.n) \cup AskedAgain(TRUE)
       /\ UNCHANGED <<page, asked, sent, landed, provider, kept>>

\* removeFavourite of the library.
RemoveFavourite(g) ==
    /\ page = "library" /\ MayAsk /\ ~view["grenades"].loading
    /\ Grenades # Nothing /\ g \in Grenades.shown
    /\ asked' = asked + 1
    /\ calls' = calls \cup {[slot |-> "remove", key |-> [g |-> g], n |-> asked + 1]}
                    \cup AskedAgain(view["grenades"].error)
    /\ view' = [view EXCEPT !["grenades"].error = FALSE]
    /\ UNCHANGED <<page, sent, landed, grenadeExtras>>
Removed(c) ==
    /\ kept' = kept \ {c.key.g}
    /\ Provided(provider, FALSE,
                IF Grenades = Nothing THEN Nothing ELSE [Grenades EXCEPT !.shown = @ \ {c.key.g}],
                calls \ {c})
\* not found, refused, or only the answer lost
RemoveFailed(c) ==
    /\ kept' \in {kept, kept \ {c.key.g}}
    /\ calls' = (calls \ {c}) \cup AskedAgain(~view["grenades"].error)
    /\ view' = [view EXCEPT !["grenades"].error = TRUE]
    /\ UNCHANGED <<page, asked, sent, landed, provider, list>>

-----------------------------------------------------------------------------
(* The favourites of the list, on the match page.                          *)

Current(c) == list.since # 0 /\ c.key.since = list.since
FavouritesKnown(c, stars, ids) ==
    /\ list' = IF Current(c) THEN [list EXCEPT !.stars = stars, !.ids = ids] ELSE list
    /\ UNCHANGED <<view, provider>>

\* initializeFavouriteStatus replaces what the list knows by what the server
\* had; when it fails each grenade is checked, and added if it is one.
FavouritesGot(c) == \E k \in {c.key.seen, kept} :
    FavouritesKnown(c, k, k) /\ LandUnseen(c) /\ UNCHANGED kept
FavouritesFailed(c) ==
    /\ calls' = (calls \ {c}) \cup {[c EXCEPT !.slot = "checks"]}
    /\ UNCHANGED <<page, view, asked, sent, landed, grenadeExtras>>
Checked(c) == \E k \in {c.key.seen, kept} : \E found \in SUBSET k :
    FavouritesKnown(c, list.stars \cup found, list.ids \cup found) /\ LandUnseen(c) /\ UNCHANGED kept

\* A star: add the grenade, or remove it by the id it is known under.
ToggleFavourite(g) ==
    LET add == g \notin list.stars IN
    /\ page = "match_grenades" /\ MayAsk
    /\ list.since # 0 /\ Grenades # Nothing /\ g \in Grenades.shown
    /\ g \notin list.busy /\ (add \/ g \in list.ids)
    /\ list' = [list EXCEPT !.busy = @ \cup {g}]
    /\ asked' = asked + 1
    /\ calls' = calls \cup {[slot |-> "star", key |-> [g |-> g, add |-> add, since |-> list.since],
                             n |-> asked + 1]}
    /\ UNCHANGED <<page, view, sent, landed, provider, kept>>

Toggled(c) == IF c.key.add THEN kept \cup {c.key.g} ELSE kept \ {c.key.g}
\* A wrong StarGot: the id of the favourite added is not kept.
StarGotWithoutId(c) ==
    /\ c.key.g \in kept <=> ~c.key.add
    /\ kept' = Toggled(c)
    /\ list' = IF Current(c)
               THEN [list EXCEPT !.busy = @ \ {c.key.g},
                                 !.stars = IF c.key.add THEN @ \cup {c.key.g} ELSE @ \ {c.key.g}]
               ELSE list
    /\ LandUnseen(c) /\ UNCHANGED <<view, provider>>
\* done, unless it is a favourite already (409) or is none any more (404)
StarGot(c) ==
    /\ c.key.g \in kept <=> ~c.key.add
    /\ kept' = Toggled(c)
    /\ list' = IF Current(c)
               THEN [list EXCEPT !.busy = @ \ {c.key.g},
                                 !.stars = IF c.key.add THEN @ \cup {c.key.g} ELSE @ \ {c.key.g},
                                 !.ids = IF c.key.add THEN @ \cup {c.key.g} ELSE @ \ {c.key.g}]
               ELSE list
    /\ LandUnseen(c) /\ UNCHANGED <<view, provider>>
\* A favourite already, or not one: the star stays as it is, for the answer has
\* no "response" to look at.
StarFailed(c) ==
    /\ kept' \in {kept, Toggled(c)}
    /\ list' = IF Current(c) THEN [list EXCEPT !.busy = @ \ {c.key.g}] ELSE list
    /\ LandUnseen(c) /\ UNCHANGED <<view, provider>>
-----------------------------------------------------------------------------
GrenadesAnswered(c) ==
    CASE c.slot = "options"    -> OptionsGot(c)     [] c.slot = "init"    -> InitGot(c)
      [] c.slot = "matches"    -> MatchesGot(c)     [] c.slot = "rounds"  -> MatchOptionsGot(c)
      [] c.slot = "grenades"   -> GrenadesGot(c)    [] c.slot = "remove"  -> Removed(c)
      [] c.slot = "favourites" -> FavouritesGot(c)  [] c.slot = "checks"  -> Checked(c)
      [] c.slot = "star"       -> StarGot(c)

GrenadesRequestFailed(c) ==
    CASE c.slot \in {"options", "init", "rounds"} -> OptionsFailed(c)
      [] c.slot = "matches"    -> MatchesFailed(c)
      [] c.slot = "grenades"   -> GrenadesFailed(c)    [] c.slot = "remove" -> RemoveFailed(c)
      [] c.slot = "favourites" -> FavouritesFailed(c)  [] c.slot = "checks" -> Checked(c)
      [] c.slot = "star"       -> StarFailed(c)

GrenadesNext ==
    \/ \E map \in AllMaps : SetMap(map)
    \/ page \in GrenadePageNames /\ \E type \in Kinds : SetType(type)
    \/ page \in GrenadePageNames /\ \E who \in Throwers \cup {Every} : SetWho(who)
    \/ \E round \in {"1", Every} : HandleRoundChange(round)
    \/ \E g \in Lineups : RemoveFavourite(g)
    \/ \E g \in Lineups : ToggleFavourite(g)
    \/ page \in GrenadePageNames /\ \E c \in calls : GrenadesAnswered(c)
    \/ page \in GrenadePageNames /\ \E c \in calls : GrenadesRequestFailed(c)

GrenadesSpec == /\ GrenadesInit /\ [][GrenadesNext]_grenadeVars
                /\ WF_grenadeVars(\E c \in calls : GrenadesAnswered(c) \/ GrenadesRequestFailed(c))
-----------------------------------------------------------------------------
(* What must be true of the pages of grenades.                             *)

\* Once the last load is answered last, the grenades are those of the filters,
\* whatever the defaults, the matches of the map and the user set, in any order.
GrenadesShowFilters ==
    page \in GrenadePageNames =>
        (HasValidFilters(page, provider.filters) /\ provider.initialized
         /\ Settled("grenades") /\ Grenades # Nothing
            => Grenades.of = GrenadeParams(provider.filters))

\* The page says "loading" only while a load is under way, and the list is
\* mounted whenever it does not.
GrenadesLoadingEnds ==
    page \in GrenadePageNames =>
        /\ view["grenades"].loading => Pending("grenades") # {} /\ list = EmptyList
        /\ \A g \in list.busy : \E c \in Pending("star") : c.key.g = g /\ Current(c)

\* A full star can be taken away again: its favourite's id is known.
StarsRemovable == page \in GrenadePageNames => list.stars \subseteq list.ids

\* "Clear grenades immediately" (use-grenade-library.tsx:473): after another map
\* is chosen none of the old one's are shown.  An answer on its way shows them.
GrenadesOfMap == page = "library" /\ Grenades # Nothing => Grenades.of.map = provider.filters.map

\* The stars are the favourites once nothing is under way and nothing failed; an
\* answer of the server from before a star was clicked empties it.
StarsTrue == page = "match_grenades" /\ calls = {} /\ list.since # 0 /\ Grenades # Nothing
                 => list.stars \subseteq kept
=============================================================================
