------------------------------ MODULE MCFrontEnd ------------------------------
(* Instances of the front end for TLC: its pages under the router, or one of  *)
(* the parts that only compute what is shown (colours, sorted tables, the map *)
(* of grenades).  These share no state with the pages, so each is run by      *)
(* itself, with the others at rest.                                           *)
EXTENDS FrontEnd, Ratings, Tables, GrenadeMap

CONSTANTS ma, mb, me, you, r1, ak, week, mirage, dust, g1, g2

VARIABLE part

MCLowest == -10
MCTeam == <<1, 1, 2>>
MCMarkers == <<1, 2>>

NoRatings == stat = "kd" /\ value = 0 /\ colour = 0
NoTable ==
    kind = "maps" /\ cell = <<>> /\ sort = DefaultSort /\ visible = FALSE /\ order = <<>>

MCInit ==
    /\ part \in {"pages", "ratings", "tables", "map"}
    /\ FrontEndInit /\ MapInit
    /\ IF part = "ratings" THEN RatingsInit ELSE NoRatings
    /\ IF part = "tables" THEN TablesInit ELSE NoTable

MCNext ==
    /\ UNCHANGED part
    /\ \/ part = "pages" /\ FrontEndNext /\ UNCHANGED <<ratingVars, tableVars, mapVars>>
       \/ part = "ratings" /\ RatingsNext /\ UNCHANGED <<frontEndVars, tableVars, mapVars>>
       \/ part = "tables" /\ TablesNext /\ UNCHANGED <<frontEndVars, ratingVars, mapVars>>
       \/ part = "map" /\ MapNext /\ UNCHANGED <<frontEndVars, ratingVars, tableVars>>

MCSpec == MCInit /\ [][MCNext]_<<part, frontEndVars, ratingVars, tableVars, mapVars>>
=============================================================================
