------------------------------- MODULE GrenadeMap -------------------------------
(***************************************************************************)
(* The map of the grenades with its markers, its zoom and the slider of    *)
(* rounds below it.  Lengths are in tenths of the stage, zooms in tenths,  *)
(* and of the two axes one is modelled: they do not differ.                *)
(***************************************************************************)
EXTENDS Integers, Sequences, SequencesExt

CONSTANTS Markers,    \* the grenades of a match, in their order
          MaxZoom,    \* the largest zoom, 50 in the code
          SliderWidth \* of the slider of rounds, in pixels

NoMarker == 0
MinZoom == 10
DefaultRounds == 30  \* of a match whose rounds are not loaded

VARIABLES positions,  \* the markers shown: those of the round chosen
          marker,     \* selectedMarkerIndex
          chosen,     \* the grenade selected, on the map or in the list
          zoom, stage, \* zoomLevel and stagePosition
          maxRounds   \* of the slider
mapVars == <<positions, marker, chosen, zoom, stage, maxRounds>>

MapInit == /\ positions = <<>> /\ marker = NoMarker /\ chosen = NoMarker
           /\ zoom = MinZoom /\ stage = 0 /\ maxRounds = DefaultRounds

\* The effect on the selection and the positions: an index that is not found
\* leaves the marker as it was.
MarkerOf(g, ps) == IF g = NoMarker THEN NoMarker
                   ELSE IF Contains(ps, g) THEN CHOOSE i \in DOMAIN ps : ps[i] = g
                   ELSE marker
NewPositions(ps) == /\ positions' = ps /\ marker' = MarkerOf(chosen, ps)
                    /\ UNCHANGED <<chosen, zoom, stage, maxRounds>>

\* A click on marker i or in the list selects, or deselects what is selected.
HandleMarkerClick(i) ==
    /\ i \in DOMAIN positions
    /\ chosen' = IF marker = i THEN NoMarker ELSE positions[i]
    /\ marker' = IF marker = i THEN NoMarker ELSE i
    /\ UNCHANGED <<positions, zoom, stage, maxRounds>>
HandleListGrenadeClick(g) ==
    /\ chosen' = IF chosen = g THEN NoMarker ELSE g
    /\ marker' = MarkerOf(chosen', positions)
    /\ UNCHANGED <<positions, zoom, stage, maxRounds>>
Highlighted == {i \in DOMAIN positions : marker = i \/ positions[i] = chosen}

-----------------------------------------------------------------------------
(* The zoom.                                                               *)

Clamp(lo, x, hi) == IF x < lo THEN lo ELSE IF x > hi THEN hi ELSE x
ConstrainPosition(x, scale) == Clamp(-(scale - MinZoom), x, 0)
\* At the smallest zoom the position is reset.
PositionAt(x, scale) == IF scale = MinZoom THEN 0 ELSE x

HandleWheel(pointer, up) ==
    LET scale == Clamp(MinZoom, IF up THEN zoom + 1 ELSE zoom - 1, MaxZoom)
        point == ((pointer - stage) * MinZoom) \div zoom
    IN /\ zoom' = scale
       /\ stage' = PositionAt(ConstrainPosition(pointer - (point * scale) \div MinZoom, scale), scale)
       /\ UNCHANGED <<positions, marker, chosen, maxRounds>>
DragMap(x) == /\ zoom > MinZoom /\ stage' = ConstrainPosition(x, zoom)
              /\ UNCHANGED <<positions, marker, chosen, zoom, maxRounds>>
\* The slider sets the zoom and leaves the position alone.
HandleZoomChange(scale) == /\ zoom' = Clamp(MinZoom, scale, MaxZoom)
                           /\ stage' = PositionAt(stage, zoom')
                           /\ UNCHANGED <<positions, marker, chosen, maxRounds>>

-----------------------------------------------------------------------------
(* The slider of rounds.                                                   *)

AllRounds == -1
\* a click at pixel x: the nearest round, or all in the first twentieth
RoundAt(x, rounds) ==
    IF 20 * x <= SliderWidth THEN AllRounds
    ELSE Clamp(0, (2 * x * rounds + SliderWidth) \div (2 * SliderWidth), rounds)
\* The rounds of the match are loaded.
RoundsLoaded(n) == /\ maxRounds' = n
                   /\ UNCHANGED <<positions, marker, chosen, zoom, stage>>

MapNext ==
    \/ \E n \in 0..Len(Markers), m \in 1..Len(Markers) : NewPositions(SubSeq(Markers, m, n))
    \/ \E i \in 1..Len(Markers) : HandleMarkerClick(i) \/ HandleListGrenadeClick(Markers[i])
    \/ \E pointer \in {0, 5, 10}, up \in BOOLEAN : HandleWheel(pointer, up)
    \/ \E x \in -5..5 : DragMap(x)
    \/ \E scale \in MinZoom..MaxZoom : HandleZoomChange(scale)
    \/ \E n \in 13..30 : RoundsLoaded(n)

MapSpec == MapInit /\ [][MapNext]_mapVars
-----------------------------------------------------------------------------
(* What must be true of the map.                                           *)

\* Every round can be chosen with the slider.  The first round of a match of 30
\* cannot: the pixels nearest to it mean all.
EachRoundCanBeChosen == 1..maxRounds \subseteq {RoundAt(x, maxRounds) : x \in 0..SliderWidth}

\* "Constrain position to keep map visible" (map-visualization-konva.tsx:173):
\* the map fills the stage.  Zooming out with the slider leaves it aside.
MapFillsStage == stage \in -(zoom - MinZoom)..0

\* At most the grenade selected is highlighted on the map; a marker kept when
\* the positions change highlights another one.
HighlightIsSelection == \A i \in Highlighted : positions[i] = chosen
=============================================================================
