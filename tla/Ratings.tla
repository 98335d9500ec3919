------------------------------- MODULE Ratings -------------------------------
(***************************************************************************)
(* The colours in which the front end shows a statistic: lib/utils.ts,     *)
(* constants/colors.ts and the components that grade values themselves.    *)
(* A colour is the rank of its quality level, poor 0 to excellent 3.  The  *)
(* statistics have decimals, so a value is counted in tenths.              *)
(***************************************************************************)
EXTENDS Integers

CONSTANTS Lowest, Highest,  \* the values, in tenths, a statistic takes
          Rival             \* the value of the player compared with

ASSUME RangeAssumption == Lowest \in Int /\ Highest \in Int /\ Lowest <= Highest
ASSUME RivalAssumption == Rival \in Int

VARIABLES stat,   \* the statistic shown
          value,  \* its value
          colour  \* the level of its colour
ratingVars == <<stat, value, colour>>

-----------------------------------------------------------------------------
(* The chains of comparisons the colour functions are made of.             *)

\* fair from f, good from g, excellent from e
Rising(x, f, g, e) == IF x >= e THEN 3 ELSE IF x >= g THEN 2 ELSE IF x >= f THEN 1 ELSE 0
\* poor from p, fair from f, good from g
FallingFrom(x, p, f, g) == IF x >= p THEN 0 ELSE IF x >= f THEN 1 ELSE IF x >= g THEN 2 ELSE 3
\* excellent up to e, good up to g, fair up to f
FallingTo(x, e, g, f) == IF x <= e THEN 3 ELSE IF x <= g THEN 2 ELSE IF x <= f THEN 1 ELSE 0
\* a share of an aspect that may be negative, which is poor
Signed(x, f, g, e) == IF x < 0 THEN 0 ELSE Rising(x, f, g, e)

AdrColor(x) == IF x <= 400 THEN 0
               ELSE IF x >= 410 /\ x <= 600 THEN 1
               ELSE IF x >= 610 /\ x <= 800 THEN 2
               ELSE 3
\* A wrong KdColor: two branches swapped.
WrongKdColor(x) == IF x < 8 THEN 0 ELSE IF x < 10 THEN 2 ELSE IF x < 13 THEN 1 ELSE 3
KdColor(x) == Rising(x, 8, 10, 13)
WinRateColor(x) == Rising(x, 400, 500, 600)
AvgKillsColor(x) == Rising(x, 120, 160, 200)
ImpactColor(x) == Signed(x, 15, 25, 35)
ImpactPercentageColor(x) == Signed(x, 150, 400, 600)
RoundSwingColor(x) == Signed(x, 20, 50, 100)
OpeningKillsColor(x) == Rising(x, 5, 10, 15)
OpeningDeathsColor(x) == FallingFrom(x, 15, 10, 5)
AvgAssistsColor(x) == Rising(x, 30, 50, 70)
AvgDeathsColor(x) == FallingFrom(x, 200, 160, 120)
ComplexionScoreColor(x) == Rising(x, 250, 500, 750)
AimRatingColor(x) == Rising(x, 250, 500, 750)
HeadshotPercentageColor(x) == Rising(x, 200, 350, 500)
SprayAccuracyColor(x) == Rising(x, 200, 300, 400)
CrosshairPlacementColor(x) == FallingTo(x, 50, 100, 150)
TimeToDamageColor(x) == FallingTo(x, 3, 5, 7)
GrenadeEffectivenessColor(x) == Rising(x, 250, 500, 750)
GrenadeUsageColor(x) == Rising(x, 30, 40, 50)

\* getCustomRatingColor uses the first three of its four thresholds
CustomRatingColor(x, t) == Rising(x, t[1], t[2], t[3])
FlashDurationColor(x, isEnemy) ==
    CustomRatingColor(IF isEnemy THEN x ELSE 40 - x, <<10, 20, 30, 40>>)
PlayersBlindedColor(x, isEnemy) ==
    CustomRatingColor(IF isEnemy THEN x ELSE 40 - x, <<10, 20, 30, 40>>)
HeMolotovDamageColor(x) == CustomRatingColor(x, <<50, 100, 200, 300>>)
QualityLevel(rating) == Rising(rating, 250, 500, 750)

\* The utility page of a match has copies of these, and thresholds for smokes.
UtilityFlashDurationColor(x, isEnemy) ==
    CustomRatingColor(IF isEnemy THEN x ELSE 40 - x, <<10, 20, 30, 40>>)
UtilityBlindedColor(x, isEnemy) ==
    CustomRatingColor(IF isEnemy THEN x ELSE 40 - x, <<10, 20, 30, 40>>)
UtilityHeDamageColor(x) == CustomRatingColor(x, <<50, 100, 200, 300>>)
SmokeBlockingColor(x) == CustomRatingColor(x, <<500, 1000, 2000, 3000>>)
AvgPerSmokeBlockingColor(x) == CustomRatingColor(x, <<20, 70, 120, 170>>)

\* The aim card of a match and the hit chart have thresholds of their own.
CardAccuracyColor(x) == Rising(x, 300, 400, 500)
CardCrosshairXColor(x) == FallingTo(x, 80, 100, 120)
CardCrosshairYColor(x) == FallingTo(x, 20, 30, 40)
CardTimeToDamageColor(x) == FallingTo(x, 4000, 5000, 6000)
ChartAccuracyColor(x) == Rising(x, 300, 400, 500)
GaugeColor(percentage) == Rising(percentage, 250, 500, 750)

\* The first tier whose bounds hold the rating, the first of all if none does.
PremierRankTier(rank) ==
    IF rank >= 0 /\ rank <= 4999 THEN 1
    ELSE IF rank >= 5000 /\ rank <= 9999 THEN 2
    ELSE IF rank >= 10000 /\ rank <= 14999 THEN 3
    ELSE IF rank >= 15000 /\ rank <= 19999 THEN 4
    ELSE IF rank >= 20000 /\ rank <= 24999 THEN 5
    ELSE IF rank >= 25000 /\ rank <= 29999 THEN 6
    ELSE IF rank >= 30000 THEN 7 ELSE 1

\* The colour of a value beside a rival's: red 0, grey 1, green 2.
Compared(x, y, higherIsBetter) ==
    IF x = y THEN 1 ELSE IF (x > y) = higherIsBetter THEN 2 ELSE 0
BasicComparison(x, y, higherIsBetter) == Compared(x, y, higherIsBetter)
RoleComparison(x, y, higherIsBetter) == Compared(x, y, higherIsBetter)

\* The colour of a trend: red 0, grey 1, green 2.
TrendColor(trend, lowerIsBetter) ==
    CASE trend = "neutral" -> 1
      [] trend = "up" -> IF lowerIsBetter THEN 0 ELSE 2
      [] trend = "down" -> IF lowerIsBetter THEN 2 ELSE 0
AimTrendColor(trend, lowerIsBetter) == TrendColor(trend, lowerIsBetter)
StatCardTrendColor(trend, lowerIsBetter) == TrendColor(trend, lowerIsBetter)
\* what the API says of a value whose previous one was the rival's
TrendFrom(x, previous) == IF x > previous THEN "up" ELSE IF x < previous THEN "down" ELSE "neutral"

\* The points of a position in the all-time top three.
PositionPoints(position) == IF position = 1 THEN 3 ELSE IF position = 2 THEN 2
                            ELSE IF position = 3 THEN 1 ELSE 0
-----------------------------------------------------------------------------
(* Every statistic, by what is better of it.                               *)

HigherIsBetter == {"kd", "win_rate", "avg_kills", "impact", "impact_percentage",
    "round_swing", "opening_kills", "avg_assists", "complexion", "aim_rating", "adr",
    "headshot", "spray", "effectiveness", "usage", "enemy_flash", "enemy_blinded",
    "he_molotov", "rating", "page_flash", "page_blinded", "page_he", "smoke_blocking",
    "per_smoke", "card_accuracy", "chart_accuracy", "gauge", "premier",
    "compared", "role_compared", "trend", "card_trend"}
LowerIsBetter == {"opening_deaths", "avg_deaths", "crosshair", "time_to_damage",
    "friendly_flash", "friendly_blinded", "page_friendly_flash", "page_friendly_blinded",
    "card_x", "card_y", "card_time", "deaths_compared", "role_deaths_compared",
    "deaths_trend", "deaths_card_trend", "position"}
Stats == HigherIsBetter \cup LowerIsBetter

Grade(s, x) ==
    CASE s = "adr" -> AdrColor(x)                  [] s = "kd" -> KdColor(x)
      [] s = "win_rate" -> WinRateColor(x)         [] s = "avg_kills" -> AvgKillsColor(x)
      [] s = "impact" -> ImpactColor(x)            [] s = "rating" -> QualityLevel(x)
      [] s = "impact_percentage" -> ImpactPercentageColor(x)
      [] s = "round_swing" -> RoundSwingColor(x)
      [] s = "opening_kills" -> OpeningKillsColor(x)
      [] s = "opening_deaths" -> OpeningDeathsColor(x)
      [] s = "avg_assists" -> AvgAssistsColor(x)   [] s = "avg_deaths" -> AvgDeathsColor(x)
      [] s = "complexion" -> ComplexionScoreColor(x)
      [] s = "aim_rating" -> AimRatingColor(x)
      [] s = "headshot" -> HeadshotPercentageColor(x)
      [] s = "spray" -> SprayAccuracyColor(x)
      [] s = "crosshair" -> CrosshairPlacementColor(x)
      [] s = "time_to_damage" -> TimeToDamageColor(x)
      [] s = "effectiveness" -> GrenadeEffectivenessColor(x)
      [] s = "usage" -> GrenadeUsageColor(x)
      [] s = "enemy_flash" -> FlashDurationColor(x, TRUE)
      [] s = "friendly_flash" -> FlashDurationColor(x, FALSE)
      [] s = "enemy_blinded" -> PlayersBlindedColor(x, TRUE)
      [] s = "friendly_blinded" -> PlayersBlindedColor(x, FALSE)
      [] s = "he_molotov" -> HeMolotovDamageColor(x)
      [] s = "page_flash" -> UtilityFlashDurationColor(x, TRUE)
      [] s = "page_friendly_flash" -> UtilityFlashDurationColor(x, FALSE)
      [] s = "page_blinded" -> UtilityBlindedColor(x, TRUE)
      [] s = "page_friendly_blinded" -> UtilityBlindedColor(x, FALSE)
      [] s = "page_he" -> UtilityHeDamageColor(x)
      [] s = "smoke_blocking" -> SmokeBlockingColor(x)
      [] s = "per_smoke" -> AvgPerSmokeBlockingColor(x)
      [] s = "card_accuracy" -> CardAccuracyColor(x)
      [] s = "card_x" -> CardCrosshairXColor(x)    [] s = "card_y" -> CardCrosshairYColor(x)
      [] s = "card_time" -> CardTimeToDamageColor(x)
      [] s = "chart_accuracy" -> ChartAccuracyColor(x)
      [] s = "gauge" -> GaugeColor(x)              [] s = "premier" -> PremierRankTier(100 * x)
      [] s = "compared" -> BasicComparison(x, Rival, TRUE)
      [] s = "deaths_compared" -> BasicComparison(x, Rival, FALSE)
      [] s = "role_compared" -> RoleComparison(x, Rival, TRUE)
      [] s = "role_deaths_compared" -> RoleComparison(x, Rival, FALSE)
      [] s = "trend" -> AimTrendColor(TrendFrom(x, Rival), FALSE)
      [] s = "deaths_trend" -> AimTrendColor(TrendFrom(x, Rival), TRUE)
      [] s = "card_trend" -> StatCardTrendColor(TrendFrom(x, Rival), FALSE)
      [] s = "deaths_card_trend" -> StatCardTrendColor(TrendFrom(x, Rival), TRUE)
      [] s = "position" -> PositionPoints(x)

RatingsInit == /\ stat \in Stats
               /\ value \in (IF stat = "position" THEN 1 ELSE Lowest)..Highest
               /\ colour = Grade(stat, value)

\* The column of a table is read from any of its values up, a tenth at a time.
NextRow == /\ value < Highest
          /\ value' = value + 1
          /\ colour' = Grade(stat, value')
          /\ UNCHANGED stat

RatingsNext == NextRow
RatingsSpec == RatingsInit /\ [][RatingsNext]_ratingVars
-----------------------------------------------------------------------------
(* What must be true of the colours.                                       *)

\* A colour function whose branches leave a gap falls through to "excellent":
\* getAdrColor does so between its integer bounds.
AdrGap(x) == (x > 400 /\ x < 410) \/ (x > 600 /\ x < 610)

\* Of two rows the one with the better value never has the worse colour,
\* whichever way the statistic counts (lib/utils.ts, constants/colors.ts and
\* the copies in the cards), except in the gaps of getAdrColor.
BetterLooksBetter ==
    [][\/ stat = "adr" /\ (AdrGap(value) \/ AdrGap(value'))
       \/ stat \in HigherIsBetter /\ colour' >= colour
       \/ stat \in LowerIsBetter /\ colour' <= colour]_ratingVars

\* The same without the exception, which the code does not keep (utils.ts:45).
BetterLooksBetterAlways ==
    [][\/ stat \in HigherIsBetter /\ colour' >= colour
       \/ stat \in LowerIsBetter /\ colour' <= colour]_ratingVars

\* What the legend beside the aim gauge says of its colours
\* (aim-rating-gauge.tsx:46): 80, 60 and 40, where the code has 75, 50 and 25.
LegendTrue == stat = "rating" => colour = Rising(value, 400, 600, 800)

=============================================================================
