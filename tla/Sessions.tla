------------------------------ MODULE Sessions ------------------------------
(***************************************************************************)
(* The New York session clock of sessions/killzones.py and the midnight    *)
(* filter of sessions/midnight_open.py. A time is a minute of the day, the *)
(* resolution of the bars; the windows are those of SessionsConfig.        *)
(***************************************************************************)
EXTENDS Integers

CONSTANT
  AllowedWindows  \* SessionsConfig.allowed_windows; all names stand for None

WindowNames ==
  {"london_kz", "ny_am_kz", "ny_pm_kz", "silver_bullet_am", "silver_bullet_pm"}

ASSUME WindowsAssumption == AllowedWindows \subseteq WindowNames

Minutes == 0 .. 1439
At(h, m) == 60 * h + m

Within(t, from, to) == from <= t /\ t <= to  \* _in, inclusive end
Before(t, from, to) == from <= t /\ t < to   \* _in, exclusive end

NewsBlock(t) == Before(t, At(8, 30), At(8, 35))
Lunch(t)     == Before(t, At(12, 0), At(13, 0))
ForceFlat(t) == t = At(16, 30)

\* A killzone contains its closing minute, a Silver Bullet window does not.
InWindow(name, t) ==
  \/ name = "london_kz"        /\ Within(t, At(2, 0), At(5, 0))
  \/ name = "ny_am_kz"         /\ Within(t, At(7, 0), At(10, 0))
  \/ name = "ny_pm_kz"         /\ Within(t, At(13, 30), At(16, 0))
  \/ name = "silver_bullet_am" /\ Before(t, At(10, 0), At(11, 0))
  \/ name = "silver_bullet_pm" /\ Before(t, At(14, 0), At(15, 0))

EntriesAllowedIn(windows, t) ==
  /\ ~NewsBlock(t)
  /\ ~Lunch(t)
  /\ \E name \in windows : InWindow(name, t)

NewEntriesAllowed(t) == EntriesAllowedIn(AllowedWindows, t)

(***************************************************************************)
(* The label of a minute (sessions/sessions.py): the first of these that   *)
(* holds. The shadow log derives from it, for each row, the modes that     *)
(* would have let the signal through.                                      *)
(***************************************************************************)
SessionTag(t) ==
  IF NewsBlock(t) THEN "news_block"
  ELSE IF ForceFlat(t) THEN "force_flat"
  ELSE IF Lunch(t) THEN "ny_lunch"
  ELSE IF InWindow("silver_bullet_am", t) THEN "silver_bullet_am"
  ELSE IF InWindow("silver_bullet_pm", t) THEN "silver_bullet_pm"
  ELSE IF InWindow("london_kz", t) THEN "london_kz"
  ELSE IF InWindow("ny_am_kz", t) THEN "ny_am_kz"
  ELSE IF InWindow("ny_pm_kz", t) THEN "ny_pm_kz"
  ELSE "idle"

SilverBulletMode == {"silver_bullet_am", "silver_bullet_pm"}
NewYorkMode      == SilverBulletMode \cup {"ny_am_kz", "ny_pm_kz"}
ShadowModes      == {WindowNames, SilverBulletMode, NewYorkMode}  \* A, B and C

-----------------------------------------------------------------------------
\* A day whose 00:00 bar is not in the data has no midnight open, and then
\* the filter lets every entry through.
NoOpen == -1

MidnightFilterPasses(side, entry, midOpen) ==
  \/ midOpen = NoOpen
  \/ side = "BUY" /\ entry < midOpen
  \/ side = "SELL" /\ entry > midOpen
=============================================================================
