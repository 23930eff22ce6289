SPECIFICATION FairSpec
CONSTANTS
  Windows = {w1, w2}
  Plain = {heatMap}
  TrackClicks = {100}
  HandOpacities = {10}
  PickThemes = {"Phosphor"}
  PickRates = {"S1", "S5"}
  MaxEvent = 2
  MaxLaunch = 2
INVARIANTS
  SettingsSurvive
  PathFollowsSwitch
  IntervalFollows
  NotesOncePerUpgrade
PROPERTIES
  ThemeFollowsWindows
CHECK_DEADLOCK FALSE
