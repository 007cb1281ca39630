SPECIFICATION FairSpec
CONSTANTS
  IntMax = 536870911
  MaxQueue = 4
  Starts <- MCStarts
  Recorded <- MCRecorded
INVARIANTS
  TypeOK
  SettingsInRange
  SettingsSurvive
  FailuresIsolated
  OnlyLivePluginsAreCalled
  PanelsCatchUp
  AlertsInOrder
  ReplayComplete
PROPERTIES
  PlaybackEnds
