SPECIFICATION Spec

CONSTANTS
  NoRecord = NoRecord
  Grain = 3
  Whole = 2
  Nodes <- MCNodes
  Places <- MCPlaces
  Threshold = 2
  Kept = 1
  Limit = 1
  MaxTime = 4
  Worlds <- MCWorlds

INVARIANTS
  TypeOK
  TracksApart
  AppTimesTrue
  SpansTile
  TimesAddUp
