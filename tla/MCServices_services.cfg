CONSTANTS
  Calls = {"a", "b"}  Restore = "restore"  None = None  Nothing = Nothing
SPECIFICATION MCSpec
INVARIANTS
  PartsTyped
  SessionKept
  CatalogueHonest
  BookedOnce
  AnswersTrue
PROPERTIES
  EveryRequestEnds
\* Deadlock is not checked: visitors and customers may stop, and a
\* question about availability is asked once.
CHECK_DEADLOCK FALSE
