\* One row per table, one account, upgrades from four releases and kills anywhere.
SPECIFICATION Spec
CONSTANTS
  NULL = NULL
  Rows = {x}
  People = {u}
  Releases = {0, 1, 2, 5}
  Touched = {"labels"}
  Granted = {"admin"}
INVARIANT ServedIsCurrent
PROPERTIES RowsSurviveBoot RanksTranslatedOnce ChosenOrderSurvivesBoot ComesUp
