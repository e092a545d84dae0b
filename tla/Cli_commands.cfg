SPECIFICATION CliSpec
CONSTANTS
  Texts <- MCTexts
  Zones <- MCZones
  Lookbacks = {0, 1, 2, 13}
  Instants <- MCInstants
  Names <- MCNames
  Late <- MCLate
  Limits = {1, 2, 3}
  Windows <- MCWindows
  MaxFailures = 1
  Capacity = 3
  MinSizeObservations = 8
CHECK_DEADLOCK FALSE
INVARIANTS ResolvesThePeriods ListedIsDownloadable CommandsShowTheNewest
