SPECIFICATION Spec
CONSTANTS
  Process = {p1, p2}
  Providers = {"yahoo", "csv"}
  Series <- MCSeries
  FileBars = 1
  Supported = {1, 2}
  Native = {1}
  Requests <- MCRequests
  Retention = 1
  MaxRetries = 1
  MaxAge = 1
  MaxRequests = 2
  MaxFaults = 1
  Quality <- MCQuality
CHECK_DEADLOCK FALSE
INVARIANTS
  ServedIsGenuine
  DownloadedBarsWin
  FormingBarOnlyByRace
  RepairsReported
  AnswersRequest
PROPERTIES
  RequestsEnd
