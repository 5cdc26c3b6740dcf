CONSTANTS
  Entries = {"e1", "e2", "e3"}
  Path <- Names
  Hashes <- Manifest
  Size <- Sizes
  Large = {"e3"}
  Chunked = {"e3"}
  MaxConcurrency = 2
  Links <- OneLink
  Copies <- CopyNames
  Found <- Before
  MaxFaults = 1
  MaxErrors = 2
SPECIFICATION Spec
CHECK_DEADLOCK FALSE
INVARIANTS UploadsAreThere DownloadsAreRight
PROPERTIES DownloadEnds
