SPECIFICATION Spec
CONSTANTS
  p1 = p1
  p2 = p2
  p3 = p3
  Processes <- MCProcesses
  MaxListings <- MCMaxListings
  MaxClock = 1
  Chunks = 2
INVARIANTS
  FilesTypeOK
  LinkLeads
PROPERTIES
  PrintsOwnListing
  TripsOverOthersOnly
  SettlesOnAListing
CHECK_DEADLOCK FALSE
