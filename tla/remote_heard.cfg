SPECIFICATION RSpec
CONSTANTS
  MaxInFlight = 3
  MaxReports = 2
  MaxConnections = 2
INVARIANTS
  ReportTypeOK
  CalledAsSent
PROPERTIES
  ClosedAfterTwoPings
  WedgeNoticed
  ReportSettled
