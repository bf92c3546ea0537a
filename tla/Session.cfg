SPECIFICATION SessionSpec
CONSTANTS
  Offers <- MCOffers
  MaxConnects = 1
  LibeventFails = FALSE
  HashAddInserts = TRUE
  Conforming = TRUE
INVARIANTS
  StreamsAgree
  NoFault
PROPERTY EventsKept
\* The application may stop making calls, and a fault ends the program.
CHECK_DEADLOCK FALSE
