SPECIFICATION SessionSpec
CONSTANTS
  Offers <- MCOffers
  MaxConnects = 1
  LibeventFails = FALSE
  HashAddInserts = FALSE
  Conforming = TRUE
PROPERTY LoginResolves
\* The application may stop making calls, and a fault ends the program.
CHECK_DEADLOCK FALSE
