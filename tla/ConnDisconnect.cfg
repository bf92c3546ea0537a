SPECIFICATION FairSpec
CONSTANTS
  Offers <- FewOffers
  MaxConnects = 1
  LibeventFails = FALSE
  HashAddInserts = FALSE
  Conforming = FALSE
PROPERTY DisconnectCompletes
\* The application may stop making calls, and a fault ends the program.
CHECK_DEADLOCK FALSE
