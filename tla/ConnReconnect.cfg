SPECIFICATION Spec
CONSTANTS
  Offers <- FewOffers
  MaxConnects = 2
  LibeventFails = FALSE
  HashAddInserts = FALSE
  Conforming = FALSE
INVARIANTS
  HandlersOnce
  NoTlsInsideTls
  ParserReady
  CleanupWhileOpen
\* The application may stop making calls, and a fault ends the program.
CHECK_DEADLOCK FALSE
