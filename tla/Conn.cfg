SPECIFICATION Spec
CONSTANTS
  Offers <- MCOffers
  MaxConnects = 1
  LibeventFails = TRUE
  HashAddInserts = TRUE
  Conforming = FALSE
INVARIANTS
  TypeOK
  BufferOwned
  DispatchSafe
  LoginAfterSasl
  StrongestMechanismFirst
  AuthUnderTls
\* The application may stop making calls, and a fault ends the program.
CHECK_DEADLOCK FALSE
