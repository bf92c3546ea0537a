SPECIFICATION FairSpec
CONSTANTS
  t1 = t1
  t2 = t2
  c1 = c1
  c2 = c2
  m1 = m1
  m2 = m2
  Threads <- TwoThreads
  Clients <- OneClient
  Messages <- TwoMessages
  SerialSends = TRUE
  HandlerCalls = {"send", "stop", "break"}
INVARIANTS
  TypeOK
  SignalIsOwed
  MessagesHaveSink
PROPERTIES
  SendWaitsForHandler
  StopRunsDue
  StopReturns
\* The application may stop making calls.
CHECK_DEADLOCK FALSE
