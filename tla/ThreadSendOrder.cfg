SPECIFICATION Spec
CONSTANTS
  t1 = t1
  t2 = t2
  c1 = c1
  c2 = c2
  m1 = m1
  m2 = m2
  Threads <- OneThread
  Clients <- TwoClients
  Messages <- TwoMessages
  SerialSends = FALSE
  HandlerCalls = {}
PROPERTY SendWaitsForHandler
CHECK_DEADLOCK FALSE
