SPECIFICATION FairSpec
CONSTANTS
  S1 = s1
  S2 = s2
  X1 = x1
  D1 = d1
  D2 = d2
  D3 = d3
  Deliveries = {d1, d2, d3}
  Senders = {s1, s2}
  ExtIds = {x1}
  NoExt = noext
  None = none
  Documents <- Mail
  MaxFaults = 2
CHECK_DEADLOCK FALSE
INVARIANTS TimelineExplainsStatus OneOrderPerIdentity ReceiptsAreTrue LinksFit
PROPERTIES OutcomeIsFinal DeliveriesEnd MessagesSettle
