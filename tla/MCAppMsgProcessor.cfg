SPECIFICATION Spec
CONSTANTS
  a1 = a1
  a2 = a2
  m3 = m3
  m2 = m2
  m1 = m1
  junk = junk
  Apps = {a1, a2}
  Messages = {m3, m2, m1}
  AppOf <- MCAppOf
  CountOf <- MCCountOf
  Malformed <- MCMalformed
  Verify <- MCVerify
  ReassembleTimeout = 3
  Gaps = {1, 2}
  MaxCalls = 5
INVARIANTS
  IndexesAgree
  NoSpuriousDelivery
  IntactIsDelivered
CHECK_DEADLOCK FALSE
