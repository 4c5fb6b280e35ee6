SPECIFICATION FairSpec
CONSTANTS
  m1 = m1  m2 = m2  d1 = d1  d2 = d2  d3 = d3  d4 = d4  p1 = p1  p2 = p2
  Messages = {m1}
  Deliveries = {d1}
  Consumers = {c1}
  Policies = {p1, p2}
  MessageOf <- OneMessage
  BytesOf <- Bytes
  Adapter <- Mixed
  Modes = {"cloudflare_email_service", "resend"}
  MaxTries = 3
  MaxChanges = 2
  None = None
INVARIANTS OneProviderPerReply AcceptedWasMailed
PROPERTIES JobsSettle AcceptedIsCleaned
CHECK_DEADLOCK FALSE
