SPECIFICATION Spec
CONSTANTS
  m1 = m1  m2 = m2  d1 = d1  d2 = d2  d3 = d3  d4 = d4  p1 = p1  p2 = p2
  Messages = {m1}
  Deliveries = {d1}
  Consumers = {c1}
  Policies = {p1}
  MessageOf <- OneMessage
  BytesOf <- Bytes
  Adapter <- AllCloudflare
  Modes = {"cloudflare_email_service"}
  MaxTries = 2
  MaxChanges = 0
  None = None
INVARIANTS InterruptedSendReported
CHECK_DEADLOCK FALSE
