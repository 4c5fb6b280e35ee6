SPECIFICATION Spec
CONSTANTS
  m1 = m1  m2 = m2  d1 = d1  d2 = d2  d3 = d3  d4 = d4  p1 = p1  p2 = p2
  Messages = {m1, m2}
  Deliveries = {d1, d2, d3, d4}
  Consumers = {c1, c2}
  Policies = {p1}
  MessageOf <- TwoMessages
  BytesOf <- Bytes
  Adapter <- AllCloudflare
  Modes = {"cloudflare_email_service"}
  MaxTries = 1
  MaxChanges = 0
  None = None
INVARIANTS MailedAtMostOnce UnsentNeverDropped CanaryConsumedOnce AcceptedIsDurable
PROPERTIES OutcomesFinal
SYMMETRY ConsumerSymmetry
CONSTRAINT OneRace
CHECK_DEADLOCK FALSE
