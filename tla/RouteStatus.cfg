SPECIFICATION Spec
CONSTANTS
  None = None
  role = role
  own = own
  personal = personal
  Refreshers = {f1}
  Readers = {r1}
  Policies = {shared, personal}
  Profiles = {role, own}
  ProfilesOf <- RoleAndPersonal
  PersonalFirst = {personal}
  InboundOn = TRUE
  ReplyOn = TRUE
  ProofAge = 2
  Life = 2
  Expiries = {1}
  MaxNow = 2
  MaxGeneration = 2
INVARIANT NoObsoleteProjection StoredStatusIsTrue
PROPERTY AnswersAreTrue
