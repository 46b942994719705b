SPECIFICATION MCSpec
CONSTANTS
  m1 = m1
  m2 = m2
  s1 = s1
  k1 = k1
  r1 = r1
  r2 = r2
  Models = {m1}
  Sources = {s1}
  Keys = {k1}
  Source <- OneModel
  DeclaredKey <- OneKey
  Covers <- OnePool
  Requests = {r1, r2}
  Reasons = {"auth_or_credit", "quota_exhausted", "rate_limited_upstream", "model_not_found"}
  Delays = {2}
  ReserveTime = 1
  Legacy = {m1}
  MaxTime = 2
SYMMETRY Threads
PROPERTY SuccessErasesNothingNewer
PROPERTY SuccessRestores
 
PROPERTY SharedBlocksAreEarnedBack
