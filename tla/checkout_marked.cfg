\* Is a webhook marked only once its side effects are safe?
SPECIFICATION Spec
CONSTANTS
  s1 = s1  s2 = s2
  p1 = p1
  k1 = k1
  m1 = m1
  Session = {s1, s2}
  NoSession = NoSession
  Ref = {p1}
  Key = {k1}
  NoKey = NoKey
  Mode = {m1}
  Share = {0, 1}
  Opening = 2
  LatePayment = FALSE
  RedisOutage = FALSE
  MaxRuns = 1
INVARIANT MarkedAfterSideEffects
