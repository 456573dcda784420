\* One invoice reports one outcome; quotes with and without a wallet share.
SPECIFICATION Spec
CONSTANTS
  s1 = s1  s2 = s2
  p1 = p1  p2 = p2
  k1 = k1
  m1 = m1  m2 = m2
  Session = {s1, s2}
  NoSession = NoSession
  Ref = {p1, p2}
  Key = {k1}
  NoKey = NoKey
  Mode = {m1, m2}
  Share = {0, 1}
  Opening = 2
  LatePayment = FALSE
  RedisOutage = FALSE
  MaxRuns = 1
SYMMETRY SymmetryOfModes
INVARIANT OnePaymentPerKey
PROPERTY DebitCompletes
