\* CryptoBot may report an invoice both closed and paid, in any order and often.
SPECIFICATION Spec
CONSTANTS
  s1 = s1  s2 = s2
  p1 = p1  p2 = p2
  k1 = k1
  m1 = m1
  Session = {s1, s2}
  NoSession = NoSession
  Ref = {p1, p2}
  Key = {k1}
  NoKey = NoKey
  Mode = {m1}
  Share = {1}
  Opening = 2
  LatePayment = TRUE
  RedisOutage = TRUE
  MaxRuns = 1
SYMMETRY Symmetry
INVARIANTS TypeOK MarkedIsSettled CyclesOnlyWhenLate NonNegative
\* It stops once the wallet is spent on payments that wait for no webhook:
\* every quote asks for a share (Share has no 0).
CHECK_DEADLOCK FALSE
