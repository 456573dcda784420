\* Two admins review at once while a client requests: three requests, so a
\* review that goes through twice can eat another request's hold.
SPECIFICATION FairSpec
CONSTANTS
  a1 = a1  a2 = a2  c1 = c1
  w1 = w1  w2 = w2  w3 = w3
  Session = {a1, a2, c1}
  Admin = {a1, a2}
  NoSession = NoSession
  Ref = {w1, w2, w3}
  Amount = {1, 2}
  MinWithdrawal = 1
  Opening = 2
  MaxBalance = 3
INVARIANTS TypeOK HoldsCovered LedgerAgrees CompletedIsPaid HoldsExact PaidOnce
PROPERTIES ImplementsAccount ReviewsEnd
\* It stops once every request is processed and the top-up bound is reached.
CHECK_DEADLOCK FALSE
